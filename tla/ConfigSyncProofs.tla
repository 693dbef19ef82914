-------------------------- MODULE ConfigSyncProofs --------------------------
(***************************************************************************)
(* What the streams keep whatever is published: their two halves agree,    *)
(* the newest snapshot is never the one that is missing, and no data plane *)
(* goes back to an earlier store.  The steps of the streams are here; the  *)
(* modules that know the publisher add its.                                *)
(***************************************************************************)
EXTENDS ConfigSync, TLAPS

Clients == {"connecting", "streaming", "sleeping", "stopped"}
Links == {"none", "up", "broken", "silent"}
Phases == {"none", "subscribed", "initial", "first", "watching"}

-----------------------------------------------------------------------------
(* The invariant *)

\* What each variable is, one by one, the publisher's among them.
Types ==
  /\ listening \in BOOLEAN /\ up \in BOOLEAN
  /\ ~up => listening
  /\ client \in [DataPlanes -> Clients]
  /\ link \in [DataPlanes -> Links]
  /\ phase \in [DataPlanes -> Phases]
  /\ seen \in [DataPlanes -> Nat]
  /\ initial \in [DataPlanes -> Stores]
  /\ wire \in [DataPlanes -> Seq(Stores)]
  /\ applied \in [DataPlanes -> DpTables]
  /\ taken \in [DataPlanes -> Nat]
  /\ shutdown \in [DataPlanes -> BOOLEAN]
  /\ faults \in 0..MaxFaults
  /\ receivers \subseteq StreamReceivers
  /\ chan \in Stores

\* How the ends of one stream hang together.
Linked(d) ==
  /\ link[d] = "up" <=> phase[d] # "none"
  /\ link[d] = "up" <=> Live(d) \in receivers
  /\ link[d] = "up" => up
  /\ link[d] # "none" => client[d] = "streaming"
  /\ Len(wire[d]) <= Window

\* A stream that has seen the latest store has it at the end of what is in
\* flight, or has applied it.  No stream has seen a store that did not happen.
Newest(d) ==
  /\ seen[d] <= chan.seq
  /\ phase[d] = "none" => seen[d] = 0
  /\ phase[d] = "watching" /\ seen[d] = chan.seq =>
       IF wire[d] = << >> THEN applied[d] = Decode(chan.value)
                          ELSE wire[d][Len(wire[d])] = chan

Sorted(s) == \A i, j \in 1..Len(s) : i < j => s[i].seq <= s[j].seq

Between(s, low, high) == \A i \in 1..Len(s) : low <= s[i].seq /\ s[i].seq <= high

\* Stores come in order: what was applied, what is in flight, what the stream
\* yields next, what the channel holds.
InOrder(d) ==
  /\ taken[d] <= Upcoming(d).seq /\ Upcoming(d).seq <= chan.seq
  /\ Sorted(wire[d])
  /\ Between(wire[d], taken[d], Upcoming(d).seq)
  /\ phase[d] = "none" => wire[d] = << >>
  /\ ~up => taken[d] = 0

Stream(d) == Linked(d) /\ Newest(d) /\ InOrder(d)

StreamInv == Types /\ \A d \in DataPlanes : Stream(d)

\* It says what the runs check.
LEMMA StreamInvSuffices ==
  ASSUME StreamInv
  PROVE  StreamTypeOK /\ DrainedIsCurrent /\ StreamInOrder
<1>1. StreamTypeOK
  BY DEF StreamInv, Types, Stream, Linked, StreamTypeOK, Clients, Links, Phases
<1>2. DrainedIsCurrent
  BY DEF StreamInv, Stream, Newest, DrainedIsCurrent, HasChanged
<1>3. StreamInOrder
  BY DEF StreamInv, Stream, InOrder, Sorted, Between, StreamInOrder
<1> QED
  BY <1>1, <1>2, <1>3

\* What channels, streams and tables start with.
LEMMA EmptyTypes ==
  /\ EmptySnapshot \in Snapshots /\ EmptySnapshot.version = 0
  /\ EmptyStore \in Stores /\ EmptyStore.seq = 0
  /\ NoRoutes \in DpTables
BY DEF EmptySnapshot, Snapshots, NoRoutes, WireTables, DpTables, Stores,
       EmptyStore, NewChannel

\* No stream has begun, and nobody has published.
LEMMA InitStreams ==
  ASSUME StreamInit, chan = NewChannel(EmptySnapshot), receivers = {}, up = FALSE
  PROVE  StreamInv
<1>1. Types
  <2>1. /\ client \in [DataPlanes -> Clients] /\ link \in [DataPlanes -> Links]
        /\ phase \in [DataPlanes -> Phases] /\ seen \in [DataPlanes -> Nat]
        /\ taken \in [DataPlanes -> Nat] /\ shutdown \in [DataPlanes -> BOOLEAN]
    BY DEF StreamInit, Clients, Links, Phases
  <2>2. initial \in [DataPlanes -> Stores] /\ applied \in [DataPlanes -> DpTables]
    BY EmptyTypes DEF StreamInit
  <2>3. wire \in [DataPlanes -> Seq(Stores)]
    BY DEF StreamInit
  <2>4. chan \in Stores
    BY EmptyTypes DEF EmptyStore
  <2>5. /\ listening = TRUE /\ up = FALSE /\ faults \in 0..MaxFaults
        /\ receivers \subseteq StreamReceivers
    BY StreamConstants DEF StreamInit
  <2> QED
    BY <2>1, <2>2, <2>3, <2>4, <2>5 DEF Types
<1>2. ASSUME NEW d \in DataPlanes
      PROVE  Stream(d)
  <2>1. /\ link[d] = "none" /\ phase[d] = "none" /\ receivers = {}
        /\ seen[d] = 0 /\ chan.seq = 0 /\ wire[d] = << >> /\ taken[d] = 0
    BY DEF StreamInit, NewChannel
  <2>2. Len(wire[d]) = 0 /\ Window \in Nat \ {0}
    BY <2>1, StreamConstants
  <2>3. Linked(d) /\ Newest(d)
    BY <2>1, <2>2 DEF Linked, Newest
  <2>4. InOrder(d)
    BY <2>1, <2>2 DEF InOrder, Sorted, Between, Upcoming
  <2> QED
    BY <2>3, <2>4 DEF Stream
<1> QED
  BY <1>1, <1>2 DEF StreamInv

-----------------------------------------------------------------------------
(* Messages in flight *)

\* Their numbers are numbers.
LEMMA NumberTypes ==
  ASSUME NEW s \in Seq(Stores)
  PROVE  \A i \in 1..Len(s) : s[i].seq \in Nat
<1>1. \A i \in 1..Len(s) : s[i] \in Stores
  OBVIOUS
<1>2. \A v \in Stores : v.seq \in Nat
  BY DEF Stores
<1> QED
  BY <1>1, <1>2

\* A message goes to the end.
LEMMA AppendLast ==
  ASSUME NEW s \in Seq(Stores), NEW v \in Stores
  PROVE  /\ Append(s, v) \in Seq(Stores)
         /\ Len(Append(s, v)) = Len(s) + 1
         /\ Append(s, v) # << >>
         /\ Append(s, v)[Len(Append(s, v))] = v
OBVIOUS

\* One that is not older than the others leaves them in order.
LEMMA AppendInOrder ==
  ASSUME NEW s \in Seq(Stores), NEW v \in Stores, NEW low \in Nat,
         Sorted(s), Between(s, low, v.seq), low <= v.seq
  PROVE  Sorted(Append(s, v)) /\ Between(Append(s, v), low, v.seq)
<1> DEFINE t == Append(s, v)
<1>1. /\ Len(t) = Len(s) + 1 /\ t[Len(s) + 1] = v /\ Len(s) \in Nat
      /\ \A i \in 1..Len(s) : t[i] = s[i]
      /\ \A i \in 1..Len(t) : i \in 1..Len(s) \/ i = Len(s) + 1
  OBVIOUS
<1>2. v.seq \in Nat
  BY DEF Stores
<1> HIDE DEF t
<1>3. Between(t, low, v.seq)
  BY <1>1, <1>2 DEF Between
<1>4. Sorted(t)
  <2> SUFFICES ASSUME NEW i \in 1..Len(t), NEW j \in 1..Len(t), i < j
               PROVE  t[i].seq <= t[j].seq
    BY DEF Sorted
  <2>1. i \in 1..Len(s)
    BY <1>1
  <2>2. CASE j \in 1..Len(s)
    BY <1>1, <2>1, <2>2 DEF Sorted
  <2>3. CASE j = Len(s) + 1
    BY <1>1, <2>1, <2>3 DEF Between
  <2> QED
    BY <1>1, <2>2, <2>3
<1> QED
  BY <1>3, <1>4 DEF t

\* The last stays the last when the first is taken.
LEMMA TailLast ==
  ASSUME NEW s \in Seq(Stores), s # << >>
  PROVE  /\ Head(s) \in Stores /\ Tail(s) \in Seq(Stores)
         /\ Len(Tail(s)) = Len(s) - 1 /\ Len(s) \in Nat \ {0}
         /\ Tail(s) = << >> => Head(s) = s[Len(s)]
         /\ Tail(s) # << >> => Tail(s)[Len(Tail(s))] = s[Len(s)]
<1> DEFINE t == Tail(s)
<1>1. /\ t \in Seq(Stores) /\ Len(t) = Len(s) - 1 /\ Len(s) \in Nat \ {0}
      /\ Head(s) \in Stores /\ Head(s) = s[1]
  OBVIOUS
<1>2. \A i \in 1..Len(t) : t[i] = s[i + 1]
  BY <1>1
<1>3. Len(<< >>) = 0
  OBVIOUS
<1> HIDE DEF t
<1>4. t = << >> => Len(s) = 1
  BY <1>1, <1>3
<1>5. t # << >> => Len(t) \in 1..Len(t)
  BY <1>1
<1>6. t # << >> => t[Len(t)] = s[Len(s)]
  BY <1>1, <1>2, <1>5
<1> QED
  BY <1>1, <1>4, <1>6 DEF t

\* The others stay in order, none before the one that was taken.
LEMMA TailInOrder ==
  ASSUME NEW s \in Seq(Stores), s # << >>, NEW low \in Nat, NEW high \in Nat,
         Sorted(s), Between(s, low, high)
  PROVE  /\ low <= Head(s).seq /\ Head(s).seq <= high /\ Head(s).seq \in Nat
         /\ Sorted(Tail(s)) /\ Between(Tail(s), Head(s).seq, high)
<1> DEFINE t == Tail(s)
<1>1. /\ t \in Seq(Stores) /\ Len(t) = Len(s) - 1 /\ Len(s) \in Nat \ {0}
      /\ Head(s) = s[1] /\ 1 \in 1..Len(s)
  OBVIOUS
<1>2. \A i \in 1..Len(t) : t[i] = s[i + 1] /\ i + 1 \in 1..Len(s) /\ 1 < i + 1
  BY <1>1
<1>3. \A i \in 1..Len(s) : s[i].seq \in Nat
  BY NumberTypes
<1> HIDE DEF t
<1>4. Sorted(t)
  <2>1. \A i, j \in 1..Len(t) : i < j => i + 1 < j + 1
    BY <1>1
  <2> QED
    BY <1>2, <2>1 DEF Sorted
<1>5. Between(t, s[1].seq, high)
  BY <1>1, <1>2 DEF Between, Sorted
<1>6. low <= s[1].seq /\ s[1].seq <= high
  BY <1>1 DEF Between
<1> QED
  BY <1>1, <1>3, <1>4, <1>5, <1>6 DEF t

-----------------------------------------------------------------------------
(* Steps of one stream *)

\* A step that leaves stream d alone.
SameAt(d) ==
  /\ client'[d] = client[d] /\ link'[d] = link[d] /\ phase'[d] = phase[d]
  /\ seen'[d] = seen[d] /\ initial'[d] = initial[d] /\ wire'[d] = wire[d]
  /\ applied'[d] = applied[d] /\ taken'[d] = taken[d]
  /\ Live(d) \in receivers' <=> Live(d) \in receivers

\* It keeps what is known of d.
LEMMA OthersKeep ==
  ASSUME NEW d \in DataPlanes, Stream(d), SameAt(d), UNCHANGED <<chan, up>>
  PROVE  Stream(d)'
<1>1. Linked(d)'
  BY DEF Stream, SameAt, Linked
<1>2. Newest(d)'
  BY DEF Stream, SameAt, Newest
<1>3. InOrder(d)'
  BY DEF Stream, SameAt, InOrder, Sorted, Between, Upcoming
<1> QED
  BY <1>1, <1>2, <1>3 DEF Stream

\* Receivers of different data planes differ, and live ones from lingering ones.
LEMMA Distinct ==
  ASSUME NEW d, NEW e
  PROVE  Live(d) # Lingering(e) /\ (d # e => Live(d) # Live(e))
BY DEF Live, Lingering

\* A severed stream claims nothing.
LEMMA Severed ==
  ASSUME NEW d \in DataPlanes, link'[d] # "up", phase'[d] = "none",
         Live(d) \notin receivers', wire'[d] = << >>, seen'[d] = 0,
         link'[d] # "none" => client'[d] = "streaming",
         chan' \in Stores, taken'[d] <= chan'.seq, ~up' => taken'[d] = 0
  PROVE  Stream(d)'
<1>1. Len(wire'[d]) = 0 /\ Window \in Nat \ {0} /\ chan'.seq \in Nat
  BY StreamConstants DEF Stores
<1>2. Linked(d)'
  BY <1>1 DEF Linked
<1>3. Newest(d)'
  BY <1>1 DEF Newest
<1>4. InOrder(d)'
  BY <1>1 DEF InOrder, Sorted, Between, Upcoming
<1> QED
  BY <1>2, <1>3, <1>4 DEF Stream

\* Every end of a stream, whatever the client does then.
LEMMA SeverKeeps ==
  ASSUME StreamInv, NEW d \in DataPlanes, NEW end \in {"none", "broken", "silent"},
         Sever(d, end),
         NEW c \in Clients, client' = [client EXCEPT ![d] = c],
         end # "none" => c = "streaming",
         applied' \in [DataPlanes -> DpTables],
         \A e \in DataPlanes \ {d} : applied'[e] = applied[e],
         UNCHANGED taken, shutdown' \in [DataPlanes -> BOOLEAN],
         faults' \in 0..MaxFaults
  PROVE  StreamInv'
<1>1. /\ UNCHANGED <<chan, up, listening>>
      /\ link' = [link EXCEPT ![d] = end]
      /\ phase' = [phase EXCEPT ![d] = "none"]
      /\ seen' = [seen EXCEPT ![d] = 0]
      /\ initial' = [initial EXCEPT ![d] = EmptyStore]
      /\ wire' = [wire EXCEPT ![d] = << >>]
      /\ receivers' = IF Live(d) \in receivers
                        THEN (receivers \ {Live(d)}) \cup {Lingering(d)}
                        ELSE receivers
  BY DEF Sever
<1>2. Types
  BY DEF StreamInv
<1>3. /\ client' \in [DataPlanes -> Clients]
      /\ link' \in [DataPlanes -> Links]
      /\ phase' \in [DataPlanes -> Phases]
      /\ seen' \in [DataPlanes -> Nat]
  BY <1>1, <1>2 DEF Types, Links, Phases
<1>4. initial' \in [DataPlanes -> Stores] /\ wire' \in [DataPlanes -> Seq(Stores)]
  BY <1>1, <1>2, EmptyTypes DEF Types
<1>5. receivers' \subseteq StreamReceivers
  BY <1>1, <1>2 DEF Types, StreamReceivers, Lingering
<1>6. Types'
  BY <1>1, <1>2, <1>3, <1>4, <1>5 DEF Types
<1>7. Stream(d)'
  <2>1. /\ link'[d] = end /\ phase'[d] = "none" /\ wire'[d] = << >> /\ seen'[d] = 0
        /\ client'[d] = c
    BY <1>1, <1>2 DEF Types
  <2>2. Live(d) \notin receivers'
    BY <1>1, Distinct
  <2>3. taken'[d] <= chan'.seq /\ (~up' => taken'[d] = 0)
    <3>1. /\ taken[d] <= Upcoming(d).seq /\ Upcoming(d).seq <= chan.seq
          /\ (~up => taken[d] = 0)
      BY DEF StreamInv, Stream, InOrder
    <3>2. taken[d] \in Nat /\ Upcoming(d) \in Stores /\ chan \in Stores
      BY <1>2 DEF Types, Upcoming
    <3> QED
      BY <1>1, <3>1, <3>2 DEF Stores
  <2> QED
    BY <1>6, <2>1, <2>2, <2>3, Severed DEF Types
<1>8. ASSUME NEW e \in DataPlanes \ {d}
      PROVE  Stream(e)'
  <2>1. SameAt(e)
    BY <1>1, <1>2, Distinct DEF Types, SameAt
  <2> QED
    BY <1>1, <2>1, OthersKeep DEF StreamInv
<1> QED
  BY <1>6, <1>7, <1>8 DEF StreamInv

\* A fault that happens is counted.
LEMMA FaultTypes ==
  ASSUME Types, NEW kind, Fault(kind)
  PROVE  faults' \in 0..MaxFaults
BY StreamConstants DEF Types, Fault

\* A new stream has seen the value there is.
LEMMA SubscribeKeeps ==
  ASSUME StreamInv, NEW d \in DataPlanes, Subscribe(d)
  PROVE  StreamInv'
<1>1. /\ UNCHANGED <<chan, up, listening, initial, wire, applied, taken,
                     shutdown, faults>>
      /\ client[d] = "connecting" /\ up
      /\ client' = [client EXCEPT ![d] = "streaming"]
      /\ link' = [link EXCEPT ![d] = "up"]
      /\ phase' = [phase EXCEPT ![d] = "subscribed"]
      /\ seen' = [seen EXCEPT ![d] = chan.seq]
      /\ receivers' = receivers \cup {Live(d)}
  BY DEF Subscribe
<1>2. Types /\ Stream(d) /\ chan.seq \in Nat
  BY DEF StreamInv, Types, Stores
<1>3. /\ client' \in [DataPlanes -> Clients] /\ link' \in [DataPlanes -> Links]
      /\ phase' \in [DataPlanes -> Phases] /\ seen' \in [DataPlanes -> Nat]
  BY <1>1, <1>2 DEF Types, Clients, Links, Phases
<1>4. Types'
  BY <1>1, <1>2, <1>3 DEF Types, StreamReceivers, Live
<1>5. Stream(d)'
  <2>1. /\ client'[d] = "streaming" /\ link'[d] = "up" /\ phase'[d] = "subscribed"
        /\ seen'[d] = chan.seq /\ Live(d) \in receivers'
    BY <1>1, <1>2 DEF Types
  <2>2. phase[d] = "none"
    BY <1>1, <1>2 DEF Stream, Linked
  <2>3. InOrder(d)'
    BY <1>1, <1>2, <2>1, <2>2 DEF Stream, InOrder, Upcoming, Sorted, Between
  <2> QED
    BY <1>1, <1>2, <2>1, <2>3 DEF Stream, Linked, Newest
<1>6. ASSUME NEW e \in DataPlanes \ {d}
      PROVE  Stream(e)'
  <2>1. SameAt(e)
    BY <1>1, <1>2, Distinct DEF Types, SameAt
  <2> QED
    BY <1>1, <2>1, OthersKeep DEF StreamInv
<1> QED
  BY <1>4, <1>5, <1>6 DEF StreamInv

\* The clone may be newer than what was seen.
LEMMA CloneInitialKeeps ==
  ASSUME StreamInv, NEW d \in DataPlanes, CloneInitial(d)
  PROVE  StreamInv'
<1>1. /\ UNCHANGED <<chan, receivers, up, listening, client, link, seen, wire,
                     applied, taken, shutdown, faults>>
      /\ phase[d] = "subscribed"
      /\ phase' = [phase EXCEPT ![d] = "initial"]
      /\ initial' = [initial EXCEPT ![d] = chan]
  BY DEF CloneInitial, shared
<1>2. Types /\ Stream(d) /\ chan \in Stores /\ chan.seq \in Nat
  BY DEF StreamInv, Types, Stores
<1>3. phase' \in [DataPlanes -> Phases] /\ initial' \in [DataPlanes -> Stores]
  BY <1>1, <1>2 DEF Types, Phases
<1>4. Types'
  BY <1>1, <1>2, <1>3 DEF Types
<1>5. phase'[d] = "initial" /\ initial'[d] = chan
  BY <1>1, <1>2 DEF Types
<1>6. Stream(d)'
  <2>1. InOrder(d)'
    BY <1>1, <1>2, <1>5 DEF Stream, InOrder, Upcoming, Sorted, Between
  <2> QED
    BY <1>1, <1>2, <1>5, <2>1 DEF Stream, Linked, Newest
<1>7. ASSUME NEW e \in DataPlanes \ {d}
      PROVE  Stream(e)'
  <2>1. SameAt(e)
    BY <1>1, <1>2 DEF Types, SameAt
  <2> QED
    BY <1>1, <2>1, OthersKeep DEF StreamInv
<1> QED
  BY <1>4, <1>6, <1>7 DEF StreamInv

\* What a poll of the stream puts in flight.
LEMMA Emitted ==
  ASSUME StreamInv, NEW d \in DataPlanes, NEW v \in Stores, Emit(d, v)
  PROVE  /\ wire' \in [DataPlanes -> Seq(Stores)]
         /\ wire'[d] = Append(wire[d], v) /\ wire'[d] \in Seq(Stores)
         /\ Len(wire'[d]) <= Window
         /\ wire'[d] # << >> /\ wire'[d][Len(wire'[d])] = v
         /\ \A e \in DataPlanes \ {d} : wire'[e] = wire[e]
<1>1. /\ Len(wire[d]) < Window /\ wire' = [wire EXCEPT ![d] = Append(@, v)]
      /\ wire \in [DataPlanes -> Seq(Stores)]
      /\ Window \in Nat \ {0}
  BY StreamConstants DEF Emit, StreamInv, Types
<1>2. /\ wire[d] \in Seq(Stores) /\ wire'[d] = Append(wire[d], v)
      /\ Len(wire[d]) \in Nat
      /\ \A e \in DataPlanes \ {d} : wire'[e] = wire[e]
  BY <1>1
<1>3. Append(wire[d], v) \in Seq(Stores) /\ Len(Append(wire[d], v)) = Len(wire[d]) + 1
  BY <1>1, <1>2, AppendLast
<1>4. wire' \in [DataPlanes -> Seq(Stores)]
  BY <1>1, <1>3
<1>5. Len(wire'[d]) <= Window
  BY <1>1, <1>2, <1>3
<1> QED
  BY <1>1, <1>2, <1>4, <1>5, AppendLast

\* Every poll of the stream that yields; the last value that it yields is the
\* one that it has seen.
LEMMA YieldKeeps ==
  ASSUME StreamInv, NEW d \in DataPlanes, phase[d] # "none",
         Emit(d, Upcoming(d)),
         phase' \in [DataPlanes -> Phases], seen' \in [DataPlanes -> Nat],
         initial' \in [DataPlanes -> Stores],
         \A e \in DataPlanes \ {d} :
           phase'[e] = phase[e] /\ seen'[e] = seen[e] /\ initial'[e] = initial[e],
         phase'[d] \in {"first", "watching"},
         seen'[d] <= chan.seq,
         phase'[d] = "watching" => Upcoming(d) = chan
  PROVE  StreamInv'
<1> DEFINE v == Upcoming(d)
<1>1. /\ UNCHANGED <<chan, receivers, up, listening, client, link, applied,
                     taken, shutdown, faults>>
  BY DEF Emit, shared
<1>2. Types /\ Stream(d) /\ v \in Stores
  BY DEF StreamInv, Types, Upcoming
<1>3. /\ wire' \in [DataPlanes -> Seq(Stores)]
      /\ Len(wire'[d]) <= Window
      /\ wire'[d] = Append(wire[d], v) /\ wire'[d] \in Seq(Stores)
      /\ wire'[d] # << >> /\ wire'[d][Len(wire'[d])] = v
      /\ \A e \in DataPlanes \ {d} : wire'[e] = wire[e]
  BY <1>2, Emitted
<1>4. Types'
  BY <1>1, <1>2, <1>3 DEF Types
<1>5. Stream(d)'
  <2>1. Linked(d)'
    BY <1>1, <1>2, <1>3 DEF Stream, Linked
  <2>2. Newest(d)'
    BY <1>1, <1>3 DEF Newest
  <2>3. InOrder(d)'
    <3>1. /\ wire[d] \in Seq(Stores) /\ taken[d] \in Nat
          /\ v.seq \in Nat /\ chan.seq \in Nat
      BY <1>2 DEF Types, Stores
    <3>2. /\ Sorted(wire[d]) /\ Between(wire[d], taken[d], v.seq)
          /\ taken[d] <= v.seq /\ v.seq <= chan.seq
          /\ (~up => taken[d] = 0)
      BY <1>2 DEF Stream, InOrder
    <3>3. Sorted(wire'[d]) /\ Between(wire'[d], taken[d], v.seq)
      BY <1>2, <1>3, <3>1, <3>2, AppendInOrder
    <3>4. Upcoming(d)' = chan
      BY <1>1 DEF Upcoming
    <3>5. Between(wire'[d], taken[d], chan.seq)
      <4>1. \A i \in 1..Len(wire'[d]) : wire'[d][i].seq \in Nat
        BY <1>3, NumberTypes
      <4> QED
        BY <3>1, <3>2, <3>3, <4>1 DEF Between
    <3>6. phase'[d] # "none" /\ taken[d] <= chan.seq /\ chan.seq <= chan.seq
      BY <3>1, <3>2
    <3> QED
      BY <1>1, <3>2, <3>3, <3>4, <3>5, <3>6 DEF InOrder, Sorted, Between
  <2> QED
    BY <2>1, <2>2, <2>3 DEF Stream
<1>6. ASSUME NEW e \in DataPlanes \ {d}
      PROVE  Stream(e)'
  <2>1. SameAt(e)
    BY <1>1, <1>3 DEF SameAt
  <2> QED
    BY <1>1, <2>1, OthersKeep DEF StreamInv
<1> QED
  BY <1>4, <1>5, <1>6 DEF StreamInv

\* The server's half: each of its steps is a clone or a yield.
LEMMA ServerKeeps ==
  ASSUME StreamInv, NEW d \in DataPlanes, ServerStep(d)
  PROVE  StreamInv'
<1>1. /\ Types /\ chan \in Stores
      /\ chan.seq \in Nat /\ seen[d] <= chan.seq
  <2>1. Types /\ seen[d] <= chan.seq
    BY DEF StreamInv, Stream, Newest
  <2>2. chan \in Stores /\ chan.seq \in Nat
    BY <2>1 DEF Types, Stores
  <2> QED
    BY <2>1, <2>2
<1>2. CASE CloneInitial(d)
  BY <1>2, CloneInitialKeeps
<1>3. CASE YieldInitial(d)
  <2>1. /\ phase[d] = "initial" /\ Emit(d, initial[d])
        /\ phase' = [phase EXCEPT ![d] = "first"] /\ UNCHANGED <<seen, initial>>
    BY <1>3 DEF YieldInitial
  <2>2. /\ phase' \in [DataPlanes -> Phases] /\ phase'[d] = "first"
        /\ \A e \in DataPlanes \ {d} : phase'[e] = phase[e]
    BY <1>1, <2>1 DEF Types, Phases
  <2> QED
    BY <1>1, <2>1, <2>2, YieldKeeps DEF Types, Upcoming
<1>4. CASE YieldFirst(d)
  <2>1. /\ phase[d] = "first" /\ Emit(d, chan)
        /\ phase' = [phase EXCEPT ![d] = "watching"]
        /\ seen' = [seen EXCEPT ![d] = chan.seq]
        /\ initial' = [initial EXCEPT ![d] = EmptyStore]
    BY <1>4 DEF YieldFirst
  <2>2. /\ phase' \in [DataPlanes -> Phases] /\ phase'[d] = "watching"
        /\ seen' \in [DataPlanes -> Nat] /\ seen'[d] <= chan.seq
        /\ initial' \in [DataPlanes -> Stores]
        /\ \A e \in DataPlanes \ {d} :
             phase'[e] = phase[e] /\ seen'[e] = seen[e] /\ initial'[e] = initial[e]
    BY <1>1, <2>1, EmptyTypes DEF Types, Phases
  <2> QED
    BY <1>1, <2>1, <2>2, YieldKeeps DEF Upcoming
<1>5. CASE YieldChange(d)
  <2>1. /\ phase[d] = "watching" /\ Emit(d, chan)
        /\ seen' = [seen EXCEPT ![d] = chan.seq] /\ UNCHANGED <<phase, initial>>
    BY <1>5 DEF YieldChange
  <2>2. /\ seen' \in [DataPlanes -> Nat] /\ seen'[d] <= chan.seq
        /\ \A e \in DataPlanes \ {d} : seen'[e] = seen[e]
    BY <1>1, <2>1 DEF Types
  <2> QED
    BY <1>1, <2>1, <2>2, YieldKeeps DEF Types, Upcoming
<1> QED
  BY <1>2, <1>3, <1>4, <1>5 DEF ServerStep

\* What a data plane makes of a snapshot is a table of its own routes.
LEMMA DecodeTypes ==
  ASSUME NEW snapshot \in Snapshots
  PROVE  Decode(snapshot) \in DpTables
BY StreamConstants DEF Snapshots, WireTables, Decode, DpTables

\* The data plane that takes the last snapshot in flight serves it.
LEMMA ApplyKeeps ==
  ASSUME StreamInv, NEW d \in DataPlanes, Apply(d)
  PROVE  StreamInv'
<1>1. /\ UNCHANGED <<chan, receivers, up, listening, client, link, phase, seen,
                     initial, shutdown, faults>>
      /\ wire[d] # << >>
      /\ applied' = [applied EXCEPT ![d] = Decode(Head(wire[d]).value)]
      /\ taken' = [taken EXCEPT ![d] = Head(wire[d]).seq]
      /\ wire' = [wire EXCEPT ![d] = Tail(@)]
  BY DEF Apply, shared
<1>2. Types /\ Stream(d) /\ wire[d] \in Seq(Stores)
  BY DEF StreamInv, Types
<1>3. /\ Head(wire[d]) \in Stores /\ Tail(wire[d]) \in Seq(Stores)
      /\ Len(Tail(wire[d])) = Len(wire[d]) - 1 /\ Len(wire[d]) \in Nat \ {0}
      /\ Tail(wire[d]) = << >> => Head(wire[d]) = wire[d][Len(wire[d])]
      /\ Tail(wire[d]) # << >> =>
           Tail(wire[d])[Len(Tail(wire[d]))] = wire[d][Len(wire[d])]
  BY <1>1, <1>2, TailLast
<1>4. /\ applied' \in [DataPlanes -> DpTables]
      /\ wire' \in [DataPlanes -> Seq(Stores)]
      /\ taken' \in [DataPlanes -> Nat]
  <2>1. Head(wire[d]).value \in Snapshots /\ Head(wire[d]).seq \in Nat
    BY <1>3 DEF Stores
  <2> QED
    BY <1>1, <1>2, <1>3, <2>1, DecodeTypes DEF Types
<1>5. Types'
  BY <1>1, <1>2, <1>4 DEF Types
<1>6. /\ applied'[d] = Decode(Head(wire[d]).value) /\ wire'[d] = Tail(wire[d])
      /\ taken'[d] = Head(wire[d]).seq
      /\ \A e \in DataPlanes \ {d} :
           applied'[e] = applied[e] /\ wire'[e] = wire[e] /\ taken'[e] = taken[e]
  BY <1>1, <1>2 DEF Types
<1>7. Stream(d)'
  <2>1. Linked(d)'
    BY <1>1, <1>2, <1>3, <1>6, StreamConstants DEF Stream, Linked
  <2>2. Newest(d)'
    <3>1. UNCHANGED <<chan, phase, seen>> /\ Newest(d)
      BY <1>1, <1>2 DEF Stream
    <3>2. Head(wire[d]) = chan => applied'[d] = Decode(chan.value)
      BY <1>6
    <3> QED
      BY <1>1, <1>3, <1>6, <3>1, <3>2 DEF Newest
  <2>3. InOrder(d)'
    <3>1. taken[d] \in Nat /\ Upcoming(d).seq \in Nat
      BY <1>2 DEF Types, Stores, Upcoming
    <3>2. /\ Sorted(wire[d]) /\ Between(wire[d], taken[d], Upcoming(d).seq)
          /\ Upcoming(d).seq <= chan.seq /\ up /\ phase[d] # "none"
      BY <1>1, <1>2 DEF Stream, InOrder, Linked
    <3>3. /\ Head(wire[d]).seq <= Upcoming(d).seq /\ Sorted(Tail(wire[d]))
          /\ Between(Tail(wire[d]), Head(wire[d]).seq, Upcoming(d).seq)
      BY <1>1, <1>2, <3>1, <3>2, TailInOrder
    <3>4. Upcoming(d)' = Upcoming(d)
      BY <1>1 DEF Upcoming
    <3> QED
      BY <1>1, <1>6, <3>2, <3>3, <3>4 DEF InOrder, Sorted, Between
  <2> QED
    BY <2>1, <2>2, <2>3 DEF Stream
<1>8. ASSUME NEW e \in DataPlanes \ {d}
      PROVE  Stream(e)'
  <2>1. SameAt(e)
    BY <1>1, <1>6 DEF SameAt
  <2> QED
    BY <1>1, <2>1, OthersKeep DEF StreamInv
<1> QED
  BY <1>5, <1>7, <1>8 DEF StreamInv

\* Steps of a client that has no stream.
LEMMA IdleKeeps ==
  ASSUME StreamInv, NEW d \in DataPlanes, link[d] # "up",
         UNCHANGED <<chan, receivers, up, listening, phase, seen, initial, wire,
                     applied, taken>>,
         client' \in [DataPlanes -> Clients], link' \in [DataPlanes -> Links],
         \A e \in DataPlanes \ {d} : client'[e] = client[e] /\ link'[e] = link[e],
         link'[d] = "none",
         shutdown' \in [DataPlanes -> BOOLEAN], faults' \in 0..MaxFaults
  PROVE  StreamInv'
<1>1. Types'
  BY DEF StreamInv, Types
<1>2. Stream(d)'
  BY DEF StreamInv, Stream, Linked, Newest, InOrder, Sorted, Between, Upcoming
<1>3. ASSUME NEW e \in DataPlanes \ {d}
      PROVE  Stream(e)'
  BY OthersKeep DEF StreamInv, SameAt
<1> QED
  BY <1>1, <1>2, <1>3 DEF StreamInv

\* Steps of a client that has no stream to the server.
LEMMA ClientKeeps ==
  ASSUME StreamInv, NEW d \in DataPlanes, ClientStep(d)
  PROVE  StreamInv'
<1>1. Types /\ Linked(d)
  BY DEF StreamInv, Stream
<1>2. CASE Subscribe(d)
  BY <1>2, SubscribeKeeps
<1>3. CASE Apply(d)
  BY <1>3, ApplyKeeps
<1>4. CASE DecodeFails(d)
  <2>1. /\ client' = [client EXCEPT ![d] = "sleeping"] /\ Sever(d, "none")
        /\ UNCHANGED <<applied, taken, shutdown, faults>>
    BY <1>4 DEF DecodeFails
  <2> QED
    BY <1>1, <2>1, SeverKeeps DEF Types, Clients
<1>5. CASE StreamEnds(d)
  <2>1. /\ client' = [client EXCEPT ![d] = "sleeping"] /\ link[d] = "broken"
        /\ link' = [link EXCEPT ![d] = "none"]
        /\ UNCHANGED <<chan, receivers, up, listening, phase, seen, initial, wire,
                       applied, taken, shutdown, faults>>
    BY <1>5 DEF StreamEnds, shared
  <2>2. /\ client' \in [DataPlanes -> Clients] /\ link' \in [DataPlanes -> Links]
        /\ \A e \in DataPlanes \ {d} : client'[e] = client[e] /\ link'[e] = link[e]
        /\ link'[d] = "none"
    BY <1>1, <2>1 DEF Types, Clients, Links
  <2> QED
    BY <1>1, <2>1, <2>2, IdleKeeps DEF Types
<1>6. CASE Wake(d)
  <2>1. /\ client' = [client EXCEPT ![d] = "connecting"] /\ client[d] = "sleeping"
        /\ UNCHANGED <<chan, receivers, up, listening, link, phase, seen, initial,
                       wire, applied, taken, shutdown, faults>>
    BY <1>6 DEF Wake, shared
  <2>2. /\ client' \in [DataPlanes -> Clients] /\ link[d] = "none"
        /\ \A e \in DataPlanes \ {d} : client'[e] = client[e]
    BY <1>1, <2>1 DEF Types, Clients, Linked
  <2> QED
    BY <1>1, <2>1, <2>2, IdleKeeps DEF Types
<1> QED
  BY <1>2, <1>3, <1>4, <1>5, <1>6 DEF ClientStep

\* A connection that failed leaves no stream.
LEMMA ConnectFailsKeeps ==
  ASSUME StreamInv, NEW d \in DataPlanes, ConnectFails(d)
  PROVE  StreamInv'
<1>1. Types /\ Linked(d)
  BY DEF StreamInv, Stream
<1>2. /\ client' = [client EXCEPT ![d] = "sleeping"] /\ client[d] = "connecting"
      /\ UNCHANGED <<chan, receivers, up, listening, link, phase, seen, initial,
                     wire, applied, taken, shutdown>>
      /\ Fault("refuse") \/ UNCHANGED faults
  BY DEF ConnectFails, shared
<1>3. /\ client' \in [DataPlanes -> Clients] /\ link[d] = "none"
      /\ \A e \in DataPlanes \ {d} : client'[e] = client[e]
  BY <1>1, <1>2 DEF Types, Clients, Linked
<1>4. faults' \in 0..MaxFaults
  BY <1>1, <1>2, FaultTypes DEF Types
<1> QED
  BY <1>1, <1>2, <1>3, <1>4, IdleKeeps DEF Types

\* Stops, restarts and broken links.
LEMMA EndKeeps ==
  ASSUME StreamInv, NEW d \in DataPlanes,
         Stop(d) \/ Restart(d) \/ BreakLink(d) \/ LoseSilently(d)
  PROVE  StreamInv'
<1>1. Types /\ Linked(d)
  BY DEF StreamInv, Stream
<1>2. CASE Stop(d)
  <2>1. /\ client' = [client EXCEPT ![d] = "stopped"] /\ Sever(d, "none")
        /\ UNCHANGED <<applied, taken, shutdown, faults>>
    BY <1>2 DEF Stop
  <2> QED
    BY <1>1, <2>1, SeverKeeps DEF Types, Clients
<1>3. CASE Restart(d)
  <2>1. /\ client' = [client EXCEPT ![d] = "connecting"] /\ Sever(d, "none")
        /\ applied' = [applied EXCEPT ![d] = NoRoutes]
        /\ shutdown' = [shutdown EXCEPT ![d] = FALSE]
        /\ UNCHANGED taken /\ (Fault("restart") \/ UNCHANGED faults)
    BY <1>3 DEF Restart
  <2>2. /\ applied' \in [DataPlanes -> DpTables]
        /\ \A e \in DataPlanes \ {d} : applied'[e] = applied[e]
        /\ shutdown' \in [DataPlanes -> BOOLEAN]
    BY <1>1, <2>1, EmptyTypes DEF Types
  <2>3. faults' \in 0..MaxFaults
    BY <1>1, <2>1, FaultTypes DEF Types
  <2>4. "connecting" \in Clients
    BY DEF Clients
  <2> QED
    BY <2>1, <2>2, <2>3, <2>4, SeverKeeps
<1>4. ASSUME NEW end \in {"broken", "silent"}, link[d] = "up", Sever(d, end),
             UNCHANGED <<client, applied, taken, shutdown>>, faults' \in 0..MaxFaults
      PROVE  StreamInv'
  <2>1. /\ client[d] = "streaming" /\ "streaming" \in Clients
        /\ client' = [client EXCEPT ![d] = "streaming"]
    BY <1>1, <1>4 DEF Linked, Types, Clients
  <2> QED
    BY <1>1, <1>4, <2>1, SeverKeeps DEF Types
<1>5. CASE BreakLink(d)
  BY <1>1, <1>4, <1>5, FaultTypes DEF BreakLink
<1>6. CASE LoseSilently(d)
  BY <1>1, <1>4, <1>6, FaultTypes DEF LoseSilently
<1> QED
  BY <1>2, <1>3, <1>5, <1>6

\* What changes neither a stream nor the channel.
LEMMA AsideKeeps ==
  ASSUME StreamInv,
         UNCHANGED <<chan, up, client, link, phase, seen, initial, wire, applied,
                     taken>>,
         listening' \in BOOLEAN, ~up => listening',
         shutdown' \in [DataPlanes -> BOOLEAN], faults' \in 0..MaxFaults,
         receivers' \subseteq StreamReceivers,
         \A d \in DataPlanes : Live(d) \in receivers' <=> Live(d) \in receivers
  PROVE  StreamInv'
<1>1. Types'
  BY DEF StreamInv, Types
<1>2. ASSUME NEW d \in DataPlanes
      PROVE  Stream(d)'
  BY OthersKeep DEF StreamInv, SameAt
<1> QED
  BY <1>1, <1>2 DEF StreamInv

\* Every step of the streams keeps the invariant.
LEMMA StreamStepKeeps ==
  ASSUME StreamInv, StreamNext
  PROVE  StreamInv'
<1>1. Types
  BY DEF StreamInv
<1>2. CASE AcceptFails
  BY <1>1, <1>2, AsideKeeps, FaultTypes DEF AcceptFails, Types, shared
<1>3. ASSUME NEW d \in DataPlanes, NoticeGone(d)
      PROVE  StreamInv'
  <2>1. receivers' = receivers \ {Lingering(d)} /\ UNCHANGED <<chan, up, streamVars>>
    BY <1>3 DEF NoticeGone
  <2>2. \A e \in DataPlanes : Live(e) \in receivers' <=> Live(e) \in receivers
    BY <2>1, Distinct
  <2> QED
    BY <1>1, <2>1, <2>2, AsideKeeps DEF Types, streamVars
<1>4. ASSUME NEW d \in DataPlanes, RequestShutdown(d)
      PROVE  StreamInv'
  <2>1. shutdown' \in [DataPlanes -> BOOLEAN] /\ faults' \in 0..MaxFaults
    BY <1>1, <1>4, FaultTypes DEF RequestShutdown, Types
  <2> QED
    BY <1>1, <1>4, <2>1, AsideKeeps DEF RequestShutdown, Types, shared
<1> QED
  BY <1>2, <1>3, <1>4, ServerKeeps, ClientKeeps, ConnectFailsKeeps, EndKeeps
     DEF StreamNext

-----------------------------------------------------------------------------
(* Steps of a publisher *)

\* A snapshot is stored, or is not for want of receivers; no stream has seen it.
LEMMA StoreKeeps ==
  ASSUME StreamInv, NEW v \in Snapshots, chan' = Send(chan, receivers, v),
         UNCHANGED <<receivers, up, streamVars>>
  PROVE  StreamInv'
<1>1. Types /\ chan.seq \in Nat
  BY DEF StreamInv, Types, Stores
<1>2. \/ chan' = chan
      \/ chan' = [value |-> v, seq |-> chan.seq + 1]
  BY DEF Send
<1>3. Types'
  <2>1. chan' \in Stores
    BY <1>1, <1>2 DEF Types, Stores
  <2> QED
    BY <1>1, <2>1 DEF Types, streamVars
<1>4. ASSUME NEW d \in DataPlanes
      PROVE  Stream(d)'
  <2>1. Linked(d) /\ Newest(d) /\ seen[d] \in Nat
    BY <1>1 DEF StreamInv, Stream, Types
  <2>2. Linked(d)'
    BY <2>1 DEF Linked, streamVars
  <2>3. Newest(d)'
    <3>1. chan' = chan => Newest(d)'
      BY <2>1 DEF Newest, streamVars
    <3>2. CASE chan' = [value |-> v, seq |-> chan.seq + 1]
      <4>1. chan'.seq = chan.seq + 1 /\ seen' = seen /\ phase' = phase
        BY <3>2 DEF streamVars
      <4> QED
        BY <1>1, <2>1, <4>1 DEF Newest
    <3> QED
      BY <1>2, <3>1, <3>2
  <2>4. InOrder(d)'
    <3>1. UNCHANGED <<phase, wire, taken, initial, up>> /\ InOrder(d)
      BY <1>1 DEF StreamInv, Stream, streamVars
    <3>2. /\ taken[d] \in Nat /\ Upcoming(d).seq \in Nat
          /\ \A i \in 1..Len(wire[d]) : wire[d][i].seq \in Nat
      BY <1>1, NumberTypes DEF Types, Upcoming, Stores
    <3>3. /\ chan'.seq \in Nat /\ chan.seq <= chan'.seq
          /\ Upcoming(d)' = Upcoming(d) \/ Upcoming(d)' = chan'
      BY <1>1, <1>2, <3>1 DEF Upcoming
    <3>4. /\ Upcoming(d)'.seq \in Nat /\ Upcoming(d).seq <= Upcoming(d)'.seq
          /\ Upcoming(d)'.seq <= chan'.seq
      BY <1>1, <3>1, <3>2, <3>3 DEF InOrder
    <3>5. Between(wire[d], taken[d], Upcoming(d)'.seq)
      BY <3>1, <3>2, <3>4 DEF InOrder, Between
    <3>6. taken[d] <= Upcoming(d)'.seq
      BY <3>1, <3>2, <3>4 DEF InOrder
    <3> QED
      BY <3>1, <3>4, <3>5, <3>6 DEF InOrder, Sorted, Between
  <2> QED
    BY <2>2, <2>3, <2>4 DEF Stream
<1> QED
  BY <1>3, <1>4 DEF StreamInv

\* The control plane starts with a channel that no stream knows.
LEMMA StartKeeps ==
  ASSUME StreamInv, ~up, up', chan' \in Stores,
         UNCHANGED <<receivers, streamVars>>, up' \in BOOLEAN
  PROVE  StreamInv'
<1>1. Types'
  BY DEF StreamInv, Types, streamVars
<1>2. ASSUME NEW d \in DataPlanes
      PROVE  Stream(d)'
  <2>1. /\ Linked(d) /\ Newest(d) /\ phase[d] = "none" /\ seen[d] = 0
        /\ phase' = phase /\ seen' = seen /\ chan'.seq \in Nat
    BY DEF StreamInv, Stream, Linked, Newest, streamVars, Stores
  <2>2. Linked(d)'
    BY <2>1 DEF Linked, streamVars
  <2>3. Newest(d)'
    BY <2>1 DEF Newest
  <2>4. InOrder(d)'
    <3>1. wire[d] = << >> /\ taken[d] = 0 /\ UNCHANGED <<wire, taken>>
      BY <2>1 DEF StreamInv, Stream, InOrder, streamVars
    <3> QED
      BY <2>1, <3>1 DEF InOrder, Sorted, Between, Upcoming
  <2> QED
    BY <2>2, <2>3, <2>4 DEF Stream
<1> QED
  BY <1>1, <1>2 DEF StreamInv

\* It dies with the channel and all streams.
LEMMA CrashKeeps ==
  ASSUME StreamInv, up' = FALSE, chan' = NewChannel(EmptySnapshot),
         receivers' = {}, ServerDies
  PROVE  StreamInv'
<1>1. /\ listening' = TRUE
      /\ link' = [d \in DataPlanes |-> IF link[d] = "up" THEN "broken" ELSE link[d]]
      /\ phase' = [d \in DataPlanes |-> "none"]
      /\ seen' = [d \in DataPlanes |-> 0]
      /\ initial' = [d \in DataPlanes |-> EmptyStore]
      /\ wire' = [d \in DataPlanes |-> << >>]
      /\ taken' = [d \in DataPlanes |-> 0]
      /\ UNCHANGED <<client, applied, shutdown, faults>>
  BY DEF ServerDies
<1>2. Types
  BY DEF StreamInv
<1>3. chan' \in Stores /\ chan'.seq = 0
  BY EmptyTypes DEF EmptyStore
<1>4. /\ link' \in [DataPlanes -> Links] /\ phase' \in [DataPlanes -> Phases]
      /\ seen' \in [DataPlanes -> Nat] /\ initial' \in [DataPlanes -> Stores]
      /\ taken' \in [DataPlanes -> Nat]
  BY <1>1, <1>2, EmptyTypes DEF Types, Links, Phases
<1>5. wire' \in [DataPlanes -> Seq(Stores)]
  BY <1>1
<1>6. Types'
  BY <1>1, <1>2, <1>3, <1>4, <1>5 DEF Types
<1>7. ASSUME NEW d \in DataPlanes
      PROVE  Stream(d)'
  <2>1. /\ link'[d] # "up" /\ phase'[d] = "none" /\ wire'[d] = << >> /\ seen'[d] = 0
        /\ Live(d) \notin receivers' /\ taken'[d] = 0 /\ taken'[d] <= chan'.seq
    BY <1>1, <1>3
  <2>2. link'[d] # "none" => client'[d] = "streaming"
    BY <1>1 DEF StreamInv, Stream, Linked
  <2> QED
    BY <1>3, <2>1, <2>2, Severed
<1> QED
  BY <1>6, <1>7 DEF StreamInv

\* A step that changes nothing here.
LEMMA StutterKeeps ==
  ASSUME StreamInv, UNCHANGED <<chan, receivers, up, streamVars>>
  PROVE  StreamInv'
<1>1. /\ listening \in BOOLEAN /\ (~up => listening)
      /\ shutdown \in [DataPlanes -> BOOLEAN] /\ faults \in 0..MaxFaults
      /\ receivers \subseteq StreamReceivers
  BY DEF StreamInv, Types
<1> QED
  BY <1>1, AsideKeeps DEF streamVars
=============================================================================
