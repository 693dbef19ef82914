--------------------------- MODULE ConfigDelivery ---------------------------
(***************************************************************************)
(* ConfigSync with a publisher that knows no database: any number of       *)
(* handlers that take a number for a snapshot and send it some time later, *)
(* in any order, each with whatever table it has listed.  Gateway puts     *)
(* ControlPlane in its place, whose handlers list one table.               *)
(***************************************************************************)
EXTENDS ConfigSync

CONSTANTS
  MaxVersion,   \* bound: snapshots of one life of the control plane
  MaxCrashes    \* bound: crashes of the control plane

VARIABLES
  version,
  drafts,       \* numbers of the snapshots that are not yet sent
  crashes

publisherVars == <<version, drafts, crashes>>
deliveryVars == <<chan, receivers, up, streamVars, publisherVars>>

Init ==
  /\ StreamInit
  /\ chan = NewChannel(EmptySnapshot)
  /\ receivers = {}
  /\ up = FALSE
  /\ version = 0
  /\ drafts = {}
  /\ crashes = 0

\* publish_from_db has listed a table and takes a number for it.
BuildSnapshot ==
  /\ up
  /\ version < MaxVersion
  /\ version' = version + 1
  /\ drafts' = drafts \cup {version + 1}
  /\ UNCHANGED <<chan, receivers, up, streamVars, crashes>>

\* It sends that table; other handlers may have sent later numbers before.
SendSnapshot(number, table) ==
  /\ up
  /\ drafts' = drafts \ {number}
  /\ chan' = Send(chan, receivers,
                  [version |-> number, routes |-> table, rev |-> 0])
  /\ UNCHANGED <<receivers, up, streamVars, version, crashes>>

Start ==
  /\ ~up
  /\ up' = TRUE
  /\ UNCHANGED <<chan, receivers, streamVars, publisherVars>>

Crash ==
  /\ up
  /\ crashes < MaxCrashes
  /\ crashes' = crashes + 1
  /\ up' = FALSE
  /\ version' = 0
  /\ drafts' = {}
  /\ chan' = NewChannel(EmptySnapshot)
  /\ receivers' = {}
  /\ ServerDies

Next ==
  \/ StreamNext /\ UNCHANGED publisherVars
  \/ BuildSnapshot
  \/ \E number \in drafts, table \in WireTables : SendSnapshot(number, table)
  \/ Start
  \/ Crash

Spec == Init /\ [][Next]_deliveryVars

\* The runtimes of both processes poll whatever is ready, and the control
\* plane is started again when it died.
Fairness ==
  /\ \A d \in DataPlanes :
       /\ WF_deliveryVars(ServerStep(d) /\ UNCHANGED publisherVars)
       /\ WF_deliveryVars(ClientStep(d) /\ UNCHANGED publisherVars)
       /\ SF_deliveryVars(Stop(d) /\ UNCHANGED publisherVars)
  /\ WF_deliveryVars(Start)

FairSpec == Spec /\ Fairness

-----------------------------------------------------------------------------
(* Properties *)

\* Once its control plane stays up with a table that fits a message, its link
\* is not silently dead, and the gRPC server listens or the stream is there
\* already, a data plane that is not stopped ends up serving what the channel
\* holds, through every loss, restart and retry.
EventuallyCurrent ==
  \A d \in DataPlanes :
    <>[](/\ up /\ Fits(chan.value)
         /\ client[d] # "stopped" /\ link[d] # "silent"
         /\ listening \/ link[d] = "up")
      => <>[](applied[d] = Decode(chan.value))

\* A data plane that was asked to stop does stop, although neither the sleep
\* nor a connection attempt looks at the request.
StopsWhenAsked ==
  \A d \in DataPlanes : shutdown[d] ~> client[d] = "stopped" \/ ~shutdown[d]
=============================================================================
