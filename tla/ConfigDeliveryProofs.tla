------------------------ MODULE ConfigDeliveryProofs ------------------------
(***************************************************************************)
(* What the streams guarantee with a publisher that sends any table under  *)
(* any of its numbers, for any number of data planes, faults and crashes:  *)
(* all that ConfigSyncProofs shows of their steps, once the publisher's    *)
(* are seen to store, to start and to crash as it assumes.                 *)
(***************************************************************************)
EXTENDS ConfigDelivery, ConfigSyncProofs

\* Numbers are taken from a counter and sent later.
Numbered == version \in Nat /\ drafts \subseteq Nat

DeliveryInv == StreamInv /\ Numbered

\* Nobody has taken a number.
LEMMA InitDelivery == Init => DeliveryInv
<1> SUFFICES ASSUME Init PROVE DeliveryInv
  OBVIOUS
<1>1. StreamInv
  BY InitStreams DEF Init
<1> QED
  BY <1>1 DEF Init, DeliveryInv, Numbered

\* What is sent is a snapshot, whichever number it has and whatever it lists.
LEMMA SendDelivers ==
  ASSUME DeliveryInv, NEW number \in drafts, NEW table \in WireTables,
         SendSnapshot(number, table)
  PROVE  DeliveryInv'
<1> DEFINE draft == [version |-> number, routes |-> table, rev |-> 0]
<1>1. /\ chan' = Send(chan, receivers, draft) /\ drafts' = drafts \ {number}
      /\ UNCHANGED <<receivers, up, streamVars, version>>
  BY DEF SendSnapshot
<1>2. draft \in Snapshots
  BY DEF DeliveryInv, Numbered, Snapshots
<1>3. StreamInv'
  BY <1>1, <1>2, StoreKeeps DEF DeliveryInv
<1> QED
  BY <1>1, <1>3 DEF DeliveryInv, Numbered

\* A start changes nothing that a stream knows.
LEMMA StartDelivers ==
  ASSUME DeliveryInv, Start
  PROVE  DeliveryInv'
<1>1. /\ ~up /\ up' = TRUE
      /\ UNCHANGED <<chan, receivers, streamVars, version, drafts>>
  BY DEF Start, publisherVars
<1>2. StreamInv'
  BY <1>1, StartKeeps DEF DeliveryInv, StreamInv, Types
<1> QED
  BY <1>1, <1>2 DEF DeliveryInv, Numbered

\* A crash empties the wires with the counter.
LEMMA CrashDelivers ==
  ASSUME DeliveryInv, Crash
  PROVE  DeliveryInv'
<1>1. /\ up' = FALSE /\ version' = 0 /\ drafts' = {}
      /\ chan' = NewChannel(EmptySnapshot) /\ receivers' = {} /\ ServerDies
  BY DEF Crash
<1>2. StreamInv'
  BY <1>1, CrashKeeps DEF DeliveryInv
<1> QED
  BY <1>1, <1>2 DEF DeliveryInv, Numbered

\* Every step keeps the invariant.
LEMMA StepDelivery == DeliveryInv /\ [Next]_deliveryVars => DeliveryInv'
<1> SUFFICES ASSUME DeliveryInv, [Next]_deliveryVars PROVE DeliveryInv'
  OBVIOUS
<1>1. CASE StreamNext /\ UNCHANGED publisherVars
  BY <1>1, StreamStepKeeps DEF DeliveryInv, Numbered, publisherVars
<1>2. CASE BuildSnapshot
  <2>1. /\ version' = version + 1 /\ drafts' = drafts \cup {version + 1}
        /\ UNCHANGED <<chan, receivers, up, streamVars>>
    BY <1>2 DEF BuildSnapshot
  <2>2. StreamInv'
    BY <2>1, StutterKeeps DEF DeliveryInv
  <2> QED
    BY <2>1, <2>2 DEF DeliveryInv, Numbered
<1>3. CASE UNCHANGED deliveryVars
  <2>1. UNCHANGED <<chan, receivers, up, streamVars, version, drafts>>
    BY <1>3 DEF deliveryVars, publisherVars
  <2> QED
    BY <2>1, StutterKeeps DEF DeliveryInv, Numbered
<1> QED
  BY <1>1, <1>2, <1>3, SendDelivers, StartDelivers, CrashDelivers DEF Next

\* The two halves of every stream agree on its state, and no queue outgrows its
\* window.
THEOREM StreamsTypeCorrect == Spec => []StreamTypeOK
<1>1. DeliveryInv => StreamTypeOK
  BY StreamInvSuffices DEF DeliveryInv
<1> QED
  BY <1>1, InitDelivery, StepDelivery, PTL DEF Spec

\* Whatever was stored between subscribe, clone and first poll, or skipped
\* since, a data plane that has caught up serves what the channel holds.
THEOREM DrainedIsCurrentHolds == Spec => []DrainedIsCurrent
<1>1. DeliveryInv => DrainedIsCurrent
  BY StreamInvSuffices DEF DeliveryInv
<1> QED
  BY <1>1, InitDelivery, StepDelivery, PTL DEF Spec

\* In one life of the control plane no data plane goes back to an earlier
\* store, in whatever order the handlers send the numbers that they took, and
\* however often its streams end and begin again.
THEOREM StreamInOrderHolds == Spec => []StreamInOrder
<1>1. DeliveryInv => StreamInOrder
  BY StreamInvSuffices DEF DeliveryInv
<1> QED
  BY <1>1, InitDelivery, StepDelivery, PTL DEF Spec
=============================================================================
