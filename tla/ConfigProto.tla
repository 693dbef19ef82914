----------------------------- MODULE ConfigProto -----------------------------
(***************************************************************************)
(* The Snapshot message of gateway-proto/proto/gateway.proto, which the    *)
(* control plane builds and the data plane applies.  Routes are sent in    *)
(* the order of their unique ids, so a snapshot's routes are a table; a    *)
(* route without its id is an opaque wire body.                            *)
(*                                                                         *)
(* rev is no field of the message.  It records the revision of the routes  *)
(* table that the snapshot lists, for properties and proofs.               *)
(***************************************************************************)
EXTENDS Naturals

CONSTANTS RouteIds, WireBodies, NoRoute

ASSUME NoRouteIsNoBody == NoRoute \notin WireBodies

NoRoutes == [id \in RouteIds |-> NoRoute]
WireTables == [RouteIds -> WireBodies \cup {NoRoute}]
Snapshots == [version : Nat, routes : WireTables, rev : Nat]

\* What ConfigState::new puts into the channel.
EmptySnapshot == [version |-> 0, routes |-> NoRoutes, rev |-> 0]
=============================================================================
