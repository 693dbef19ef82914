----------------------------- MODULE MCGateway -----------------------------
(***************************************************************************)
(* Small instances of Gateway for TLC: routes without policies, which      *)
(* MCControlPlane covers, and one data plane.                              *)
(***************************************************************************)
EXTENDS Gateway, TLC

CONSTANTS t1, t2, r1, r2, plain, weighted, wire1, served, d1, k1, pre, strict

MCPoliciesOf == [b \in Bodies |-> << >>]
MCToProto == [b \in Bodies |-> wire1]
MCFromProto == [w \in WireBodies |-> served]
MCSpecs == {[stages |-> {pre}, config |-> strict]}
=============================================================================
