-------------------------- MODULE MCConfigDelivery --------------------------
(***************************************************************************)
(* Small instances of ConfigDelivery for TLC.  A table with both routes    *)
(* does not fit a message when DecodeLimit is 1.                           *)
(***************************************************************************)
EXTENDS ConfigDelivery, TLC

CONSTANTS a, b, w1, w2, x

\* The two wire bodies differ only in what a data plane drops.
MCFromProto == [w \in WireBodies |-> x]
=============================================================================
