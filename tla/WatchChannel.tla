---------------------------- MODULE WatchChannel ----------------------------
(***************************************************************************)
(* tokio::sync::watch as ConfigState uses it: one slot that holds the      *)
(* latest value, a number that counts the stores into the slot, and        *)
(* receivers that each remember the number they saw last.  The library is  *)
(* not part of the repository; what is modelled is what the calls in       *)
(* gateway-cp/src/grpc/mod.rs rely on.                                     *)
(***************************************************************************)
EXTENDS Naturals

\* watch::channel(v).
NewChannel(v) == [value |-> v, seq |-> 0]

\* Sender::send.  With no receiver alive it returns an error and leaves the
\* slot as it was; the caller in publish_from_db ignores the error.
Send(ch, receivers, v) ==
  IF receivers = {} THEN ch ELSE [value |-> v, seq |-> ch.seq + 1]

\* Receiver::changed: is there a store the receiver has not seen?
HasChanged(ch, seen) == ch.seq # seen
=============================================================================
