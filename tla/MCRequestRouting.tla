-------------------------- MODULE MCRequestRouting --------------------------
(***************************************************************************)
(* Small instances of RequestRouting for TLC.                              *)
(***************************************************************************)
EXTENDS RequestRouting, TLC

CONSTANTS w1, w2, a, b, get, getLower, post, api, apiPort, web, u1, u2, u3

MCFoldMethod == (get :> "GET") @@ (getLower :> "GET") @@ (post :> "POST")
MCNormalHost == (api :> "api") @@ (apiPort :> "api") @@ (web :> "web")

Route(id, prefix, methods, host, upstreams) ==
  [id |-> id, prefix |-> prefix, methods |-> methods, host |-> host,
   upstreams |-> upstreams]

\* Two generations of one route: alone, and where it ties with a route that
\* comes before it, next to one with a bad upstream.
TurnTables ==
  {<<Route(1, <<a>>, {}, Absent, <<u1, u2, u3>>)>>,
   <<Route(2, Absent, {}, Absent, <<u3>>), Route(3, <<a>>, {}, Absent, <<u3>>),
     Route(1, <<a>>, {}, Absent, <<u2, u1>>)>>}

TurnArrivals ==
  {[path |-> <<a>>, method |-> get, host |-> Absent],
   [path |-> <<b>>, method |-> get, host |-> Absent]}
=============================================================================
