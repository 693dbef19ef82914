---------------------------- MODULE MCRoutePath ----------------------------
(***************************************************************************)
(* A small instance of RoutePath for TLC.  Sound rules tie with others in  *)
(* every respect but one; odd ones have values of the wrong kind.          *)
(***************************************************************************)
EXTENDS RoutePath, TLC

CONSTANTS w1, a, b, get, getLower, post, api, apiPort, web, u1

MCFoldMethod == (get :> "GET") @@ (getLower :> "GET") @@ (post :> "POST")
MCNormalHost == (api :> "api") @@ (apiPort :> "api") @@ (web :> "web")

Str(v) == [string |-> v]
Arr(items) == [array |-> items]
Obj(fields) == [object |-> fields]
Odd == [other |-> 42]

SoundRules ==
  {Obj(<< >>),
   Obj([path_prefix |-> Str(<<a>>)]),
   Obj([path_prefix |-> Str(<<a>>), method |-> Arr(<<Str(getLower)>>)]),
   Obj([path_prefix |-> Str(<<a>>), host |-> Str(api)]),
   Obj([path_prefix |-> Str(<<a>>), host |-> Str(web)]),
   Obj([path_prefix |-> Str(<<a, b>>), method |-> Arr(<<Str(post)>>)]),
   Obj([path_prefix |-> Str(<<a>>), method |-> Arr(<<Str(get), Str(post)>>),
        host |-> Str(apiPort)])}

OddRules ==
  {Odd,
   Obj([path_prefix |-> Str(<< >>), method |-> Arr(<< >>), host |-> Str(Blank)]),
   Obj([path_prefix |-> Str(<<a>>), method |-> Str(post)]),
   Obj([path_prefix |-> Str(<<a>>), method |-> Arr(<<Odd, Str(post)>>)]),
   Obj([path_prefix |-> Odd, method |-> Arr(<<Odd>>), host |-> Str(api)])}

RouteSpec(n, rules) == [id |-> n, match |-> rules, upstreams |-> <<u1>>]

\* Every assignment of rules to up to three ids.
MCListings ==
  {<<RouteSpec(1, r), RouteSpec(2, s)>> : r, s \in SoundRules \cup OddRules} \cup
  {<<RouteSpec(1, r), RouteSpec(2, s), RouteSpec(3, t)>> : r, s, t \in SoundRules}

MCTables == {Delivered(listing) : listing \in MCListings}

MCArrivals ==
  [path : {<<a>>, <<a, b>>, <<b>>}, method : {get, post}, host : {api, Absent}]
=============================================================================
