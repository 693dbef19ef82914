----------------------------- MODULE AdminStore -----------------------------
(***************************************************************************)
(* What the admin API promises about its tables, whatever the interleaving *)
(* of handlers: a request takes effect at one instant between its arrival  *)
(* and its answer, judged against the tables of that instant.  A route is  *)
(* written only when every policy it names admits it then, a request is    *)
(* refused only for a reason that held at some instant while it ran, and a *)
(* request whose effect took place never answers that it was refused.      *)
(*                                                                         *)
(* The handlers that implement this read the policies one query at a time  *)
(* and write in yet another query; see ControlPlane.                       *)
(***************************************************************************)
EXTENDS AdminApi

VARIABLES
  policies,
  routes,
  phase,     \* task -> "idle", "pending", "rejected" or "committed"
  req,       \* task -> the request it serves
  reply      \* task -> the answer to its latest request

storeVars == <<policies, routes, phase, req, reply>>

Init ==
  /\ policies = [k \in PolicyKeys |-> NoPolicy]
  /\ routes = [id \in RouteIds |-> NoRoute]
  /\ phase = [t \in Tasks |-> "idle"]
  /\ req = [t \in Tasks |-> NoRequest]
  /\ reply = [t \in Tasks |-> "none"]

Submit(t, r) ==
  /\ phase[t] = "idle"
  /\ phase' = [phase EXCEPT ![t] = "pending"]
  /\ req' = [req EXCEPT ![t] = r]
  /\ reply' = [reply EXCEPT ![t] = "none"]
  /\ UNCHANGED <<policies, routes>>

Finish(t, answer) ==
  /\ phase' = [phase EXCEPT ![t] = "idle"]
  /\ req' = [req EXCEPT ![t] = NoRequest]
  /\ reply' = [reply EXCEPT ![t] = answer]
  /\ UNCHANGED <<policies, routes>>

\* A policy specification is judged by itself, as it arrives.
RefuseSpec(t, r) ==
  /\ phase[t] = "idle"
  /\ r.op = "create_policy"
  /\ ~ValidSpec(r.spec)
  /\ Finish(t, "invalid")

\* A request takes effect.
CommitPolicy(t) ==
  /\ req[t].op = "create_policy"
  /\ policies[req[t].key] = NoPolicy
  /\ ValidSpec(req[t].spec)
  /\ policies' = [policies EXCEPT ![req[t].key] = req[t].spec]
  /\ UNCHANGED routes

CommitRoute(t) ==
  /\ \/ req[t].op = "create_route" /\ routes[req[t].id] = NoRoute
     \/ req[t].op = "update_route" /\ routes[req[t].id] # NoRoute
  /\ AdmitsAll(policies, req[t].body)
  /\ routes' = [routes EXCEPT ![req[t].id] = req[t].body]
  /\ UNCHANGED policies

CommitDelete(t) ==
  /\ req[t].op = "delete_route"
  /\ routes[req[t].id] # NoRoute
  /\ routes' = [routes EXCEPT ![req[t].id] = NoRoute]
  /\ UNCHANGED policies

Commit(t) ==
  /\ phase[t] = "pending"
  /\ CommitPolicy(t) \/ CommitRoute(t) \/ CommitDelete(t)
  /\ phase' = [phase EXCEPT ![t] = "committed"]
  /\ UNCHANGED <<req, reply>>

\* A route is judged inadmissible at the instant one of its policies is.
Reject(t) ==
  /\ phase[t] = "pending"
  /\ req[t].op \in {"create_route", "update_route"}
  /\ ~AdmitsAll(policies, req[t].body)
  /\ phase' = [phase EXCEPT ![t] = "rejected"]
  /\ UNCHANGED <<policies, routes, req, reply>>

\* The row is already there, or is not.
Conflict(t) ==
  /\ phase[t] = "pending"
  /\ \/ req[t].op = "create_route" /\ routes[req[t].id] # NoRoute
     \/ req[t].op = "create_policy" /\ policies[req[t].key] # NoPolicy
  /\ Finish(t, "conflict")

Missing(t) ==
  /\ phase[t] = "pending"
  /\ req[t].op \in {"update_route", "delete_route"}
  /\ routes[req[t].id] = NoRoute
  /\ Finish(t, "missing")

Answer(t) ==
  \/ phase[t] = "committed" /\ Finish(t, "success")
  \/ phase[t] = "rejected" /\ Finish(t, "invalid")

\* A database error while the policies of a route are read is answered like
\* an invalid route; after the effect it is answered like a failure.
Fail(t) ==
  /\ "db_error" \in Faults
  /\ \/ phase[t] \in {"pending", "rejected"} /\ Finish(t, "invalid")
     \/ phase[t] \in {"pending", "committed"} /\ Finish(t, "error")

Abandon(t) ==
  /\ "cancel" \in Faults
  /\ phase[t] # "idle"
  /\ Finish(t, "none")

Crash ==
  /\ "crash" \in Faults
  /\ phase' = [t \in Tasks |-> "idle"]
  /\ req' = [t \in Tasks |-> NoRequest]
  /\ reply' = [t \in Tasks |-> "none"]
  /\ UNCHANGED <<policies, routes>>

Next ==
  \/ \E t \in Tasks :
       \/ \E r \in Requests : Submit(t, r) \/ RefuseSpec(t, r)
       \/ Commit(t) \/ Reject(t) \/ Conflict(t) \/ Missing(t)
       \/ Answer(t) \/ Fail(t) \/ Abandon(t)
  \/ Crash

Spec == Init /\ [][Next]_storeVars
=============================================================================
