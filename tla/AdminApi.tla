------------------------------ MODULE AdminApi ------------------------------
(***************************************************************************)
(* The vocabulary of the control plane's admin API: the requests its four  *)
(* writing handlers take, and the rules by which a policy specification or *)
(* a route's policy list is accepted.                                      *)
(*                                                                         *)
(* The content of a route without its id is an opaque body; PoliciesOf     *)
(* gives the policy references it carries, in their order.  What a policy  *)
(* has besides its stages, its hash, schema and default, is an opaque      *)
(* configuration.  SoundConfigs are those with a hash that is not blank, a *)
(* default that is an object, and a schema that compiles and accepts this  *)
(* default; <<c, p>> is in Conforming when the default of c merged with    *)
(* the parameters p satisfies the schema of c.                             *)
(***************************************************************************)
EXTENDS Naturals, Sequences, ConfigProto

CONSTANTS
  Tasks,          \* request handlers that may run at the same time
  Bodies,         \* RouteSpec without its id
  PoliciesOf,     \* body -> sequence of its RoutePolicy references
  PolicyKeys,     \* (id, version): the primary key of a policy
  Specs,          \* PolicySpec contents that clients post
  Stages,
  AllowedStages,
  Params,         \* "params" of a reference, absent params included
  ObjectParams,   \* those that are absent or a JSON object
  Configs,        \* a policy without its key and its stages
  SoundConfigs,   \* those that validate_policy_spec accepts
  Conforming,
  NoPolicy,
  Faults          \* which of "cancel", "db_error", "crash" may happen

PolicyRefs == [key : PolicyKeys, stage : Stages, params : Params]

ASSUME RequestVocabulary ==
  /\ PoliciesOf \in [Bodies -> Seq(PolicyRefs)]
  /\ Specs \subseteq [stages : SUBSET Stages, config : Configs]
  /\ NoRoute \notin Bodies
  /\ NoPolicy \notin Specs

RouteWrites == [op : {"create_route", "update_route"},
                id : RouteIds, body : Bodies]
RouteDeletes == [op : {"delete_route"}, id : RouteIds]
PolicyWrites == [op : {"create_policy"}, key : PolicyKeys, spec : Specs]
Requests == RouteWrites \cup RouteDeletes \cup PolicyWrites

NoRequest == [op |-> "none"]

RouteTables == [RouteIds -> Bodies \cup {NoRoute}]
PolicyTables == [PolicyKeys -> Specs \cup {NoPolicy}]
Replies == {"none", "success", "invalid", "conflict", "missing", "error"}

\* validate_supported_stages.
SupportedStages(stages) == stages # {} /\ stages \subseteq AllowedStages

\* validate_policy_spec: its checks of hash, default and schema make up
\* SoundConfigs.
ValidSpec(spec) ==
  /\ SupportedStages(spec.stages)
  /\ spec.config \in SoundConfigs

\* db::get_policy_version; NoPolicy when there is no such row.  A row reads as
\* it was inserted: the fallbacks of row_to_policy are for columns and JSON that
\* insert_policy and the migrations do not leave behind.
PolicyOf(table, key) == table[key]

\* What validate_route_policies asks of a configuration and parameters: the
\* schema compiles, the default merges with the parameters (PolicyMerge shows
\* how), and the schema accepts the result.
Accepts(config, params) == <<config, params>> \in Conforming

\* One round of the loop in validate_route_policies: does the table of
\* policies admit this reference?
Admits(table, ref) ==
  /\ ref.params \in ObjectParams
  /\ PolicyOf(table, ref.key) # NoPolicy
  /\ ref.stage \in PolicyOf(table, ref.key).stages
  /\ Accepts(PolicyOf(table, ref.key).config, ref.params)

AdmitsAll(table, body) ==
  \A i \in 1..Len(PoliciesOf[body]) : Admits(table, PoliciesOf[body][i])
=============================================================================
