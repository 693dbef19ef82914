--------------------------- MODULE MCControlPlane ---------------------------
(***************************************************************************)
(* Small instances of ControlPlane for TLC.                                *)
(***************************************************************************)
EXTENDS ControlPlane, TLC

CONSTANTS t1, t2, t3, r1, r2, s1, plain, weighted, guarded, doubly, misused,
          k1, k2, pre, post, loud, none, scalar, strict, broken, wire1, wire2

\* Two policies' worth of references: guarded needs k1, doubly needs k1 and
\* k2, misused passes parameters that are no JSON object and then parameters
\* that break the schema.  plain and weighted differ in nothing that
\* route_to_proto keeps.
AllRefs ==
  (plain    :> << >>) @@
  (weighted :> << >>) @@
  (guarded  :> <<[key |-> k1, stage |-> pre, params |-> none]>>) @@
  (doubly   :> <<[key |-> k1, stage |-> pre, params |-> none],
                 [key |-> k2, stage |-> post, params |-> none]>>) @@
  (misused  :> <<[key |-> k1, stage |-> pre, params |-> scalar],
                 [key |-> k1, stage |-> pre, params |-> loud]>>)

MCPoliciesOf == [b \in Bodies |-> AllRefs[b]]

AllWire ==
  (plain :> wire1) @@ (weighted :> wire1) @@ (guarded :> wire2) @@
  (doubly :> wire2) @@ (misused :> wire2)

MCToProto == [b \in Bodies |-> AllWire[b]]

\* One for each stage, and one whose schema rejects its default.
MCSpecs == {[stages |-> {pre}, config |-> strict],
            [stages |-> {post}, config |-> strict],
            [stages |-> {pre}, config |-> broken]}

OneSpec == {[stages |-> {pre}, config |-> strict]}

MCConforming == {<<strict, none>>}

TaskSymmetry == Permutations(Tasks)
=============================================================================
