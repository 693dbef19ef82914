---------------------------- MODULE PolicyMerge ----------------------------
(***************************************************************************)
(* deep_merge_default_with_params: a route's parameters for a policy are   *)
(* laid over the policy's default configuration before the result is       *)
(* checked against its schema.                                             *)
(*                                                                         *)
(* A JSON document is a function from the key paths that exist in it to    *)
(* what is found there: Object, or a leaf, which is everything that the    *)
(* code replaces as a whole (scalars, null and arrays alike).  The path    *)
(* << >> is the document itself.                                           *)
(*                                                                         *)
(* merge_objects visits the keys of the overlay one by one and calls       *)
(* itself where both sides are objects.  todo holds the paths that its     *)
(* loops have yet to visit; any order of visits is allowed, the recursion's *)
(* and the key order of serde_json's map among them.                       *)
(***************************************************************************)
EXTENDS Naturals, SequencesExt

CONSTANTS Keys, Leaves, Object, Defaults, Params, NoParams

Paths == Seq(Keys)

\* Whatever has something below it is an object.
IsDocument(t) ==
  /\ DOMAIN t \subseteq Paths
  /\ t \in [DOMAIN t -> Leaves \cup {Object}]
  /\ << >> \in DOMAIN t
  /\ \A p \in DOMAIN t : \A n \in 0..(Len(p) - 1) :
       SubSeq(p, 1, n) \in DOMAIN t /\ t[SubSeq(p, 1, n)] = Object

ASSUME Documents ==
  /\ Object \notin Leaves
  /\ \A t \in Defaults \cup (Params \ {NoParams}) : IsDocument(t)

VARIABLES
  default,   \* the policy's default_config
  params,    \* the reference's params, or NoParams
  merged,    \* the copy of default that is being changed
  todo,
  pc

vars == <<default, params, merged, todo, pc>>

Entries(t, p) == {q \in DOMAIN t : Len(q) = Len(p) + 1 /\ IsPrefix(p, q)}

Init ==
  /\ default \in Defaults
  /\ params \in Params
  /\ merged = default
  /\ todo = {}
  /\ pc = "start"

\* One of the two is no object: a ValidationError.
Refuse ==
  /\ pc = "start"
  /\ \/ default[<< >>] # Object
     \/ params # NoParams /\ params[<< >>] # Object
  /\ pc' = "error"
  /\ UNCHANGED <<default, params, merged, todo>>

Begin ==
  /\ pc = "start"
  /\ default[<< >>] = Object
  /\ IF params = NoParams
       THEN todo' = {}
       ELSE params[<< >>] = Object /\ todo' = Entries(params, << >>)
  /\ pc' = "merging"
  /\ UNCHANGED <<default, params, merged>>

\* Mutant of Graft: what was below p stays there.
GraftOver(t, u, p) ==
  LET new == {q \in DOMAIN u : IsPrefix(p, q)}
  IN  [q \in DOMAIN t \cup new |-> IF q \in new THEN u[q] ELSE t[q]]

\* t with everything at p replaced by, or p added with, what u has there.
Graft(t, u, p) ==
  LET new == {q \in DOMAIN u : IsPrefix(p, q)}
  IN  [q \in {r \in DOMAIN t : ~IsPrefix(p, r)} \cup new |->
         IF q \in new THEN u[q] ELSE t[q]]

\* Mutants of MergeKey: objects are replaced like leaves; a key that the
\* default lacks is dropped; the key of an object is visited once more.
MergeKeyShallow(p) ==
  /\ pc = "merging"
  /\ p \in todo
  /\ merged' = Graft(merged, params, p)
  /\ todo' = todo \ {p}
  /\ UNCHANGED <<default, params, pc>>

MergeKeyKnown(p) ==
  /\ pc = "merging"
  /\ p \in todo
  /\ IF p \in DOMAIN merged /\ merged[p] = Object /\ params[p] = Object
       THEN /\ todo' = (todo \ {p}) \cup Entries(params, p)
            /\ UNCHANGED merged
       ELSE /\ merged' = IF p \in DOMAIN merged
                           THEN Graft(merged, params, p) ELSE merged
            /\ todo' = todo \ {p}
  /\ UNCHANGED <<default, params, pc>>

MergeKeyAgain(p) ==
  /\ pc = "merging"
  /\ p \in todo
  /\ IF p \in DOMAIN merged /\ merged[p] = Object /\ params[p] = Object
       THEN /\ todo' = todo \cup Entries(params, p)
            /\ UNCHANGED merged
       ELSE /\ merged' = Graft(merged, params, p)
            /\ todo' = todo \ {p}
  /\ UNCHANGED <<default, params, pc>>

\* One round of the loop in merge_objects.
MergeKey(p) ==
  /\ pc = "merging"
  /\ p \in todo
  /\ IF p \in DOMAIN merged /\ merged[p] = Object /\ params[p] = Object
       THEN /\ todo' = (todo \ {p}) \cup Entries(params, p)
            /\ UNCHANGED merged
       ELSE /\ merged' = Graft(merged, params, p)
            /\ todo' = todo \ {p}
  /\ UNCHANGED <<default, params, pc>>

End ==
  /\ pc = "merging"
  /\ todo = {}
  /\ pc' = "done"
  /\ UNCHANGED <<default, params, merged, todo>>

Next == Refuse \/ Begin \/ (\E p \in todo : MergeKey(p)) \/ End

Spec == Init /\ [][Next]_vars
FairSpec == Spec /\ WF_vars(Next)

-----------------------------------------------------------------------------
(* Properties *)

\* Types; the merged value is a document at every step, and the loops wait
\* only for keys of the overlay.
TypeOK ==
  /\ default \in Defaults
  /\ params \in Params
  /\ IsDocument(merged)
  /\ todo # {} => params # NoParams /\ todo \subseteq DOMAIN params
  /\ pc \in {"start", "merging", "done", "error"}

\* What laying the part S of document u over document t means, path by path:
\* u says what is found at its own paths, and t what is found elsewhere, unless
\* u has a leaf above.
Overlaid(t, u, S) ==
  [p \in S \cup {q \in DOMAIN t :
                   \A r \in S : IsPrefix(r, q) => u[r] = Object} |->
     IF p \in S THEN u[p] ELSE t[p]]

\* The paths of the overlay that need no more visits.
Visited == {q \in DOMAIN params : \A p \in todo : ~IsPrefix(p, q)}

\* The merged value is the default overlaid with what has been visited, in
\* whatever order the keys come.
MergedSoFar ==
  pc = "merging" /\ params # NoParams => merged = Overlaid(default, params, Visited)

\* The merge keeps every key of the default that the parameters do not mention,
\* at any depth, takes every key of the parameters, and replaces leaves and
\* arrays as a whole (deep_merge_keeps_existing_nested_keys and
\* arrays_are_replaced_instead_of_appended in service/merge.rs); without
\* parameters it is the default.
MergedByPath ==
  pc = "done" =>
    merged = IF params = NoParams
               THEN default ELSE Overlaid(default, params, DOMAIN params)

\* The recursion ends, on every document.
MergeEnds == <>(pc \in {"done", "error"})
=============================================================================
