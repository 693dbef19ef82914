--------------------------- MODULE MCPolicyMerge ---------------------------
(***************************************************************************)
(* A small instance of PolicyMerge for TLC: all documents over the keys    *)
(* auth and scopes and three keys below them, with one leaf for defaults   *)
(* and another for parameters.                                             *)
(***************************************************************************)
EXTENDS PolicyMerge, TLC

CONSTANTS auth, scopes, ours, theirs

MCPaths ==
  {<< >>, <<auth>>, <<scopes>>, <<auth, auth>>, <<auth, scopes>>,
   <<scopes, scopes>>}

DocumentsOf(leaf) ==
  {t \in UNION {[S -> {leaf, Object}] : S \in SUBSET MCPaths} : IsDocument(t)}

MCDefaults == DocumentsOf(ours)
MCParams == DocumentsOf(theirs) \cup {NoParams}
=============================================================================
