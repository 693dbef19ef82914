------------------------ MODULE MCSchemaMigration ------------------------
(***************************************************************************)
(* A small instance of SchemaMigration for TLC.                            *)
(***************************************************************************)
EXTENDS SchemaMigration

CONSTANTS p1, p2, k1, k2, null, braces, object
=============================================================================
