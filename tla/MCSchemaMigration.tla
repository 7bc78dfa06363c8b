-------------------------- MODULE MCSchemaMigration --------------------------
(* Two devices, two of the added columns (one is not in CREATE TABLE either). *)
EXTENDS SchemaMigration
CONSTANTS m1, m2
=============================================================================
