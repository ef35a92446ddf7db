---------------------------- MODULE MCSchemaCache ----------------------------
(* Small instances of SchemaCache for TLC.                                   *)
EXTENDS SchemaCache, TLC

Symmetry == Permutations(Files) \cup Permutations(Editors) \cup Permutations(Pullers)

=============================================================================
