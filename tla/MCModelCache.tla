--------------------------- MODULE MCModelCache ---------------------------
(* ModelCache for TLC: two readers on one connection race for its lock and its
   row. *)
EXTENDS ModelCache
=============================================================================
