--------------------------- MODULE MCLibraryManager ---------------------------
(* Instances for TLC. *)
EXTENDS LibraryManager
=============================================================================
