---------------------------- MODULE MCMovieManager ----------------------------
(* Instances for TLC. *)
EXTENDS MovieManager, TLC

Symmetry == Permutations(Call) \cup Permutations(File) \cup Permutations(TmdbID)
=============================================================================
