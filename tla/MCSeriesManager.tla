---------------------------- MODULE MCSeriesManager ----------------------------
(* Instances for TLC. *)
EXTENDS SeriesManager, TLC

Symmetry == Permutations(Call) \cup Permutations(File)

\* Two episodes of one season.
Episodes == {[series |-> 1, season |-> 1, episode |-> n] : n \in 1 .. 2}
=============================================================================
