--------------------------- MODULE MCPlaybackSession ---------------------------
(* Instances of PlaybackSession for TLC. *)
EXTENDS PlaybackSession, TLC

\* Sessions, requests and players are interchangeable in safety runs.
Symmetry == Permutations(Sid) \cup Permutations(Request) \cup Permutations(Player)
===============================================================================
