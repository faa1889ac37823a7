-------------------------- MODULE TranscodingSession --------------------------
(***************************************************************************)
(* One ffmpeg process and its output directory (ffmpeg/session.go), as a   *)
(* record and the operations on it.  ffmpeg itself is outside the          *)
(* repository: it writes init.mp4, then one segment file after another,    *)
(* the newest of which may still be growing.                               *)
(***************************************************************************)
EXTENDS Integers

CONSTANT LastSegment   \* the last segment index the file can be cut into

ASSUME LastSegmentAssumption == LastSegment \in Nat

\* The magic index under which the init segment is requested and listed.
InitSegmentIdx == -1

(* start      index of the first segment file                              *)
(* newest     index of the newest segment file, start - 1 if there is none *)
(* init       init.mp4 exists and is not empty                             *)
(* terminated the process has exited (Terminated)                          *)
(* dir        OutputDir exists                                             *)
(* throttled  what the last feedback answer said (Throttled)               *)
TranscodingSessions ==
  [start : Nat, newest : Int, init : BOOLEAN, terminated : BOOLEAN,
   dir : BOOLEAN, throttled : BOOLEAN]

NoTranscodingSession ==
  [start |-> 0, newest |-> -1, init |-> FALSE, terminated |-> TRUE,
   dir |-> FALSE, throttled |-> FALSE]

NewTranscodingSession(segmentStartIndex) ==
  [start |-> segmentStartIndex, newest |-> segmentStartIndex - 1,
   init |-> FALSE, terminated |-> FALSE, dir |-> TRUE, throttled |-> FALSE]

\* Mutant: the newest segment is left out for good.
AvailableSegments_NeverNewest(t) ==
  (IF t.init THEN {InitSegmentIdx} ELSE {}) \cup (t.start .. t.newest - 1)

\* The segments a reader may be given: the newest one is left out while
\* ffmpeg runs, because it may still be written to.
AvailableSegments(t) ==
  (IF t.init THEN {InitSegmentIdx} ELSE {})
    \cup (t.start .. (IF t.terminated THEN t.newest ELSE t.newest - 1))

\* SIGTERM to the process group, then RemoveAll(OutputDir).
Destroy(t) == [t EXCEPT !.dir = FALSE, !.terminated = TRUE]

\* ffmpeg makes progress: the init segment first, then the next segment.
CanTranscode(t) == ~t.terminated /\ (t.init => t.newest < LastSegment)

Transcoded(t) ==
  IF ~t.init THEN [t EXCEPT !.init = TRUE] ELSE [t EXCEPT !.newest = @ + 1]

\* The process exits, having written everything or after an error of its
\* own; the goroutine of Start then sets Terminated.
Exited(t) == [t EXCEPT !.terminated = TRUE]
===============================================================================
