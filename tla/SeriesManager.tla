----------------------------- MODULE SeriesManager -----------------------------
(***************************************************************************)
(* Series, their seasons and episodes, and the files of the episodes:      *)
(* identifying and retagging a file, deleting it, collecting what has no   *)
(* file left and refreshing metadata (metadata/managers/metadata/series.go *)
(* and metadata.go, metadata/resolvers/update_episode_file_metadata.go),   *)
(* over the tables as GORM updates them (metadata/db/series.go).           *)
(*                                                                         *)
(* Calls run concurrently; each statement or transaction is one step.  A   *)
(* call works on copies of rows.  Save writes the row of a copy and all    *)
(* that the copy has loaded with it, and inserts what is gone: these rows  *)
(* are deleted for good, so nothing keeps an old copy from coming back.    *)
(***************************************************************************)
EXTENDS Integers, FiniteSets

CONSTANTS
  Call,      \* goroutines that call the manager, one call after the other
  File,      \* rows of episode_files
  Key,       \* TmdbEpisodeKeys: what file names and attributes say
  MaxRows,   \* how many series, seasons and episodes are ever created
  None

\* One sequence of primary keys serves the three tables.  NoID is the parent of a
\* series, and the episode of a file that is not identified.
ID      == 1 .. MaxRows
NoID    == 0
Deleted == -1   \* instead of the episode of a file that is gone

Level == {"series", "season", "episode"}

\* A TmdbEpisodeKey: the TMDB ID of a series and two numbers.
ASSUME SeriesManagerAssumption ==
  /\ Key \subseteq [series : Nat, season : Nat, episode : Nat]
  /\ None \notin Call \cup Level
  /\ File \cap Int = {} /\ None \notin File
  /\ MaxRows \in Nat

VARIABLES
  row,                 \* what was inserted under each ID; it never changes
  table,               \* the rows there are
  episodeID,           \* the files: their EpisodeID
  seriesCreationMutex,
  call,                \* where each call is, and its copies
  restored,            \* history: rows that an old copy brought back
  raced,               \* history: rows and files whose parent was going, or
                       \* gone, when they were saved
  left                 \* history: rows that nobody is responsible for

historyVars == <<restored, raced, left>>
dbVars == <<row, table, episodeID>>
vars   == <<dbVars, seriesCreationMutex, call, historyVars>>

Rows == [level : Level \cup {None}, parent : ID \cup {NoID}, number : Nat]
NoRow == [level |-> None, parent |-> NoID, number |-> 0]

\* The episode of each file in a copy; NoID for files that are not.
Files   == [File -> ID \cup {NoID}]
NoFiles == [f \in File |-> NoID]

\* found is the row found last, rows and files are the copy that it came with,
\* old is the row to collect, and held are those whose lock the call has.
CallStates ==
  [at : {"idle", "lock", "create", "attach", "remove", "collect", "delete", "refresh"},
   file : File \cup {None}, key : Key \cup {None}, level : Level,
   found : ID \cup {NoID}, rows : SUBSET ID, files : Files,
   old : ID \cup {NoID}, held : SUBSET ID]

Idle == [at |-> "idle", file |-> None, key |-> None, level |-> "series",
         found |-> NoID, rows |-> {}, files |-> NoFiles, old |-> NoID, held |-> {}]

TypeOK ==
  /\ row \in [ID -> Rows]
  /\ table \subseteq {i \in ID : row[i] # NoRow}
  /\ episodeID \in [File -> ID \cup {NoID, Deleted}]
  /\ seriesCreationMutex \in Call \cup {None}
  /\ call \in [Call -> CallStates]
  /\ restored \subseteq ID /\ left \subseteq ID
  /\ raced \subseteq ID \cup File

Init ==
  /\ row = [i \in ID |-> NoRow]
  /\ table = {}
  /\ episodeID = [f \in File |-> NoID]
  /\ seriesCreationMutex = None
  /\ call = [c \in Call |-> Idle]
  /\ restored = {} /\ raced = {} /\ left = {}

-----------------------------------------------------------------------------
(* The tables.                                                             *)

Children(i)     == {j \in table : row[j].parent = i}
EpisodeFiles(i) == {f \in File : episodeID[f] = i}
IsEmpty(i)      == Children(i) = {} /\ EpisodeFiles(i) = {}

\* A row and those below it: the preloads of findSeries and findSeason.
Below(i) == {i} \cup Children(i) \cup UNION {Children(j) : j \in Children(i)}

\* A season is loaded with its series too, an episode without its season.
RowsWith(i) ==
  Below(i) \cup IF row[i].level = "season" THEN {row[i].parent} \cap table ELSE {}

FilesWith(i) ==
  [f \in File |-> IF episodeID[f] \in Below(i) THEN episodeID[f] ELSE NoID]

\* FindSeriesByTmdbID, FindSeasonBySeasonNumber, FindEpisodeByNumber.
FindRow(level, parent, number) ==
  {i \in table : row[i] = [level |-> level, parent |-> parent, number |-> number]}

\* Somebody has seen that i has nothing below it, and has yet to delete it.
Condemned(i) == \E c \in Call : call[c].at = "delete" /\ call[c].old = i

\* Episodes whose files F gives to others, but for the one to be collected next.
Unseen(F, old) ==
  {i \in ID \ {old} : \E f \in File : episodeID[f] = i /\ F[f] \notin {NoID, i}}

\* Save of the rows in S, of which new is not yet in its table, and of the files
\* in F; old is collected next.
Save(S, new, F, old) ==
  LET parents == {row'[i].parent : i \in S} \cup {F[f] : f \in File}
      unsafe  == {i \in ID : i \notin table \cup S \/ Condemned(i)}
      back    == (S \ new) \ table
  IN /\ table' = table \cup S
     /\ episodeID' = [f \in File |-> IF F[f] = NoID THEN episodeID[f] ELSE F[f]]
     /\ restored' = restored \cup back
     /\ raced' = (raced \ (S \cup {f \in File : F[f] # NoID}))
                   \cup {i \in S : row'[i].parent \in unsafe}
                   \cup {f \in File : F[f] \in unsafe}
     /\ left' = (left \cup back \cup Unseen(F, old)) \ parents

-----------------------------------------------------------------------------
(* Identifying and retagging.                                              *)

\* A file that the caller has loaded is matched, by its attributes or its path.
GetOrCreateEpisodeForEpisodeFile(c, f, k) ==
  /\ call[c].at = "idle" /\ episodeID[f] = NoID
  /\ call' = [call EXCEPT ![c] =
       [Idle EXCEPT !.at = "lock", !.file = f, !.key = k]]
  /\ UNCHANGED <<dbVars, seriesCreationMutex, historyVars>>

\* An administrator gives a file's series another TMDB ID; the numbers are those of
\* the file's name.  Each file has a goroutine of its own.
UpdateEpisodeFileMetadata(c, f, k) ==
  /\ call[c].at = "idle" /\ episodeID[f] # Deleted
  /\ call' = [call EXCEPT ![c] =
       [Idle EXCEPT !.at = "lock", !.file = f, !.key = k, !.old = episodeID[f]]]
  /\ UNCHANGED <<dbVars, seriesCreationMutex, historyVars>>

NextLevel(level) == IF level = "series" THEN "season" ELSE "episode"

\* With the row of one level, a call goes on to the next or to its file.
With(c, i, S, F) ==
  call' = [call EXCEPT ![c] =
    [@ EXCEPT !.at = IF call[c].level = "episode" THEN "attach" ELSE "lock",
              !.level = NextLevel(call[c].level), !.found = i, !.rows = S, !.files = F]]

\* The mutex is taken once per level.
Wanted(c) == FindRow(call[c].level, call[c].found, call[c].key[call[c].level])

Found(c) ==
  /\ call[c].at = "lock" /\ seriesCreationMutex = None
  /\ \E i \in Wanted(c) : With(c, i, RowsWith(i), FilesWith(i))
  /\ UNCHANGED <<dbVars, seriesCreationMutex, historyVars>>

\* Mutant: without the creation mutex.
NotFound_Unlocked(c) ==
  /\ call[c].at = "lock"
  /\ Wanted(c) = {}
  /\ call' = [call EXCEPT ![c] = [@ EXCEPT !.at = "create"]]
  /\ UNCHANGED <<dbVars, seriesCreationMutex, historyVars>>

NotFound(c) ==
  /\ call[c].at = "lock" /\ seriesCreationMutex = None
  /\ Wanted(c) = {}
  /\ seriesCreationMutex' = c
  /\ call' = [call EXCEPT ![c] = [@ EXCEPT !.at = "create"]]
  /\ UNCHANGED <<dbVars, historyVars>>

\* The agent has answered: the row is saved, with the copy of its parent, and
\* announced; the mutex is given up.
Create(c, i) ==
  /\ call[c].at = "create"
  /\ row[i] = NoRow /\ \A j \in ID : j < i => row[j] # NoRow
  /\ row' = [row EXCEPT ![i] = [level |-> call[c].level, parent |-> call[c].found,
                                number |-> call[c].key[call[c].level]]]
  /\ Save(call[c].rows \cup {i}, {i}, call[c].files, NoID)
  /\ With(c, i, call[c].rows \cup {i}, call[c].files)
  /\ seriesCreationMutex' = None

\* The rows created so far stay, though they have nothing below them.
AgentFails(c) ==
  /\ call[c].at = "create"
  /\ left' = left \cup {i \in call[c].rows : IsEmpty(i)}
  /\ call' = [call EXCEPT ![c] = Idle]
  /\ seriesCreationMutex' = None
  /\ UNCHANGED <<dbVars, restored, raced>>

Attach(c) ==
  /\ call[c].at = "attach"
  /\ UNCHANGED <<row, seriesCreationMutex>>
  /\ Save(call[c].rows, {}, [call[c].files EXCEPT ![call[c].file] = call[c].found],
          call[c].old)
  /\ call' = [call EXCEPT ![c] =
       IF @.old = NoID THEN Idle ELSE [Idle EXCEPT !.at = "collect", !.old = call[c].old]]

-----------------------------------------------------------------------------
(* Deleting files, and what has none left.                                 *)

\* Mutant: goes on with a file that is not found.
FindEpisodeFile_Unfound(c, f) ==
  /\ call[c].at = "idle"
  /\ call' = [call EXCEPT ![c] =
       [Idle EXCEPT !.at = "remove", !.file = f, !.old = episodeID[f]]]
  /\ UNCHANGED <<dbVars, seriesCreationMutex, historyVars>>

\* The watcher, RemoveMissingFiles or DeleteLibrary has loaded a file ...
FindEpisodeFile(c, f) ==
  /\ call[c].at = "idle" /\ episodeID[f] # Deleted
  /\ call' = [call EXCEPT ![c] =
       [Idle EXCEPT !.at = "remove", !.file = f, !.old = episodeID[f]]]
  /\ UNCHANGED <<dbVars, seriesCreationMutex, historyVars>>

\* ... and deletes it, to collect the episode that it had then.
DeleteWithStreams(c) ==
  /\ call[c].at = "remove"
  /\ episodeID' = [episodeID EXCEPT ![call[c].file] = Deleted]
  /\ raced' = raced \ {call[c].file}
  /\ left' = left \cup ({episodeID[call[c].file]} \cap (ID \ {call[c].old}))
  /\ call' = [call EXCEPT ![c] =
       IF @.old = NoID THEN Idle ELSE [Idle EXCEPT !.at = "collect", !.old = call[c].old]]
  /\ UNCHANGED <<row, table, seriesCreationMutex, restored>>

\* GarbageCollectEpisodeIfRequired takes the lock of the episode, then that of its
\* season, then that of its series, and looks each of them up with what it has.
Locked(c, i) == \E d \in Call \ {c} : i \in call[d].held

\* Mutant: without the lock of the row.
Collect_Unlocked(c) ==
  /\ call[c].at = "collect"
  /\ call' = [call EXCEPT ![c] =
       IF @.old \in table /\ IsEmpty(@.old) THEN [@ EXCEPT !.at = "delete"] ELSE Idle]
  /\ UNCHANGED <<dbVars, seriesCreationMutex, historyVars>>

\* Mutant: does not look for files.
Collect_Rows(c) ==
  /\ call[c].at = "collect" /\ ~Locked(c, call[c].old)
  /\ call' = [call EXCEPT ![c] =
       IF @.old \in table /\ Children(@.old) = {}
       THEN [@ EXCEPT !.at = "delete", !.held = call[c].held \cup {call[c].old}]
       ELSE Idle]
  /\ UNCHANGED <<dbVars, seriesCreationMutex, historyVars>>

Collect(c) ==
  /\ call[c].at = "collect" /\ ~Locked(c, call[c].old)
  /\ call' = [call EXCEPT ![c] =
       IF @.old \in table /\ IsEmpty(@.old)
       THEN [@ EXCEPT !.at = "delete", !.held = call[c].held \cup {call[c].old}]
       ELSE Idle]
  /\ UNCHANGED <<dbVars, seriesCreationMutex, historyVars>>

\* Mutant: leaves the season of the episode, and the series.
Delete_Episode(c) ==
  /\ call[c].at = "delete"
  /\ table' = table \ {call[c].old}
  /\ restored' = restored \ {call[c].old}
  /\ raced' = raced \ {call[c].old}
  /\ left' = left \ {call[c].old}
  /\ call' = [call EXCEPT ![c] = Idle]
  /\ UNCHANGED <<row, episodeID, seriesCreationMutex>>

\* The locks are given up when all is done.
Delete(c) ==
  /\ call[c].at = "delete"
  /\ table' = table \ {call[c].old}
  /\ restored' = restored \ {call[c].old}
  /\ raced' = raced \ {call[c].old}
  /\ left' = left \ {call[c].old}
  /\ call' = [call EXCEPT ![c] =
       IF row[@.old].level = "series" THEN Idle
       ELSE [@ EXCEPT !.at = "collect", !.old = row[call[c].old].parent]]
  /\ UNCHANGED <<row, episodeID, seriesCreationMutex>>

-----------------------------------------------------------------------------
(* Refreshing metadata, for one item or for all.                           *)

RefreshAgentMetadataForUUID(c, i) ==
  /\ call[c].at = "idle" /\ i \in table
  /\ call' = [call EXCEPT ![c] =
       [Idle EXCEPT !.at = "refresh", !.rows = RowsWith(i), !.files = FilesWith(i)]]
  /\ UNCHANGED <<dbVars, seriesCreationMutex, historyVars>>

\* The agent has answered.
SaveRefreshed(c) ==
  /\ call[c].at = "refresh"
  /\ UNCHANGED <<row, seriesCreationMutex>>
  /\ Save(call[c].rows, {}, call[c].files, NoID)
  /\ call' = [call EXCEPT ![c] = Idle]

RefreshFails(c) ==
  /\ call[c].at = "refresh"
  /\ call' = [call EXCEPT ![c] = Idle]
  /\ UNCHANGED <<dbVars, seriesCreationMutex, historyVars>>

-----------------------------------------------------------------------------
Start(c) ==
  \/ \E f \in File, k \in Key : GetOrCreateEpisodeForEpisodeFile(c, f, k)
  \/ \E f \in File, k \in Key : UpdateEpisodeFileMetadata(c, f, k)
  \/ \E f \in File : FindEpisodeFile(c, f)
  \/ \E i \in ID : RefreshAgentMetadataForUUID(c, i)

Lock(c) == Found(c) \/ NotFound(c)

Continue(c) ==
  \/ \E i \in ID : Create(c, i)
  \/ AgentFails(c)
  \/ Attach(c)
  \/ DeleteWithStreams(c)
  \/ Delete(c)
  \/ SaveRefreshed(c) \/ RefreshFails(c)

Next == \E c \in Call : Start(c) \/ Lock(c) \/ Continue(c) \/ Collect(c)

Spec == Init /\ [][Next]_vars

-----------------------------------------------------------------------------
(* Properties.                                                             *)

\* The creation mutex ("so that we don't create the same series twice") leaves one
\* row per series, season and episode, except that an old copy may bring one back
\* that has been created anew in the meantime.
OneRowPerKey ==
  \A i, j \in table : row[i] = row[j] => i = j \/ {i, j} \cap restored # {}

\* A season is without its series, an episode without its season, a file without
\* its episode, only if it was saved when that had been found empty or was gone.
OrphansRaced ==
  /\ \A i \in table : row[i].parent \in ID \ table => i \in raced
  /\ \A f \in File : episodeID[f] \in ID \ table => f \in raced

\* What a collection announces as deleted it has found, and nobody else deletes it.
DeletesWhatItFound ==
  \A c \in Call : call[c].at = "delete" =>
    /\ call[c].old \in table
    /\ \A d \in Call : call[d].at = "delete" /\ call[d].old = call[c].old => d = c

\* A series, season or episode with nothing below it has a call that will delete it
\* or give it something, unless its creator could not go on, an old copy brought it
\* back, or its last file was taken by a call that had loaded the file before it was
\* the episode's.
EmptyRowsAreExpected ==
  \A i \in table : IsEmpty(i) /\ i \notin left =>
    \E c \in Call :
      \/ call[c].at \in {"collect", "delete"} /\ call[c].old = i
      \/ call[c].at \in {"lock", "create", "attach"} /\ call[c].found = i
=============================================================================
