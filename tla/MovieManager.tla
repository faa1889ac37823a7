----------------------------- MODULE MovieManager -----------------------------
(***************************************************************************)
(* Movies and the files that belong to them: identifying a file, retagging *)
(* it, deleting it, collecting movies without files and refreshing a       *)
(* movie's metadata (metadata/managers/metadata/movies.go, metadata.go,    *)
(* metadata/resolvers/update_movie_file_metadata.go, metadata/helpers/     *)
(* locks.go), over the tables movies and movie_files as GORM updates them. *)
(*                                                                         *)
(* Calls run concurrently; each statement or transaction is one step.  A   *)
(* call works on copies of rows, and Save writes the copy: also the movie  *)
(* of a file and the files of a movie, if the copy holds them.  Saving     *)
(* files inserts those that are gone.  A movie is only marked as deleted,  *)
(* and neither found nor saved from then on.  publish is EventBroker's.    *)
(***************************************************************************)
EXTENDS Integers, FiniteSets

CONSTANTS
  Call,        \* goroutines that call the manager, one call after the other
  File,        \* rows of movie_files
  TmdbID,      \* what the agent knows
  MaxMovies,   \* how many rows the table movies gets
  None

ASSUME MovieManagerAssumption ==
  /\ None \notin Call \cup File \cup TmdbID
  /\ MaxMovies \in Nat

\* Primary keys; NoID is the movie of a file that is not identified.
MovieID == 1 .. MaxMovies
NoID    == 0
Deleted == -1   \* instead of the movie of a file that is gone

VARIABLES
  tmdbID,               \* the movies: their TmdbID
  deleted,              \* those with a DeletedAt
  movieID,              \* the files: their MovieID
  moviesCreationMutex,
  refreshMDLocks,       \* movies under WithLock
  call,                 \* where each call is, and its copies
  raced,                \* history: files saved with a movie being collected
  left                  \* history: movies that lost a file to a call that
                        \* believed it to be another's

dbVars == <<tmdbID, deleted, movieID>>
historyVars == <<raced, left>>
vars   == <<dbVars, moviesCreationMutex, refreshMDLocks, call, historyVars>>

\* old is the movie that a file had, which may have to be collected.
CallStates ==
  [at : {"idle", "find", "lock", "create", "attach", "remove", "collect",
         "delete", "trylock", "agent", "save"},
   file : File \cup {None}, tmdb : TmdbID \cup {None},
   movie : MovieID \cup {NoID}, files : SUBSET File,
   old : MovieID \cup {NoID}]

Idle == [at |-> "idle", file |-> None, tmdb |-> None, movie |-> NoID,
         files |-> {}, old |-> NoID]

TypeOK ==
  /\ tmdbID \in [MovieID -> TmdbID \cup {None}]
  /\ deleted \subseteq {m \in MovieID : tmdbID[m] # None}
  /\ movieID \in [File -> MovieID \cup {NoID, Deleted}]
  /\ moviesCreationMutex \in Call \cup {None}
  /\ refreshMDLocks \subseteq MovieID
  /\ call \in [Call -> CallStates]
  /\ raced \subseteq File
  /\ left \subseteq MovieID

Init ==
  /\ tmdbID = [m \in MovieID |-> None]
  /\ deleted = {}
  /\ movieID = [f \in File |-> NoID]
  /\ moviesCreationMutex = None
  /\ refreshMDLocks = {}
  /\ call = [c \in Call |-> Idle]
  /\ raced = {}
  /\ left = {}

-----------------------------------------------------------------------------
(* The tables.                                                             *)

\* What findMovie can find: GORM leaves out the deleted rows.
Movies == {m \in MovieID : tmdbID[m] # None /\ m \notin deleted}

FindMovieByTmdbID(t) == {m \in Movies : tmdbID[m] = t}

\* FindMovieFilesByMovieID and CollectMovieInfo.
MovieFiles(m) == {f \in File : movieID[f] = m}

\* Somebody has counted the files of m, found none, and has yet to delete it.
Doomed(m) == m \in deleted \/ \E c \in Call : call[c].at = "delete" /\ call[c].old = m

\* Movies that the files in S belong to, and c has no intention to collect.
Unseen(c, S) == {m \in MovieID : m # call[c].old /\ \E f \in S : movieID[f] = m}

\* Save of files, with their foreign key.
SaveFiles(c, S, m) ==
  /\ movieID' = [f \in File |-> IF f \in S THEN m ELSE movieID[f]]
  /\ raced' = (raced \ S) \cup (IF Doomed(m) THEN S ELSE {})
  /\ left' = left \cup (Unseen(c, S) \ {m})

\* The movie's own row is updated, or, deleted, violates the primary key when
\* it is inserted; its files have been saved by then.
SaveMovie(c) == SaveFiles(c, call[c].files, call[c].movie)

\* The file's movie is saved first, in the same transaction: if that fails the
\* file is not saved either.
SaveMovieFile(c) ==
  IF call[c].movie \in deleted
  THEN UNCHANGED <<movieID, historyVars>>
  ELSE SaveFiles(c, call[c].files \cup {call[c].file}, call[c].movie)

-----------------------------------------------------------------------------
(* Identifying and retagging.                                              *)

\* A file that the caller has loaded is matched, by its name or attributes.
GetOrCreateMovieForMovieFile(c, f, t) ==
  /\ call[c].at = "idle" /\ movieID[f] = NoID
  /\ call' = [call EXCEPT ![c] =
       [Idle EXCEPT !.at = "lock", !.file = f, !.tmdb = t]]
  /\ UNCHANGED <<dbVars, moviesCreationMutex, refreshMDLocks, historyVars>>

\* An administrator gives a file another movie.
UpdateMovieFileMetadata(c, f, t) ==
  /\ call[c].at = "idle" /\ movieID[f] # Deleted
  /\ call' = [call EXCEPT ![c] =
       [Idle EXCEPT !.at = "find", !.file = f, !.tmdb = t, !.old = movieID[f]]]
  /\ UNCHANGED <<dbVars, moviesCreationMutex, refreshMDLocks, historyVars>>

\* A movie that is not found is no old movie.
FindMovieForMovieFile(c) ==
  /\ call[c].at = "find"
  /\ call' = [call EXCEPT ![c] =
       IF @.old \notin Movies THEN [@ EXCEPT !.at = "lock", !.old = NoID]
       ELSE IF tmdbID[@.old] = @.tmdb THEN Idle
       ELSE [@ EXCEPT !.at = "lock"]]
  /\ UNCHANGED <<dbVars, moviesCreationMutex, refreshMDLocks, historyVars>>

\* GetOrCreateMovieByTmdbID, from the lock to the movie or to the agent.
Found(c) ==
  /\ call[c].at = "lock" /\ moviesCreationMutex = None
  /\ \E m \in FindMovieByTmdbID(call[c].tmdb) :
       call' = [call EXCEPT ![c] =
         [@ EXCEPT !.at = "attach", !.tmdb = None, !.movie = m, !.files = MovieFiles(m)]]
  /\ UNCHANGED <<dbVars, moviesCreationMutex, refreshMDLocks, historyVars>>

\* Mutant: without the creation mutex.
NotFound_Unlocked(c) ==
  /\ call[c].at = "lock"
  /\ FindMovieByTmdbID(call[c].tmdb) = {}
  /\ call' = [call EXCEPT ![c] = [@ EXCEPT !.at = "create"]]
  /\ UNCHANGED <<dbVars, moviesCreationMutex, refreshMDLocks, historyVars>>

NotFound(c) ==
  /\ call[c].at = "lock" /\ moviesCreationMutex = None
  /\ FindMovieByTmdbID(call[c].tmdb) = {}
  /\ moviesCreationMutex' = c
  /\ call' = [call EXCEPT ![c] = [@ EXCEPT !.at = "create"]]
  /\ UNCHANGED <<dbVars, refreshMDLocks, historyVars>>

\* The agent has answered: the movie is saved, announced, and the mutex given up.
Create(c, m) ==
  /\ call[c].at = "create"
  /\ tmdbID[m] = None /\ \A n \in MovieID : n < m => tmdbID[n] # None
  /\ tmdbID' = [tmdbID EXCEPT ![m] = call[c].tmdb]
  /\ call' = [call EXCEPT ![c] = [@ EXCEPT !.at = "attach", !.tmdb = None, !.movie = m]]
  /\ moviesCreationMutex' = None
  /\ UNCHANGED <<deleted, movieID, refreshMDLocks, historyVars>>

AgentFails(c) ==
  /\ call[c].at = "create"
  /\ call' = [call EXCEPT ![c] = Idle]
  /\ moviesCreationMutex' = None
  /\ UNCHANGED <<dbVars, refreshMDLocks, historyVars>>

\* Mutant: the old movie is not collected.
Attach_KeepsOld(c) ==
  /\ call[c].at = "attach"
  /\ SaveMovieFile(c)
  /\ call' = [call EXCEPT ![c] = Idle]
  /\ UNCHANGED <<tmdbID, deleted, moviesCreationMutex, refreshMDLocks>>

\* Whether the file could be saved nobody asks.
Attach(c) ==
  /\ call[c].at = "attach"
  /\ SaveMovieFile(c)
  /\ call' = [call EXCEPT ![c] =
       IF @.old = NoID THEN Idle ELSE [Idle EXCEPT !.at = "collect", !.old = call[c].old]]
  /\ UNCHANGED <<tmdbID, deleted, moviesCreationMutex, refreshMDLocks>>

-----------------------------------------------------------------------------
(* Deleting files, and the movies that have none left.                     *)

\* The watcher, RemoveMissingFiles or DeleteLibrary has loaded a file ...
FindMovieFile(c, f) ==
  /\ call[c].at = "idle" /\ movieID[f] # Deleted
  /\ call' = [call EXCEPT ![c] =
       [Idle EXCEPT !.at = "remove", !.file = f, !.old = movieID[f]]]
  /\ UNCHANGED <<dbVars, moviesCreationMutex, refreshMDLocks, historyVars>>

\* ... and deletes it, to collect the movie that it had then.
DeleteWithStreams(c) ==
  /\ call[c].at = "remove"
  /\ movieID' = [movieID EXCEPT ![call[c].file] = Deleted]
  /\ raced' = raced \ {call[c].file}
  /\ left' = left \cup Unseen(c, {call[c].file})
  /\ call' = [call EXCEPT ![c] = [Idle EXCEPT !.at = "collect", !.old = call[c].old]]
  /\ UNCHANGED <<tmdbID, deleted, moviesCreationMutex, refreshMDLocks>>

\* Mutant: goes on when the movie is not found.
Collect_Unfound(c) ==
  /\ call[c].at = "collect"
  /\ call' = [call EXCEPT ![c] =
       IF MovieFiles(@.old) = {} \/ @.old = NoID THEN [@ EXCEPT !.at = "delete"] ELSE Idle]
  /\ UNCHANGED <<dbVars, moviesCreationMutex, refreshMDLocks, historyVars>>

\* Mutant: counts the file just removed, and so deletes with one file left.
Collect_OffByOne(c) ==
  /\ call[c].at = "collect"
  /\ call' = [call EXCEPT ![c] =
       IF @.old \in Movies /\ Cardinality(MovieFiles(@.old)) <= 1
       THEN [@ EXCEPT !.at = "delete"] ELSE Idle]
  /\ UNCHANGED <<dbVars, moviesCreationMutex, refreshMDLocks, historyVars>>

\* GarbageCollectMovieIfRequired, without any lock: the movie and its files are
\* looked up, then the movie is deleted and announced.
Collect(c) ==
  /\ call[c].at = "collect"
  /\ call' = [call EXCEPT ![c] =
       IF @.old \in Movies /\ MovieFiles(@.old) = {}
       THEN [@ EXCEPT !.at = "delete"] ELSE Idle]
  /\ UNCHANGED <<dbVars, moviesCreationMutex, refreshMDLocks, historyVars>>

DeleteMovieByID(c) ==
  /\ call[c].at = "delete"
  /\ deleted' = deleted \cup {call[c].old}
  /\ left' = left \ {call[c].old}
  /\ call' = [call EXCEPT ![c] = Idle]
  /\ UNCHANGED <<tmdbID, movieID, moviesCreationMutex, refreshMDLocks, raced>>

-----------------------------------------------------------------------------
(* Refreshing a movie's metadata.                                          *)

\* The movie is loaded, with its files, before the lock is asked for.
RefreshAgentMetadataForUUID(c, m) ==
  /\ call[c].at = "idle" /\ m \in Movies
  /\ call' = [call EXCEPT ![c] =
       [Idle EXCEPT !.at = "trylock", !.movie = m, !.files = MovieFiles(m)]]
  /\ UNCHANGED <<dbVars, moviesCreationMutex, refreshMDLocks, historyVars>>

\* No second refresh of one movie: the call just returns.
WithLock(c) ==
  /\ call[c].at = "trylock"
  /\ IF call[c].movie \in refreshMDLocks
     THEN /\ call' = [call EXCEPT ![c] = Idle]
          /\ UNCHANGED refreshMDLocks
     ELSE /\ call' = [call EXCEPT ![c] = [@ EXCEPT !.at = "agent"]]
          /\ refreshMDLocks' = refreshMDLocks \cup {call[c].movie}
  /\ UNCHANGED <<dbVars, moviesCreationMutex, historyVars>>

\* RefreshMovieMetadata saves the movie unless the agent fails ...
RefreshMovieMetadata(c) ==
  /\ call[c].at = "agent"
  /\ SaveMovie(c) \/ UNCHANGED <<movieID, historyVars>>
  /\ call' = [call EXCEPT ![c] = [@ EXCEPT !.at = "save"]]
  /\ UNCHANGED <<tmdbID, deleted, moviesCreationMutex, refreshMDLocks>>

\* ... and its caller saves it once more.
SaveAndUnlock(c) ==
  /\ call[c].at = "save"
  /\ SaveMovie(c)
  /\ refreshMDLocks' = refreshMDLocks \ {call[c].movie}
  /\ call' = [call EXCEPT ![c] = Idle]
  /\ UNCHANGED <<tmdbID, deleted, moviesCreationMutex>>

-----------------------------------------------------------------------------
Start(c) ==
  \/ \E f \in File, t \in TmdbID : GetOrCreateMovieForMovieFile(c, f, t)
  \/ \E f \in File, t \in TmdbID : UpdateMovieFileMetadata(c, f, t)
  \/ \E f \in File : FindMovieFile(c, f)
  \/ \E m \in MovieID : RefreshAgentMetadataForUUID(c, m)

Lock(c) == Found(c) \/ NotFound(c)

Continue(c) ==
  \/ FindMovieForMovieFile(c)
  \/ \E m \in MovieID : Create(c, m)
  \/ AgentFails(c)
  \/ Attach(c)
  \/ DeleteWithStreams(c)
  \/ Collect(c)
  \/ DeleteMovieByID(c)
  \/ WithLock(c)
  \/ RefreshMovieMetadata(c)
  \/ SaveAndUnlock(c)

Next == \E c \in Call : Start(c) \/ Lock(c) \/ Continue(c)

Spec == Init /\ [][Next]_vars

\* The agent and the database answer, and the scheduler runs every goroutine.
\* A goroutine that waits for a Go mutex gets it in the end, however often others
\* take it in between.
FairSpec == Spec /\ \A c \in Call : WF_vars(Continue(c)) /\ SF_vars(Lock(c))

-----------------------------------------------------------------------------
(* Properties.                                                             *)

\* GetOrCreateMovieByTmdbID looks for a movie and creates it under one mutex
\* ("so that we don't create the same movie twice"), though movies are deleted
\* without it.
OneMoviePerTmdbID ==
  \A m, n \in Movies : tmdbID[m] = tmdbID[n] => m = n

\* A file belongs to a deleted movie, and so is neither shown nor identified
\* again, only if it was saved after GarbageCollectMovieIfRequired had counted
\* the files of that movie.
FilesOfDeletedMoviesRaced ==
  \A f \in File : movieID[f] \in deleted => f \in raced

\* The agent is asked for one movie by one refresh at a time, and the lock is
\* gone when the refresh is.
OneRefreshPerMovie ==
  \A m \in MovieID :
    LET refreshing == {c \in Call : call[c].at \in {"agent", "save"} /\ call[c].movie = m}
    IN Cardinality(refreshing) = IF m \in refreshMDLocks THEN 1 ELSE 0

\* c is about to give m a file, or to collect it.
Attends(c, m) ==
  \/ call[c].at = "attach" /\ call[c].movie = m
  \/ call[c].at \in {"collect", "delete"} /\ call[c].old = m

\* A movie without files has a call that is about to give it one, or to collect
\* it, unless a file left it in a step of a call that had loaded the file before it
\* was the movie's (GarbageCollectMovieIfRequired).
UnusedMoviesAreExpected ==
  \A m \in Movies :
    MovieFiles(m) = {} => m \in left \/ \E c \in Call : Attends(c, m)

\* A movie without files goes, or gets a file, unless a file left it in a step of
\* a call that had loaded the file before it was the movie's.
UnusedMoviesGo ==
  \A m \in MovieID :
    m \in Movies /\ MovieFiles(m) = {} /\ m \notin left
      ~> m \notin Movies \/ MovieFiles(m) # {} \/ m \in left
=============================================================================
