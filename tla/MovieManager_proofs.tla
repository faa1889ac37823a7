-------------------------- MODULE MovieManager_proofs --------------------------
(***************************************************************************)
(* What holds of movies and their files for any number of calls: types,    *)
(* that a TmdbID has one movie, that only a save which races a collection  *)
(* leaves a file with a deleted movie, that refreshes of one movie exclude *)
(* each other, and that a movie without files is somebody's to collect.    *)
(***************************************************************************)
EXTENDS MovieManager, FiniteSetTheorems, TLAPS

USE MovieManagerAssumption DEF MovieID, NoID, Deleted

(***************************************************************************)
(* Types                                                                   *)
(***************************************************************************)

\* What a call needs further on it has loaded; rows are never given up.
HasCopies(r) ==
  /\ r.at \in {"find", "lock", "create"} => r.tmdb \in TmdbID
  /\ r.at \in {"find", "lock", "create", "attach", "remove"} => r.file \in File
  /\ r.at \in {"attach", "trylock", "agent", "save"} =>
       r.movie \in MovieID /\ tmdbID[r.movie] # None
  /\ r.at = "delete" => r.old \in MovieID /\ tmdbID[r.old] # None

TypeInv == TypeOK /\ \A c \in Call : HasCopies(call[c])

LEMMA IdleType == Idle \in CallStates /\ HasCopies(Idle)
BY DEF Idle, CallStates, HasCopies

LEMMA InitTypes == Init => TypeInv
BY IdleType DEF Init, TypeInv, TypeOK

\* The other calls are where they were.
OthersStay(c) ==
  /\ DOMAIN call' = Call /\ call' = [d \in Call |-> call'[d]]
  /\ \A d \in Call \ {c} : call'[d] = call[d]

\* A step of one call that leaves the rows of movies, or adds to them.
LEMMA CallTypes ==
  ASSUME TypeInv, NEW c \in Call,
         OthersStay(c), call'[c] \in CallStates, HasCopies(call[c])',
         tmdbID' \in [MovieID -> TmdbID \cup {None}],
         \A m \in MovieID : tmdbID[m] # None => tmdbID'[m] # None
  PROVE  call' \in [Call -> CallStates] /\ (\A d \in Call : HasCopies(call[d]))'
<1>1. call' \in [Call -> CallStates]
  BY DEF TypeInv, TypeOK, OthersStay
<1>2. ASSUME NEW d \in Call PROVE HasCopies(call[d])'
  <2>1. CASE d = c
    BY <2>1 DEF TypeInv, TypeOK
  <2>2. CASE d # c
    BY <2>2 DEF TypeInv, TypeOK, HasCopies, OthersStay
  <2> QED BY <2>1, <2>2
<1> QED BY <1>1, <1>2

\* Saving files gives them a movie.
LEMMA SaveTypes ==
  ASSUME TypeInv, NEW c \in Call, NEW S \in SUBSET File, NEW m \in MovieID,
         SaveFiles(c, S, m)
  PROVE  /\ movieID' \in [File -> MovieID \cup {NoID, Deleted}]
         /\ raced' \subseteq File /\ left' \subseteq MovieID
BY DEF SaveFiles, Unseen, TypeInv, TypeOK

LEMMA MovieFilesType == ASSUME NEW m PROVE MovieFiles(m) \in SUBSET File
BY DEF MovieFiles

LEMMA NextTypes == TypeInv /\ [Next]_vars => TypeInv'
<1> SUFFICES ASSUME TypeInv, [Next]_vars PROVE TypeInv'
  OBVIOUS
<1> USE DEF TypeInv, TypeOK
<1> USE DEF OthersStay
<1>1. CASE UNCHANGED vars
  BY <1>1 DEF vars, dbVars, historyVars, HasCopies
<1>2. ASSUME NEW c \in Call, NEW f \in File, NEW t \in TmdbID,
             GetOrCreateMovieForMovieFile(c, f, t) \/ UpdateMovieFileMetadata(c, f, t)
      PROVE  TypeInv'
  <2>1. /\ OthersStay(c) /\ call'[c] \in CallStates /\ HasCopies(call[c])'
        /\ UNCHANGED <<dbVars, moviesCreationMutex, refreshMDLocks, historyVars>>
    <3>1. CASE GetOrCreateMovieForMovieFile(c, f, t)
      <4>1. call'[c] = [Idle EXCEPT !.at = "lock", !.file = f, !.tmdb = t] /\ OthersStay(c)
        BY <3>1 DEF GetOrCreateMovieForMovieFile
      <4>2. call'[c] \in CallStates /\ HasCopies(call[c])'
        BY <4>1 DEF Idle, CallStates, HasCopies
      <4>3. UNCHANGED <<dbVars, moviesCreationMutex, refreshMDLocks, historyVars>>
        BY <3>1 DEF GetOrCreateMovieForMovieFile
      <4> QED BY <4>1, <4>2, <4>3
    <3>2. CASE UpdateMovieFileMetadata(c, f, t)
      <4>1. /\ call'[c] = [Idle EXCEPT !.at = "find", !.file = f, !.tmdb = t,
                            !.old = movieID[f]]
            /\ OthersStay(c)
        BY <3>2 DEF UpdateMovieFileMetadata
      <4>2. movieID[f] \in MovieID \cup {NoID}
        BY <3>2 DEF UpdateMovieFileMetadata
      <4>3. call'[c] \in CallStates /\ HasCopies(call[c])'
        BY <4>1, <4>2 DEF Idle, CallStates, HasCopies
      <4>4. UNCHANGED <<dbVars, moviesCreationMutex, refreshMDLocks, historyVars>>
        BY <3>2 DEF UpdateMovieFileMetadata
      <4> QED BY <4>1, <4>3, <4>4
    <3> QED BY <1>2, <3>1, <3>2
  <2>2. call' \in [Call -> CallStates] /\ (\A d \in Call : HasCopies(call[d]))'
    BY <2>1, CallTypes DEF dbVars
  <2> QED BY <2>1, <2>2 DEF dbVars, historyVars
<1>3. ASSUME NEW c \in Call, FindMovieForMovieFile(c) \/ Found(c) \/ Collect(c)
      PROVE  TypeInv'
  <2>1. /\ OthersStay(c) /\ call'[c] \in CallStates /\ HasCopies(call[c])'
        /\ UNCHANGED <<dbVars, moviesCreationMutex, refreshMDLocks, historyVars>>
    <3>1. CASE FindMovieForMovieFile(c)
      BY <3>1, IdleType DEF FindMovieForMovieFile, Idle, CallStates, HasCopies, dbVars
    <3>2. CASE Found(c)
      <4>1. PICK m \in Movies :
              call' = [call EXCEPT ![c] = [@ EXCEPT !.at = "attach", !.tmdb = None,
                                            !.movie = m, !.files = MovieFiles(m)]]
        BY <3>2 DEF Found, FindMovieByTmdbID
      <4>2. /\ call'[c] = [call[c] EXCEPT !.at = "attach", !.tmdb = None,
                                          !.movie = m, !.files = MovieFiles(m)]
            /\ OthersStay(c)
        BY <4>1
      <4>3. m \in MovieID /\ tmdbID[m] # None /\ MovieFiles(m) \in SUBSET File
        BY MovieFilesType DEF Movies
      <4>4. UNCHANGED <<dbVars, moviesCreationMutex, refreshMDLocks, historyVars>>
            /\ call[c].at = "lock"
        BY <3>2 DEF Found
      <4>5. call'[c] \in CallStates
        BY <4>2, <4>3 DEF CallStates
      <4>6. HasCopies(call[c])'
        BY <4>2, <4>3, <4>4 DEF CallStates, HasCopies, dbVars
      <4> QED BY <4>2, <4>4, <4>5, <4>6
    <3>3. CASE Collect(c)
      BY <3>3, IdleType DEF Collect, Movies, CallStates, HasCopies, dbVars
    <3> QED BY <1>3, <3>1, <3>2, <3>3
  <2>2. call' \in [Call -> CallStates] /\ (\A d \in Call : HasCopies(call[d]))'
    BY <2>1, CallTypes DEF dbVars
  <2> QED BY <2>1, <2>2 DEF dbVars, historyVars
<1>4. ASSUME NEW c \in Call, NotFound(c) \/ AgentFails(c)
      PROVE  TypeInv'
  <2>1. /\ OthersStay(c) /\ call'[c] \in CallStates /\ HasCopies(call[c])'
        /\ moviesCreationMutex' \in Call \cup {None}
        /\ UNCHANGED <<dbVars, refreshMDLocks, historyVars>>
    BY <1>4, IdleType DEF NotFound, AgentFails, CallStates, HasCopies, dbVars
  <2>2. call' \in [Call -> CallStates] /\ (\A d \in Call : HasCopies(call[d]))'
    BY <2>1, CallTypes DEF dbVars
  <2> QED BY <2>1, <2>2 DEF dbVars, historyVars
<1>5. ASSUME NEW c \in Call, NEW m \in MovieID, Create(c, m)
      PROVE  TypeInv'
  <2>1. /\ tmdbID' \in [MovieID -> TmdbID \cup {None}]
        /\ tmdbID'[m] # None
        /\ \A n \in MovieID : tmdbID[n] # None => tmdbID'[n] # None
    BY <1>5 DEF Create, HasCopies
  <2>2. /\ OthersStay(c) /\ call'[c] \in CallStates /\ HasCopies(call[c])'
        /\ moviesCreationMutex' \in Call \cup {None}
        /\ UNCHANGED <<deleted, movieID, refreshMDLocks, historyVars>>
    <3>1. /\ call'[c] = [call[c] EXCEPT !.at = "attach", !.tmdb = None, !.movie = m]
          /\ OthersStay(c)
      BY <1>5 DEF Create
    <3>2. call[c] \in CallStates /\ call[c].file \in File
      BY <1>5 DEF Create, HasCopies
    <3>3. call'[c] \in CallStates /\ HasCopies(call[c])'
      BY <2>1, <3>1, <3>2 DEF CallStates, HasCopies
    <3>4. /\ moviesCreationMutex' \in Call \cup {None}
          /\ UNCHANGED <<deleted, movieID, refreshMDLocks, historyVars>>
      BY <1>5 DEF Create
    <3> QED BY <3>1, <3>3, <3>4
  <2>3. call' \in [Call -> CallStates] /\ (\A d \in Call : HasCopies(call[d]))'
    BY <2>1, <2>2, CallTypes
  <2> QED BY <2>1, <2>2, <2>3 DEF historyVars
<1>6. ASSUME NEW c \in Call, Attach(c)
      PROVE  TypeInv'
  <2>1. /\ OthersStay(c) /\ call'[c] \in CallStates /\ HasCopies(call[c])'
        /\ UNCHANGED <<tmdbID, deleted, moviesCreationMutex, refreshMDLocks>>
    BY <1>6, IdleType DEF Attach, Idle, CallStates, HasCopies
  <2>2. call' \in [Call -> CallStates] /\ (\A d \in Call : HasCopies(call[d]))'
    BY <2>1, CallTypes
  <2>3. /\ movieID' \in [File -> MovieID \cup {NoID, Deleted}]
        /\ raced' \subseteq File /\ left' \subseteq MovieID
    <3>1. call[c].files \cup {call[c].file} \in SUBSET File /\ call[c].movie \in MovieID
      BY <1>6 DEF Attach, CallStates, HasCopies
    <3> QED BY <1>6, <3>1, SaveTypes DEF Attach, SaveMovieFile, historyVars
  <2> QED BY <2>1, <2>2, <2>3
<1>7. ASSUME NEW c \in Call, NEW f \in File, FindMovieFile(c, f)
      PROVE  TypeInv'
  <2>1. /\ OthersStay(c) /\ call'[c] \in CallStates /\ HasCopies(call[c])'
        /\ UNCHANGED <<dbVars, moviesCreationMutex, refreshMDLocks, historyVars>>
    BY <1>7, IdleType DEF FindMovieFile, Idle, CallStates, HasCopies
  <2>2. call' \in [Call -> CallStates] /\ (\A d \in Call : HasCopies(call[d]))'
    BY <2>1, CallTypes DEF dbVars
  <2> QED BY <2>1, <2>2 DEF dbVars, historyVars
<1>8. ASSUME NEW c \in Call, DeleteWithStreams(c)
      PROVE  TypeInv'
  <2>1. /\ OthersStay(c) /\ call'[c] \in CallStates /\ HasCopies(call[c])'
        /\ UNCHANGED <<tmdbID, deleted, moviesCreationMutex, refreshMDLocks>>
    BY <1>8, IdleType DEF DeleteWithStreams, Idle, CallStates, HasCopies
  <2>2. call' \in [Call -> CallStates] /\ (\A d \in Call : HasCopies(call[d]))'
    BY <2>1, CallTypes
  <2>3. /\ movieID' \in [File -> MovieID \cup {NoID, Deleted}]
        /\ raced' \subseteq File /\ left' \subseteq MovieID
    BY <1>8 DEF DeleteWithStreams, Unseen
  <2> QED BY <2>1, <2>2, <2>3
<1>9. ASSUME NEW c \in Call, DeleteMovieByID(c)
      PROVE  TypeInv'
  <2>1. /\ OthersStay(c) /\ call'[c] \in CallStates /\ HasCopies(call[c])'
        /\ UNCHANGED <<tmdbID, movieID, moviesCreationMutex, refreshMDLocks, raced>>
    BY <1>9, IdleType DEF DeleteMovieByID, HasCopies
  <2>2. call' \in [Call -> CallStates] /\ (\A d \in Call : HasCopies(call[d]))'
    BY <2>1, CallTypes
  <2>3. deleted' \subseteq {m \in MovieID : tmdbID'[m] # None} /\ left' \subseteq MovieID
    <3>1. call[c].old \in MovieID /\ tmdbID[call[c].old] # None
      BY <1>9 DEF DeleteMovieByID, HasCopies
    <3> QED BY <1>9, <2>1, <3>1 DEF DeleteMovieByID
  <2> QED BY <2>1, <2>2, <2>3
<1>10. ASSUME NEW c \in Call, NEW m \in MovieID, RefreshAgentMetadataForUUID(c, m)
       PROVE  TypeInv'
  <2>1. /\ OthersStay(c) /\ call'[c] \in CallStates /\ HasCopies(call[c])'
        /\ UNCHANGED <<dbVars, moviesCreationMutex, refreshMDLocks, historyVars>>
    BY <1>10, MovieFilesType DEF RefreshAgentMetadataForUUID, Movies, Idle, CallStates,
       HasCopies, dbVars
  <2>2. call' \in [Call -> CallStates] /\ (\A d \in Call : HasCopies(call[d]))'
    BY <2>1, CallTypes DEF dbVars
  <2> QED BY <2>1, <2>2 DEF dbVars, historyVars
<1>11. ASSUME NEW c \in Call, WithLock(c)
       PROVE  TypeInv'
  <2>1. /\ OthersStay(c) /\ call'[c] \in CallStates /\ HasCopies(call[c])'
        /\ refreshMDLocks' \subseteq MovieID
        /\ UNCHANGED <<dbVars, moviesCreationMutex, historyVars>>
    <3>1. OthersStay(c) /\ call'[c] \in {Idle, [call[c] EXCEPT !.at = "agent"]}
      BY <1>11 DEF WithLock
    <3>2. call[c].at = "trylock" /\ call[c].movie \in MovieID
      BY <1>11 DEF WithLock, HasCopies
    <3>3. /\ refreshMDLocks' \subseteq MovieID
          /\ UNCHANGED <<dbVars, moviesCreationMutex, historyVars>>
      BY <1>11, <3>2 DEF WithLock
    <3> QED BY <3>1, <3>2, <3>3, IdleType DEF CallStates, HasCopies, dbVars, Idle
  <2>2. call' \in [Call -> CallStates] /\ (\A d \in Call : HasCopies(call[d]))'
    BY <2>1, CallTypes DEF dbVars
  <2> QED BY <2>1, <2>2 DEF dbVars, historyVars
<1>12. ASSUME NEW c \in Call, RefreshMovieMetadata(c) \/ SaveAndUnlock(c)
       PROVE  TypeInv'
  <2>1. /\ OthersStay(c) /\ call'[c] \in CallStates /\ HasCopies(call[c])'
        /\ refreshMDLocks' \subseteq MovieID
        /\ UNCHANGED <<tmdbID, deleted, moviesCreationMutex>>
    <3>1. OthersStay(c) /\ call'[c] \in {Idle, [call[c] EXCEPT !.at = "save"]}
      BY <1>12 DEF RefreshMovieMetadata, SaveAndUnlock
    <3>2. call[c].at \in {"agent", "save"}
      BY <1>12 DEF RefreshMovieMetadata, SaveAndUnlock
    <3>3. /\ refreshMDLocks' \subseteq MovieID
          /\ UNCHANGED <<tmdbID, deleted, moviesCreationMutex>>
      BY <1>12 DEF RefreshMovieMetadata, SaveAndUnlock
    <3> QED BY <3>1, <3>2, <3>3 DEF CallStates, HasCopies, Idle
  <2>2. call' \in [Call -> CallStates] /\ (\A d \in Call : HasCopies(call[d]))'
    BY <2>1, CallTypes
  <2>3. /\ movieID' \in [File -> MovieID \cup {NoID, Deleted}]
        /\ raced' \subseteq File /\ left' \subseteq MovieID
    <3>1. call[c].files \in SUBSET File /\ call[c].movie \in MovieID
      BY <1>12 DEF RefreshMovieMetadata, SaveAndUnlock, CallStates, HasCopies
    <3> QED BY <1>12, <3>1, SaveTypes
            DEF RefreshMovieMetadata, SaveAndUnlock, SaveMovie, historyVars
  <2> QED BY <2>1, <2>2, <2>3
<1> QED BY <1>1, <1>2, <1>3, <1>4, <1>5, <1>6, <1>7, <1>8, <1>9, <1>10, <1>11, <1>12
        DEF Next, Start, Lock, Continue

\* Every variable keeps its type.
THEOREM TypesCorrect == Spec => []TypeOK
<1>1. TypeInv => TypeOK
  BY DEF TypeInv
<1> QED BY InitTypes, NextTypes, <1>1, PTL DEF Spec
(***************************************************************************)
(* Control                                                                 *)
(***************************************************************************)

\* From where to where each action takes a call.
Moves(c, from, to) == OthersStay(c) /\ call[c].at = from /\ call'[c].at \in to

LEMMA StartMoves ==
  ASSUME TypeInv, NEW c \in Call, Start(c)
  PROVE  /\ Moves(c, "idle", {"lock", "find", "remove", "trylock"})
         /\ UNCHANGED <<dbVars, moviesCreationMutex, refreshMDLocks, historyVars>>
<1> USE DEF Moves, OthersStay, TypeInv, TypeOK, Idle
<1>1. ASSUME NEW f \in File, NEW t \in TmdbID, GetOrCreateMovieForMovieFile(c, f, t)
      PROVE  /\ Moves(c, "idle", {"lock", "find", "remove", "trylock"})
             /\ UNCHANGED <<dbVars, moviesCreationMutex, refreshMDLocks, historyVars>>
  BY <1>1 DEF GetOrCreateMovieForMovieFile
<1>2. ASSUME NEW f \in File, NEW t \in TmdbID, UpdateMovieFileMetadata(c, f, t)
      PROVE  /\ Moves(c, "idle", {"lock", "find", "remove", "trylock"})
             /\ UNCHANGED <<dbVars, moviesCreationMutex, refreshMDLocks, historyVars>>
  BY <1>2 DEF UpdateMovieFileMetadata
<1>3. ASSUME NEW f \in File, FindMovieFile(c, f)
      PROVE  /\ Moves(c, "idle", {"lock", "find", "remove", "trylock"})
             /\ UNCHANGED <<dbVars, moviesCreationMutex, refreshMDLocks, historyVars>>
  BY <1>3 DEF FindMovieFile
<1>4. ASSUME NEW m \in MovieID, RefreshAgentMetadataForUUID(c, m)
      PROVE  /\ Moves(c, "idle", {"lock", "find", "remove", "trylock"})
             /\ UNCHANGED <<dbVars, moviesCreationMutex, refreshMDLocks, historyVars>>
  BY <1>4 DEF RefreshAgentMetadataForUUID
<1> QED BY <1>1, <1>2, <1>3, <1>4 DEF Start

LEMMA ContinueMoves ==
  ASSUME TypeInv, NEW c \in Call
  PROVE  /\ FindMovieForMovieFile(c) => Moves(c, "find", {"idle", "lock"})
         /\ Found(c) => Moves(c, "lock", {"attach"})
         /\ NotFound(c) => Moves(c, "lock", {"create"})
         /\ (\E m \in MovieID : Create(c, m)) => Moves(c, "create", {"attach"})
         /\ AgentFails(c) => Moves(c, "create", {"idle"})
         /\ Attach(c) => Moves(c, "attach", {"idle", "collect"})
         /\ DeleteWithStreams(c) => Moves(c, "remove", {"collect"})
         /\ Collect(c) => Moves(c, "collect", {"idle", "delete"})
         /\ DeleteMovieByID(c) => Moves(c, "delete", {"idle"})
         /\ WithLock(c) => Moves(c, "trylock", {"idle", "agent"})
         /\ RefreshMovieMetadata(c) => Moves(c, "agent", {"save"})
         /\ SaveAndUnlock(c) => Moves(c, "save", {"idle"})
<1> USE DEF Moves, TypeInv, TypeOK
<1>1. ASSUME FindMovieForMovieFile(c) PROVE Moves(c, "find", {"idle", "lock"})
  <2>1. OthersStay(c)
    BY <1>1 DEF FindMovieForMovieFile, OthersStay
  <2> QED BY <1>1, <2>1 DEF FindMovieForMovieFile, CallStates, Idle
<1>2. ASSUME Found(c) PROVE Moves(c, "lock", {"attach"})
  <2>1. OthersStay(c)
    BY <1>2 DEF Found, OthersStay
  <2> QED BY <1>2, <2>1 DEF Found, CallStates, Idle
<1>3. ASSUME NotFound(c) PROVE Moves(c, "lock", {"create"})
  <2>1. OthersStay(c)
    BY <1>3 DEF NotFound, OthersStay
  <2> QED BY <1>3, <2>1 DEF NotFound, CallStates, Idle
<1>4. ASSUME NEW m \in MovieID, Create(c, m) PROVE Moves(c, "create", {"attach"})
  <2>1. OthersStay(c)
    BY <1>4 DEF Create, OthersStay
  <2> QED BY <1>4, <2>1 DEF Create, CallStates, Idle
<1>5. ASSUME AgentFails(c) PROVE Moves(c, "create", {"idle"})
  <2>1. OthersStay(c)
    BY <1>5 DEF AgentFails, OthersStay
  <2> QED BY <1>5, <2>1 DEF AgentFails, CallStates, Idle
<1>6. ASSUME Attach(c) PROVE Moves(c, "attach", {"idle", "collect"})
  <2>1. OthersStay(c)
    BY <1>6 DEF Attach, OthersStay
  <2> QED BY <1>6, <2>1 DEF Attach, CallStates, Idle
<1>7. ASSUME DeleteWithStreams(c) PROVE Moves(c, "remove", {"collect"})
  <2>1. OthersStay(c)
    BY <1>7 DEF DeleteWithStreams, OthersStay
  <2> QED BY <1>7, <2>1 DEF DeleteWithStreams, CallStates, Idle
<1>8. ASSUME Collect(c) PROVE Moves(c, "collect", {"idle", "delete"})
  <2>1. OthersStay(c)
    BY <1>8 DEF Collect, OthersStay
  <2> QED BY <1>8, <2>1 DEF Collect, CallStates, Idle
<1>9. ASSUME DeleteMovieByID(c) PROVE Moves(c, "delete", {"idle"})
  <2>1. OthersStay(c)
    BY <1>9 DEF DeleteMovieByID, OthersStay
  <2> QED BY <1>9, <2>1 DEF DeleteMovieByID, CallStates, Idle
<1>10. ASSUME WithLock(c) PROVE Moves(c, "trylock", {"idle", "agent"})
  <2>1. OthersStay(c)
    BY <1>10 DEF WithLock, OthersStay
  <2> QED BY <1>10, <2>1 DEF WithLock, CallStates, Idle
<1>11. ASSUME RefreshMovieMetadata(c) PROVE Moves(c, "agent", {"save"})
  <2>1. OthersStay(c)
    BY <1>11 DEF RefreshMovieMetadata, OthersStay
  <2> QED BY <1>11, <2>1 DEF RefreshMovieMetadata, CallStates, Idle
<1>12. ASSUME SaveAndUnlock(c) PROVE Moves(c, "save", {"idle"})
  <2>1. OthersStay(c)
    BY <1>12 DEF SaveAndUnlock, OthersStay
  <2> QED BY <1>12, <2>1 DEF SaveAndUnlock, CallStates, Idle
<1> QED BY <1>1, <1>2, <1>3, <1>4, <1>5, <1>6, <1>7, <1>8, <1>9, <1>10, <1>11, <1>12

(***************************************************************************)
(* One movie for a TmdbID                                                  *)
(***************************************************************************)

\* Who has found no movie holds the mutex, and none appears while it does.
CreationInv ==
  /\ OneMoviePerTmdbID
  /\ \A c \in Call : call[c].at = "create" =>
       moviesCreationMutex = c /\ FindMovieByTmdbID(call[c].tmdb) = {}

\* Steps that add no movie and let nobody get to where one is created.
LEMMA NothingCreated ==
  ASSUME TypeInv, CreationInv, NEW c \in Call, OthersStay(c),
         tmdbID' = tmdbID, deleted \subseteq deleted',
         call[c].at # "create", call'[c].at # "create",
         moviesCreationMutex' = moviesCreationMutex
  PROVE  CreationInv'
<1>1. Movies' \subseteq Movies
  BY DEF Movies
<1>2. OneMoviePerTmdbID'
  BY <1>1 DEF OneMoviePerTmdbID, CreationInv
<1>3. ASSUME NEW d \in Call, call'[d].at = "create"
      PROVE  moviesCreationMutex' = d /\ FindMovieByTmdbID(call[d].tmdb)' = {}
  <2>1. d # c /\ call'[d] = call[d]
    BY <1>3 DEF OthersStay
  <2>2. FindMovieByTmdbID(call[d].tmdb) = {} /\ moviesCreationMutex = d
    BY <1>3, <2>1 DEF CreationInv
  <2> QED BY <1>1, <2>1, <2>2 DEF FindMovieByTmdbID
<1> QED BY <1>2, <1>3 DEF CreationInv

LEMMA NextCreation == TypeInv /\ CreationInv /\ [Next]_vars => CreationInv'
<1> SUFFICES ASSUME TypeInv, CreationInv, [Next]_vars PROVE CreationInv'
  OBVIOUS
<1>1. CASE UNCHANGED vars
  BY <1>1 DEF vars, dbVars, CreationInv, OneMoviePerTmdbID, Movies, FindMovieByTmdbID
<1>2. ASSUME NEW c \in Call, NotFound(c) PROVE CreationInv'
  <2>1. /\ tmdbID' = tmdbID /\ deleted' = deleted /\ moviesCreationMutex' = c
        /\ moviesCreationMutex = None /\ FindMovieByTmdbID(call[c].tmdb) = {}
        /\ call'[c].tmdb = call[c].tmdb /\ OthersStay(c)
    BY <1>2 DEF NotFound, dbVars, TypeInv, TypeOK, CallStates, OthersStay
  <2>2. Movies' = Movies
    BY <2>1 DEF Movies
  <2>3. OneMoviePerTmdbID'
    BY <2>1, <2>2 DEF OneMoviePerTmdbID, CreationInv
  <2>4. ASSUME NEW d \in Call, call'[d].at = "create" PROVE d = c
    <3>1. d # c => call[d].at = "create"
      BY <2>4, <2>1 DEF OthersStay
    <3> QED BY <3>1, <2>1 DEF CreationInv
  <2>5. FindMovieByTmdbID(call[c].tmdb)' = {}
    BY <2>1, <2>2 DEF FindMovieByTmdbID
  <2> QED BY <2>1, <2>3, <2>4, <2>5 DEF CreationInv
<1>3. ASSUME NEW c \in Call, NEW m \in MovieID, Create(c, m) PROVE CreationInv'
  <2>1. /\ tmdbID' = [tmdbID EXCEPT ![m] = call[c].tmdb] /\ deleted' = deleted
        /\ moviesCreationMutex = c /\ FindMovieByTmdbID(call[c].tmdb) = {}
        /\ call'[c].at # "create" /\ OthersStay(c) /\ tmdbID[m] = None
    BY <1>3 DEF Create, CreationInv, TypeInv, TypeOK, CallStates, OthersStay
  <2>2. \A n \in MovieID : n # m => (n \in Movies' <=> n \in Movies) /\ tmdbID'[n] = tmdbID[n]
    BY <2>1 DEF Movies, TypeInv, TypeOK
  <2>3. \A n \in Movies' : n # m => tmdbID'[n] # tmdbID'[m]
    BY <2>1, <2>2 DEF FindMovieByTmdbID, Movies, TypeInv, TypeOK
  <2>4. OneMoviePerTmdbID'
    BY <2>2, <2>3 DEF OneMoviePerTmdbID, CreationInv, Movies
  <2>5. \A d \in Call : call'[d].at # "create"
    BY <2>1 DEF CreationInv, OthersStay
  <2> QED BY <2>4, <2>5 DEF CreationInv
<1>4. ASSUME NEW c \in Call, AgentFails(c) PROVE CreationInv'
  <2>1. /\ tmdbID' = tmdbID /\ deleted' = deleted /\ moviesCreationMutex = c
        /\ call'[c].at # "create" /\ OthersStay(c)
    BY <1>4 DEF AgentFails, dbVars, Idle, CreationInv, TypeInv, TypeOK, OthersStay
  <2>2. OneMoviePerTmdbID'
    BY <2>1 DEF OneMoviePerTmdbID, Movies, CreationInv
  <2>3. \A d \in Call : call'[d].at # "create"
    BY <2>1 DEF CreationInv, OthersStay
  <2> QED BY <2>2, <2>3 DEF CreationInv
<1>5. ASSUME NEW c \in Call,
             \/ Start(c) \/ FindMovieForMovieFile(c) \/ Found(c)
             \/ Collect(c) \/ WithLock(c)
      PROVE  CreationInv'
  <2>1. /\ tmdbID' = tmdbID /\ deleted' = deleted
        /\ moviesCreationMutex' = moviesCreationMutex
    BY <1>5, StartMoves DEF FindMovieForMovieFile, Found, Collect, WithLock, dbVars
  <2>2. call[c].at # "create" /\ call'[c].at # "create" /\ OthersStay(c)
    BY <1>5, StartMoves, ContinueMoves DEF Moves
  <2> QED BY <2>1, <2>2, NothingCreated
<1>6. ASSUME NEW c \in Call,
             \/ Attach(c) \/ DeleteWithStreams(c) \/ DeleteMovieByID(c)
             \/ RefreshMovieMetadata(c) \/ SaveAndUnlock(c)
      PROVE  CreationInv'
  <2>1. /\ tmdbID' = tmdbID /\ deleted \subseteq deleted'
        /\ moviesCreationMutex' = moviesCreationMutex
    BY <1>6 DEF Attach, DeleteWithStreams, DeleteMovieByID, RefreshMovieMetadata,
       SaveAndUnlock
  <2>2. call[c].at # "create" /\ call'[c].at # "create" /\ OthersStay(c)
    BY <1>6, ContinueMoves DEF Moves
  <2> QED BY <2>1, <2>2, NothingCreated
<1> QED BY <1>1, <1>2, <1>3, <1>4, <1>5, <1>6 DEF Next, Lock, Continue

\* GetOrCreateMovieByTmdbID never makes a second movie of one TmdbID.
THEOREM MoviesAreUnique == Spec => []OneMoviePerTmdbID
<1>1. Init => CreationInv
  BY DEF Init, CreationInv, OneMoviePerTmdbID, Movies, Idle
<1>2. CreationInv => OneMoviePerTmdbID
  BY DEF CreationInv
<1> QED BY InitTypes, NextTypes, NextCreation, <1>1, <1>2, PTL DEF Spec

(***************************************************************************)
(* Files of deleted movies                                                 *)
(***************************************************************************)

\* Also before the movie goes: from the count of its files on.
RaceInv == \A f \in File : movieID[f] \in MovieID /\ Doomed(movieID[f]) => f \in raced

\* Steps after which no other movie is about to be deleted.
LEMMA NothingDoomed ==
  ASSUME TypeInv, RaceInv, NEW c \in Call, OthersStay(c), call'[c].at # "delete",
         \/ deleted' = deleted
         \/ deleted' = deleted \cup {call[c].old} /\ call[c].at = "delete",
         movieID' = movieID /\ raced' = raced
  PROVE  RaceInv'
<1>1. \A m \in MovieID : Doomed(m)' => Doomed(m)
  BY DEF Doomed, OthersStay
<1> QED BY <1>1 DEF RaceInv

LEMMA SavedRace ==
  ASSUME TypeInv, RaceInv, NEW c \in Call, OthersStay(c), deleted' = deleted,
         call[c].at # "delete", call'[c].at # "delete",
         NEW S \in SUBSET File, NEW m \in MovieID, SaveFiles(c, S, m)
  PROVE  RaceInv'
<1>1. \A n \in MovieID : Doomed(n)' <=> Doomed(n)
  BY DEF Doomed, OthersStay
<1> SUFFICES ASSUME NEW f \in File, movieID'[f] \in MovieID, Doomed(movieID'[f]) 
             PROVE  f \in raced'
  BY <1>1 DEF RaceInv
<1>2. CASE f \in S
  BY <1>2 DEF SaveFiles
<1>3. CASE f \notin S
  BY <1>3 DEF SaveFiles, RaceInv
<1> QED BY <1>2, <1>3

LEMMA NextRace == TypeInv /\ RaceInv /\ [Next]_vars => RaceInv'
<1> SUFFICES ASSUME TypeInv, RaceInv, [Next]_vars PROVE RaceInv'
  OBVIOUS
<1>1. CASE UNCHANGED vars
  BY <1>1 DEF vars, dbVars, historyVars, RaceInv, Doomed
<1>2. ASSUME NEW c \in Call, Collect(c) PROVE RaceInv'
  <2>1. UNCHANGED <<movieID, raced, deleted>> /\ OthersStay(c)
    BY <1>2 DEF Collect, dbVars, historyVars, TypeInv, TypeOK, OthersStay
  <2>2. call'[c].at = "delete" => call'[c].old = call[c].old /\ MovieFiles(call[c].old) = {}
    BY <1>2 DEF Collect, TypeInv, TypeOK, CallStates, Idle
  <2>3. \A f \in File : Doomed(movieID[f])' => Doomed(movieID[f])
    BY <2>1, <2>2 DEF Doomed, OthersStay, MovieFiles
  <2> QED BY <2>1, <2>3 DEF RaceInv
<1>3. ASSUME NEW c \in Call,
             \/ Start(c) \/ FindMovieForMovieFile(c) \/ Lock(c) \/ AgentFails(c)
             \/ WithLock(c) \/ (\E m \in MovieID : Create(c, m))
      PROVE  RaceInv'
  <2>1. UNCHANGED <<movieID, raced, deleted>>
    BY <1>3, StartMoves DEF FindMovieForMovieFile, Lock, Found, NotFound, AgentFails,
       WithLock, Create, dbVars, historyVars
  <2>2. call'[c].at # "delete" /\ OthersStay(c)
    BY <1>3, StartMoves, ContinueMoves DEF Moves, Lock
  <2> QED BY <2>1, <2>2, NothingDoomed
<1>4. ASSUME NEW c \in Call, DeleteMovieByID(c) PROVE RaceInv'
  <2>1. /\ UNCHANGED <<movieID, raced>> /\ deleted' = deleted \cup {call[c].old}
        /\ call[c].at = "delete" /\ call'[c].at # "delete" /\ OthersStay(c)
    BY <1>4 DEF DeleteMovieByID, Idle, TypeInv, TypeOK, OthersStay
  <2> QED BY <2>1, NothingDoomed
<1>5. ASSUME NEW c \in Call, DeleteWithStreams(c) PROVE RaceInv'
  <2>1. /\ deleted' = deleted /\ call'[c].at # "delete" /\ call[c].file \in File
        /\ movieID' = [movieID EXCEPT ![call[c].file] = Deleted]
        /\ raced' = raced \ {call[c].file} /\ OthersStay(c)
    BY <1>5 DEF DeleteWithStreams, Idle, TypeInv, TypeOK, HasCopies, OthersStay
  <2>2. \A m \in MovieID : Doomed(m)' => Doomed(m)
    BY <2>1 DEF Doomed, OthersStay
  <2> QED BY <2>1, <2>2 DEF RaceInv, TypeInv, TypeOK
<1>6. ASSUME NEW c \in Call, Attach(c) PROVE RaceInv'
  <2>1. /\ deleted' = deleted /\ call[c].at # "delete" /\ call'[c].at # "delete"
        /\ OthersStay(c) /\ SaveMovieFile(c)
        /\ call[c].file \in File /\ call[c].movie \in MovieID /\ call[c].files \in SUBSET File
    BY <1>6 DEF Attach, Idle, TypeInv, TypeOK, CallStates, HasCopies, OthersStay
  <2>2. CASE UNCHANGED <<movieID, historyVars>>
    BY <2>1, <2>2, NothingDoomed DEF historyVars
  <2>3. CASE SaveFiles(c, call[c].files \cup {call[c].file}, call[c].movie)
    BY <2>1, <2>3, SavedRace
  <2> QED BY <2>1, <2>2, <2>3 DEF SaveMovieFile
<1>7. ASSUME NEW c \in Call, RefreshMovieMetadata(c) \/ SaveAndUnlock(c) PROVE RaceInv'
  <2>1. /\ deleted' = deleted /\ call[c].at # "delete" /\ OthersStay(c)
        /\ call[c].movie \in MovieID /\ call[c].files \in SUBSET File
        /\ SaveMovie(c) \/ UNCHANGED <<movieID, historyVars>>
    BY <1>7 DEF RefreshMovieMetadata, SaveAndUnlock, TypeInv, TypeOK, CallStates,
       HasCopies, OthersStay
  <2>2. call'[c].at # "delete"
    BY <1>7 DEF RefreshMovieMetadata, SaveAndUnlock, TypeInv, TypeOK, CallStates, Idle
  <2>3. CASE UNCHANGED <<movieID, historyVars>>
    BY <2>1, <2>2, <2>3, NothingDoomed DEF historyVars
  <2>4. CASE SaveMovie(c)
    BY <2>1, <2>2, <2>4, SavedRace DEF SaveMovie
  <2> QED BY <2>1, <2>3, <2>4
<1> QED BY <1>1, <1>2, <1>3, <1>4, <1>5, <1>6, <1>7 DEF Next, Continue

\* A file is with a deleted movie only if it was saved after the movie's files
\* had been counted.
THEOREM OrphansRaced == Spec => []FilesOfDeletedMoviesRaced
<1>1. Init => RaceInv
  BY DEF Init, RaceInv
<1>2. TypeInv /\ RaceInv => FilesOfDeletedMoviesRaced
  BY DEF RaceInv, FilesOfDeletedMoviesRaced, TypeInv, TypeOK, Doomed
<1> QED BY InitTypes, NextTypes, NextRace, <1>1, <1>2, PTL DEF Spec

(***************************************************************************)
(* Refreshes                                                               *)
(***************************************************************************)

Refreshing(c) == call[c].at \in {"agent", "save"}

\* Without counting: the locks are those of the refreshes, which differ.
RefreshInv ==
  /\ refreshMDLocks = {call[c].movie : c \in {d \in Call : Refreshing(d)}}
  /\ \A c, d \in Call :
       Refreshing(c) /\ Refreshing(d) /\ call[c].movie = call[d].movie => c = d

LEMMA SameRefreshes ==
  ASSUME RefreshInv, NEW c \in Call, OthersStay(c), refreshMDLocks' = refreshMDLocks,
         Refreshing(c)' <=> Refreshing(c),
         Refreshing(c) => call'[c].movie = call[c].movie
  PROVE  RefreshInv'
<1>1. \A d \in Call : /\ Refreshing(d)' <=> Refreshing(d)
                      /\ Refreshing(d) => call'[d].movie = call[d].movie
  BY DEF OthersStay, Refreshing
<1> HIDE DEF Refreshing
<1> QED BY <1>1 DEF RefreshInv

LEMMA NextRefresh == TypeInv /\ RefreshInv /\ [Next]_vars => RefreshInv'
<1> SUFFICES ASSUME TypeInv, RefreshInv, [Next]_vars PROVE RefreshInv'
  OBVIOUS
<1>1. CASE UNCHANGED vars
  BY <1>1 DEF vars, RefreshInv, Refreshing
<1>2. ASSUME NEW c \in Call,
             \/ Start(c) \/ FindMovieForMovieFile(c) \/ Lock(c) \/ AgentFails(c)
             \/ (\E m \in MovieID : Create(c, m)) \/ Attach(c) \/ DeleteWithStreams(c)
             \/ Collect(c) \/ DeleteMovieByID(c)
      PROVE  RefreshInv'
  <2>1. refreshMDLocks' = refreshMDLocks
    BY <1>2, StartMoves DEF FindMovieForMovieFile, Lock, Found, NotFound, AgentFails,
       Create, Attach, DeleteWithStreams, Collect, DeleteMovieByID
  <2>2. OthersStay(c) /\ ~Refreshing(c) /\ ~Refreshing(c)'
    BY <1>2, StartMoves, ContinueMoves DEF Moves, Lock, Refreshing
  <2> QED BY <2>1, <2>2, SameRefreshes
<1>3. ASSUME NEW c \in Call, RefreshMovieMetadata(c) PROVE RefreshInv'
  <2>1. /\ refreshMDLocks' = refreshMDLocks /\ OthersStay(c)
        /\ Refreshing(c) /\ Refreshing(c)' /\ call'[c].movie = call[c].movie
    BY <1>3 DEF RefreshMovieMetadata, TypeInv, TypeOK, CallStates, OthersStay, Refreshing
  <2> QED BY <2>1, SameRefreshes
<1>4. ASSUME NEW c \in Call, WithLock(c) PROVE RefreshInv'
  <2>1. ~Refreshing(c) /\ OthersStay(c)
    BY <1>4 DEF WithLock, TypeInv, TypeOK, OthersStay, Refreshing
  <2>2. CASE call[c].movie \in refreshMDLocks
    <3>1. refreshMDLocks' = refreshMDLocks /\ call'[c] = Idle
      BY <1>4, <2>2 DEF WithLock, TypeInv, TypeOK
    <3>2. ~Refreshing(c)'
      BY <3>1 DEF Idle, Refreshing
    <3> QED BY <2>1, <3>1, <3>2, SameRefreshes
  <2>3. CASE call[c].movie \notin refreshMDLocks
    <3>1. /\ refreshMDLocks' = refreshMDLocks \cup {call[c].movie}
          /\ Refreshing(c)' /\ call'[c].movie = call[c].movie
      BY <1>4, <2>3 DEF WithLock, TypeInv, TypeOK, CallStates, Refreshing
    <3>2. \A d \in Call : /\ call'[d].movie = call[d].movie
                          /\ Refreshing(d)' <=> Refreshing(d) \/ d = c
      BY <2>1, <3>1 DEF OthersStay, Refreshing
    <3>3. \A d \in Call : Refreshing(d) => call[d].movie # call[c].movie
      BY <2>3 DEF RefreshInv
    <3> HIDE DEF Refreshing
    <3> QED BY <3>1, <3>2, <3>3 DEF RefreshInv
  <2> QED BY <2>2, <2>3
<1>5. ASSUME NEW c \in Call, SaveAndUnlock(c) PROVE RefreshInv'
  <2>1. /\ refreshMDLocks' = refreshMDLocks \ {call[c].movie}
        /\ OthersStay(c) /\ Refreshing(c) /\ ~Refreshing(c)'
    BY <1>5 DEF SaveAndUnlock, TypeInv, TypeOK, Idle, OthersStay, Refreshing
  <2>2. \A d \in Call : d # c =>
          call'[d].movie = call[d].movie /\ (Refreshing(d)' <=> Refreshing(d))
    BY <2>1 DEF OthersStay, Refreshing
  <2>3. \A d \in Call : d # c /\ Refreshing(d) => call[d].movie # call[c].movie
    BY <2>1 DEF RefreshInv
  <2> HIDE DEF Refreshing
  <2> QED BY <2>1, <2>2, <2>3 DEF RefreshInv
<1> QED BY <1>1, <1>2, <1>3, <1>4, <1>5 DEF Next, Continue

\* WithLock lets one refresh of a movie in at a time.
THEOREM RefreshesExclude == Spec => []OneRefreshPerMovie
<1>1. Init => RefreshInv
  BY DEF Init, RefreshInv, Refreshing, Idle
<1>2. RefreshInv => OneRefreshPerMovie
  <2> SUFFICES ASSUME RefreshInv, NEW m \in MovieID
               PROVE  Cardinality({c \in Call : call[c].at \in {"agent", "save"}
                                                /\ call[c].movie = m})
                        = IF m \in refreshMDLocks THEN 1 ELSE 0
    BY DEF OneRefreshPerMovie
  <2> DEFINE R == {c \in Call : call[c].at \in {"agent", "save"} /\ call[c].movie = m}
  <2>1. CASE m \in refreshMDLocks
    <3>1. PICK c \in Call : R = {c}
      BY <2>1 DEF RefreshInv, Refreshing
    <3> QED BY <2>1, <3>1, FS_Singleton
  <2>2. CASE m \notin refreshMDLocks
    <3>1. R = {}
      BY <2>2 DEF RefreshInv, Refreshing
    <3> QED BY <2>2, <3>1, FS_EmptySet
  <2> QED BY <2>1, <2>2
<1> QED BY InitTypes, NextTypes, NextRefresh, <1>1, <1>2, PTL DEF Spec

(***************************************************************************)
(* Movies without files                                                    *)
(***************************************************************************)

\* A refresh collects nothing.
NothingOld == \A c \in Call : call[c].at \in {"trylock", "agent", "save"} => call[c].old = NoID

LEMMA NextNothingOld == TypeInv /\ NothingOld /\ [Next]_vars => NothingOld'
<1> SUFFICES ASSUME TypeInv, NothingOld, [Next]_vars PROVE NothingOld'
  OBVIOUS
<1>1. CASE UNCHANGED vars
  BY <1>1 DEF vars, NothingOld
<1>2. ASSUME NEW c \in Call, OthersStay(c),
             call'[c].at \in {"trylock", "agent", "save"} => call'[c].old = NoID
      PROVE  NothingOld'
  BY <1>2 DEF NothingOld, OthersStay
<1>3. ASSUME NEW c \in Call, Start(c) PROVE NothingOld'
  <2>1. OthersStay(c)
    BY <1>3, StartMoves DEF Moves
  <2>2. call'[c].at \in {"trylock", "agent", "save"} => call'[c].old = NoID
    <3> USE DEF TypeInv, TypeOK
    <3>1. ASSUME NEW f \in File, NEW t \in TmdbID,
                 GetOrCreateMovieForMovieFile(c, f, t) \/ UpdateMovieFileMetadata(c, f, t)
          PROVE  call'[c].at \in {"lock", "find"}
      <4>1. CASE GetOrCreateMovieForMovieFile(c, f, t)
        BY <4>1 DEF GetOrCreateMovieForMovieFile, Idle
      <4>2. CASE UpdateMovieFileMetadata(c, f, t)
        BY <4>2 DEF UpdateMovieFileMetadata, Idle
      <4> QED BY <3>1, <4>1, <4>2
    <3>2. ASSUME NEW f \in File, FindMovieFile(c, f) PROVE call'[c].at = "remove"
      BY <3>2 DEF FindMovieFile, Idle
    <3>3. ASSUME NEW m \in MovieID, RefreshAgentMetadataForUUID(c, m)
          PROVE  call'[c].old = NoID
      BY <3>3 DEF RefreshAgentMetadataForUUID, Idle
    <3> QED BY <1>3, <3>1, <3>2, <3>3 DEF Start
  <2> QED BY <1>2, <2>1, <2>2
<1>4. ASSUME NEW c \in Call, WithLock(c) \/ RefreshMovieMetadata(c) PROVE NothingOld'
  <2>1. OthersStay(c) /\ call[c].at \in {"trylock", "agent"}
    BY <1>4, ContinueMoves DEF Moves
  <2>2. call'[c].old \in {NoID, call[c].old}
    BY <1>4 DEF WithLock, RefreshMovieMetadata, Idle, TypeInv, TypeOK, CallStates
  <2> QED BY <1>2, <2>1, <2>2 DEF NothingOld
<1>5. ASSUME NEW c \in Call,
             \/ Lock(c) \/ FindMovieForMovieFile(c) \/ (\E m \in MovieID : Create(c, m))
             \/ AgentFails(c) \/ Attach(c) \/ DeleteWithStreams(c) \/ Collect(c)
             \/ DeleteMovieByID(c) \/ SaveAndUnlock(c)
      PROVE  NothingOld'
  <2>1. OthersStay(c) /\ call'[c].at \notin {"trylock", "agent", "save"}
    BY <1>5, ContinueMoves DEF Moves, Lock
  <2> QED BY <1>2, <2>1
<1> QED BY <1>1, <1>3, <1>4, <1>5 DEF Next, Continue

\* A step that moves no file, and after which c still attends to what it did.
LEMMA NothingMoved ==
  ASSUME TypeInv, UnusedMoviesAreExpected, NEW c \in Call, OthersStay(c), movieID' = movieID,
         \A m \in Movies' :
           /\ m \in Movies \/ Attends(c, m)'
           /\ m \in left => m \in left'
           /\ MovieFiles(m) = {} /\ Attends(c, m) => Attends(c, m)'
  PROVE  UnusedMoviesAreExpected'
<1> SUFFICES ASSUME NEW m \in Movies', MovieFiles(m)' = {}
             PROVE  m \in left' \/ \E d \in Call : Attends(d, m)'
  BY DEF UnusedMoviesAreExpected
<1>1. MovieFiles(m) = {}
  BY DEF MovieFiles
<1>2. \A d \in Call \ {c} : Attends(d, m) => Attends(d, m)'
  BY DEF OthersStay, Attends
<1>3. CASE m \in Movies
  <2>1. m \in left \/ \E d \in Call : Attends(d, m)
    BY <1>1, <1>3 DEF UnusedMoviesAreExpected
  <2> QED BY <1>1, <1>2, <2>1
<1> QED BY <1>3

\* Files that are moved to m: what they leave is seen by the call, or listed as left.
LEMMA FilesMoved ==
  ASSUME TypeInv, UnusedMoviesAreExpected, NEW c \in Call, OthersStay(c),
         UNCHANGED <<tmdbID, deleted>>,
         NEW S \in SUBSET File, NEW m \in MovieID \cup {Deleted},
         movieID' = [f \in File |-> IF f \in S THEN m ELSE movieID[f]],
         left' = left \cup (Unseen(c, S) \ {m}),
         \A n \in MovieID : n = call[c].old => Attends(c, n)',
         \A n \in MovieID : Attends(c, n) => Attends(c, n)' \/ (n = m /\ S # {})
  PROVE  UnusedMoviesAreExpected'
<1> SUFFICES ASSUME NEW n \in Movies', MovieFiles(n)' = {}
             PROVE  n \in left' \/ \E d \in Call : Attends(d, n)'
  BY DEF UnusedMoviesAreExpected
<1>1. n \in Movies /\ n \in MovieID
  BY DEF Movies
<1>2. n = m => S = {}
  BY DEF MovieFiles
<1>3. CASE \E f \in S : movieID[f] = n
  <2>1. n # m
    BY <1>2, <1>3
  <2>2. n # call[c].old => n \in Unseen(c, S)
    BY <1>1, <1>3 DEF Unseen
  <2>3. n = call[c].old => Attends(c, n)'
    BY <1>1
  <2> QED BY <2>1, <2>2, <2>3
<1>4. CASE ~ \E f \in S : movieID[f] = n
  <2>1. MovieFiles(n) = {}
    BY <1>4 DEF MovieFiles
  <2>2. n \in left \/ \E d \in Call : Attends(d, n)
    BY <1>1, <2>1 DEF UnusedMoviesAreExpected
  <2>3. \A d \in Call \ {c} : Attends(d, n) => Attends(d, n)'
    BY DEF OthersStay, Attends
  <2> QED BY <1>1, <1>2, <2>2, <2>3
<1> QED BY <1>3, <1>4

LEMMA NextUnused ==
  TypeInv /\ NothingOld /\ UnusedMoviesAreExpected /\ [Next]_vars => UnusedMoviesAreExpected'
<1> SUFFICES ASSUME TypeInv, NothingOld, UnusedMoviesAreExpected, [Next]_vars
             PROVE  UnusedMoviesAreExpected'
  OBVIOUS
<1>1. CASE UNCHANGED vars
  BY <1>1 DEF vars, dbVars, historyVars, UnusedMoviesAreExpected, Movies, MovieFiles, Attends
<1>2. ASSUME NEW c \in Call,
             \/ Start(c) \/ FindMovieForMovieFile(c) \/ Lock(c) \/ AgentFails(c) \/ WithLock(c)
      PROVE  UnusedMoviesAreExpected'
  <2>1. OthersStay(c) /\ call[c].at \notin {"attach", "collect", "delete"}
    BY <1>2, StartMoves, ContinueMoves DEF Moves, Lock
  <2>2. UNCHANGED <<dbVars, left>>
    BY <1>2, StartMoves DEF FindMovieForMovieFile, Lock, Found, NotFound, AgentFails,
       WithLock, historyVars
  <2>3. \A m \in MovieID : ~Attends(c, m)
    BY <2>1 DEF Attends
  <2> QED BY <2>1, <2>2, <2>3, NothingMoved DEF dbVars, Movies
<1>3. ASSUME NEW c \in Call, NEW m \in MovieID, Create(c, m) PROVE UnusedMoviesAreExpected'
  <2>1. OthersStay(c) /\ call[c].at = "create"
    BY <1>3, ContinueMoves DEF Moves
  <2>2. /\ UNCHANGED <<deleted, movieID, left>>
        /\ \A n \in MovieID : tmdbID'[n] # None => tmdbID[n] # None \/ n = m
        /\ Attends(c, m)'
    BY <1>3 DEF Create, historyVars, Attends, TypeInv, TypeOK, CallStates
  <2>3. \A n \in MovieID : ~Attends(c, n)
    BY <2>1 DEF Attends
  <2> QED BY <2>1, <2>2, <2>3, NothingMoved DEF Movies
<1>4. ASSUME NEW c \in Call, Attach(c) PROVE UnusedMoviesAreExpected'
  <2> DEFINE m == call[c].movie
  <2>1. /\ OthersStay(c) /\ UNCHANGED <<tmdbID, deleted>> /\ call[c].at = "attach"
        /\ call[c].file \in File /\ m \in MovieID /\ call[c].files \in SUBSET File
        /\ SaveMovieFile(c)
    BY <1>4, ContinueMoves DEF Moves, Attach, TypeInv, TypeOK, CallStates, HasCopies
  <2>2. \A n \in MovieID : n = call[c].old => Attends(c, n)'
    BY <1>4 DEF Attach, Attends, TypeInv, TypeOK, CallStates, Idle
  <2>3. \A n \in MovieID : Attends(c, n) => n = m
    BY <2>1 DEF Attends
  <2>4. CASE m \in deleted
    BY <2>1, <2>3, <2>4, NothingMoved DEF SaveMovieFile, historyVars, Movies
  <2>5. CASE m \notin deleted
    <3> DEFINE S == call[c].files \cup {call[c].file}
    <3>1. /\ S \in SUBSET File /\ S # {}
          /\ movieID' = [f \in File |-> IF f \in S THEN m ELSE movieID[f]]
          /\ left' = left \cup (Unseen(c, S) \ {m})
      BY <2>1, <2>5 DEF SaveMovieFile, SaveFiles
    <3> HIDE DEF S, m
    <3> QED BY <2>1, <2>2, <2>3, <3>1, FilesMoved
  <2> QED BY <2>4, <2>5
<1>5. ASSUME NEW c \in Call, DeleteWithStreams(c) PROVE UnusedMoviesAreExpected'
  <2> DEFINE S == {call[c].file}
  <2>1. /\ OthersStay(c) /\ UNCHANGED <<tmdbID, deleted>> /\ call[c].at = "remove"
        /\ S \in SUBSET File
    BY <1>5, ContinueMoves DEF Moves, DeleteWithStreams, TypeInv, TypeOK, HasCopies
  <2>2. /\ movieID' = [f \in File |-> IF f \in S THEN Deleted ELSE movieID[f]]
        /\ left' = left \cup (Unseen(c, S) \ {Deleted})
    <3>1. movieID' = [movieID EXCEPT ![call[c].file] = Deleted]
      BY <1>5 DEF DeleteWithStreams
    <3>2. left' = left \cup Unseen(c, S) /\ Deleted \notin Unseen(c, S)
      BY <1>5 DEF DeleteWithStreams, Unseen
    <3> QED BY <3>1, <3>2 DEF TypeInv, TypeOK
  <2>3. \A n \in MovieID : n = call[c].old => Attends(c, n)'
    BY <1>5 DEF DeleteWithStreams, Attends, TypeInv, TypeOK, Idle
  <2>4. \A n \in MovieID : ~Attends(c, n)
    BY <2>1 DEF Attends
  <2> HIDE DEF S
  <2> QED BY <2>1, <2>2, <2>3, <2>4, FilesMoved
<1>6. ASSUME NEW c \in Call, Collect(c) PROVE UnusedMoviesAreExpected'
  <2>1. OthersStay(c) /\ UNCHANGED <<dbVars, left>> /\ call[c].at = "collect"
    BY <1>6, ContinueMoves DEF Moves, Collect, historyVars
  <2>2. ASSUME NEW m \in Movies, MovieFiles(m) = {}, Attends(c, m) PROVE Attends(c, m)'
    <3>1. call[c].old = m
      BY <2>1, <2>2 DEF Attends
    <3> QED BY <1>6, <2>2, <3>1 DEF Collect, Attends, TypeInv, TypeOK, CallStates
  <2> QED BY <2>1, <2>2, NothingMoved DEF dbVars, Movies
<1>7. ASSUME NEW c \in Call, DeleteMovieByID(c) PROVE UnusedMoviesAreExpected'
  <2>1. /\ OthersStay(c) /\ UNCHANGED <<tmdbID, movieID>> /\ call[c].at = "delete"
        /\ deleted' = deleted \cup {call[c].old} /\ left' = left \ {call[c].old}
    BY <1>7, ContinueMoves DEF Moves, DeleteMovieByID
  <2>2. \A m \in Movies' : m \in Movies /\ m # call[c].old
    BY <2>1 DEF Movies
  <2>3. \A m \in MovieID : Attends(c, m) => m = call[c].old
    BY <2>1 DEF Attends
  <2> QED BY <2>1, <2>2, <2>3, NothingMoved DEF Movies
<1>8. ASSUME NEW c \in Call, RefreshMovieMetadata(c) \/ SaveAndUnlock(c)
      PROVE  UnusedMoviesAreExpected'
  <2> DEFINE m == call[c].movie
             S == call[c].files
  <2>1. /\ OthersStay(c) /\ UNCHANGED <<tmdbID, deleted>> /\ call[c].at \in {"agent", "save"}
        /\ m \in MovieID /\ S \in SUBSET File
        /\ SaveMovie(c) \/ UNCHANGED <<movieID, historyVars>>
    BY <1>8, ContinueMoves DEF Moves, RefreshMovieMetadata, SaveAndUnlock, TypeInv, TypeOK,
       CallStates, HasCopies
  <2>2. call[c].old = NoID /\ \A n \in MovieID : ~Attends(c, n)
    BY <2>1 DEF NothingOld, Attends
  <2>3. CASE UNCHANGED <<movieID, historyVars>>
    BY <2>1, <2>2, <2>3, NothingMoved DEF historyVars, Movies
  <2>4. CASE SaveMovie(c)
    <3>1. /\ movieID' = [f \in File |-> IF f \in S THEN m ELSE movieID[f]]
          /\ left' = left \cup (Unseen(c, S) \ {m})
      BY <2>4 DEF SaveMovie, SaveFiles
    <3> HIDE DEF S, m
    <3> QED BY <2>1, <2>2, <3>1, FilesMoved
  <2> QED BY <2>1, <2>3, <2>4
<1> QED BY <1>1, <1>2, <1>3, <1>4, <1>5, <1>6, <1>7, <1>8 DEF Next, Continue

\* At every moment a movie without files has a call that will give it one or
\* collect it, unless a file left it that somebody took to be another movie's.
THEOREM UnusedMoviesAreExpectedAlways == Spec => []UnusedMoviesAreExpected
<1>1. Init => NothingOld /\ UnusedMoviesAreExpected
  BY DEF Init, NothingOld, UnusedMoviesAreExpected, Movies, Idle
<1> QED BY <1>1, InitTypes, NextTypes, NextNothingOld, NextUnused, PTL DEF Spec
==============================================================================
