---------------------------- MODULE PlaybackSession ----------------------------
(***************************************************************************)
(* The playback sessions of streaming/session.go, the handlers that use    *)
(* them (streaming/segments.go, streaming/ffmpeg_feedback.go) and the two  *)
(* background activities that take sessions away: the garbage collection   *)
(* started with every new session and each session's timeout ticker.       *)
(*                                                                         *)
(* Everything the manager does holds m.mtx and is one step here, but that  *)
(* a counter it updates may have changed since it read it.  Release by a   *)
(* handler, the polls, the bookkeeping after a segment was served and the  *)
(* iteration of the garbage collection hold no lock and interleave freely  *)
(* with it and with each other.                                            *)
(***************************************************************************)
EXTENDS TranscodingSession, FiniteSets

CONSTANTS
  Stream,     \* (StreamKey, userID) pairs: what garbage collection groups by
  Player,     \* (sessionID, representationID) pairs
  Sid,        \* identities of PlaybackSession objects: bounds how many start
  Request,    \* HTTP requests; each is issued at most once
  None,
  LastIndex,  \* the last index of the playlist, so of any request
  SkipWindow, \* how far ahead of the last index a request may be: 5
  ThrottleAhead, \* how far ahead of the client ffmpeg may get: 10
  Overlap,    \* may unsynchronised updates of one counter overlap?
  Pipelined,  \* do clients ask for a segment while another is on its way?
  MayFail     \* may starting a session fail, or ffmpeg exit early?

ASSUME PlaybackSessionAssumption ==
  /\ None \notin Sid
  /\ None \notin Stream \X Player
  /\ IsFiniteSet(Request)
  /\ LastIndex \in Nat
  /\ SkipWindow \in Nat
  /\ ThrottleAhead \in Nat
  /\ Overlap \in BOOLEAN
  /\ Pipelined \in BOOLEAN
  /\ MayFail \in BOOLEAN

\* PlaybackSessionKey
Key == Stream \X Player

VARIABLES
  sessions,       \* PlaybackSessionManager.sessions
  key,            \* PlaybackSession.PlaybackSessionKey, None: not created
  referenceCount,
  lastRequested,  \* lastRequestedSegmentIdx
  lastServed,     \* lastServedSegmentIdx
  transcoding,    \* TranscodingSession
  newer,          \* the sessions whose lastAccessed is later
  expired,        \* lastAccessed is more than playbackSessionTimeout ago
  ticking,        \* sessions whose timeout ticker still runs
  gcPending,      \* sessions whose garbage collection has yet to iterate
  gcVictims,      \* the sessions a garbage collection still has to remove
  pc,             \* where each request's handler is
  idx,            \* the segment index the request asks for
  held,           \* the session the handler was given
  loaded,         \* the counter as an overlapping decrement has read it
  recent,         \* values of the counter that an update by the manager may have read
  lost,           \* history: the sessions an update of whose counter was lost
  detached,       \* history: how often the manager has let go of a session
  served          \* history: <<index asked for, segment served>>

managerVars == <<sessions, key, ticking, gcPending, gcVictims, detached>>
indexVars   == <<lastRequested, lastServed, served>>
accessVars  == <<newer, expired>>
requestVars == <<pc, idx, held, loaded>>
counterVars == <<referenceCount, recent, lost>>
vars == <<managerVars, indexVars, accessVars, requestVars,
          counterVars, transcoding>>

\* Handlers between being given a session and having released it.
Using    == {"serveInit", "serveSegment", "served", "feedback", "release", "store"}
Location == Using \cup {"new", "cleanup", "done"}

TypeOK ==
  /\ sessions \in [Key -> Sid \cup {None}]
  /\ key \in [Sid -> Key \cup {None}]
  /\ referenceCount \in [Sid -> Int]
  /\ lastRequested \in [Sid -> Nat \cup {-1}]
  /\ lastServed \in [Sid -> Nat \cup {-1}]
  /\ transcoding \in [Sid -> TranscodingSessions]
  /\ newer \in [Sid -> SUBSET Sid]
  /\ expired \in [Sid -> BOOLEAN]
  /\ ticking \in SUBSET Sid
  /\ gcPending \in SUBSET Sid
  /\ gcVictims \in [Sid -> SUBSET Sid]
  /\ pc \in [Request -> Location]
  /\ idx \in [Request -> InitSegmentIdx .. LastIndex]
  /\ held \in [Request -> Sid \cup {None}]
  /\ loaded \in [Request -> Int]
  /\ recent \in [Sid -> SUBSET Int]
  /\ lost \in SUBSET Sid
  /\ detached \in [Sid -> Nat]
  /\ served \in [Sid -> SUBSET ((InitSegmentIdx .. LastIndex) \X Nat)]

Init ==
  /\ sessions = [k \in Key |-> None]
  /\ key = [s \in Sid |-> None]
  /\ referenceCount = [s \in Sid |-> 0]
  /\ lastRequested = [s \in Sid |-> -1]
  /\ lastServed = [s \in Sid |-> -1]
  /\ transcoding = [s \in Sid |-> NoTranscodingSession]
  /\ newer = [s \in Sid |-> {}]
  /\ expired = [s \in Sid |-> FALSE]
  /\ ticking = {}
  /\ gcPending = {}
  /\ gcVictims = [s \in Sid |-> {}]
  /\ pc = [r \in Request |-> "new"]
  /\ idx = [r \in Request |-> InitSegmentIdx]
  /\ held = [r \in Request |-> None]
  /\ loaded = [r \in Request |-> 0]
  /\ recent = [s \in Sid |-> {0}]
  /\ lost = {}
  /\ detached = [s \in Sid |-> 0]
  /\ served = [s \in Sid |-> {}]

-----------------------------------------------------------------------------
Created(s)   == key[s] # None
Live(s)      == transcoding[s].dir
Destroyed(s) == Created(s) /\ ~Live(s)
Registered   == {s \in Sid : \E k \in Key : sessions[k] = s}

\* The handlers that count towards the references of s.
Users(s) == {r \in Request : held[r] = s /\ pc[r] \in Using}

\* lastAccessed = time.Now()
Touch(s) ==
  /\ newer' = [t \in Sid |-> IF t = s THEN {} ELSE newer[t] \cup {s}]
  /\ expired' = [expired EXCEPT ![s] = FALSE]

\* Mutant: the last reference does not count.
CleanupIfRequired_OffByOne(t, c) == IF c >= 0 THEN t ELSE Destroy(t)

\* CleanupIfRequired, for a session whose counter is c.
CleanupIfRequired(t, c) == IF c > 0 THEN t ELSE Destroy(t)

\* referenceCount++ and -- under the lock, which handlers do not take: what the
\* manager has read may be any value since its last update of a counter, and
\* then the decrements of handlers since are lost.
Update(s, read, count) ==
  /\ referenceCount' = [referenceCount EXCEPT ![s] = count]
  /\ recent' = [t \in Sid |-> {referenceCount'[t]}]
  /\ lost' = IF read = referenceCount[s] THEN lost ELSE lost \cup {s}

\* Both lines with which the manager lets go of a session while it holds
\* the lock: referenceCount--, CleanupIfRequired.
Detach(s) ==
  \E read \in recent[s] :
    /\ Update(s, read, read - 1)
    /\ transcoding' = [transcoding EXCEPT ![s] = CleanupIfRequired(@, read - 1)]
    /\ detached' = [detached EXCEPT ![s] = @ + 1]

\* Mutant: the handler is not counted.
Acquire_Uncounted(s) == UNCHANGED counterVars

Acquire(s) == \E read \in recent[s] : Update(s, read, read + 1)

\* The handler has the session and starts to use it.
Give(r, s, i, next) ==
  /\ held' = [held EXCEPT ![r] = s]
  /\ idx' = [idx EXCEPT ![r] = i]
  /\ pc' = [pc EXCEPT ![r] = next]
  /\ UNCHANGED loaded

Serve(i) == IF i = InitSegmentIdx THEN "serveInit" ELSE "serveSegment"

-----------------------------------------------------------------------------
(* GetPlaybackSession *)

\* May the session serve a request for index i, or is the client seeking?
Continues(s, i) ==
  \/ i = InitSegmentIdx
  \/ i > lastRequested[s] /\ i < lastRequested[s] + SkipWindow

\* A client that does not pipeline has had its answer from s, or seeks.
MayAsk(s) ==
  Pipelined \/ \A q \in Request : held[q] = s => pc[q] \notin {"serveSegment", "served"}

\* The existing session is good for the request.
GetExisting(r, k, i) ==
  LET s == sessions[k] IN
  /\ pc[r] = "new"
  /\ s # None
  /\ MayAsk(s)
  /\ Continues(s, i)
  /\ Acquire(s)
  /\ Give(r, s, i, Serve(i))
  /\ UNCHANGED <<managerVars, indexVars, accessVars, transcoding>>

NeedsNewSession(r, k, i) ==
  /\ pc[r] = "new"
  /\ sessions[k] # None => ~Continues(sessions[k], i)

\* Mutant: ffmpeg is told to start at the magic index.
StartAtSegmentIdx_Magic(i) == i

\* A session started for the init segment starts at the beginning.
StartAtSegmentIdx(i) == IF i = InitSegmentIdx THEN 0 ELSE i

\* Counters and processes when s, which starts at segment first, takes the place of
\* the session under k, whose counter the manager has read before.
Replace(k, s, first, read) ==
  LET old == sessions[k] IN
  /\ referenceCount' =
       [t \in Sid |-> CASE t = s   -> 2
                        [] t = old -> read - 1
                        [] OTHER   -> referenceCount[t]]
  /\ recent' = [t \in Sid |-> {referenceCount'[t]}]
  /\ lost' = IF old = None \/ read = referenceCount[old] THEN lost ELSE lost \cup {old}
  /\ transcoding' =
       [t \in Sid |->
          CASE t = s   -> NewTranscodingSession(first)
            [] t = old -> CleanupIfRequired(transcoding[t], read - 1)
            [] OTHER   -> transcoding[t]]
  /\ detached' = [t \in Sid |-> IF t = old THEN detached[t] + 1 ELSE detached[t]]

\* NewPlaybackSession and the rest of GetPlaybackSession: the new session
\* replaces the one the manager lets go of, if there is one.
StartSession(r, k, i, s) ==
  LET old   == sessions[k]
      first == StartAtSegmentIdx(i)
  IN
  /\ NeedsNewSession(r, k, i)
  /\ ~Created(s)
  /\ key' = [key EXCEPT ![s] = k]
  /\ sessions' = [sessions EXCEPT ![k] = s]
  /\ \E read \in IF old = None THEN {0} ELSE recent[old] : Replace(k, s, first, read)
  /\ lastRequested' = [lastRequested EXCEPT ![s] = first - 1]
  /\ lastServed' = [lastServed EXCEPT ![s] = first - 1]
  /\ Touch(s)
  /\ ticking' = ticking \cup {s}
  /\ gcPending' = gcPending \cup {s}
  /\ Give(r, s, i, Serve(i))
  /\ UNCHANGED <<gcVictims, served>>

\* NewPlaybackSession fails.  The manager has let go of the old session, which
\* stays in the map; the handler has no session and its request dies.
StartSessionFails(r, k, i) ==
  LET old == sessions[k] IN
  /\ MayFail
  /\ NeedsNewSession(r, k, i)
  /\ pc' = [pc EXCEPT ![r] = "done"]
  /\ \/ /\ old = None
        /\ UNCHANGED <<counterVars, transcoding, detached>>
     \/ /\ old # None
        /\ Detach(old)
  /\ UNCHANGED <<sessions, key, ticking, gcPending, gcVictims,
                 indexVars, accessVars, idx, held, loaded>>

GetPlaybackSession(r) ==
  \E k \in Key, i \in InitSegmentIdx .. LastIndex :
    \/ GetExisting(r, k, i)
    \/ \E s \in Sid : StartSession(r, k, i, s)
    \/ StartSessionFails(r, k, i)

\* ffmpeg posts feedback for a session that is still in the map.
GetPlaybackSessionByID(r) ==
  \E s \in Registered :
    /\ pc[r] = "new"
    /\ Acquire(s)
    /\ Give(r, s, idx[r], "feedback")
    /\ UNCHANGED <<managerVars, indexVars, accessVars, transcoding>>

-----------------------------------------------------------------------------
(* The handlers *)

\* AvailableSegments cannot read the directory any more: answer 500.
PollFails(r) ==
  /\ pc[r] \in {"serveInit", "serveSegment"}
  /\ ~Live(held[r])
  /\ pc' = [pc EXCEPT ![r] = "release"]
  /\ UNCHANGED <<managerVars, indexVars, accessVars, idx, held, loaded,
                 counterVars, transcoding>>

\* serveInit finds the init segment and serves it.
ServeInit(r) ==
  /\ pc[r] = "serveInit"
  /\ Live(held[r])
  /\ InitSegmentIdx \in AvailableSegments(transcoding[held[r]])
  /\ Touch(held[r])
  /\ pc' = [pc EXCEPT ![r] = "release"]
  /\ UNCHANGED <<managerVars, indexVars, idx, held, loaded,
                 counterVars, transcoding>>

\* Mutant: the file the client names.
SegmentIdxToServe_AsAsked(r) == idx[r]

\* The segment after the last one served, whatever index was asked for.
SegmentIdxToServe(r) == lastServed[held[r]] + 1

\* serveSegment finds the segment and serves it.
ServeSegment(r) ==
  LET s == held[r]
      i == SegmentIdxToServe(r)
  IN
  /\ pc[r] = "serveSegment"
  /\ Live(s)
  /\ i \in AvailableSegments(transcoding[s])
  /\ served' = [served EXCEPT ![s] = @ \cup {<<idx[r], i>>}]
  /\ pc' = [pc EXCEPT ![r] = "served"]
  /\ UNCHANGED <<managerVars, accessVars, idx, held, loaded,
                 lastRequested, lastServed, counterVars, transcoding>>

\* The bookkeeping once ServeFile has returned.
RecordServed(r) ==
  LET s == held[r] IN
  /\ pc[r] = "served"
  /\ \/ /\ lastRequested[s] # idx[r]
        /\ lastRequested' = [lastRequested EXCEPT ![s] = idx[r]]
        /\ lastServed' = [lastServed EXCEPT ![s] = @ + 1]
     \/ /\ lastRequested[s] = idx[r]
        /\ UNCHANGED <<lastRequested, lastServed>>
  /\ Touch(s)
  /\ pc' = [pc EXCEPT ![r] = "release"]
  /\ UNCHANGED <<managerVars, served, idx, held, loaded,
                 counterVars, transcoding>>

\* Is some segment far enough ahead of the client?
ShouldThrottle(s) ==
  \E n \in AvailableSegments(transcoding[s]) : n >= lastServed[s] + ThrottleAhead

\* serveFFmpegFeedback; without a directory there are no segments.
Feedback(r) ==
  LET s == held[r] IN
  /\ pc[r] = "feedback"
  /\ transcoding' = [transcoding EXCEPT
                       ![s].throttled = Live(s) /\ ShouldThrottle(s)]
  /\ pc' = [pc EXCEPT ![r] = "release"]
  /\ UNCHANGED <<managerVars, indexVars, accessVars, idx, held, loaded,
                 counterVars>>

-----------------------------------------------------------------------------
(* Release, which the handlers call without the lock *)

\* The counter of s is set to count by a handler.
Count(s, count) ==
  /\ referenceCount' = [referenceCount EXCEPT ![s] = count]
  /\ recent' = [recent EXCEPT ![s] = (IF Overlap THEN @ ELSE {}) \cup {count}]

Decrement(r) ==
  /\ pc[r] = "release"
  /\ Count(held[r], referenceCount[held[r]] - 1)
  /\ pc' = [pc EXCEPT ![r] = "cleanup"]
  /\ UNCHANGED <<managerVars, indexVars, accessVars, idx, held, loaded, lost, transcoding>>

\* The same decrement when its load and its store are apart.
DecrementLoad(r) ==
  /\ Overlap
  /\ pc[r] = "release"
  /\ loaded' = [loaded EXCEPT ![r] = referenceCount[held[r]]]
  /\ pc' = [pc EXCEPT ![r] = "store"]
  /\ UNCHANGED <<managerVars, indexVars, accessVars, idx, held,
                 counterVars, transcoding>>

\* It undoes an update that was made since its load.
DecrementStore(r) ==
  /\ pc[r] = "store"
  /\ Count(held[r], loaded[r] - 1)
  /\ lost' = IF loaded[r] = referenceCount[held[r]] THEN lost ELSE lost \cup {held[r]}
  /\ pc' = [pc EXCEPT ![r] = "cleanup"]
  /\ UNCHANGED <<managerVars, indexVars, accessVars, idx, held, loaded, transcoding>>

\* CleanupIfRequired reads the counter again; the handler is finished.
Cleanup(r) ==
  LET s == held[r] IN
  /\ pc[r] = "cleanup"
  /\ transcoding' = [transcoding EXCEPT ![s] = CleanupIfRequired(@, referenceCount[s])]
  /\ pc' = [pc EXCEPT ![r] = "done"]
  /\ held' = [held EXCEPT ![r] = None]
  /\ idx' = [idx EXCEPT ![r] = InitSegmentIdx]
  /\ loaded' = [loaded EXCEPT ![r] = 0]
  /\ UNCHANGED <<managerVars, indexVars, accessVars, counterVars>>

-----------------------------------------------------------------------------
(* Taking sessions away *)

\* Mutant: the entry is deleted only with the last reference.
RemovePlaybackSession_KeepsShared(s) ==
  /\ sessions' = IF referenceCount[s] > 1
                 THEN sessions ELSE [sessions EXCEPT ![key[s]] = None]
  /\ Detach(s)

\* Mutant: the entry goes, the reference stays.
RemovePlaybackSession_KeepsReference(s) ==
  /\ sessions' = [sessions EXCEPT ![key[s]] = None]
  /\ UNCHANGED <<counterVars, transcoding, detached>>

\* delete by key, then Release, all under the lock.
RemovePlaybackSession(s) ==
  /\ sessions' = [sessions EXCEPT ![key[s]] = None]
  /\ Detach(s)

\* The iteration of garbageCollectPlaybackSessions, without the lock: all
\* but the most recently accessed session of each stream are to go.
GCIterate(g) ==
  /\ g \in gcPending
  /\ gcPending' = gcPending \ {g}
  /\ gcVictims' = [gcVictims EXCEPT ![g] =
       {s \in Registered : \E t \in Registered \cap newer[s] : key[t][1] = key[s][1]}]
  /\ UNCHANGED <<sessions, key, ticking, detached, indexVars, accessVars,
                 requestVars, counterVars, transcoding>>

GCRemove(g) ==
  \E s \in gcVictims[g] :
    /\ gcVictims' = [gcVictims EXCEPT ![g] = @ \ {s}]
    /\ RemovePlaybackSession(s)
    /\ UNCHANGED <<key, ticking, gcPending, indexVars, accessVars, requestVars>>

\* The ticker finds that the session has not been accessed for too long.
TickerFires(s) ==
  /\ s \in ticking
  /\ expired[s]
  /\ ticking' = ticking \ {s}
  /\ RemovePlaybackSession(s)
  /\ UNCHANGED <<key, gcPending, gcVictims, indexVars, accessVars, requestVars>>

-----------------------------------------------------------------------------
(* The environment: time and ffmpeg *)

\* playbackSessionTimeout passes without an access.
Expire(s) ==
  /\ Created(s)
  /\ ~expired[s]
  /\ expired' = [expired EXCEPT ![s] = TRUE]
  /\ UNCHANGED <<managerVars, indexVars, newer, requestVars,
                 counterVars, transcoding>>

Transcode(s) ==
  /\ CanTranscode(transcoding[s])
  /\ transcoding' = [transcoding EXCEPT ![s] = Transcoded(@)]
  /\ UNCHANGED <<managerVars, indexVars, accessVars, requestVars, counterVars>>

Exit(s) ==
  /\ ~transcoding[s].terminated
  /\ CanTranscode(transcoding[s]) => MayFail
  /\ transcoding' = [transcoding EXCEPT ![s] = Exited(@)]
  /\ UNCHANGED <<managerVars, indexVars, accessVars, requestVars, counterVars>>

-----------------------------------------------------------------------------
Handle(r) ==
  \/ PollFails(r) \/ ServeInit(r) \/ ServeSegment(r) \/ RecordServed(r)
  \/ Feedback(r)
  \/ Decrement(r) \/ DecrementLoad(r) \/ DecrementStore(r) \/ Cleanup(r)

Next ==
  \/ \E r \in Request : \/ GetPlaybackSession(r)
                        \/ GetPlaybackSessionByID(r)
                        \/ Handle(r)
  \/ \E s \in Sid : \/ GCIterate(s) \/ GCRemove(s) \/ TickerFires(s)
                    \/ Expire(s) \/ Transcode(s) \/ Exit(s)

Spec == Init /\ [][Next]_vars

(* Every goroutine runs on: handlers, garbage collections, tickers.  Time   *)
(* passes and ffmpeg works.  No client has to send anything.                *)
Fairness ==
  /\ \A r \in Request : WF_vars(Handle(r))
  /\ \A s \in Sid : /\ WF_vars(GCIterate(s)) /\ WF_vars(GCRemove(s))
                     /\ WF_vars(TickerFires(s)) /\ WF_vars(Expire(s))
                     /\ WF_vars(Transcode(s)) /\ WF_vars(Exit(s))

FairSpec == Spec /\ Fairness

-----------------------------------------------------------------------------
(* Properties *)

\* The counter of s is the manager's own reference plus one per handler using
\* the session, less one for every time the manager has let go of it.
Counted(s) == referenceCount[s] = 1 + Cardinality(Users(s)) - detached[s]

\* The counter is what its comment says (session.go:65), whatever interleaves,
\* until an update of it is lost: a handler decrements without the lock
\* (session.go:246), with another handler's or the manager's update under way.
CountsOwners == \A s \in Sid : Created(s) /\ s \notin lost => Counted(s)

\* The ticker of s runs, a handler uses it, or a handler is about to destroy it.
HasOwner(s) ==
  \/ s \in ticking
  \/ \E r \in Request : held[r] = s /\ pc[r] \in Using \cup {"cleanup"}

\* Nothing is left behind: while the directory and the process of a session
\* exist, somebody will destroy it, unless an update of its counter was lost.
LiveHasOwner == \A s \in Sid : Live(s) /\ s \notin lost => HasOwner(s)

\* An entry of the map can always still time out: whatever the map holds has
\* its ticker running, even a session that a failed start has left there.
RegisteredHasTicker == Registered \subseteq ticking

\* What the counter does guarantee: a session is destroyed under a handler
\* that uses it only if the manager has let go of it more than once, or an
\* update of its counter was lost.
DestroyedUnderUserOnlyIfDetachedTwice ==
  [][\A s \in Sid :
       Live(s) /\ ~Live(s)' /\ Users(s)' # {} => detached'[s] >= 2 \/ s \in lost']_vars

\* What the comment on referenceCount promises (session.go:65): a session is
\* not destroyed while requests still wait for a product of it.
NeverDestroyedUnderUser ==
  [][\A s \in Sid : Live(s) /\ ~Live(s)' => Users(s)' = {}]_vars

\* GetPlaybackSession destroys any existing session before it starts a new
\* one (session.go:154), so it must find it: a session that the manager has
\* not let go of stays in the map, unless the removal of a session that it
\* replaced has deleted its entry (session.go:242 deletes by key).
ForgottenOnlyByStaleRemoval ==
  \A s \in Sid :
    Created(s) /\ detached[s] = 0 =>
      \/ sessions[key[s]] = s
      \/ \E u \in Sid \ {s} : key[u] = key[s] /\ detached[u] >= 2

\* lastServedSegmentIdx is the index of the last segment served, and they
\* are served one by one (session.go:61).
ServedInOrder ==
  \A s \in Sid :
    /\ Created(s)
    /\ \A r \in Request : held[r] = s => pc[r] # "served"
    => {p[2] : p \in served[s]} = transcoding[s].start .. lastServed[s]

\* A session that is not accessed any more is destroyed by its ticker in the
\* end (session.go:277), unless an update of its counter was lost.
SessionsEnd ==
  \A s \in Sid : Created(s) ~> Destroyed(s) \/ ~Counted(s)

\* Every request that was given a session is answered.
RequestsReturn == \A r \in Request : pc[r] \in Using ~> pc[r] = "done"
===============================================================================
