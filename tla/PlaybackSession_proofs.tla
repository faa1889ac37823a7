------------------------- MODULE PlaybackSession_proofs -------------------------
(***************************************************************************)
(* What holds of the playback sessions for any number of sessions, keys    *)
(* and requests: types, the accounting of referenceCount until an update   *)
(* of it is lost, and what follows from it.                                *)
(***************************************************************************)
EXTENDS PlaybackSession, FiniteSetTheorems, TLAPS

USE PlaybackSessionAssumption, LastSegmentAssumption

(***************************************************************************)
(* Types                                                                   *)
(***************************************************************************)

LEMMA StartType ==
  ASSUME NEW i \in InitSegmentIdx .. LastIndex
  PROVE  /\ StartAtSegmentIdx(i) \in Nat
         /\ StartAtSegmentIdx(i) - 1 \in Nat \cup {-1}
  BY DEF StartAtSegmentIdx, InitSegmentIdx

LEMMA NewTranscodingType ==
  ASSUME NEW n \in Nat
  PROVE  NewTranscodingSession(n) \in TranscodingSessions
  BY DEF TranscodingSessions, NewTranscodingSession

LEMMA CleanupType ==
  ASSUME NEW t \in TranscodingSessions, NEW c \in Int
  PROVE  CleanupIfRequired(t, c) \in TranscodingSessions
  BY DEF TranscodingSessions, CleanupIfRequired, Destroy

CounterTypes ==
  referenceCount \in [Sid -> Int] /\ recent \in [Sid -> SUBSET Int] /\ lost \in SUBSET Sid

LEMMA UpdateType ==
  ASSUME TypeOK, NEW s \in Sid, NEW read, NEW count \in Int, Update(s, read, count)
  PROVE  CounterTypes'
<1>1. referenceCount' \in [Sid -> Int]
  BY DEF TypeOK, Update
<1>2. recent' \in [Sid -> SUBSET Int] /\ lost' \in SUBSET Sid
  BY <1>1 DEF TypeOK, Update
<1> QED BY <1>1, <1>2 DEF CounterTypes

LEMMA AcquireType ==
  ASSUME TypeOK, NEW s \in Sid, Acquire(s)
  PROVE  CounterTypes'
<1>1. PICK read \in recent[s] : Update(s, read, read + 1)
  BY DEF Acquire
<1>2. read + 1 \in Int
  BY DEF TypeOK
<1> QED BY <1>1, <1>2, UpdateType

LEMMA DetachType ==
  ASSUME TypeOK, NEW s \in Sid, Detach(s)
  PROVE  /\ CounterTypes'
         /\ transcoding' \in [Sid -> TranscodingSessions]
         /\ detached' \in [Sid -> Nat]
<1>1. PICK read \in recent[s] :
        /\ Update(s, read, read - 1)
        /\ transcoding' = [transcoding EXCEPT ![s] = CleanupIfRequired(@, read - 1)]
        /\ detached' = [detached EXCEPT ![s] = @ + 1]
  BY DEF Detach
<1>2. read - 1 \in Int /\ transcoding[s] \in TranscodingSessions
  BY DEF TypeOK
<1>3. CleanupIfRequired(transcoding[s], read - 1) \in TranscodingSessions
  BY <1>2, CleanupType
<1> QED BY <1>1, <1>2, <1>3, UpdateType DEF TypeOK

LEMMA CountType ==
  ASSUME TypeOK, NEW s \in Sid, NEW count \in Int, Count(s, count)
  PROVE  referenceCount' \in [Sid -> Int] /\ recent' \in [Sid -> SUBSET Int]
<1>1. (IF Overlap THEN recent[s] ELSE {}) \cup {count} \in SUBSET Int
  BY DEF TypeOK
<1> QED BY <1>1 DEF TypeOK, Count

LEMMA TranscodedType ==
  ASSUME NEW t \in TranscodingSessions
  PROVE  Transcoded(t) \in TranscodingSessions /\ Exited(t) \in TranscodingSessions
<1>1. t.newest + 1 \in Int
  BY DEF TranscodingSessions
<1> QED BY <1>1 DEF TranscodingSessions, Transcoded, Exited

LEMMA ThrottledType ==
  ASSUME NEW t \in TranscodingSessions, NEW b \in BOOLEAN
  PROVE  [t EXCEPT !.throttled = b] \in TranscodingSessions
  BY DEF TranscodingSessions

\* A handler that is past its start and not done has a session.
HoldsSession ==
  \A r \in Request : pc[r] \in Using \cup {"cleanup"} => held[r] \in Sid

TypeInv == TypeOK /\ HoldsSession

LEMMA InitTypes == Init => TypeInv
<1> SUFFICES ASSUME Init PROVE TypeInv
  OBVIOUS
<1>1. TypeOK
  BY DEF Init, TypeOK, NoTranscodingSession, TranscodingSessions, Location,
         Using, InitSegmentIdx
<1>2. HoldsSession
  BY DEF Init, HoldsSession, Using
<1> QED BY <1>1, <1>2 DEF TypeInv

LEMMA NextTypes == TypeInv /\ [Next]_vars => TypeInv'
<1> SUFFICES ASSUME TypeInv, [Next]_vars PROVE TypeInv'
  OBVIOUS
<1> USE DEF TypeInv, TypeOK, HoldsSession, managerVars, indexVars, accessVars,
            requestVars, counterVars, Using, Location
<1>1. ASSUME NEW r \in Request, GetPlaybackSession(r) PROVE TypeInv'
  <2> PICK k \in Key, i \in InitSegmentIdx .. LastIndex :
        \/ GetExisting(r, k, i)
        \/ \E s \in Sid : StartSession(r, k, i, s)
        \/ StartSessionFails(r, k, i)
    BY <1>1 DEF GetPlaybackSession
  <2>1. CASE GetExisting(r, k, i)
    <3>1. CounterTypes'
      BY <2>1, AcquireType DEF GetExisting
    <3> QED BY <2>1, <3>1 DEF GetExisting, Give, Serve, CounterTypes
  <2>2. ASSUME NEW s \in Sid, StartSession(r, k, i, s) PROVE TypeInv'
    <3>1. StartAtSegmentIdx(i) \in Nat /\ StartAtSegmentIdx(i) - 1 \in Nat \cup {-1}
      BY StartType
    <3>a. PICK read \in IF sessions[k] = None THEN {0} ELSE recent[sessions[k]] :
             Replace(k, s, StartAtSegmentIdx(i), read)
      BY <2>2 DEF StartSession
    <3>b. read - 1 \in Int
      OBVIOUS
    <3>2. transcoding' \in [Sid -> TranscodingSessions]
      <4>1. ASSUME NEW t \in Sid PROVE
               /\ NewTranscodingSession(StartAtSegmentIdx(i)) \in TranscodingSessions
               /\ CleanupIfRequired(transcoding[t], read - 1) \in TranscodingSessions
        <5>1. transcoding[t] \in TranscodingSessions
          OBVIOUS
        <5> QED BY <3>1, <3>b, <5>1, NewTranscodingType, CleanupType
      <4> QED BY <4>1, <3>a DEF Replace
    <3>3. /\ sessions' \in [Key -> Sid \cup {None}]
          /\ key' \in [Sid -> Key \cup {None}]
          /\ detached' \in [Sid -> Nat]
      BY <2>2, <3>a DEF StartSession, Replace
    <3>7. CounterTypes'
      <4>1. referenceCount' \in [Sid -> Int]
        BY <3>a, <3>b DEF Replace
      <4>2. recent' \in [Sid -> SUBSET Int] /\ lost' \in SUBSET Sid
        BY <3>a, <4>1 DEF Replace
      <4> QED BY <4>1, <4>2 DEF CounterTypes
    <3>4. /\ lastRequested' \in [Sid -> Nat \cup {-1}]
          /\ lastServed' \in [Sid -> Nat \cup {-1}]
      BY <2>2, <3>1 DEF StartSession
    <3>5. newer' \in [Sid -> SUBSET Sid] /\ expired' \in [Sid -> BOOLEAN]
      BY <2>2 DEF StartSession, Touch
    <3>6. /\ pc' \in [Request -> Location] /\ held' \in [Request -> Sid \cup {None}]
          /\ idx' \in [Request -> InitSegmentIdx .. LastIndex] /\ loaded' = loaded
          /\ HoldsSession'
      BY <2>2 DEF StartSession, Give, Serve
    <3> QED BY <2>2, <3>2, <3>3, <3>4, <3>5, <3>6, <3>7 DEF StartSession, CounterTypes
  <2>3. CASE StartSessionFails(r, k, i)
    <3>1. CASE sessions[k] = None
      BY <2>3, <3>1 DEF StartSessionFails
    <3>2. CASE sessions[k] # None
      BY <2>3, <3>2, DetachType DEF StartSessionFails, CounterTypes
    <3> QED BY <3>1, <3>2
  <2> QED BY <2>1, <2>2, <2>3
<1>2. ASSUME NEW r \in Request, GetPlaybackSessionByID(r) PROVE TypeInv'
  <2> PICK s \in Registered : /\ pc[r] = "new" /\ Acquire(s)
                              /\ Give(r, s, idx[r], "feedback")
                              /\ UNCHANGED <<managerVars, indexVars, accessVars, transcoding>>
    BY <1>2 DEF GetPlaybackSessionByID
  <2>1. CounterTypes'
    BY AcquireType DEF Registered
  <2> QED BY <2>1 DEF Registered, Give, CounterTypes
<1>3. ASSUME NEW r \in Request, PollFails(r) PROVE TypeInv'
  BY <1>3 DEF PollFails
<1>4. ASSUME NEW r \in Request, ServeInit(r) PROVE TypeInv'
  BY <1>4 DEF ServeInit, Touch
<1>5. ASSUME NEW r \in Request, ServeSegment(r) PROVE TypeInv'
  <2>1. held[r] \in Sid /\ SegmentIdxToServe(r) \in Nat
    BY <1>5 DEF ServeSegment, SegmentIdxToServe
  <2>2. served' \in [Sid -> SUBSET ((InitSegmentIdx .. LastIndex) \X Nat)]
    BY <1>5, <2>1 DEF ServeSegment
  <2> QED BY <1>5, <2>2 DEF ServeSegment
<1>6. ASSUME NEW r \in Request, RecordServed(r) PROVE TypeInv'
  <2>1. held[r] \in Sid
    BY <1>6 DEF RecordServed
  <2>2. /\ lastRequested' \in [Sid -> Nat \cup {-1}]
        /\ lastServed' \in [Sid -> Nat \cup {-1}]
    BY <1>6, <2>1 DEF RecordServed, InitSegmentIdx
  <2>3. newer' \in [Sid -> SUBSET Sid] /\ expired' \in [Sid -> BOOLEAN]
    BY <1>6, <2>1 DEF RecordServed, Touch
  <2>4. pc' \in [Request -> Location] /\ HoldsSession'
    BY <1>6 DEF RecordServed
  <2> QED BY <1>6, <2>2, <2>3, <2>4 DEF RecordServed
<1>7. ASSUME NEW r \in Request, Feedback(r) PROVE TypeInv'
  <2>1. transcoding' \in [Sid -> TranscodingSessions]
    <3>1. held[r] \in Sid /\ transcoding[held[r]] \in TranscodingSessions
      BY <1>7 DEF Feedback
    <3>2. (Live(held[r]) /\ ShouldThrottle(held[r])) \in BOOLEAN
      BY <3>1 DEF Live, ShouldThrottle, TranscodingSessions
    <3> QED BY <1>7, <3>1, <3>2, ThrottledType DEF Feedback
  <2> QED BY <1>7, <2>1 DEF Feedback
<1>8. ASSUME NEW r \in Request, Decrement(r) PROVE TypeInv'
  <2>1. referenceCount' \in [Sid -> Int] /\ recent' \in [Sid -> SUBSET Int]
    <3>1. held[r] \in Sid /\ referenceCount[held[r]] - 1 \in Int
      BY <1>8 DEF Decrement
    <3> QED BY <1>8, <3>1, CountType DEF Decrement
  <2> QED BY <1>8, <2>1 DEF Decrement
<1>9. ASSUME NEW r \in Request, DecrementLoad(r) PROVE TypeInv'
  BY <1>9 DEF DecrementLoad
<1>10. ASSUME NEW r \in Request, DecrementStore(r) PROVE TypeInv'
  <2>1. referenceCount' \in [Sid -> Int] /\ recent' \in [Sid -> SUBSET Int]
    <3>1. held[r] \in Sid /\ loaded[r] - 1 \in Int
      BY <1>10 DEF DecrementStore
    <3> QED BY <1>10, <3>1, CountType DEF DecrementStore
  <2>2. lost' \in SUBSET Sid
    BY <1>10 DEF DecrementStore
  <2> QED BY <1>10, <2>1, <2>2 DEF DecrementStore
<1>11. ASSUME NEW r \in Request, Cleanup(r) PROVE TypeInv'
  <2>1. transcoding' \in [Sid -> TranscodingSessions]
    BY <1>11, CleanupType DEF Cleanup
  <2> QED BY <1>11, <2>1 DEF Cleanup, InitSegmentIdx
<1>12. ASSUME NEW g \in Sid, GCIterate(g) PROVE TypeInv'
  BY <1>12 DEF GCIterate, Registered
<1>13. ASSUME NEW s \in Sid, RemovePlaybackSession(s)
       PROVE  /\ sessions' \in [Key -> Sid \cup {None}]
              /\ CounterTypes'
              /\ transcoding' \in [Sid -> TranscodingSessions]
              /\ detached' \in [Sid -> Nat]
  BY <1>13, DetachType DEF RemovePlaybackSession
<1>14. ASSUME NEW g \in Sid, GCRemove(g) PROVE TypeInv'
  BY <1>13, <1>14 DEF GCRemove, CounterTypes
<1>15. ASSUME NEW s \in Sid, TickerFires(s) PROVE TypeInv'
  BY <1>13, <1>15 DEF TickerFires, CounterTypes
<1>16. ASSUME NEW s \in Sid, Expire(s) PROVE TypeInv'
  BY <1>16 DEF Expire
<1>17. ASSUME NEW s \in Sid, Transcode(s) PROVE TypeInv'
  <2>1. transcoding' \in [Sid -> TranscodingSessions]
    BY <1>17, TranscodedType DEF Transcode
  <2> QED BY <1>17, <2>1 DEF Transcode
<1>18. ASSUME NEW s \in Sid, Exit(s) PROVE TypeInv'
  <2>1. transcoding' \in [Sid -> TranscodingSessions]
    BY <1>18, TranscodedType DEF Exit
  <2> QED BY <1>18, <2>1 DEF Exit
<1>19. CASE UNCHANGED vars
  BY <1>19 DEF vars
<1> QED
  BY <1>1, <1>2, <1>3, <1>4, <1>5, <1>6, <1>7, <1>8, <1>9, <1>10, <1>11, <1>12,
     <1>14, <1>15, <1>16, <1>17, <1>18, <1>19 DEF Next, Handle

\* Every variable keeps the type the declarations of session.go give it.
THEOREM TypesCorrect == Spec => []TypeOK
<1>1. Spec => []TypeInv
  BY InitTypes, NextTypes, PTL DEF Spec
<1> QED BY <1>1, PTL DEF TypeInv

(***************************************************************************)
(* The map                                                                 *)
(***************************************************************************)

\* The map holds each session under the session's own key.
MapInv == \A k \in Key : sessions[k] # None => key[sessions[k]] = k

LEMMA MapInvStep ==
  ASSUME TypeInv, MapInv, [Next]_vars
  PROVE  MapInv'
<1> USE DEF MapInv, TypeInv, TypeOK, managerVars
<1>1. ASSUME NEW r \in Request, GetPlaybackSession(r) PROVE MapInv'
  <2> PICK k \in Key, i \in InitSegmentIdx .. LastIndex :
        \/ GetExisting(r, k, i)
        \/ \E s \in Sid : StartSession(r, k, i, s)
        \/ StartSessionFails(r, k, i)
    BY <1>1 DEF GetPlaybackSession
  <2>1. CASE GetExisting(r, k, i)
    BY <2>1 DEF GetExisting
  <2>2. ASSUME NEW s \in Sid, StartSession(r, k, i, s) PROVE MapInv'
    <3>1. \A j \in Key : sessions[j] # s
      BY <2>2, PlaybackSessionAssumption DEF StartSession, Created, Key
    <3> QED BY <2>2, <3>1 DEF StartSession
  <2>3. CASE StartSessionFails(r, k, i)
    BY <2>3 DEF StartSessionFails
  <2> QED BY <2>1, <2>2, <2>3
<1>2. ASSUME NEW s \in Sid, RemovePlaybackSession(s), UNCHANGED key PROVE MapInv'
  BY <1>2 DEF RemovePlaybackSession
<1>3. CASE UNCHANGED <<sessions, key>>
  BY <1>3
<1> QED
  BY <1>1, <1>2, <1>3 DEF Next, Handle, vars, GetPlaybackSessionByID, PollFails,
     ServeInit, ServeSegment, RecordServed, Feedback, Decrement, DecrementLoad,
     DecrementStore, Cleanup, GCIterate, GCRemove, TickerFires, Expire, Transcode, Exit

LEMMA RegisteredStep ==
  ASSUME TypeInv, MapInv, RegisteredHasTicker, [Next]_vars
  PROVE  RegisteredHasTicker'
<1> USE DEF RegisteredHasTicker, Registered, MapInv, TypeInv, TypeOK, managerVars
<1>1. ASSUME NEW r \in Request, GetPlaybackSession(r) PROVE RegisteredHasTicker'
  <2> PICK k \in Key, i \in InitSegmentIdx .. LastIndex :
        \/ GetExisting(r, k, i)
        \/ \E s \in Sid : StartSession(r, k, i, s)
        \/ StartSessionFails(r, k, i)
    BY <1>1 DEF GetPlaybackSession
  <2>1. CASE GetExisting(r, k, i)
    BY <2>1 DEF GetExisting
  <2>2. ASSUME NEW s \in Sid, StartSession(r, k, i, s) PROVE RegisteredHasTicker'
    <3>1. \A j \in Key : sessions'[j] \in {s, sessions[j]}
      BY <2>2 DEF StartSession
    <3> QED BY <2>2, <3>1 DEF StartSession
  <2>3. CASE StartSessionFails(r, k, i)
    BY <2>3 DEF StartSessionFails
  <2> QED BY <2>1, <2>2, <2>3
<1>2. ASSUME NEW g \in Sid, GCRemove(g) PROVE RegisteredHasTicker'
  <2>1. PICK s \in Sid : RemovePlaybackSession(s) /\ ticking' = ticking
    BY <1>2 DEF GCRemove
  <2>2. \A j \in Key : sessions'[j] \in {None, sessions[j]}
    BY <2>1 DEF RemovePlaybackSession
  <2> QED BY <2>1, <2>2, PlaybackSessionAssumption
<1>3. ASSUME NEW s \in Sid, TickerFires(s) PROVE RegisteredHasTicker'
  <2>1. \A j \in Key : /\ sessions'[j] \in {None, sessions[j]}
                       /\ j = key[s] => sessions'[j] = None
    BY <1>3 DEF TickerFires, RemovePlaybackSession
  <2>2. \A j \in Key : sessions'[j] # s
    BY <2>1, PlaybackSessionAssumption
  <2> QED BY <1>3, <2>1, <2>2, PlaybackSessionAssumption DEF TickerFires
<1>4. CASE UNCHANGED <<sessions, ticking>>
  BY <1>4
<1> QED
  BY <1>1, <1>2, <1>3, <1>4 DEF Next, Handle, vars, GetPlaybackSessionByID, PollFails,
     ServeInit, ServeSegment, RecordServed, Feedback, Decrement, DecrementLoad,
     DecrementStore, Cleanup, GCIterate, Expire, Transcode, Exit

\* Whatever the map holds can still time out (session.go:279): no entry of
\* the map outlives its ticker, however handlers and removals interleave.
THEOREM RegisteredHasTickerAlways == Spec => []RegisteredHasTicker
<1>1. Init => MapInv /\ RegisteredHasTicker
  BY PlaybackSessionAssumption DEF Init, MapInv, RegisteredHasTicker, Registered
<1>2. (TypeInv /\ MapInv /\ RegisteredHasTicker) /\ [Next]_vars
        => (TypeInv /\ MapInv /\ RegisteredHasTicker)'
  BY NextTypes, MapInvStep, RegisteredStep
<1> QED BY <1>1, <1>2, InitTypes, PTL DEF Spec

(***************************************************************************)
(* The reference count                                                     *)
(***************************************************************************)

\* Nothing refers to a session that has not been started.
FreshInv ==
  \A s \in Sid : ~Created(s) =>
    /\ ~Live(s)
    /\ detached[s] = 0
    /\ \A r \in Request : held[r] # s
    /\ \A g \in Sid : s \notin gcVictims[g]
    /\ s \notin ticking

\* A live session without references is going to be destroyed by a handler.
UnreferencedInv ==
  \A s \in Sid : Live(s) /\ referenceCount[s] <= 0 =>
    \E r \in Request : held[r] = s /\ pc[r] \in Using \cup {"cleanup"}

\* The ticker stops only when the manager lets go of the session.
StoppedInv == \A s \in Sid : Created(s) /\ s \notin ticking => detached[s] >= 1

OwnerInv == TypeInv /\ MapInv /\ FreshInv /\ UnreferencedInv /\ StoppedInv

\* What is said of one counter, and that a step keeps it so.
CountedInv(s) == Created(s) /\ s \notin lost => Counted(s)
KeepsCounts == \A s \in Sid : CountedInv(s) => CountedInv(s)'

LEMMA UsersFinite ==
  ASSUME NEW s
  PROVE  IsFiniteSet(Users(s)) /\ Cardinality(Users(s)) \in Nat
<1>1. Users(s) \subseteq Request
  BY DEF Users
<1>2. IsFiniteSet(Users(s))
  BY <1>1, FS_Subset, PlaybackSessionAssumption
<1> QED BY <1>2, FS_CardinalityType

LEMMA UsersGive ==
  ASSUME TypeOK, NEW r \in Request, pc[r] \notin Using, NEW s \in Sid,
         held' = [held EXCEPT ![r] = s],
         NEW next \in Using, pc' = [pc EXCEPT ![r] = next]
  PROVE  \A t \in Sid : Cardinality(Users(t)') =
           IF t = s THEN Cardinality(Users(t)) + 1 ELSE Cardinality(Users(t))
<1> SUFFICES ASSUME NEW t \in Sid
             PROVE Cardinality(Users(t)') =
                     IF t = s THEN Cardinality(Users(t)) + 1 ELSE Cardinality(Users(t))
  OBVIOUS
<1>1. r \notin Users(t)
  BY DEF Users
<1>2. CASE t = s
  <2>1. Users(t)' = Users(t) \cup {r}
    BY <1>2 DEF Users, TypeOK
  <2> QED BY <1>1, <1>2, <2>1, UsersFinite, FS_AddElement
<1>3. CASE t # s
  <2>1. Users(t)' = Users(t)
    BY <1>1, <1>3 DEF Users, TypeOK
  <2> QED BY <1>3, <2>1
<1> QED BY <1>2, <1>3

LEMMA UsersRelease ==
  ASSUME TypeOK, NEW r \in Request, pc[r] \in Using, held[r] \in Sid, held' = held,
         NEW next \in Location \ Using, pc' = [pc EXCEPT ![r] = next]
  PROVE  \A t \in Sid : Cardinality(Users(t)') =
           IF t = held[r] THEN Cardinality(Users(t)) - 1 ELSE Cardinality(Users(t))
<1> SUFFICES ASSUME NEW t \in Sid
             PROVE Cardinality(Users(t)') =
                     IF t = held[r] THEN Cardinality(Users(t)) - 1
                                    ELSE Cardinality(Users(t))
  OBVIOUS
<1>1. CASE t = held[r]
  <2>1. Users(t)' = Users(t) \ {r} /\ r \in Users(t)
    BY <1>1 DEF Users, TypeOK
  <2>2. Cardinality(Users(t) \ {r}) = Cardinality(Users(t)) - 1
    BY <2>1, UsersFinite, FS_RemoveElement
  <2> QED BY <1>1, <2>1, <2>2
<1>2. CASE t # held[r]
  <2>1. \A q \in Request : held[q] = t => q # r /\ pc'[q] = pc[q]
    BY <1>2 DEF TypeOK
  <2>2. Users(t)' = Users(t)
    BY <2>1 DEF Users
  <2> QED BY <1>2, <2>2
<1> QED BY <1>1, <1>2

\* The manager lets go of a session: what that does to the accounting.
LEMMA DetachCounts ==
  ASSUME OwnerInv, NEW s \in Sid, Created(s), Detach(s),
         UNCHANGED <<key, held>>, \A t \in Sid : Users(t)' = Users(t),
         \A q \in Request : pc[q] = "cleanup" => pc'[q] = "cleanup",
         \A t \in Sid : t \notin ticking' => t = s \/ t \notin ticking,
         ticking' \subseteq ticking,
         \A g \in Sid : gcVictims'[g] \subseteq gcVictims[g]
  PROVE  FreshInv' /\ KeepsCounts /\ UnreferencedInv' /\ StoppedInv'
<1> USE DEF OwnerInv, TypeInv, TypeOK
<1>1. PICK read \in recent[s] :
        /\ Update(s, read, read - 1)
        /\ transcoding' = [transcoding EXCEPT ![s] = CleanupIfRequired(@, read - 1)]
        /\ detached' = [detached EXCEPT ![s] = @ + 1]
  BY DEF Detach
<1>2. /\ \A t \in Sid : t # s => /\ referenceCount'[t] = referenceCount[t]
                                /\ detached'[t] = detached[t]
                                /\ transcoding'[t] = transcoding[t]
      /\ transcoding'[s].dir => transcoding[s].dir
  BY <1>1 DEF Update, CleanupIfRequired, Destroy, TranscodingSessions
<1>3. /\ detached'[s] = detached[s] + 1
      /\ referenceCount'[s] \in Int
      /\ transcoding'[s].dir => referenceCount'[s] > 0
  BY <1>1 DEF Update, CleanupIfRequired, Destroy, TranscodingSessions
<1>4. /\ s \notin lost' => referenceCount'[s] = referenceCount[s] - 1
      /\ \A t \in Sid : t \notin lost' => t \notin lost
  BY <1>1 DEF Update
<1>5. FreshInv'
  BY <1>2 DEF FreshInv, Created, Live
<1>6. KeepsCounts
  <2> SUFFICES ASSUME NEW t \in Sid, CountedInv(t), key[t] # None, t \notin lost'
               PROVE referenceCount'[t] = 1 + Cardinality(Users(t)') - detached'[t]
    BY DEF KeepsCounts, CountedInv, Counted, Created
  <2>1. referenceCount[t] = 1 + Cardinality(Users(t)) - detached[t]
    BY <1>4 DEF CountedInv, Counted, Created
  <2> QED BY <1>2, <1>3, <1>4, <2>1, UsersFinite
<1>7. UnreferencedInv'
  <2>1. \A q \in Request : pc[q] \in Using \cup {"cleanup"} /\ held[q] \in Sid
                          => pc'[q] \in Using \cup {"cleanup"}
    <3> TAKE q \in Request
    <3>1. CASE pc[q] \in Using /\ held[q] \in Sid
      <4>1. q \in Users(held[q])'
        BY <3>1 DEF Users
      <4> QED BY <4>1 DEF Users
    <3> QED BY <3>1
  <2> SUFFICES ASSUME NEW t \in Sid, transcoding'[t].dir, referenceCount'[t] <= 0
               PROVE \E q \in Request : held'[q] = t /\ pc'[q] \in Using \cup {"cleanup"}
    BY DEF UnreferencedInv, Live
  <2>2. t # s /\ transcoding[t].dir /\ referenceCount[t] <= 0
    BY <1>2, <1>3
  <2>3. PICK q \in Request : held[q] = t /\ pc[q] \in Using \cup {"cleanup"}
    BY <2>2 DEF UnreferencedInv, Live
  <2> QED BY <2>1, <2>3
<1>8. StoppedInv'
  BY <1>2, <1>3 DEF StoppedInv, Created
<1> QED BY <1>5, <1>6, <1>7, <1>8

\* A handler is given an existing session.
LEMMA GiveCounts ==
  ASSUME OwnerInv, NEW r \in Request, NEW s \in Sid, pc[r] = "new", Created(s),
         NEW i, NEW next \in Using, Acquire(s), Give(r, s, i, next),
         UNCHANGED <<managerVars, transcoding>>
  PROVE  FreshInv' /\ KeepsCounts /\ UnreferencedInv' /\ StoppedInv'
<1> USE DEF OwnerInv, TypeInv, TypeOK, managerVars, Give
<1>0. PICK read \in recent[s] : Update(s, read, read + 1)
  BY DEF Acquire
<1>5. /\ \A t \in Sid : t # s => referenceCount'[t] = referenceCount[t]
      /\ s \notin lost' => referenceCount'[s] = referenceCount[s] + 1
      /\ \A t \in Sid : t \notin lost' => t \notin lost
  BY <1>0 DEF Update
<1>1. \A t \in Sid : Cardinality(Users(t)') =
        IF t = s THEN Cardinality(Users(t)) + 1 ELSE Cardinality(Users(t))
  BY UsersGive DEF Using
<1>2. FreshInv' /\ StoppedInv'
  BY DEF FreshInv, StoppedInv, Created, Live
<1>3. KeepsCounts
  <2> SUFFICES ASSUME NEW t \in Sid, CountedInv(t), key[t] # None, t \notin lost'
               PROVE referenceCount'[t] = 1 + Cardinality(Users(t)') - detached'[t]
    BY DEF KeepsCounts, CountedInv, Counted, Created
  <2>1. referenceCount[t] = 1 + Cardinality(Users(t)) - detached[t]
    BY <1>5 DEF CountedInv, Counted, Created
  <2> QED BY <1>1, <1>5, <2>1, UsersFinite
<1>4. UnreferencedInv'
  <2> SUFFICES ASSUME NEW t \in Sid, transcoding[t].dir, referenceCount'[t] <= 0
               PROVE \E q \in Request : held'[q] = t /\ pc'[q] \in Using \cup {"cleanup"}
    BY DEF UnreferencedInv, Live
  <2>1. CASE t = s
    BY <2>1
  <2>2. CASE t # s
    <3>1. PICK q \in Request : held[q] = t /\ pc[q] \in Using \cup {"cleanup"}
      BY <1>5, <2>2 DEF UnreferencedInv, Live
    <3> QED BY <3>1 DEF Using
  <2> QED BY <2>1, <2>2
<1> QED BY <1>2, <1>3, <1>4

\* Steps that leave counters, sessions and their users alone.
LEMMA QuietCounts ==
  ASSUME OwnerInv, UNCHANGED <<key, counterVars, detached, ticking>>,
         \A t \in Sid : Users(t)' = Users(t),
         \A t \in Sid : transcoding'[t].dir = transcoding[t].dir,
         \A t \in Sid, q \in Request : held'[q] = t => held[q] = t,
         \A t \in Sid, q \in Request :
           held[q] = t /\ pc[q] \in Using \cup {"cleanup"}
             => held'[q] = t /\ pc'[q] \in Using \cup {"cleanup"},
         \A g, t \in Sid : t \in gcVictims'[g] => t \in gcVictims[g] \/ Created(t)
  PROVE  FreshInv' /\ KeepsCounts /\ UnreferencedInv' /\ StoppedInv'
<1> USE DEF OwnerInv, counterVars
<1>1. FreshInv'
  BY DEF FreshInv, Created, Live
<1>2. KeepsCounts
  <2> SUFFICES ASSUME NEW t \in Sid, CountedInv(t), key[t] # None, t \notin lost
               PROVE referenceCount[t] = 1 + Cardinality(Users(t)') - detached[t]
    BY DEF KeepsCounts, CountedInv, Counted, Created
  <2> QED BY DEF KeepsCounts, CountedInv, Counted, Created
<1>3. UnreferencedInv' /\ StoppedInv'
  BY DEF UnreferencedInv, StoppedInv, Created, Live
<1> QED BY <1>1, <1>2, <1>3

\* A new session replaces the one in the map.
LEMMA StartCounts ==
  ASSUME OwnerInv, NEW r \in Request, NEW k \in Key, NEW s \in Sid,
         NEW i \in InitSegmentIdx .. LastIndex, StartSession(r, k, i, s)
  PROVE  FreshInv' /\ KeepsCounts /\ UnreferencedInv' /\ StoppedInv'
<1> DEFINE old == sessions[k]
<1> USE DEF OwnerInv, TypeInv, TypeOK
<1>1. old # None => old \in Sid /\ old # s /\ key[old] # None
  BY DEF StartSession, Created, MapInv, Key
<1>a. PICK read \in IF old = None THEN {0} ELSE recent[old] :
        Replace(k, s, StartAtSegmentIdx(i), read)
  BY DEF StartSession
<1>b. /\ old # None /\ old \notin lost' => read = referenceCount[old]
      /\ \A t \in Sid : t \notin lost' => t \notin lost
  BY <1>a DEF Replace
<1>2. Cardinality(Users(s)) = 0
  <2>1. Users(s) = {}
    BY DEF StartSession, FreshInv, Users
  <2> QED BY <2>1, FS_EmptySet
<1>3. \A t \in Sid : Cardinality(Users(t)') =
        IF t = s THEN Cardinality(Users(t)) + 1 ELSE Cardinality(Users(t))
  BY UsersGive DEF StartSession, NeedsNewSession, Give, Serve, Using
<1>4. /\ referenceCount'[s] = 2 /\ detached'[s] = 0
      /\ transcoding'[s].dir /\ key'[s] # None /\ s \in ticking'
  BY <1>1, <1>a DEF StartSession, Replace, NewTranscodingSession, FreshInv, Created, Key
<1>5. \A t \in Sid : t # s =>
        /\ key'[t] = key[t]
        /\ t \in ticking' <=> t \in ticking
        /\ referenceCount'[t] = IF t = old THEN read - 1 ELSE referenceCount[t]
        /\ detached'[t] = IF t = old THEN detached[t] + 1 ELSE detached[t]
        /\ transcoding'[t].dir => transcoding[t].dir
        /\ t = old /\ transcoding'[t].dir => referenceCount'[t] > 0
  <2> SUFFICES ASSUME NEW t \in Sid, t # s
               PROVE  /\ key'[t] = key[t]
                      /\ t \in ticking' <=> t \in ticking
                      /\ referenceCount'[t] = IF t = old THEN read - 1 ELSE referenceCount[t]
                      /\ detached'[t] = IF t = old THEN detached[t] + 1 ELSE detached[t]
                      /\ transcoding'[t].dir => transcoding[t].dir
                      /\ t = old /\ transcoding'[t].dir => referenceCount'[t] > 0
    OBVIOUS
  <2>1. /\ key'[t] = key[t]
        /\ t \in ticking' <=> t \in ticking
        /\ referenceCount'[t] = IF t = old THEN read - 1 ELSE referenceCount[t]
        /\ detached'[t] = IF t = old THEN detached[t] + 1 ELSE detached[t]
    BY <1>a DEF StartSession, Replace
  <2>2. transcoding'[t] = IF t = old
                          THEN CleanupIfRequired(transcoding[t], read - 1)
                          ELSE transcoding[t]
    BY <1>a DEF Replace
  <2> QED BY <2>1, <2>2 DEF CleanupIfRequired, Destroy, TranscodingSessions
<1>6. /\ pc' = [pc EXCEPT ![r] = Serve(i)] /\ held' = [held EXCEPT ![r] = s]
      /\ pc[r] = "new" /\ gcVictims' = gcVictims
  BY DEF StartSession, NeedsNewSession, Give, managerVars
<1>8. FreshInv'
  <2> SUFFICES ASSUME NEW t \in Sid, key'[t] = None
               PROVE /\ ~transcoding'[t].dir /\ detached'[t] = 0
                     /\ \A q \in Request : held'[q] # t
                     /\ \A g \in Sid : t \notin gcVictims'[g]
                     /\ t \notin ticking'
    BY DEF FreshInv, Created, Live
  <2>1. t # s /\ t # old /\ key[t] = None
    BY <1>1, <1>4, <1>5
  <2>2. /\ ~transcoding[t].dir /\ detached[t] = 0 /\ t \notin ticking
        /\ \A q \in Request : held[q] # t
        /\ \A g \in Sid : t \notin gcVictims[g]
    BY <2>1 DEF FreshInv, Created, Live
  <2> QED BY <1>5, <1>6, <2>1, <2>2
<1>9. KeepsCounts
  <2> SUFFICES ASSUME NEW t \in Sid, CountedInv(t), key'[t] # None, t \notin lost'
               PROVE referenceCount'[t] = 1 + Cardinality(Users(t)') - detached'[t]
    BY DEF KeepsCounts, CountedInv, Counted, Created
  <2>1. CASE t = s
    BY <1>2, <1>3, <1>4, <2>1
  <2>2. CASE t # s
    <3>1. referenceCount[t] = 1 + Cardinality(Users(t)) - detached[t]
      BY <1>5, <1>b, <2>2 DEF CountedInv, Counted, Created
    <3>2. t = old => read = referenceCount[t]
      BY <1>1, <1>b
    <3> QED BY <1>3, <1>5, <2>2, <3>1, <3>2, UsersFinite
  <2> QED BY <2>1, <2>2
<1>10. UnreferencedInv'
  <2> SUFFICES ASSUME NEW t \in Sid, transcoding'[t].dir, referenceCount'[t] <= 0
               PROVE \E q \in Request : held'[q] = t /\ pc'[q] \in Using \cup {"cleanup"}
    BY DEF UnreferencedInv, Live
  <2>1. t # s /\ t # old /\ transcoding[t].dir /\ referenceCount[t] <= 0
    BY <1>4, <1>5
  <2>2. PICK q \in Request : held[q] = t /\ pc[q] \in Using \cup {"cleanup"}
    BY <2>1 DEF UnreferencedInv, Live
  <2> QED BY <1>6, <2>2 DEF Using
<1>11. StoppedInv'
  BY <1>4, <1>5 DEF StoppedInv, Created
<1> QED BY <1>8, <1>9, <1>10, <1>11

\* A handler lets go of its session, in one step or with what it had loaded.
LEMMA DecrementCounts ==
  ASSUME OwnerInv, NEW r \in Request, Decrement(r) \/ DecrementStore(r)
  PROVE  FreshInv' /\ KeepsCounts /\ UnreferencedInv' /\ StoppedInv'
<1> USE DEF OwnerInv, TypeInv, TypeOK, managerVars, requestVars, HoldsSession
<1>1. held[r] \in Sid /\ pc[r] \in Using /\ held' = held /\ pc' = [pc EXCEPT ![r] = "cleanup"]
  BY DEF Decrement, DecrementStore, Using
<1>2. \A t \in Sid : Cardinality(Users(t)') =
        IF t = held[r] THEN Cardinality(Users(t)) - 1 ELSE Cardinality(Users(t))
  BY <1>1, UsersRelease DEF Location, Using
<1>3. /\ UNCHANGED <<key, detached, transcoding, ticking, gcVictims>>
      /\ \A t \in Sid : t # held[r] => referenceCount'[t] = referenceCount[t]
      /\ held[r] \notin lost' => referenceCount'[held[r]] = referenceCount[held[r]] - 1
      /\ \A t \in Sid : t \notin lost' => t \notin lost
  BY <1>1 DEF Decrement, DecrementStore, Count
<1>4. FreshInv' /\ StoppedInv'
  BY <1>1, <1>3 DEF FreshInv, StoppedInv, Created, Live
<1>5. KeepsCounts
  <2> SUFFICES ASSUME NEW t \in Sid, CountedInv(t), key[t] # None, t \notin lost'
               PROVE referenceCount'[t] = 1 + Cardinality(Users(t)') - detached[t]
    BY <1>3 DEF KeepsCounts, CountedInv, Counted, Created
  <2>1. referenceCount[t] = 1 + Cardinality(Users(t)) - detached[t]
    BY <1>3 DEF CountedInv, Counted, Created
  <2> QED BY <1>1, <1>2, <1>3, <2>1, UsersFinite
<1>6. UnreferencedInv'
  <2> SUFFICES ASSUME NEW t \in Sid, transcoding[t].dir, referenceCount'[t] <= 0
               PROVE \E q \in Request : held[q] = t /\ pc'[q] \in Using \cup {"cleanup"}
    BY <1>1, <1>3 DEF UnreferencedInv, Live
  <2>1. CASE t = held[r]
    BY <1>1, <2>1
  <2>2. CASE t # held[r]
    BY <1>1, <1>3, <2>2 DEF UnreferencedInv, Live
  <2> QED BY <2>1, <2>2
<1> QED BY <1>4, <1>5, <1>6

\* A handler has released its session and destroys it if it was the last.
LEMMA CleanupCounts ==
  ASSUME OwnerInv, NEW r \in Request, Cleanup(r)
  PROVE  FreshInv' /\ KeepsCounts /\ UnreferencedInv' /\ StoppedInv'
<1> USE DEF OwnerInv, TypeInv, TypeOK, managerVars, counterVars, HoldsSession
<1>1. held[r] \in Sid
  BY DEF Cleanup
<1>2. \A t \in Sid : Users(t)' = Users(t)
  <2>1. \A q \in Request : q # r => held'[q] = held[q] /\ pc'[q] = pc[q]
    BY DEF Cleanup
  <2>2. pc[r] \notin Using /\ pc'[r] \notin Using
    BY DEF Cleanup, Using
  <2> QED BY <2>1, <2>2 DEF Users
<1>3. /\ \A t \in Sid : transcoding'[t].dir => transcoding[t].dir
      /\ transcoding'[held[r]].dir => referenceCount[held[r]] > 0
  BY <1>1 DEF Cleanup, CleanupIfRequired, Destroy, TranscodingSessions
<1>4. StoppedInv'
  BY DEF Cleanup, StoppedInv, Created
<1>5. FreshInv'
  <2>1. \A q \in Request, t \in Sid : held'[q] = t => held[q] = t
    BY DEF Cleanup
  <2> QED BY <1>3, <2>1 DEF Cleanup, FreshInv, Created, Live
<1>6. KeepsCounts
  <2> SUFFICES ASSUME NEW t \in Sid, CountedInv(t), key[t] # None, t \notin lost
               PROVE referenceCount[t] = 1 + Cardinality(Users(t)') - detached[t]
    BY DEF KeepsCounts, CountedInv, Counted, Created, Cleanup
  <2> QED BY <1>2 DEF KeepsCounts, CountedInv, Counted, Created
<1>7. UnreferencedInv'
  <2> SUFFICES ASSUME NEW t \in Sid, transcoding'[t].dir, referenceCount[t] <= 0
               PROVE \E q \in Request : held'[q] = t /\ pc'[q] \in Using \cup {"cleanup"}
    BY DEF UnreferencedInv, Live, Cleanup
  <2>1. t # held[r] /\ transcoding[t].dir
    BY <1>3
  <2>2. PICK q \in Request : held[q] = t /\ pc[q] \in Using \cup {"cleanup"}
    BY <2>1 DEF UnreferencedInv, Live
  <2> QED BY <2>1, <2>2 DEF Cleanup
<1> QED BY <1>4, <1>5, <1>6, <1>7

LEMMA OwnerInit == ASSUME Init PROVE OwnerInv /\ \A s \in Sid : CountedInv(s)
<1>1. TypeInv
  BY InitTypes
<1>2. MapInv /\ FreshInv /\ UnreferencedInv /\ StoppedInv /\ \A s \in Sid : CountedInv(s)
  BY PlaybackSessionAssumption DEF Init, MapInv, FreshInv, CountedInv, Counted,
     UnreferencedInv, StoppedInv, Created, Live, NoTranscodingSession
<1> QED BY <1>1, <1>2 DEF OwnerInv

LEMMA OwnerStep ==
  ASSUME OwnerInv, [Next]_vars
  PROVE  OwnerInv' /\ KeepsCounts
<1> DEFINE Goal == FreshInv' /\ KeepsCounts /\ UnreferencedInv' /\ StoppedInv'
<1>1. TypeInv' /\ MapInv'
  BY NextTypes, MapInvStep DEF OwnerInv
<1> USE DEF managerVars, indexVars, accessVars, requestVars, counterVars
<1>2. ASSUME NEW r \in Request, GetPlaybackSession(r) PROVE Goal
  <2> PICK k \in Key, i \in InitSegmentIdx .. LastIndex :
        \/ GetExisting(r, k, i)
        \/ \E s \in Sid : StartSession(r, k, i, s)
        \/ StartSessionFails(r, k, i)
    BY <1>2 DEF GetPlaybackSession
  <2>1. sessions[k] # None => sessions[k] \in Sid /\ Created(sessions[k])
    BY DEF OwnerInv, TypeInv, TypeOK, MapInv, Created, Key
  <2>2. CASE GetExisting(r, k, i)
    BY <2>1, <2>2, GiveCounts DEF GetExisting, Serve, Using
  <2>3. ASSUME NEW s \in Sid, StartSession(r, k, i, s) PROVE Goal
    BY <2>3, StartCounts
  <2>4. ASSUME StartSessionFails(r, k, i) PROVE Goal
    <3>1. pc[r] = "new" /\ pc' = [pc EXCEPT ![r] = "done"] /\ UNCHANGED <<key, held, ticking, gcVictims>>
      BY <2>4 DEF StartSessionFails, NeedsNewSession
    <3>2. /\ \A t \in Sid : Users(t)' = Users(t)
          /\ \A q \in Request : pc[q] \in Using \cup {"cleanup"} => pc'[q] = pc[q]
      BY <3>1 DEF Users, Using, OwnerInv, TypeInv, TypeOK
    <3>3. CASE sessions[k] = None
      BY <2>4, <3>1, <3>2, <3>3, QuietCounts DEF StartSessionFails
    <3>4. CASE sessions[k] # None
      <4>1. Detach(sessions[k])
        BY <2>4, <3>4 DEF StartSessionFails
      <4> QED BY <2>1, <3>1, <3>2, <3>4, <4>1, DetachCounts
    <3> QED BY <3>3, <3>4
  <2> QED BY <2>2, <2>3, <2>4
<1>3. ASSUME NEW r \in Request, GetPlaybackSessionByID(r) PROVE Goal
  <2> PICK s \in Registered : /\ pc[r] = "new" /\ Acquire(s)
                              /\ Give(r, s, idx[r], "feedback")
                              /\ UNCHANGED <<managerVars, transcoding>>
    BY <1>3 DEF GetPlaybackSessionByID
  <2>1. s \in Sid /\ Created(s)
    BY DEF Registered, OwnerInv, TypeInv, TypeOK, MapInv, Created, Key
  <2> QED BY <2>1, GiveCounts DEF Using
\* The handler moves on and keeps its session.
<1>4. ASSUME NEW r \in Request, pc[r] \in Using, held' = held,
             NEW next \in Using, pc' = [pc EXCEPT ![r] = next],
             UNCHANGED <<managerVars, counterVars>>,
             \A t \in Sid : transcoding'[t].dir = transcoding[t].dir
      PROVE Goal
  <2>1. /\ \A t \in Sid : Users(t)' = Users(t)
        /\ \A q \in Request : pc[q] \in Using \cup {"cleanup"}
                              => pc'[q] \in Using \cup {"cleanup"}
    BY <1>4 DEF Users, Using, OwnerInv, TypeInv, TypeOK
  <2> QED BY <1>4, <2>1, QuietCounts
<1>5. ASSUME NEW r \in Request,
             PollFails(r) \/ ServeInit(r) \/ ServeSegment(r) \/ RecordServed(r)
      PROVE Goal
  BY <1>4, <1>5 DEF PollFails, ServeInit, ServeSegment, RecordServed, Using
<1>6. ASSUME NEW r \in Request, Feedback(r) PROVE Goal
  <2>1. \A t \in Sid : transcoding'[t].dir = transcoding[t].dir
    BY <1>6 DEF Feedback, TranscodingSessions, OwnerInv, TypeInv, TypeOK
  <2> QED BY <1>4, <1>6, <2>1 DEF Feedback, Using
<1>7. ASSUME NEW r \in Request, Decrement(r) \/ DecrementStore(r) PROVE Goal
  BY <1>7, DecrementCounts
<1>8. ASSUME NEW r \in Request, DecrementLoad(r) PROVE Goal
  BY <1>4, <1>8 DEF DecrementLoad, Using
<1>9. ASSUME NEW r \in Request, Cleanup(r) PROVE Goal
  BY <1>9, CleanupCounts
\* Garbage collection removes only sessions that have been started.
<1>10. ASSUME NEW g \in Sid, GCIterate(g) PROVE Goal
  <2>1. \A s \in Registered : Created(s)
    BY DEF Registered, OwnerInv, TypeInv, TypeOK, MapInv, Created, Key
  <2>2. \A h, t \in Sid : t \in gcVictims'[h] => t \in gcVictims[h] \/ Created(t)
    BY <1>10, <2>1 DEF GCIterate, OwnerInv, TypeInv, TypeOK
  <2>3. \A t \in Sid : Users(t)' = Users(t)
    BY <1>10 DEF GCIterate, Users, OwnerInv
  <2> QED BY <1>10, <2>2, <2>3, QuietCounts DEF GCIterate
<1>11. ASSUME NEW g \in Sid, GCRemove(g) PROVE Goal
  <2> PICK s \in gcVictims[g] :
         /\ gcVictims' = [gcVictims EXCEPT ![g] = @ \ {s}]
         /\ RemovePlaybackSession(s)
         /\ UNCHANGED <<key, ticking, gcPending, indexVars, accessVars, requestVars>>
    BY <1>11 DEF GCRemove
  <2>1. s \in Sid /\ Created(s)
    BY DEF OwnerInv, TypeInv, TypeOK, FreshInv
  <2>2. \A h \in Sid : gcVictims'[h] \subseteq gcVictims[h]
    BY DEF OwnerInv, TypeInv, TypeOK
  <2>3. \A t \in Sid : Users(t)' = Users(t)
    BY DEF Users, OwnerInv
  <2> QED BY <2>1, <2>2, <2>3, DetachCounts DEF RemovePlaybackSession
<1>12. ASSUME NEW s \in Sid, TickerFires(s) PROVE Goal
  <2>1. Created(s)
    BY <1>12 DEF TickerFires, OwnerInv, FreshInv
  <2>2. \A t \in Sid : Users(t)' = Users(t)
    BY <1>12 DEF TickerFires, Users, OwnerInv
  <2> QED BY <1>12, <2>1, <2>2, DetachCounts DEF TickerFires, RemovePlaybackSession
<1>13. ASSUME UNCHANGED <<managerVars, requestVars, counterVars>>,
              \A t \in Sid : transcoding'[t].dir = transcoding[t].dir
       PROVE Goal
  <2>1. \A t \in Sid : Users(t)' = Users(t)
    BY <1>13 DEF Users, OwnerInv
  <2> QED BY <1>13, <2>1, QuietCounts
<1>14. ASSUME NEW s \in Sid, Expire(s) PROVE Goal
  BY <1>13, <1>14 DEF Expire
<1>15. ASSUME NEW s \in Sid, Transcode(s) \/ Exit(s) PROVE Goal
  <2>1. /\ Transcoded(transcoding[s]).dir = transcoding[s].dir
        /\ Exited(transcoding[s]).dir = transcoding[s].dir
    BY DEF Transcoded, Exited, TranscodingSessions, OwnerInv, TypeInv, TypeOK
  <2>2. \A t \in Sid : transcoding'[t].dir = transcoding[t].dir
    <3>1. \/ transcoding' = [transcoding EXCEPT ![s] = Transcoded(@)]
          \/ transcoding' = [transcoding EXCEPT ![s] = Exited(@)]
      BY <1>15 DEF Transcode, Exit
    <3> QED BY <2>1, <3>1 DEF OwnerInv, TypeInv, TypeOK
  <2> QED BY <1>13, <1>15, <2>2 DEF Transcode, Exit
<1>16. ASSUME UNCHANGED vars PROVE Goal
  BY <1>13, <1>16 DEF vars
<1>17. ASSUME NEW r \in Request, Handle(r) PROVE Goal
  BY <1>5, <1>6, <1>7, <1>8, <1>9, <1>17 DEF Handle
<1> HIDE DEF Goal
<1>18. Goal
  BY <1>2, <1>3, <1>10, <1>11, <1>12, <1>14, <1>15, <1>16, <1>17 DEF Next
<1> QED BY <1>1, <1>18 DEF OwnerInv, Goal

LEMMA OwnerInvAlways == Spec => []OwnerInv
<1>1. Init => OwnerInv
  BY OwnerInit
<1>2. OwnerInv /\ [Next]_vars => OwnerInv'
  BY OwnerStep
<1> QED BY <1>1, <1>2, PTL DEF Spec

\* The counter of a session (session.go:65) counts the manager and the handlers, less
\* the times the manager has let go (RemovePlaybackSession and the start of a
\* replacement), until an update of it is lost, whatever befalls the others.
THEOREM CountsOwnersAlways == Spec => []CountsOwners
<1>1. CountsOwners <=> \A s \in Sid : CountedInv(s)
  BY DEF CountsOwners, CountedInv
<1>2. Init => CountsOwners
  BY <1>1, OwnerInit
<1>3. OwnerInv /\ CountsOwners /\ [Next]_vars => CountsOwners'
  <2> SUFFICES ASSUME OwnerInv, CountsOwners, [Next]_vars, NEW s \in Sid
               PROVE  CountedInv(s)'
    BY DEF CountsOwners, CountedInv
  <2> QED BY OwnerStep DEF KeepsCounts, CountsOwners, CountedInv
<1> QED BY <1>2, <1>3, OwnerInvAlways, PTL DEF Spec

\* A session without a ticker or a handler that will destroy it is destroyed, or has
\* a counter that is wrong (session.go:277).
THEOREM NothingLingersUnlessMiscounted ==
  Spec => [](\A s \in Sid : Live(s) /\ Counted(s) => HasOwner(s))
<1>1. OwnerInv => \A s \in Sid : Live(s) /\ Counted(s) => HasOwner(s)
  <2> SUFFICES ASSUME OwnerInv, NEW s \in Sid, Live(s), Counted(s), s \notin ticking,
                      ~ \E r \in Request : held[r] = s /\ pc[r] \in Using
               PROVE  \E r \in Request : held[r] = s /\ pc[r] = "cleanup"
    BY DEF HasOwner
  <2>1. Created(s) /\ detached[s] >= 1
    BY DEF OwnerInv, FreshInv, StoppedInv
  <2>2. Users(s) = {}
    BY DEF Users
  <2>3. Cardinality(Users(s)) = 0
    BY <2>2, FS_EmptySet
  <2>4. referenceCount[s] <= 0
    BY <2>1, <2>3 DEF OwnerInv, Counted, TypeInv, TypeOK
  <2> QED BY <2>4 DEF OwnerInv, UnreferencedInv
<1> QED BY <1>1, OwnerInvAlways, PTL

\* No ffmpeg process lingers, but one whose counter has lost an update.
THEOREM NothingLingers == Spec => []LiveHasOwner
<1>1. OwnerInv /\ CountsOwners /\ (\A s \in Sid : Live(s) /\ Counted(s) => HasOwner(s))
        => LiveHasOwner
  BY DEF LiveHasOwner, CountsOwners, OwnerInv, FreshInv
<1> QED BY <1>1, OwnerInvAlways, CountsOwnersAlways, NothingLingersUnlessMiscounted, PTL

\* The step that destroys a session leaves it without references.
LEMMA DestroyedUnreferenced ==
  ASSUME TypeInv, MapInv, Next, NEW s \in Sid, Live(s), ~Live(s)'
  PROVE  referenceCount'[s] <= 0
<1> USE DEF TypeInv, TypeOK, Live
<1>1. ASSUME NEW c \in Int, ~CleanupIfRequired(transcoding[s], c).dir PROVE c <= 0
  BY <1>1 DEF CleanupIfRequired
<1>2. ASSUME NEW t \in Sid, Detach(t) PROVE referenceCount'[s] <= 0
  <2>1. t = s
    BY <1>2 DEF Detach
  <2>2. PICK read \in recent[t] :
          /\ Update(t, read, read - 1)
          /\ transcoding' = [transcoding EXCEPT ![t] = CleanupIfRequired(@, read - 1)]
    BY <1>2 DEF Detach
  <2>3. read - 1 \in Int /\ referenceCount'[s] = read - 1
    BY <2>1, <2>2 DEF Update
  <2>4. transcoding'[s] = CleanupIfRequired(transcoding[s], read - 1)
    BY <2>1, <2>2
  <2> QED BY <1>1, <2>3, <2>4
<1>3. ASSUME NEW r \in Request, GetPlaybackSession(r) PROVE referenceCount'[s] <= 0
  <2> PICK k \in Key, i \in InitSegmentIdx .. LastIndex :
        \/ GetExisting(r, k, i)
        \/ \E t \in Sid : StartSession(r, k, i, t)
        \/ StartSessionFails(r, k, i)
    BY <1>3 DEF GetPlaybackSession
  <2>1. ~GetExisting(r, k, i)
    BY DEF GetExisting
  <2>2. ASSUME NEW t \in Sid, StartSession(r, k, i, t) PROVE referenceCount'[s] <= 0
    <3>a. PICK read \in IF sessions[k] = None THEN {0} ELSE recent[sessions[k]] :
             Replace(k, t, StartAtSegmentIdx(i), read)
      BY <2>2 DEF StartSession
    <3>1. s # t
      <4>1. sessions[k] # t
        BY <2>2, PlaybackSessionAssumption DEF StartSession, Created, MapInv, Key
      <4>2. transcoding'[t].dir
        BY <3>a, <4>1 DEF Replace, NewTranscodingSession
      <4> QED BY <4>2
    <3>2. s = sessions[k]
      BY <3>a, <3>1 DEF Replace
    <3>3. /\ transcoding'[s] = CleanupIfRequired(transcoding[s], read - 1)
          /\ referenceCount'[s] = read - 1
      BY <3>a, <3>1, <3>2 DEF Replace
    <3>4. read - 1 \in Int
      BY <3>2, PlaybackSessionAssumption
    <3>5. read - 1 <= 0
      BY <1>1, <3>3, <3>4
    <3> QED BY <3>3, <3>5
  <2>3. ASSUME StartSessionFails(r, k, i) PROVE referenceCount'[s] <= 0
    <3>1. sessions[k] # None /\ Detach(sessions[k])
      BY <2>3 DEF StartSessionFails
    <3> QED BY <1>2, <3>1
  <2> QED BY <2>1, <2>2, <2>3
<1>4. ASSUME NEW r \in Request, Cleanup(r) PROVE referenceCount'[s] <= 0
  <2>1. s = held[r] /\ UNCHANGED referenceCount
    BY <1>4 DEF Cleanup, counterVars
  <2>2. transcoding'[s] = CleanupIfRequired(transcoding[s], referenceCount[s])
    BY <1>4, <2>1 DEF Cleanup
  <2> QED BY <1>1, <2>1, <2>2
<1>5. ASSUME NEW g \in Sid, GCRemove(g) PROVE referenceCount'[s] <= 0
  BY <1>2, <1>5 DEF GCRemove, RemovePlaybackSession
<1>6. ASSUME NEW t \in Sid, TickerFires(t) PROVE referenceCount'[s] <= 0
  BY <1>2, <1>6 DEF TickerFires, RemovePlaybackSession
\* No other action takes a directory away.
<1>7. ASSUME NEW r \in Request, Handle(r) PROVE Cleanup(r)
  <2>1. Feedback(r) => transcoding'[s].dir = transcoding[s].dir
    <3> SUFFICES ASSUME Feedback(r) PROVE transcoding'[s].dir = transcoding[s].dir
      OBVIOUS
    <3> QED BY DEF Feedback, TranscodingSessions
  <2> QED BY <1>7, <2>1 DEF Handle, PollFails, ServeInit, ServeSegment, RecordServed,
          Decrement, DecrementLoad, DecrementStore
<1>8. \A t \in Sid : ~Transcode(t) /\ ~Exit(t)
  <2> SUFFICES ASSUME NEW t \in Sid, Transcode(t) \/ Exit(t) PROVE FALSE
    OBVIOUS
  <2>1. /\ Transcoded(transcoding[t]).dir = transcoding[t].dir
        /\ Exited(transcoding[t]).dir = transcoding[t].dir
    BY DEF Transcoded, Exited, TranscodingSessions
  <2>2. \/ transcoding' = [transcoding EXCEPT ![t] = Transcoded(@)]
        \/ transcoding' = [transcoding EXCEPT ![t] = Exited(@)]
    BY DEF Transcode, Exit
  <2>3. transcoding'[s].dir = transcoding[s].dir
    BY <2>1, <2>2
  <2> QED BY <2>3
<1> QED BY <1>3, <1>4, <1>5, <1>6, <1>7, <1>8 DEF Next, GetPlaybackSessionByID, GCIterate,
        Expire

\* A session is destroyed under a handler that uses it only once the manager
\* has let go of it twice (RemovePlaybackSession, session.go:236, and the
\* replacement at session.go:154), or its counter is wrong.
THEOREM DestroyedUnderUserNeedsTwoDetachesUnlessMiscounted ==
  Spec => [][\A s \in Sid : Live(s) /\ ~Live(s)' /\ Users(s)' # {} /\ Counted(s)'
               => detached'[s] >= 2]_vars
<1>1. ASSUME OwnerInv, OwnerInv', [Next]_vars
      PROVE  [\A s \in Sid : Live(s) /\ ~Live(s)' /\ Users(s)' # {} /\ Counted(s)'
                => detached'[s] >= 2]_vars
  <2> SUFFICES ASSUME Next, NEW s \in Sid, Live(s), ~Live(s)', Users(s)' # {}, Counted(s)'
               PROVE  detached'[s] >= 2
    BY <1>1
  <2>1. referenceCount'[s] <= 0
    BY <1>1, DestroyedUnreferenced DEF OwnerInv
  <2>2. referenceCount'[s] = 1 + Cardinality(Users(s)') - detached'[s]
    BY DEF Counted
  <2>3. IsFiniteSet(Users(s)') /\ Cardinality(Users(s)') \in Nat
    <3>1. Users(s)' \subseteq Request
      BY DEF Users
    <3> QED BY <3>1, FS_Subset, FS_CardinalityType, PlaybackSessionAssumption
  <2>4. Cardinality(Users(s)') # 0
    BY <2>3, FS_EmptySet
  <2>5. detached'[s] \in Nat /\ referenceCount'[s] \in Int
    BY <1>1 DEF OwnerInv, TypeInv, TypeOK
  <2> QED BY <2>1, <2>2, <2>3, <2>4, <2>5
<1> QED BY <1>1, OwnerInvAlways, PTL DEF Spec

\* It takes the manager to let go twice, unless an update of the counter was lost.
THEOREM DestroyedUnderUserNeedsTwoDetaches == Spec => DestroyedUnderUserOnlyIfDetachedTwice
<1>1. ASSUME OwnerInv', CountsOwners',
             [\A s \in Sid : Live(s) /\ ~Live(s)' /\ Users(s)' # {} /\ Counted(s)'
                => detached'[s] >= 2]_vars
      PROVE  [\A s \in Sid : Live(s) /\ ~Live(s)' /\ Users(s)' # {}
                => detached'[s] >= 2 \/ s \in lost']_vars
  <2>1. \A s \in Sid : Users(s)' # {} /\ s \notin lost' => Counted(s)'
    <3> SUFFICES ASSUME NEW s \in Sid, Users(s)' # {}, s \notin lost' PROVE Counted(s)'
      OBVIOUS
    <3>1. PICK r \in Request : held'[r] = s
      BY DEF Users
    <3>2. key'[s] # None
      BY <1>1, <3>1 DEF OwnerInv, FreshInv, Created
    <3> QED BY <1>1, <3>2 DEF CountsOwners, Created
  <2> QED BY <1>1, <2>1
<1> QED BY <1>1, OwnerInvAlways, CountsOwnersAlways,
           DestroyedUnderUserNeedsTwoDetachesUnlessMiscounted, PTL
           DEF DestroyedUnderUserOnlyIfDetachedTwice

(***************************************************************************)
(* The session map                                                         *)
(***************************************************************************)

\* The manager lets go of sessions and neither deletes nor adds an entry.
LEMMA ForgottenKept ==
  ASSUME TypeOK, ForgottenOnlyByStaleRemoval, UNCHANGED <<sessions, key>>,
         \A t \in Sid : detached'[t] = detached[t] \/ detached'[t] = detached[t] + 1
  PROVE  ForgottenOnlyByStaleRemoval'
<1> SUFFICES ASSUME NEW t \in Sid, key[t] # None, detached'[t] = 0
             PROVE \/ sessions[key[t]] = t
                   \/ \E u \in Sid \ {t} : key[u] = key[t] /\ detached'[u] >= 2
  BY DEF ForgottenOnlyByStaleRemoval, Created
<1>1. \A u \in Sid : detached[u] \in Nat /\ detached'[u] >= detached[u]
  BY DEF TypeOK
<1>2. detached[t] = 0
  BY <1>1
<1>3. CASE sessions[key[t]] = t
  BY <1>3
<1>4. ASSUME NEW u \in Sid \ {t}, key[u] = key[t], detached[u] >= 2
      PROVE  detached'[u] >= 2
  BY <1>1, <1>4
<1> QED BY <1>2, <1>3, <1>4 DEF ForgottenOnlyByStaleRemoval, Created

\* The removal of s deletes the entry of another session t only if s has been
\* let go of before, or some third session has.
LEMMA ForgottenRemove ==
  ASSUME TypeOK, ForgottenOnlyByStaleRemoval, NEW s \in Sid, RemovePlaybackSession(s),
         key' = key
  PROVE  ForgottenOnlyByStaleRemoval'
<1> SUFFICES ASSUME NEW t \in Sid, key[t] # None, detached'[t] = 0
             PROVE \/ sessions'[key[t]] = t
                   \/ \E u \in Sid \ {t} : key[u] = key[t] /\ detached'[u] >= 2
  BY DEF ForgottenOnlyByStaleRemoval, Created
<1>1. /\ \A u \in Sid : /\ detached[u] \in Nat /\ detached'[u] \in Nat
                      /\ detached'[u] >= detached[u]
      /\ detached'[s] = detached[s] + 1
  BY DEF TypeOK, RemovePlaybackSession, Detach
<1>2. detached[t] = 0 /\ t # s
  BY <1>1
<1>3. ASSUME NEW u \in Sid \ {t}, key[u] = key[t], detached[u] >= 2
      PROVE  detached'[u] >= 2
  BY <1>1, <1>3
<1>4. CASE sessions[key[t]] = t /\ key[s] # key[t]
  BY <1>4 DEF TypeOK, RemovePlaybackSession
<1>5. CASE sessions[key[t]] = t /\ key[s] = key[t]
  <2>1. CASE detached[s] >= 1
    BY <1>1, <1>2, <1>5, <2>1
  <2>2. CASE detached[s] = 0
    <3>1. PICK u \in Sid \ {s} : key[u] = key[s] /\ detached[u] >= 2
      BY <1>2, <1>5, <2>2 DEF ForgottenOnlyByStaleRemoval, Created
    <3>2. u # t
      BY <1>2, <3>1
    <3> QED BY <1>3, <1>5, <3>1, <3>2
  <2> QED BY <1>1, <2>1, <2>2
<1> QED BY <1>2, <1>3, <1>4, <1>5 DEF ForgottenOnlyByStaleRemoval, Created

LEMMA ForgottenStart ==
  ASSUME TypeOK, ForgottenOnlyByStaleRemoval, NEW r \in Request, NEW k \in Key,
         NEW s \in Sid, NEW i, StartSession(r, k, i, s)
  PROVE  ForgottenOnlyByStaleRemoval'
<1> SUFFICES ASSUME NEW t \in Sid, key'[t] # None, detached'[t] = 0
             PROVE \/ sessions'[key'[t]] = t
                   \/ \E u \in Sid \ {t} : key'[u] = key'[t] /\ detached'[u] >= 2
  BY DEF ForgottenOnlyByStaleRemoval, Created
<1>1. /\ \A u \in Sid : u # s => key'[u] = key[u]
      /\ key[s] = None /\ key'[s] = k /\ sessions'[k] = s
      /\ \A l \in Key : l # k => sessions'[l] = sessions[l]
  BY DEF TypeOK, StartSession, Created
<1>2. ASSUME NEW u \in Sid
      PROVE  /\ detached[u] \in Nat
             /\ u # sessions[k] => detached'[u] = detached[u]
             /\ u = sessions[k] => detached'[u] = detached[u] + 1
  BY DEF TypeOK, StartSession, Replace
<1>3. CASE t = s
  BY <1>1, <1>3
<1>4. CASE t # s
  <2>1. key[t] # None /\ detached[t] = 0 /\ key[t] \in Key /\ t # sessions[k]
    <3>1. key[t] # None /\ key[t] \in Key
      BY <1>1, <1>4 DEF TypeOK
    <3>2. t # sessions[k]
      BY <1>2
    <3> QED BY <1>2, <3>1, <3>2
  <2>2. CASE sessions[key[t]] = t
    BY <1>1, <1>4, <2>1, <2>2
  <2>3. ASSUME NEW u \in Sid \ {t}, key[u] = key[t], detached[u] >= 2
        PROVE  u \in Sid \ {t} /\ key'[u] = key'[t] /\ detached'[u] >= 2
    <3>1. u # s
      BY <1>1, <2>1, <2>3
    <3>2. key'[u] = key'[t]
      BY <1>1, <1>4, <2>3, <3>1
    <3>3. detached'[u] >= 2
      BY <1>2, <2>3
    <3> QED BY <2>3, <3>2, <3>3
  <2> QED BY <2>1, <2>2, <2>3 DEF ForgottenOnlyByStaleRemoval, Created
<1> QED BY <1>3, <1>4

LEMMA ForgottenStep ==
  ASSUME TypeOK, ForgottenOnlyByStaleRemoval, [Next]_vars
  PROVE  ForgottenOnlyByStaleRemoval'
<1> USE DEF managerVars, requestVars
<1>1. ASSUME UNCHANGED <<sessions, key, detached>> PROVE ForgottenOnlyByStaleRemoval'
  BY <1>1 DEF ForgottenOnlyByStaleRemoval, Created
<1>2. ASSUME NEW r \in Request, GetPlaybackSession(r)
      PROVE  ForgottenOnlyByStaleRemoval'
  <2> PICK k \in Key, i \in InitSegmentIdx .. LastIndex :
        \/ GetExisting(r, k, i)
        \/ \E s \in Sid : StartSession(r, k, i, s)
        \/ StartSessionFails(r, k, i)
    BY <1>2 DEF GetPlaybackSession
  <2>1. CASE GetExisting(r, k, i)
    BY <1>1, <2>1 DEF GetExisting
  <2>2. ASSUME NEW s \in Sid, StartSession(r, k, i, s)
        PROVE  ForgottenOnlyByStaleRemoval'
    BY <2>2, ForgottenStart
  <2>3. CASE StartSessionFails(r, k, i)
    <3>1. UNCHANGED <<sessions, key>>
      BY <2>3 DEF StartSessionFails
    <3>2. \A t \in Sid : detached'[t] = detached[t] \/ detached'[t] = detached[t] + 1
      BY <2>3 DEF StartSessionFails, Detach, TypeOK
    <3> QED BY <3>1, <3>2, ForgottenKept
  <2> QED BY <2>1, <2>2, <2>3
<1>3. ASSUME NEW r \in Request, GetPlaybackSessionByID(r) \/ Handle(r)
      PROVE  ForgottenOnlyByStaleRemoval'
  BY <1>1, <1>3 DEF GetPlaybackSessionByID, Handle, PollFails, ServeInit, ServeSegment,
     RecordServed, Feedback, Decrement, DecrementLoad, DecrementStore, Cleanup
<1>4. ASSUME NEW g \in Sid, GCRemove(g) PROVE ForgottenOnlyByStaleRemoval'
  BY <1>4, ForgottenRemove DEF GCRemove, TypeOK
<1>5. ASSUME NEW s \in Sid, TickerFires(s) PROVE ForgottenOnlyByStaleRemoval'
  BY <1>5, ForgottenRemove DEF TickerFires
<1>6. ASSUME NEW s \in Sid, GCIterate(s) \/ Expire(s) \/ Transcode(s) \/ Exit(s)
      PROVE  ForgottenOnlyByStaleRemoval'
  BY <1>1, <1>6 DEF GCIterate, Expire, Transcode, Exit
<1>7. CASE UNCHANGED vars
  BY <1>1, <1>7 DEF vars
<1> QED BY <1>2, <1>3, <1>4, <1>5, <1>6, <1>7 DEF Next

\* removePlaybackSession deletes by key (session.go:242): a session that the
\* manager has not let go of is missing from the map only after a session
\* with its key has been let go of twice.
THEOREM ForgottenOnlyByStaleRemovalAlways == Spec => []ForgottenOnlyByStaleRemoval
<1>1. Init => ForgottenOnlyByStaleRemoval
  BY DEF Init, ForgottenOnlyByStaleRemoval, Created
<1>2. TypeInv /\ ForgottenOnlyByStaleRemoval /\ [Next]_vars => ForgottenOnlyByStaleRemoval'
  BY ForgottenStep DEF TypeInv
<1> QED BY <1>1, <1>2, InitTypes, NextTypes, PTL DEF Spec

(***************************************************************************)
(* The order of segments                                                   *)
(***************************************************************************)

Asking == {"serveSegment", "served"}
Indices(s) == {p[2] : p \in served[s]}
Recorded(s) == \A r \in Request : held[r] = s => pc[r] # "served"

\* A session answers one request for a segment at a time, and one that it has not
\* answered yet.
OneAtATime ==
  \A q, r \in Request :
    pc[q] \in Asking /\ pc[r] \in Asking /\ held[q] = held[r] => q = r
AskedAnew ==
  \A r \in Request : pc[r] \in Asking => idx[r] # lastRequested[held[r]]

UnstartedInv ==
  \A s \in Sid : ~Created(s) => served[s] = {} /\ \A r \in Request : held[r] # s

\* Between ServeSegment and RecordServed one more is served than lastServed says.
ServedInv ==
  \A s \in Sid : Created(s) =>
    /\ lastServed[s] >= transcoding[s].start - 1
    /\ Recorded(s) => Indices(s) = transcoding[s].start .. lastServed[s]
    /\ ~Recorded(s) => Indices(s) = transcoding[s].start .. lastServed[s] + 1

InOrderInv ==
  TypeInv /\ MapInv /\ OneAtATime /\ AskedAnew /\ UnstartedInv /\ ServedInv

LEMMA StartStays ==
  ASSUME NEW t \in TranscodingSessions, NEW c \in Int, NEW b \in BOOLEAN
  PROVE  /\ CleanupIfRequired(t, c).start = t.start
         /\ Transcoded(t).start = t.start /\ Exited(t).start = t.start
         /\ [t EXCEPT !.throttled = b].start = t.start
<1>1. t.start \in Nat /\ t.newest + 1 \in Int
  BY DEF TranscodingSessions
<1> QED
  BY <1>1 DEF TranscodingSessions, CleanupIfRequired, Destroy, Transcoded, Exited

\* Steps that neither serve a segment, nor record one, nor give a handler a session
\* for one.
LEMMA QuietOrder ==
  ASSUME OneAtATime, AskedAnew, UnstartedInv, ServedInv,
         UNCHANGED <<key, indexVars>>,
         \A s \in Sid : transcoding'[s].start = transcoding[s].start,
         \A r \in Request :
           /\ pc'[r] \in Asking => pc'[r] = pc[r] /\ held'[r] = held[r] /\ idx'[r] = idx[r]
           /\ pc[r] = "served" => pc'[r] = "served"
           /\ held'[r] \in {held[r], None} \/ held'[r] \in {s \in Sid : Created(s)}
  PROVE  OneAtATime' /\ AskedAnew' /\ UnstartedInv' /\ ServedInv'
<1> USE DEF indexVars
<1>1. OneAtATime' /\ AskedAnew'
  BY DEF OneAtATime, AskedAnew, Asking
<1>2. UnstartedInv'
  BY PlaybackSessionAssumption DEF UnstartedInv, Created
<1>3. \A s \in Sid : Recorded(s)' <=> Recorded(s)
  BY DEF Recorded, Asking
<1>4. \A s \in Sid : Indices(s)' = Indices(s)
  BY DEF Indices
<1>5. ServedInv'
  BY <1>3, <1>4 DEF ServedInv, Created
<1> QED BY <1>1, <1>2, <1>5

LEMMA GetExistingOrder ==
  ASSUME InOrderInv, Pipelined = FALSE, NEW r \in Request, NEW k \in Key,
         NEW i \in InitSegmentIdx .. LastIndex, GetExisting(r, k, i)
  PROVE  OneAtATime' /\ AskedAnew' /\ UnstartedInv' /\ ServedInv'
<1> DEFINE s == sessions[k]
<1>1. /\ s \in Sid /\ Created(s)
      /\ pc[r] = "new"
      /\ held' = [held EXCEPT ![r] = s] /\ idx' = [idx EXCEPT ![r] = i]
      /\ pc' = [pc EXCEPT ![r] = Serve(i)]
      /\ UNCHANGED <<key, indexVars, transcoding>>
  BY PlaybackSessionAssumption DEF GetExisting, Give, InOrderInv, TypeInv, TypeOK,
     MapInv, Created, Key, managerVars
<1>2. /\ pc \in [Request -> Location] /\ held \in [Request -> Sid \cup {None}]
      /\ idx \in [Request -> InitSegmentIdx .. LastIndex]
      /\ lastRequested \in [Sid -> Nat \cup {-1}]
  BY DEF InOrderInv, TypeInv, TypeOK
<1>3. OneAtATime /\ AskedAnew /\ UnstartedInv /\ ServedInv
  BY DEF InOrderInv
<1>4. CASE i = InitSegmentIdx
  <2>1. \A q \in Request :
          /\ pc'[q] \in Asking => pc'[q] = pc[q] /\ held'[q] = held[q] /\ idx'[q] = idx[q]
          /\ pc[q] = "served" => pc'[q] = "served"
          /\ held'[q] \in {held[q], None} \/ held'[q] \in {t \in Sid : Created(t)}
    BY <1>1, <1>2, <1>4 DEF Serve, Asking
  <2> HIDE DEF s
  <2> QED BY <1>1, <1>3, <2>1, QuietOrder
<1>5. CASE i # InitSegmentIdx
  <2>1. /\ i > lastRequested[s]
        /\ \A q \in Request : held[q] = s => pc[q] \notin Asking
    BY <1>5 DEF GetExisting, Continues, MayAsk, Asking
  <2>2. pc'[r] = "serveSegment" /\ held'[r] = s /\ idx'[r] = i
    BY <1>1, <1>2, <1>5 DEF Serve
  <2>3. \A q \in Request \ {r} : pc'[q] = pc[q] /\ held'[q] = held[q] /\ idx'[q] = idx[q]
    BY <1>1, <1>2
  <2> HIDE DEF s
  <2>4. OneAtATime'
    BY <1>3, <2>1, <2>2, <2>3 DEF OneAtATime
  <2>5. AskedAnew'
    <3> SUFFICES ASSUME NEW q \in Request, pc'[q] \in Asking
                 PROVE idx'[q] # lastRequested'[held'[q]]
      BY DEF AskedAnew
    <3>1. CASE q = r
      <4>1. lastRequested'[s] = lastRequested[s] /\ lastRequested[s] \in Int /\ i \in Int
        BY <1>1, <1>2 DEF indexVars, InitSegmentIdx
      <4> QED BY <2>1, <2>2, <3>1, <4>1
    <3>2. CASE q # r
      BY <1>1, <1>3, <2>3, <3>2 DEF AskedAnew, indexVars
    <3> QED BY <3>1, <3>2
  <2>6. UnstartedInv'
    BY <1>1, <1>3, <2>2, <2>3 DEF UnstartedInv, Created, indexVars
  <2>7. \A t \in Sid : Recorded(t)' <=> Recorded(t)
    BY <1>1, <2>2, <2>3 DEF Recorded
  <2>8. \A t \in Sid : Indices(t)' = Indices(t)
    BY <1>1 DEF Indices, indexVars
  <2>9. ServedInv'
    BY <1>1, <1>3, <2>7, <2>8 DEF ServedInv, Created, indexVars
  <2> QED BY <2>4, <2>5, <2>6, <2>9
<1> QED BY <1>4, <1>5

LEMMA StartOrder ==
  ASSUME InOrderInv, NEW r \in Request, NEW k \in Key,
         NEW i \in InitSegmentIdx .. LastIndex, NEW s \in Sid, StartSession(r, k, i, s)
  PROVE  OneAtATime' /\ AskedAnew' /\ UnstartedInv' /\ ServedInv'
<1> DEFINE first == StartAtSegmentIdx(i)
<1>1. /\ ~Created(s) /\ pc[r] = "new"
      /\ key' = [key EXCEPT ![s] = k]
      /\ lastRequested' = [lastRequested EXCEPT ![s] = first - 1]
      /\ lastServed' = [lastServed EXCEPT ![s] = first - 1]
      /\ served' = served
      /\ held' = [held EXCEPT ![r] = s] /\ idx' = [idx EXCEPT ![r] = i]
      /\ pc' = [pc EXCEPT ![r] = Serve(i)]
  BY DEF StartSession, NeedsNewSession, Give
<1>2. /\ pc \in [Request -> Location] /\ held \in [Request -> Sid \cup {None}]
      /\ idx \in [Request -> InitSegmentIdx .. LastIndex]
      /\ lastRequested \in [Sid -> Nat \cup {-1}] /\ lastServed \in [Sid -> Nat \cup {-1}]
      /\ key \in [Sid -> Key \cup {None}] /\ HoldsSession
      /\ transcoding \in [Sid -> TranscodingSessions] /\ referenceCount \in [Sid -> Int]
  BY DEF InOrderInv, TypeInv, TypeOK
<1>3. OneAtATime /\ AskedAnew /\ UnstartedInv /\ ServedInv
  BY DEF InOrderInv
<1>4. first \in Nat /\ i \in Int
  BY StartType DEF InitSegmentIdx
<1>5. /\ transcoding'[s].start = first
      /\ \A t \in Sid \ {s} : transcoding'[t].start = transcoding[t].start
  <2>0. sessions[k] # s
    BY <1>1, PlaybackSessionAssumption DEF InOrderInv, MapInv, Created, Key
  <2>4. PICK read \in IF sessions[k] = None THEN {0} ELSE recent[sessions[k]] :
          Replace(k, s, first, read)
    BY DEF StartSession
  <2>5. read \in Int
    BY <1>2, <2>4 DEF InOrderInv, TypeInv, TypeOK
  <2>1. transcoding'[s] = NewTranscodingSession(first)
    BY <1>2, <2>0, <2>4 DEF Replace
  <2>2. \A t \in Sid \ {s} : transcoding'[t] \in
          {transcoding[t], CleanupIfRequired(transcoding[t], read - 1)}
    BY <1>2, <2>4 DEF Replace
  <2>3. \A t \in Sid \ {s} :
          CleanupIfRequired(transcoding[t], read - 1).start = transcoding[t].start
    <3> TAKE t \in Sid \ {s}
    <3>1. transcoding[t] \in TranscodingSessions /\ read - 1 \in Int
      BY <1>2, <2>5
    <3> QED BY <3>1, StartStays
  <2> QED BY <2>1, <2>2, <2>3 DEF NewTranscodingSession
<1>6. pc'[r] = Serve(i) /\ held'[r] = s /\ idx'[r] = i
  BY <1>1, <1>2
<1>7. \A q \in Request \ {r} : pc'[q] = pc[q] /\ held'[q] = held[q] /\ idx'[q] = idx[q]
  BY <1>1, <1>2
<1>8. served[s] = {} /\ \A q \in Request : held[q] # s
  BY <1>1, <1>3 DEF UnstartedInv
<1> HIDE DEF first
<1>9. OneAtATime'
  BY <1>3, <1>6, <1>7, <1>8 DEF OneAtATime
<1>10. AskedAnew'
  <2> SUFFICES ASSUME NEW q \in Request, pc'[q] \in Asking
               PROVE idx'[q] # lastRequested'[held'[q]]
    BY DEF AskedAnew
  <2>1. CASE q = r
    <3>1. i # InitSegmentIdx
      BY <1>6, <2>1 DEF Serve, Asking
    <3>2. lastRequested'[s] = i - 1
      BY <1>1, <1>2, <3>1 DEF StartAtSegmentIdx, first
    <3> QED BY <1>4, <1>6, <2>1, <3>2
  <2>2. CASE q # r
    BY <1>1, <1>2, <1>3, <1>7, <1>8, <2>2 DEF AskedAnew, HoldsSession, Asking, Using
  <2> QED BY <2>1, <2>2
<1>11. UnstartedInv'
  BY <1>1, <1>2, <1>3, <1>6, <1>7, PlaybackSessionAssumption
  DEF UnstartedInv, Created, Key
<1>12. \A t \in Sid : Recorded(t)' <=> Recorded(t)
  BY <1>1, <1>6, <1>7, <1>8 DEF Recorded, Serve
<1>13. \A t \in Sid : Indices(t)' = Indices(t)
  BY <1>1 DEF Indices
<1>14. ServedInv'
  <2> SUFFICES ASSUME NEW t \in Sid, Created(t)'
               PROVE /\ lastServed'[t] >= transcoding'[t].start - 1
                     /\ Recorded(t)' => Indices(t)' = transcoding'[t].start .. lastServed'[t]
                     /\ ~Recorded(t)' => Indices(t)' = transcoding'[t].start .. lastServed'[t] + 1
    BY DEF ServedInv
  <2>1. CASE t = s
    <3>1. Recorded(s)' /\ Indices(s)' = {}
      BY <1>8, <1>12, <1>13 DEF Recorded, Indices
    <3>2. lastServed'[s] = first - 1 /\ first .. first - 1 = {}
      BY <1>1, <1>2, <1>4
    <3> QED BY <1>4, <1>5, <2>1, <3>1, <3>2
  <2>2. CASE t # s
    BY <1>1, <1>2, <1>3, <1>5, <1>12, <1>13, <2>2 DEF ServedInv, Created
  <2> QED BY <2>1, <2>2
<1> QED BY <1>9, <1>10, <1>11, <1>14

LEMMA ServeOrder ==
  ASSUME InOrderInv, NEW r \in Request, ServeSegment(r)
  PROVE  OneAtATime' /\ AskedAnew' /\ UnstartedInv' /\ ServedInv'
<1>0. pc[r] = "serveSegment"
  BY DEF ServeSegment
<1> PICK s \in Sid : s = held[r]
  BY <1>0 DEF InOrderInv, TypeInv, HoldsSession, Using
<1>1. /\ pc[r] = "serveSegment"
      /\ served' = [served EXCEPT ![s] = @ \cup {<<idx[r], lastServed[s] + 1>>}]
      /\ pc' = [pc EXCEPT ![r] = "served"]
      /\ UNCHANGED <<key, lastRequested, lastServed, transcoding, held, idx>>
  BY DEF ServeSegment, SegmentIdxToServe, managerVars
<1>2. /\ pc \in [Request -> Location]
      /\ lastServed \in [Sid -> Nat \cup {-1}] /\ transcoding \in [Sid -> TranscodingSessions]
      /\ served \in [Sid -> SUBSET ((InitSegmentIdx .. LastIndex) \X Nat)]
  BY <1>1 DEF InOrderInv, TypeInv, TypeOK, HoldsSession, Using
<1>3. OneAtATime /\ AskedAnew /\ UnstartedInv /\ ServedInv
  BY DEF InOrderInv
<1>4. Created(s) /\ Recorded(s)
  BY <1>1, <1>2, <1>3 DEF UnstartedInv, OneAtATime, Recorded, Asking
<1>5. pc'[r] = "served" /\ \A q \in Request \ {r} : pc'[q] = pc[q]
  BY <1>1, <1>2
<1>6. held[r] = s
  OBVIOUS
<1>7. OneAtATime' /\ AskedAnew'
  BY <1>1, <1>3, <1>5 DEF OneAtATime, AskedAnew, Asking
<1>8. UnstartedInv'
  BY <1>1, <1>2, <1>3, <1>4 DEF UnstartedInv, Created
<1>9. ServedInv'
  <2> SUFFICES ASSUME NEW t \in Sid, Created(t)'
               PROVE /\ lastServed'[t] >= transcoding'[t].start - 1
                     /\ Recorded(t)' => Indices(t)' = transcoding'[t].start .. lastServed'[t]
                     /\ ~Recorded(t)' => Indices(t)' = transcoding'[t].start .. lastServed'[t] + 1
    BY DEF ServedInv
  <2>1. CASE t = s
    <3>1. ~Recorded(s)'
      BY <1>1, <1>5, <1>6 DEF Recorded
    <3>2. Indices(s)' = Indices(s) \cup {lastServed[s] + 1}
      <4>1. served'[s] = served[s] \cup {<<idx[r], lastServed[s] + 1>>}
        BY <1>1, <1>2
      <4>2. <<idx[r], lastServed[s] + 1>>[2] = lastServed[s] + 1
        OBVIOUS
      <4>3. ASSUME NEW n PROVE n \in Indices(s)' <=> n \in Indices(s) \cup {lastServed[s] + 1}
        BY <4>1, <4>2 DEF Indices
      <4> QED BY <4>3
    <3>3. Indices(s) = transcoding[s].start .. lastServed[s]
          /\ lastServed[s] >= transcoding[s].start - 1
      BY <1>2, <1>3, <1>4 DEF ServedInv
    <3>4. transcoding[s].start \in Nat /\ lastServed[s] \in Int
      BY <1>2 DEF TranscodingSessions
    <3>5. (transcoding[s].start .. lastServed[s]) \cup {lastServed[s] + 1}
            = transcoding[s].start .. lastServed[s] + 1
      BY <3>3, <3>4
    <3> QED BY <1>1, <2>1, <3>1, <3>2, <3>3, <3>5
  <2>2. CASE t # s
    <3>1. Recorded(t)' <=> Recorded(t)
      BY <1>1, <1>5, <1>6, <2>2 DEF Recorded
    <3>2. Indices(t)' = Indices(t)
      BY <1>1, <1>2, <2>2 DEF Indices
    <3> QED BY <1>1, <1>3, <3>1, <3>2 DEF ServedInv, Created
  <2> QED BY <2>1, <2>2
<1> QED BY <1>7, <1>8, <1>9

LEMMA RecordOrder ==
  ASSUME InOrderInv, NEW r \in Request, RecordServed(r)
  PROVE  OneAtATime' /\ AskedAnew' /\ UnstartedInv' /\ ServedInv'
<1>1. pc[r] = "served"
  BY DEF RecordServed
<1> PICK s \in Sid : s = held[r]
  BY <1>1 DEF InOrderInv, TypeInv, HoldsSession, Using
<1>2. OneAtATime /\ AskedAnew /\ UnstartedInv /\ ServedInv
  BY DEF InOrderInv
<1>3. lastRequested[s] # idx[r]
  BY <1>1, <1>2 DEF AskedAnew, Asking
<1>4. /\ lastRequested' = [lastRequested EXCEPT ![s] = idx[r]]
      /\ lastServed' = [lastServed EXCEPT ![s] = @ + 1]
      /\ pc' = [pc EXCEPT ![r] = "release"]
      /\ UNCHANGED <<key, served, transcoding, held, idx>>
  BY <1>3 DEF RecordServed, managerVars
<1>5. /\ pc \in [Request -> Location] /\ lastServed \in [Sid -> Nat \cup {-1}]
      /\ lastRequested \in [Sid -> Nat \cup {-1}] /\ transcoding \in [Sid -> TranscodingSessions]
  BY DEF InOrderInv, TypeInv, TypeOK
<1>6. held[r] = s
  OBVIOUS
<1>7. \A q \in Request \ {r} : pc[q] \in Asking => held[q] # s
  BY <1>1, <1>2, <1>6 DEF OneAtATime, Asking
<1>8. pc'[r] = "release" /\ \A q \in Request \ {r} : pc'[q] = pc[q]
  BY <1>4, <1>5
<1>9. OneAtATime'
  BY <1>2, <1>4, <1>8 DEF OneAtATime, Asking
<1>10. AskedAnew'
  BY <1>2, <1>4, <1>5, <1>7, <1>8 DEF AskedAnew, Asking
<1>11. UnstartedInv'
  BY <1>2, <1>4 DEF UnstartedInv, Created
<1>12. ServedInv'
  <2> SUFFICES ASSUME NEW t \in Sid, Created(t)'
               PROVE /\ lastServed'[t] >= transcoding'[t].start - 1
                     /\ Recorded(t)' => Indices(t)' = transcoding'[t].start .. lastServed'[t]
                     /\ ~Recorded(t)' => Indices(t)' = transcoding'[t].start .. lastServed'[t] + 1
    BY DEF ServedInv
  <2>0. Created(t) /\ Indices(t)' = Indices(t)
    BY <1>4 DEF Created, Indices
  <2>1. CASE t = s
    <3>1. Recorded(s)' /\ ~Recorded(s)
      BY <1>1, <1>4, <1>6, <1>7, <1>8 DEF Recorded, Asking
    <3>2. lastServed'[s] = lastServed[s] + 1
      BY <1>1, <1>4, <1>5
    <3>3. Indices(s) = transcoding[s].start .. lastServed[s] + 1
          /\ lastServed[s] >= transcoding[s].start - 1
      BY <1>2, <2>0, <2>1, <3>1 DEF ServedInv
    <3>4. transcoding[s].start \in Nat /\ lastServed[s] \in Int
      BY <1>1, <1>5 DEF TranscodingSessions
    <3> QED BY <1>4, <2>0, <2>1, <3>1, <3>2, <3>3, <3>4
  <2>2. CASE t # s
    <3>1. Recorded(t)' <=> Recorded(t)
      BY <1>4, <1>6, <1>8, <2>2 DEF Recorded
    <3>2. lastServed'[t] = lastServed[t]
      BY <1>4, <1>5, <2>2
    <3> QED BY <1>2, <1>4, <2>0, <3>1, <3>2 DEF ServedInv
  <2> QED BY <2>1, <2>2
<1> QED BY <1>9, <1>10, <1>11, <1>12

LEMMA InOrderStep ==
  ASSUME InOrderInv, Pipelined = FALSE, [Next]_vars
  PROVE  InOrderInv'
<1> DEFINE Goal == OneAtATime /\ AskedAnew /\ UnstartedInv /\ ServedInv
<1>a. OneAtATime /\ AskedAnew /\ UnstartedInv /\ ServedInv
  BY DEF InOrderInv
<1>b. TypeInv /\ MapInv
  BY DEF InOrderInv
<1>c. /\ pc \in [Request -> Location] /\ held \in [Request -> Sid \cup {None}]
      /\ transcoding \in [Sid -> TranscodingSessions] /\ referenceCount \in [Sid -> Int]
      /\ HoldsSession
  BY <1>b DEF TypeInv, TypeOK
<1>d. ASSUME NEW s \in Sid, Detach(s)
      PROVE  \A t \in Sid : transcoding'[t].start = transcoding[t].start
  <2>1. PICK read \in recent[s] :
          transcoding' = [transcoding EXCEPT ![s] = CleanupIfRequired(@, read - 1)]
    BY <1>d DEF Detach
  <2>2. read \in Int
    BY <1>b, <2>1 DEF TypeInv, TypeOK
  <2>3. CleanupIfRequired(transcoding[s], read - 1).start = transcoding[s].start
    BY <1>c, <2>2, StartStays
  <2> QED BY <1>c, <2>1, <2>3
<1>1. ASSUME NEW r \in Request, GetPlaybackSession(r) PROVE Goal'
  <2> PICK k \in Key, i \in InitSegmentIdx .. LastIndex :
        \/ GetExisting(r, k, i)
        \/ \E s \in Sid : StartSession(r, k, i, s)
        \/ StartSessionFails(r, k, i)
    BY <1>1 DEF GetPlaybackSession
  <2>1. CASE StartSessionFails(r, k, i)
    <3>1. \A t \in Sid : transcoding'[t].start = transcoding[t].start
      <4>1. CASE sessions[k] = None
        BY <2>1, <4>1 DEF StartSessionFails
      <4>2. CASE sessions[k] # None
        <5>1. sessions[k] \in Sid
          BY <1>b, <4>2 DEF TypeInv, TypeOK
        <5> QED BY <1>d, <2>1, <4>2, <5>1 DEF StartSessionFails
      <4> QED BY <4>1, <4>2
    <3>2. /\ UNCHANGED <<key, indexVars, held, idx>>
          /\ pc[r] = "new" /\ pc' = [pc EXCEPT ![r] = "done"]
      BY <2>1 DEF StartSessionFails, NeedsNewSession
    <3>3. \A q \in Request :
            /\ pc'[q] \in Asking => pc'[q] = pc[q]
            /\ pc[q] = "served" => pc'[q] = "served"
      BY <1>c, <3>2 DEF Asking
    <3> QED BY <1>a, <3>1, <3>2, <3>3, QuietOrder
  <2> QED BY <2>1, GetExistingOrder, StartOrder
<1>2. ASSUME NEW r \in Request, GetPlaybackSessionByID(r) PROVE Goal'
  <2>1. PICK s \in Registered : /\ pc[r] = "new" /\ Give(r, s, idx[r], "feedback")
                               /\ UNCHANGED <<managerVars, indexVars, transcoding>>
    BY <1>2 DEF GetPlaybackSessionByID
  <2>2. s \in Sid /\ Created(s)
    BY <1>b, PlaybackSessionAssumption DEF Registered, MapInv, Created, Key
  <2>3. /\ pc' = [pc EXCEPT ![r] = "feedback"] /\ held' = [held EXCEPT ![r] = s]
        /\ idx' = [idx EXCEPT ![r] = idx[r]] /\ UNCHANGED <<key, indexVars, transcoding>>
    BY <2>1 DEF Give, managerVars
  <2>4. \A q \in Request :
          /\ pc'[q] \in Asking => pc'[q] = pc[q] /\ held'[q] = held[q] /\ idx'[q] = idx[q]
          /\ pc[q] = "served" => pc'[q] = "served"
          /\ held'[q] \in {held[q], None} \/ held'[q] \in {t \in Sid : Created(t)}
    BY <1>b, <1>c, <2>1, <2>2, <2>3 DEF Asking, TypeInv, TypeOK
  <2> QED BY <1>a, <2>3, <2>4, QuietOrder
<1>3. ASSUME NEW r \in Request,
             \/ PollFails(r) \/ ServeInit(r) \/ Feedback(r)
             \/ Decrement(r) \/ DecrementLoad(r) \/ DecrementStore(r)
      PROVE Goal'
  <2>1. /\ UNCHANGED <<key, indexVars, held, idx>>
        /\ pc[r] # "served"
        /\ \E x \in {"release", "store", "cleanup"} : pc' = [pc EXCEPT ![r] = x]
    BY <1>3 DEF PollFails, ServeInit, Feedback, Decrement, DecrementLoad, DecrementStore,
       managerVars
  <2>2. \A q \in Request :
          /\ pc'[q] \in Asking => pc'[q] = pc[q]
          /\ pc[q] = "served" => pc'[q] = "served"
    BY <1>c, <2>1 DEF Asking
  <2>3. \A t \in Sid : transcoding'[t].start = transcoding[t].start
    <3>1. CASE Feedback(r)
      <4>1. held[r] \in Sid
        BY <1>c, <3>1 DEF Feedback, HoldsSession, Using
      <4>2. PICK b \in BOOLEAN : transcoding' = [transcoding EXCEPT ![held[r]].throttled = b]
        BY <3>1, <4>1 DEF Feedback, Live, ShouldThrottle
      <4>3. [transcoding[held[r]] EXCEPT !.throttled = b].start = transcoding[held[r]].start
        BY <1>c, <4>1, StartStays
      <4> QED BY <1>c, <4>1, <4>2, <4>3
    <3>2. CASE UNCHANGED transcoding
      BY <3>2
    <3> QED
      BY <1>3, <3>1, <3>2 DEF PollFails, ServeInit, Decrement, DecrementLoad, DecrementStore
  <2> QED BY <1>a, <2>1, <2>2, <2>3, QuietOrder
<1>4. ASSUME NEW r \in Request, Cleanup(r) PROVE Goal'
  <2>1. /\ UNCHANGED <<key, indexVars>> /\ pc[r] = "cleanup"
        /\ pc' = [pc EXCEPT ![r] = "done"] /\ held' = [held EXCEPT ![r] = None]
        /\ idx' = [idx EXCEPT ![r] = InitSegmentIdx]
    BY <1>4 DEF Cleanup, managerVars
  <2>2. \A q \in Request :
          /\ pc'[q] \in Asking => pc'[q] = pc[q] /\ held'[q] = held[q] /\ idx'[q] = idx[q]
          /\ pc[q] = "served" => pc'[q] = "served"
          /\ held'[q] \in {held[q], None}
    BY <1>b, <1>c, <2>1 DEF Asking, TypeInv, TypeOK
  <2>3. \A t \in Sid : transcoding'[t].start = transcoding[t].start
    <3>1. held[r] \in Sid
      BY <1>c, <2>1 DEF HoldsSession
    <3>2. CleanupIfRequired(transcoding[held[r]], referenceCount[held[r]]).start
            = transcoding[held[r]].start
      BY <1>c, <3>1, StartStays
    <3> QED BY <1>4, <1>c, <3>1, <3>2 DEF Cleanup
  <2> QED BY <1>a, <2>1, <2>2, <2>3, QuietOrder
<1>5. ASSUME UNCHANGED <<key, indexVars, requestVars>>,
             \A t \in Sid : transcoding'[t].start = transcoding[t].start
      PROVE Goal'
  BY <1>5, <1>a, QuietOrder DEF requestVars
<1>6. ASSUME NEW s \in Sid, GCIterate(s) \/ Expire(s) PROVE Goal'
  BY <1>5, <1>6 DEF GCIterate, Expire, managerVars
<1>7. ASSUME NEW g \in Sid, GCRemove(g) PROVE Goal'
  <2>1. PICK s \in Sid : Detach(s) /\ UNCHANGED <<key, indexVars, requestVars>>
    BY <1>b, <1>7 DEF GCRemove, RemovePlaybackSession, TypeInv, TypeOK
  <2> QED BY <1>5, <1>d, <2>1
<1>8. ASSUME NEW s \in Sid, TickerFires(s) PROVE Goal'
  BY <1>5, <1>d, <1>8 DEF TickerFires, RemovePlaybackSession
<1>9. ASSUME NEW s \in Sid, Transcode(s) \/ Exit(s) PROVE Goal'
  <2>1. Transcoded(transcoding[s]).start = transcoding[s].start
        /\ Exited(transcoding[s]).start = transcoding[s].start
    BY <1>c, StartStays
  <2>2. \A t \in Sid : transcoding'[t].start = transcoding[t].start
    BY <1>9, <1>c, <2>1 DEF Transcode, Exit
  <2> QED BY <1>5, <1>9, <2>2 DEF Transcode, Exit, managerVars
<1>10. ASSUME UNCHANGED vars PROVE Goal'
  BY <1>a, <1>10, QuietOrder DEF vars, managerVars, requestVars
<1>11. ASSUME NEW r \in Request, ServeSegment(r) \/ RecordServed(r) PROVE Goal'
  BY <1>11, ServeOrder, RecordOrder
<1>12. Goal'
  <2> HIDE DEF Goal
  <2> QED BY <1>1, <1>2, <1>3, <1>4, <1>6, <1>7, <1>8, <1>9, <1>10, <1>11 DEF Next, Handle
<1> QED BY <1>b, <1>12, NextTypes, MapInvStep DEF InOrderInv

\* To a client that waits for each answer a session serves its segments one by one
\* from where it started, and lastServedSegmentIdx is the last of them
\* (session.go:61), however its requests are released, collected or time out.
THEOREM ServedInOrderAlways == Pipelined = FALSE => (Spec => []ServedInOrder)
<1> SUFFICES ASSUME Pipelined = FALSE PROVE Spec => []ServedInOrder
  OBVIOUS
<1>1. Init => InOrderInv
  <2> SUFFICES ASSUME Init PROVE OneAtATime /\ AskedAnew /\ UnstartedInv /\ ServedInv /\ MapInv
    BY InitTypes DEF InOrderInv
  <2>1. OneAtATime /\ AskedAnew
    BY DEF Init, OneAtATime, AskedAnew, Asking
  <2>2. UnstartedInv /\ ServedInv /\ MapInv
    BY PlaybackSessionAssumption DEF Init, UnstartedInv, ServedInv, MapInv, Created
  <2> QED BY <2>1, <2>2
<1>2. InOrderInv /\ [Next]_vars => InOrderInv'
  BY InOrderStep
<1>3. InOrderInv => ServedInOrder
  BY DEF InOrderInv, ServedInv, ServedInOrder, Recorded, Indices
<1> QED BY <1>1, <1>2, <1>3, PTL DEF Spec
===============================================================================
