------------------------- MODULE SeriesManager_proofs -------------------------
(***************************************************************************)
(* What holds of series, seasons, episodes and their files for any number  *)
(* of calls and rows: types, one row per key, orphans, collections, and    *)
(* that empty rows have somebody who will see to them.                     *)
(***************************************************************************)
EXTENDS SeriesManager, TLAPS

USE SeriesManagerAssumption DEF ID, NoID, Deleted

(***************************************************************************)
(* Types                                                                   *)
(***************************************************************************)

Born == {i \in ID : row[i] # NoRow}

\* What a call needs further on it has loaded; a copy holds rows that there were.
HasCopies(r) ==
  /\ r.at \in {"lock", "create"} => r.key \in Key
  /\ r.at \in {"lock", "create", "attach", "remove"} => r.file \in File
  /\ r.at \in {"lock", "create"} /\ r.level = "series" => r.found = NoID
  /\ r.at = "attach" => r.found \in ID
  /\ r.at = "delete" => r.old \in ID
  /\ r.rows \subseteq Born

\* Series have no parent.
SeriesAreRoots == \A i \in ID : row[i].level = "series" => row[i].parent = NoID

TypeInv == TypeOK /\ SeriesAreRoots /\ \A c \in Call : HasCopies(call[c])

LEMMA NoFilesType == NoFiles \in Files
BY DEF NoFiles, Files

LEMMA IdleType == Idle \in CallStates /\ HasCopies(Idle) /\ Idle.at = "idle"
BY NoFilesType DEF Idle, CallStates, HasCopies, Level

\* The states that the actions put a call in.
LEMMA RefreshType ==
  ASSUME NEW S \in SUBSET ID, NEW F \in Files
  PROVE  [Idle EXCEPT !.at = "refresh", !.rows = S, !.files = F] \in CallStates
BY NoFilesType DEF Idle, CallStates, Level

LEMMA CollectType ==
  ASSUME NEW i \in ID \cup {NoID}
  PROVE  [Idle EXCEPT !.at = "collect", !.old = i] \in CallStates
BY NoFilesType DEF Idle, CallStates, Level

LEMMA CollectNextType ==
  ASSUME NEW r \in CallStates, NEW i \in ID \cup {NoID}
  PROVE  [r EXCEPT !.at = "collect", !.old = i] \in CallStates
BY DEF CallStates

LEMMA DeleteType ==
  ASSUME NEW r \in CallStates, NEW i \in ID
  PROVE  [r EXCEPT !.at = "delete", !.held = r.held \cup {i}] \in CallStates
BY DEF CallStates

LEMMA WithType ==
  ASSUME NEW r \in CallStates, NEW i \in ID, NEW S \in SUBSET ID, NEW F \in Files
  PROVE  [r EXCEPT !.at = IF r.level = "episode" THEN "attach" ELSE "lock",
                   !.level = NextLevel(r.level), !.found = i, !.rows = S, !.files = F]
           \in CallStates
<1>1. NextLevel(r.level) \in Level
  BY DEF NextLevel, Level
<1> HIDE DEF Level
<1> DEFINE a == IF r.level = "episode" THEN "attach" ELSE "lock"
<1>2. a \in {"attach", "lock"}
  OBVIOUS
<1> HIDE DEF a
<1> SUFFICES [r EXCEPT !.at = a, !.level = NextLevel(r.level), !.found = i, !.rows = S,
                       !.files = F] \in CallStates
  BY DEF a
<1> QED BY <1>1, <1>2 DEF CallStates

LEMMA InitTypes == Init => TypeInv
<1> SUFFICES ASSUME Init PROVE TypeInv
  OBVIOUS
<1>1. row \in [ID -> Rows] /\ SeriesAreRoots
  BY DEF Init, Rows, NoRow, Level, SeriesAreRoots
<1>2. call \in [Call -> CallStates] /\ \A c \in Call : HasCopies(call[c])
  BY IdleType DEF Init
<1> QED BY <1>1, <1>2 DEF Init, TypeInv, TypeOK

\* The other calls are where they were.
OthersStay(c) ==
  /\ DOMAIN call' = Call /\ call' = [d \in Call |-> call'[d]]
  /\ \A d \in Call \ {c} : call'[d] = call[d]

LEMMA Replaced ==
  ASSUME TypeInv, NEW c \in Call, NEW r, call' = [call EXCEPT ![c] = r]
  PROVE  OthersStay(c) /\ call'[c] = r
BY DEF OthersStay, TypeInv, TypeOK

\* A step of one call that keeps the rows, or adds to them.
LEMMA CallTypes ==
  ASSUME TypeInv, NEW c \in Call,
         OthersStay(c), call'[c] \in CallStates, HasCopies(call[c])',
         Born \subseteq Born'
  PROVE  call' \in [Call -> CallStates] /\ (\A d \in Call : HasCopies(call[d]))'
<1>1. call' \in [Call -> CallStates]
  BY DEF TypeInv, TypeOK, OthersStay
<1>2. ASSUME NEW d \in Call PROVE HasCopies(call[d])'
  <2>1. CASE d = c
    BY <2>1
  <2>2. CASE d # c
    <3>1. call'[d] = call[d] /\ HasCopies(call[d])
      BY <2>2 DEF TypeInv, OthersStay
    <3> QED BY <3>1 DEF HasCopies
  <2> QED BY <2>1, <2>2
<1> QED BY <1>1, <1>2

LEMMA LoadTypes ==
  ASSUME TypeInv, NEW i \in table
  PROVE  /\ RowsWith(i) \subseteq Born /\ RowsWith(i) \subseteq ID /\ i \in RowsWith(i)
         /\ FilesWith(i) \in Files
<1>1. Below(i) \subseteq table /\ i \in Below(i)
  BY DEF Below, Children
<1>2. RowsWith(i) \subseteq table /\ i \in RowsWith(i)
  BY <1>1 DEF RowsWith
<1>3. table \subseteq Born
  BY DEF TypeInv, TypeOK, Born
<1>4. FilesWith(i) \in Files
  BY <1>1, <1>3 DEF FilesWith, Files, Born
<1> QED BY <1>2, <1>3, <1>4 DEF Born

\* Saving rows and files that there were, or that are new.
LEMMA SaveTypes ==
  ASSUME TypeInv, NEW S \in SUBSET Born', NEW new \in SUBSET ID, NEW F \in Files, NEW old,
         Born \subseteq Born', Save(S, new, F, old)
  PROVE  /\ table' \subseteq Born'
         /\ episodeID' \in [File -> ID \cup {NoID, Deleted}]
         /\ restored' \subseteq ID /\ left' \subseteq ID
         /\ raced' \subseteq ID \cup File
<1>1. S \subseteq ID /\ table \subseteq Born'
  BY DEF Born, TypeInv, TypeOK
<1>2. table' \subseteq Born'
  BY <1>1 DEF Save
<1>3. episodeID' \in [File -> ID \cup {NoID, Deleted}]
  BY DEF Save, TypeInv, TypeOK, Files
<1>4. restored' \subseteq ID
  BY <1>1 DEF Save, TypeInv, TypeOK
<1>5. left' \subseteq ID
  BY <1>1 DEF Save, TypeInv, TypeOK, Unseen
<1>6. raced' \subseteq ID \cup File
  BY <1>1 DEF Save, TypeInv, TypeOK
<1> QED BY <1>2, <1>3, <1>4, <1>5, <1>6

LEMMA NumberType ==
  ASSUME NEW k \in Key, NEW level \in Level PROVE k[level] \in Nat
<1>1. k.series \in Nat /\ k.season \in Nat /\ k.episode \in Nat
  OBVIOUS
<1> QED BY <1>1 DEF Level

LEMMA NextTypes == TypeInv /\ [Next]_vars => TypeInv'
<1> SUFFICES ASSUME TypeInv, [Next]_vars PROVE TypeInv'
  OBVIOUS
<1> USE DEF TypeInv, TypeOK
<1>1. CASE UNCHANGED vars
  <2>1. \A c \in Call : HasCopies(call[c])'
    BY <1>1 DEF vars, dbVars, historyVars, HasCopies, Born
  <2> QED BY <1>1, <2>1 DEF vars, dbVars, historyVars, SeriesAreRoots
<1>k. ASSUME NEW c \in Call, OthersStay(c), call'[c] \in CallStates, HasCopies(call[c])',
             UNCHANGED row,
             table' \subseteq Born', episodeID' \in [File -> ID \cup {NoID, Deleted}],
             seriesCreationMutex' \in Call \cup {None},
             restored' \subseteq ID, left' \subseteq ID, raced' \subseteq ID \cup File
      PROVE  TypeInv'
  <2>1. Born \subseteq Born'
    BY <1>k DEF Born
  <2>2. call' \in [Call -> CallStates] /\ (\A d \in Call : HasCopies(call[d]))'
    BY <1>k, <2>1, CallTypes
  <2> QED BY <1>k, <2>2 DEF SeriesAreRoots, Born
<1>u. ASSUME NEW c \in Call, OthersStay(c), call'[c] \in CallStates, HasCopies(call[c])',
             UNCHANGED <<dbVars, historyVars>>,
             seriesCreationMutex' \in Call \cup {None}
      PROVE  TypeInv'
  <2>1. table' \subseteq Born'
    BY <1>u DEF Born, dbVars
  <2> QED BY <1>u, <1>k, <2>1 DEF dbVars, historyVars
<1>2. ASSUME NEW c \in Call, NEW f \in File, NEW k \in Key,
             GetOrCreateEpisodeForEpisodeFile(c, f, k)
      PROVE  TypeInv'
  <2>1. OthersStay(c) /\ call'[c] = [Idle EXCEPT !.at = "lock", !.file = f, !.key = k]
    BY <1>2, Replaced DEF GetOrCreateEpisodeForEpisodeFile
  <2>2. call'[c] \in CallStates /\ HasCopies(call[c])'
    BY <2>1, IdleType, NoFilesType DEF Idle, CallStates, HasCopies, Level
  <2> QED BY <1>2, <1>u, <2>1, <2>2 DEF GetOrCreateEpisodeForEpisodeFile
<1>3. ASSUME NEW c \in Call, NEW f \in File, NEW k \in Key, UpdateEpisodeFileMetadata(c, f, k)
      PROVE  TypeInv'
  <2>1. /\ OthersStay(c)
        /\ call'[c] = [Idle EXCEPT !.at = "lock", !.file = f, !.key = k, !.old = episodeID[f]]
    BY <1>3, Replaced DEF UpdateEpisodeFileMetadata
  <2>2. episodeID[f] \in ID \cup {NoID}
    BY <1>3 DEF UpdateEpisodeFileMetadata
  <2>3. call'[c] \in CallStates /\ HasCopies(call[c])'
    BY <2>1, <2>2, IdleType, NoFilesType DEF Idle, CallStates, HasCopies, Level
  <2> QED BY <1>3, <1>u, <2>1, <2>3 DEF UpdateEpisodeFileMetadata
<1>4. ASSUME NEW c \in Call, NEW f \in File, FindEpisodeFile(c, f)
      PROVE  TypeInv'
  <2>1. /\ OthersStay(c)
        /\ call'[c] = [Idle EXCEPT !.at = "remove", !.file = f, !.old = episodeID[f]]
    BY <1>4, Replaced DEF FindEpisodeFile
  <2>2. episodeID[f] \in ID \cup {NoID}
    BY <1>4 DEF FindEpisodeFile
  <2>3. call'[c] \in CallStates /\ HasCopies(call[c])'
    BY <2>1, <2>2, IdleType, NoFilesType DEF Idle, CallStates, HasCopies, Level
  <2> QED BY <1>4, <1>u, <2>1, <2>3 DEF FindEpisodeFile
<1>5. ASSUME NEW c \in Call, NEW i \in ID, RefreshAgentMetadataForUUID(c, i)
      PROVE  TypeInv'
  <2>1. /\ OthersStay(c)
        /\ call'[c] = [Idle EXCEPT !.at = "refresh", !.rows = RowsWith(i),
                                   !.files = FilesWith(i)]
    BY <1>5, Replaced DEF RefreshAgentMetadataForUUID
  <2>2. RowsWith(i) \subseteq Born /\ RowsWith(i) \subseteq ID /\ FilesWith(i) \in Files
    BY <1>5, LoadTypes DEF RefreshAgentMetadataForUUID
  <2>3. UNCHANGED <<dbVars, seriesCreationMutex, historyVars>>
    BY <1>5 DEF RefreshAgentMetadataForUUID
  <2>4. call'[c] \in CallStates /\ HasCopies(call[c])'
    <3>1. call'[c] \in CallStates
      <4>1. RowsWith(i) \in SUBSET ID /\ FilesWith(i) \in Files
        BY <2>2
      <4> HIDE DEF TypeInv, TypeOK, ID
      <4>2. [Idle EXCEPT !.at = "refresh", !.rows = RowsWith(i), !.files = FilesWith(i)]
              \in CallStates
        BY <4>1, RefreshType, Zenon
      <4> QED BY <2>1, <4>2
    <3> QED BY <2>1, <2>2, <2>3, <3>1 DEF Idle, HasCopies, Born, dbVars
  <2> QED BY <1>u, <2>1, <2>3, <2>4
<1>6. ASSUME NEW c \in Call, Found(c)
      PROVE  TypeInv'
  <2>1. PICK i \in Wanted(c) : With(c, i, RowsWith(i), FilesWith(i))
    BY <1>6 DEF Found
  <2>2. /\ OthersStay(c)
        /\ call'[c] = [call[c] EXCEPT !.at = IF call[c].level = "episode" THEN "attach" ELSE "lock",
             !.level = NextLevel(call[c].level), !.found = i, !.rows = RowsWith(i),
             !.files = FilesWith(i)]
    BY <2>1, Replaced DEF With
  <2>3. /\ i \in ID /\ RowsWith(i) \subseteq Born /\ RowsWith(i) \subseteq ID
        /\ FilesWith(i) \in Files
    BY LoadTypes DEF Wanted, FindRow
  <2>4. UNCHANGED <<dbVars, seriesCreationMutex, historyVars>> /\ call[c].at = "lock"
    BY <1>6 DEF Found
  <2>5. call'[c] \in CallStates
    <3>1. call[c] \in CallStates
      OBVIOUS
    <3>2. RowsWith(i) \in SUBSET ID
      BY <2>3
    <3> HIDE DEF TypeInv, TypeOK, ID
    <3>3. [call[c] EXCEPT !.at = IF call[c].level = "episode" THEN "attach" ELSE "lock",
             !.level = NextLevel(call[c].level), !.found = i, !.rows = RowsWith(i),
             !.files = FilesWith(i)] \in CallStates
      BY <2>3, <3>1, <3>2, WithType, Zenon
    <3> QED BY <2>2, <3>3
  <2>6. HasCopies(call[c])'
    BY <2>2, <2>3, <2>4 DEF CallStates, HasCopies, NextLevel, Born, dbVars
  <2> QED BY <1>u, <2>2, <2>4, <2>5, <2>6
<1>7. ASSUME NEW c \in Call, NotFound(c)
      PROVE  TypeInv'
  <2>1. OthersStay(c) /\ call'[c] = [call[c] EXCEPT !.at = "create"]
    BY <1>7, Replaced DEF NotFound
  <2>2. call[c].at = "lock" /\ seriesCreationMutex' = c /\ UNCHANGED <<dbVars, historyVars>>
    BY <1>7 DEF NotFound
  <2>3. call'[c] \in CallStates /\ HasCopies(call[c])'
    BY <2>1, <2>2 DEF CallStates, HasCopies, Born, dbVars
  <2> QED BY <1>u, <2>1, <2>2, <2>3
<1>8. ASSUME NEW c \in Call, NEW i \in ID, Create(c, i)
      PROVE  TypeInv'
  <2> DEFINE S == call[c].rows \cup {i}
  <2> DEFINE n == [level |-> call[c].level, parent |-> call[c].found,
                   number |-> call[c].key[call[c].level]]
  <2>1. n \in Rows /\ n # NoRow /\ (n.level = "series" => n.parent = NoID)
    <3>1. call[c].key \in Key /\ call[c].level \in Level /\ call[c].found \in ID \cup {NoID}
      BY <1>8 DEF Create, CallStates, HasCopies
    <3>2. call[c].key[call[c].level] \in Nat
      BY <3>1, NumberType
    <3>3. call[c].level = "series" => call[c].found = NoID
      BY <1>8 DEF Create, HasCopies
    <3> QED BY <3>1, <3>2, <3>3 DEF Rows, NoRow, Level
  <2>2. row' = [row EXCEPT ![i] = n]
    BY <1>8 DEF Create
  <2> HIDE DEF n
  <2>3. /\ row' \in [ID -> Rows] /\ SeriesAreRoots'
        /\ Born \subseteq Born' /\ i \in Born'
    BY <2>1, <2>2 DEF SeriesAreRoots, Born
  <2>4. call[c] \in CallStates /\ call[c].rows \subseteq Born
    BY DEF HasCopies
  <2>5. S \in SUBSET Born' /\ S \in SUBSET ID /\ call[c].files \in Files
    BY <2>3, <2>4 DEF CallStates
  <2>6. /\ table' \subseteq Born'
        /\ episodeID' \in [File -> ID \cup {NoID, Deleted}]
        /\ restored' \subseteq ID /\ left' \subseteq ID
        /\ raced' \subseteq ID \cup File
    BY <1>8, <2>3, <2>5, SaveTypes DEF Create
  <2>7. /\ OthersStay(c)
        /\ call'[c] = [call[c] EXCEPT !.at = IF call[c].level = "episode" THEN "attach" ELSE "lock",
             !.level = NextLevel(call[c].level), !.found = i, !.rows = S,
             !.files = call[c].files]
    BY <1>8, Replaced DEF Create, With
  <2>8. call'[c] \in CallStates
    <3> HIDE DEF TypeInv, TypeOK, ID, S
    <3>1. [call[c] EXCEPT !.at = IF call[c].level = "episode" THEN "attach" ELSE "lock",
             !.level = NextLevel(call[c].level), !.found = i, !.rows = S,
             !.files = call[c].files] \in CallStates
      BY <2>4, <2>5, WithType, Zenon
    <3> QED BY <2>7, <3>1
  <2>9. HasCopies(call[c])'
    <3>1. call[c].at = "create"
      BY <1>8 DEF Create
    <3> QED BY <2>4, <2>5, <2>7, <3>1 DEF CallStates, HasCopies, NextLevel
  <2>10. call' \in [Call -> CallStates] /\ (\A d \in Call : HasCopies(call[d]))'
    BY <2>3, <2>7, <2>8, <2>9, CallTypes
  <2>11. seriesCreationMutex' \in Call \cup {None}
    BY <1>8 DEF Create
  <2> QED BY <2>3, <2>6, <2>10, <2>11 DEF Born
<1>9. ASSUME NEW c \in Call, AgentFails(c)
      PROVE  TypeInv'
  <2>1. OthersStay(c) /\ call'[c] = Idle
    BY <1>9, Replaced DEF AgentFails
  <2>2. /\ UNCHANGED <<dbVars, restored, raced>> /\ seriesCreationMutex' = None
        /\ left' \subseteq ID
    BY <1>9 DEF AgentFails, CallStates
  <2>3. HasCopies(call[c])' /\ table' \subseteq Born'
    BY <2>1, <2>2, IdleType DEF HasCopies, Born, dbVars
  <2> QED BY <1>k, <2>1, <2>2, <2>3, IdleType DEF dbVars
<1>10. ASSUME NEW c \in Call, Attach(c)
       PROVE  TypeInv'
  <2>1. /\ OthersStay(c)
        /\ call'[c] = IF call[c].old = NoID THEN Idle
                      ELSE [Idle EXCEPT !.at = "collect", !.old = call[c].old]
    BY <1>10, Replaced DEF Attach
  <2>2. call[c] \in CallStates /\ HasCopies(call[c]) /\ call[c].at = "attach"
    BY <1>10 DEF Attach
  <2>3. UNCHANGED <<row, seriesCreationMutex>>
    BY <1>10 DEF Attach
  <2>4. call'[c] \in CallStates /\ HasCopies(call[c])'
    <3>1. call[c].old \in ID \cup {NoID}
      BY <2>2 DEF CallStates
    <3>2. call'[c] \in CallStates
      <4> HIDE DEF TypeInv, TypeOK, ID
      <4> QED BY <2>1, <3>1, CollectType, IdleType
    <3> QED BY <2>1, <3>2 DEF Idle, HasCopies
  <2>5. /\ call[c].rows \in SUBSET Born' /\ Born \subseteq Born'
        /\ [call[c].files EXCEPT ![call[c].file] = call[c].found] \in Files
    BY <2>2, <2>3 DEF CallStates, HasCopies, Files, Born
  <2>6. /\ table' \subseteq Born'
        /\ episodeID' \in [File -> ID \cup {NoID, Deleted}]
        /\ restored' \subseteq ID /\ left' \subseteq ID
        /\ raced' \subseteq ID \cup File
    BY <1>10, <2>5, SaveTypes DEF Attach
  <2> QED BY <1>k, <2>1, <2>3, <2>4, <2>6
<1>11. ASSUME NEW c \in Call, DeleteWithStreams(c)
       PROVE  TypeInv'
  <2>1. /\ OthersStay(c)
        /\ call'[c] = IF call[c].old = NoID THEN Idle
                      ELSE [Idle EXCEPT !.at = "collect", !.old = call[c].old]
    BY <1>11, Replaced DEF DeleteWithStreams
  <2>2. call[c] \in CallStates
    OBVIOUS
  <2>3. UNCHANGED <<row, table, seriesCreationMutex, restored>>
    BY <1>11 DEF DeleteWithStreams
  <2>4. call'[c] \in CallStates /\ HasCopies(call[c])'
    <3>1. call[c].old \in ID \cup {NoID}
      BY <2>2 DEF CallStates
    <3>2. call'[c] \in CallStates
      <4> HIDE DEF TypeInv, TypeOK, ID
      <4> QED BY <2>1, <3>1, CollectType, IdleType
    <3> QED BY <2>1, <3>2 DEF Idle, HasCopies
  <2>5. /\ episodeID' \in [File -> ID \cup {NoID, Deleted}]
        /\ left' \subseteq ID /\ raced' \subseteq ID \cup File
    BY <1>11 DEF DeleteWithStreams
  <2>6. table' \subseteq Born'
    BY <2>3 DEF Born
  <2> QED BY <1>k, <2>1, <2>3, <2>4, <2>5, <2>6
<1>12. ASSUME NEW c \in Call, Collect(c)
       PROVE  TypeInv'
  <2>1. /\ OthersStay(c)
        /\ \/ call'[c] = Idle
           \/ /\ call'[c] = [call[c] EXCEPT !.at = "delete",
                               !.held = call[c].held \cup {call[c].old}]
              /\ call[c].old \in table
    BY <1>12, Replaced DEF Collect
  <2>2. call[c] \in CallStates /\ HasCopies(call[c]) /\ table \subseteq ID
    OBVIOUS
  <2>3. UNCHANGED <<dbVars, seriesCreationMutex, historyVars>>
    BY <1>12 DEF Collect
  <2>4. call'[c] \in CallStates
    <3>1. CASE call'[c] = Idle
      BY <3>1, IdleType
    <3>2. CASE call'[c] # Idle
      <4>1. call[c].old \in ID
        BY <2>1, <2>2, <3>2
      <4> HIDE DEF TypeInv, TypeOK, ID
      <4> QED BY <2>1, <2>2, <3>2, <4>1, DeleteType
    <3> QED BY <3>1, <3>2
  <2>5. HasCopies(call[c])'
    BY <2>1, <2>2, <2>3, IdleType DEF CallStates, HasCopies, Born, dbVars, Idle
  <2> QED BY <1>u, <2>1, <2>3, <2>4, <2>5
<1>13. ASSUME NEW c \in Call, Delete(c)
       PROVE  TypeInv'
  <2>1. /\ OthersStay(c)
        /\ \/ call'[c] = Idle
           \/ call'[c] = [call[c] EXCEPT !.at = "collect", !.old = row[call[c].old].parent]
    BY <1>13, Replaced DEF Delete
  <2>2. /\ call[c] \in CallStates /\ HasCopies(call[c])
        /\ row[call[c].old].parent \in ID \cup {NoID}
    BY <1>13 DEF Delete, HasCopies, Rows
  <2>3. UNCHANGED <<row, episodeID, seriesCreationMutex>>
    BY <1>13 DEF Delete
  <2>4. call'[c] \in CallStates
    <3> HIDE DEF TypeInv, TypeOK, ID
    <3> QED BY <2>1, <2>2, CollectNextType, IdleType
  <2>5. HasCopies(call[c])'
    <3>1. CASE call'[c] = Idle
      BY <2>3, <3>1, IdleType DEF HasCopies, Born
    <3>2. CASE call'[c] # Idle
      <4> HIDE DEF TypeInv, TypeOK, ID
      <4>1. call'[c].at = "collect" /\ call'[c].rows = call[c].rows
        BY <2>1, <2>2, <3>2 DEF CallStates
      <4> QED BY <2>2, <2>3, <4>1 DEF HasCopies, Born
    <3> QED BY <3>1, <3>2
  <2>6. /\ table' \subseteq Born'
        /\ restored' \subseteq ID /\ left' \subseteq ID /\ raced' \subseteq ID \cup File
    BY <1>13, <2>3 DEF Delete, Born
  <2> QED BY <1>k, <2>1, <2>3, <2>4, <2>5, <2>6
<1>14. ASSUME NEW c \in Call, SaveRefreshed(c)
       PROVE  TypeInv'
  <2>1. OthersStay(c) /\ call'[c] = Idle
    BY <1>14, Replaced DEF SaveRefreshed
  <2>2. UNCHANGED <<row, seriesCreationMutex>>
    BY <1>14 DEF SaveRefreshed
  <2>3. HasCopies(call[c])'
    BY <2>1, <2>2, IdleType DEF HasCopies, Born
  <2>4. call[c].rows \in SUBSET Born' /\ Born \subseteq Born' /\ call[c].files \in Files
    BY <2>2 DEF CallStates, HasCopies, Born
  <2>5. /\ table' \subseteq Born'
        /\ episodeID' \in [File -> ID \cup {NoID, Deleted}]
        /\ restored' \subseteq ID /\ left' \subseteq ID
        /\ raced' \subseteq ID \cup File
    BY <1>14, <2>4, SaveTypes DEF SaveRefreshed
  <2> QED BY <1>k, <2>1, <2>2, <2>3, <2>5, IdleType
<1>15. ASSUME NEW c \in Call, RefreshFails(c)
       PROVE  TypeInv'
  <2>1. OthersStay(c) /\ call'[c] = Idle
    BY <1>15, Replaced DEF RefreshFails
  <2>2. UNCHANGED <<dbVars, seriesCreationMutex, historyVars>>
    BY <1>15 DEF RefreshFails
  <2>3. HasCopies(call[c])'
    BY <2>1, <2>2, IdleType DEF HasCopies, Born, dbVars
  <2> QED BY <1>u, <2>1, <2>2, <2>3, IdleType
<1> QED BY <1>1, <1>2, <1>3, <1>4, <1>5, <1>6, <1>7, <1>8, <1>9, <1>10, <1>11, <1>12,
           <1>13, <1>14, <1>15 DEF Next, Start, Lock, Continue

\* Every variable keeps its type.
THEOREM TypesCorrect == Spec => []TypeOK
<1>1. TypeInv => TypeOK
  BY DEF TypeInv
<1> QED BY InitTypes, NextTypes, <1>1, PTL DEF Spec
(***************************************************************************)
(* What each step does to its call                                         *)
(***************************************************************************)

\* What the proofs below need of a call's state: every field but at and those named
\* is as it was.
LEMMA Fields ==
  ASSUME NEW r \in CallStates
  PROVE  /\ r.at \in {"idle", "lock", "create", "attach", "remove", "collect", "delete", "refresh"}
         /\ r.found \in ID \cup {NoID} /\ r.old \in ID \cup {NoID}
         /\ r.rows \subseteq ID /\ r.files \in Files /\ r.held \subseteq ID
BY DEF CallStates

LEMMA StartFields ==
  ASSUME TypeInv, NEW c \in Call, Start(c)
  PROVE  /\ OthersStay(c) /\ call[c].at = "idle"
         /\ call'[c].at \in {"lock", "remove", "refresh"}
         /\ call'[c].held = {} /\ call'[c].found = NoID
         /\ UNCHANGED <<row, table, episodeID, seriesCreationMutex, restored, raced, left>>
<1>1. ASSUME NEW r, call' = [call EXCEPT ![c] = r] PROVE OthersStay(c) /\ call'[c] = r
  BY <1>1, Replaced
<1>2. ASSUME NEW f \in File, NEW k \in Key, GetOrCreateEpisodeForEpisodeFile(c, f, k)
      PROVE  OthersStay(c) /\ call'[c] = [Idle EXCEPT !.at = "lock", !.file = f, !.key = k]
  BY <1>2, <1>1 DEF GetOrCreateEpisodeForEpisodeFile
<1>3. ASSUME NEW f \in File, NEW k \in Key, UpdateEpisodeFileMetadata(c, f, k)
      PROVE  /\ OthersStay(c)
             /\ call'[c] = [Idle EXCEPT !.at = "lock", !.file = f, !.key = k, !.old = episodeID[f]]
  BY <1>3, <1>1 DEF UpdateEpisodeFileMetadata
<1>4. ASSUME NEW f \in File, FindEpisodeFile(c, f)
      PROVE  /\ OthersStay(c)
             /\ call'[c] = [Idle EXCEPT !.at = "remove", !.file = f, !.old = episodeID[f]]
  BY <1>4, <1>1 DEF FindEpisodeFile
<1>5. ASSUME NEW i \in ID, RefreshAgentMetadataForUUID(c, i)
      PROVE  /\ OthersStay(c)
             /\ call'[c] = [Idle EXCEPT !.at = "refresh", !.rows = RowsWith(i), !.files = FilesWith(i)]
  BY <1>5, <1>1 DEF RefreshAgentMetadataForUUID
<1>6. /\ call[c].at = "idle"
      /\ UNCHANGED <<row, table, episodeID, seriesCreationMutex, restored, raced, left>>
  BY DEF Start, GetOrCreateEpisodeForEpisodeFile, UpdateEpisodeFileMetadata, FindEpisodeFile,
         RefreshAgentMetadataForUUID, dbVars, historyVars
<1> QED BY <1>2, <1>3, <1>4, <1>5, <1>6 DEF Start, Idle

LEMMA WithFields ==
  ASSUME TypeInv, NEW c \in Call, NEW i \in ID, NEW S \in SUBSET ID, NEW F \in Files,
         With(c, i, S, F)
  PROVE  /\ OthersStay(c)
         /\ call'[c].at = IF call[c].level = "episode" THEN "attach" ELSE "lock"
         /\ call'[c].found = i /\ call'[c].rows = S /\ call'[c].held = call[c].held
<1>1. PICK r \in CallStates : r = call[c]
  BY DEF TypeInv, TypeOK
<1>2. /\ OthersStay(c)
      /\ call'[c] = [r EXCEPT !.at = IF r.level = "episode" THEN "attach" ELSE "lock",
              !.level = NextLevel(r.level), !.found = i, !.rows = S, !.files = F]
  BY <1>1, Replaced DEF With
<1> QED BY <1>1, <1>2 DEF CallStates

LEMMA FoundFields ==
  ASSUME TypeInv, NEW c \in Call, Found(c)
  PROVE  /\ OthersStay(c) /\ call[c].at = "lock"
         /\ call'[c].at \in {"lock", "attach"} /\ call'[c].held = call[c].held
         /\ call'[c].found \in table \cap call'[c].rows
         /\ row[call'[c].found].parent = call[c].found
         /\ UNCHANGED <<row, table, episodeID, seriesCreationMutex, restored, raced, left>>
<1>1. PICK i \in Wanted(c) : With(c, i, RowsWith(i), FilesWith(i))
  BY DEF Found
<1>2. i \in table /\ row[i].parent = call[c].found
  BY DEF Wanted, FindRow
<1>3. i \in ID /\ RowsWith(i) \in SUBSET ID /\ FilesWith(i) \in Files /\ i \in RowsWith(i)
  BY <1>2, LoadTypes DEF TypeInv, TypeOK
<1>4. /\ OthersStay(c)
      /\ call'[c].at = IF call[c].level = "episode" THEN "attach" ELSE "lock"
      /\ call'[c].found = i /\ call'[c].rows = RowsWith(i) /\ call'[c].held = call[c].held
  BY <1>1, <1>3, WithFields
<1>5. call[c].at = "lock"
      /\ UNCHANGED <<row, table, episodeID, seriesCreationMutex, restored, raced, left>>
  BY DEF Found, dbVars, historyVars
<1> QED BY <1>2, <1>3, <1>4, <1>5

LEMMA NotFoundFields ==
  ASSUME TypeInv, NEW c \in Call, NotFound(c)
  PROVE  /\ OthersStay(c) /\ call[c].at = "lock" /\ seriesCreationMutex = None
         /\ call'[c] = [call[c] EXCEPT !.at = "create"] /\ Wanted(c) = {}
         /\ call'[c].at = "create" /\ call'[c].held = call[c].held
         /\ call'[c].found = call[c].found /\ call'[c].rows = call[c].rows
         /\ call'[c].level = call[c].level /\ call'[c].key = call[c].key
         /\ seriesCreationMutex' = c
         /\ UNCHANGED <<row, table, episodeID, restored, raced, left>>
<1>1. PICK r \in CallStates : r = call[c]
  BY DEF TypeInv, TypeOK
<1>2. OthersStay(c) /\ call'[c] = [r EXCEPT !.at = "create"]
  BY <1>1, Replaced DEF NotFound
<1>3. /\ call'[c].at = "create" /\ call'[c].held = r.held /\ call'[c].found = r.found
      /\ call'[c].rows = r.rows /\ call'[c].level = r.level /\ call'[c].key = r.key
  BY <1>1, <1>2 DEF CallStates
<1>4. /\ call[c].at = "lock" /\ seriesCreationMutex = None /\ Wanted(c) = {}
      /\ seriesCreationMutex' = c
      /\ UNCHANGED <<row, table, episodeID, restored, raced, left>>
  BY DEF NotFound, dbVars, historyVars
<1> QED BY <1>1, <1>2, <1>3, <1>4

LEMMA CreateFields ==
  ASSUME TypeInv, NEW c \in Call, NEW i \in ID, Create(c, i)
  PROVE  /\ OthersStay(c) /\ call[c].at = "create"
         /\ call'[c].at \in {"lock", "attach"} /\ call'[c].held = call[c].held
         /\ call'[c].found = i /\ call'[c].rows = call[c].rows \cup {i}
         /\ row[i] = NoRow /\ i \notin table
         /\ row'[i] = [level |-> call[c].level, parent |-> call[c].found,
                       number |-> call[c].key[call[c].level]]
         /\ \A j \in ID \ {i} : row'[j] = row[j]
         /\ Save(call[c].rows \cup {i}, {i}, call[c].files, NoID)
         /\ seriesCreationMutex' = None
         /\ call[c].rows \cup {i} \subseteq ID /\ call[c].files \in Files
<1>1. call[c].rows \cup {i} \in SUBSET ID /\ call[c].files \in Files
  BY Fields DEF TypeInv, TypeOK
<1>2. /\ OthersStay(c)
      /\ call'[c].at = IF call[c].level = "episode" THEN "attach" ELSE "lock"
      /\ call'[c].found = i /\ call'[c].rows = call[c].rows \cup {i}
      /\ call'[c].held = call[c].held
  BY <1>1, WithFields DEF Create
<1>3. /\ call[c].at = "create" /\ row[i] = NoRow
      /\ row' = [row EXCEPT ![i] = [level |-> call[c].level, parent |-> call[c].found,
                                    number |-> call[c].key[call[c].level]]]
      /\ Save(call[c].rows \cup {i}, {i}, call[c].files, NoID)
      /\ seriesCreationMutex' = None
  BY DEF Create
<1> QED BY <1>1, <1>2, <1>3 DEF TypeInv, TypeOK

LEMMA IdleFields ==
  /\ Idle.at = "idle" /\ Idle.held = {} /\ Idle.found = NoID /\ Idle.old = NoID
  /\ \A i : /\ [Idle EXCEPT !.at = "collect", !.old = i].at = "collect"
            /\ [Idle EXCEPT !.at = "collect", !.old = i].old = i
            /\ [Idle EXCEPT !.at = "collect", !.old = i].held = {}
            /\ [Idle EXCEPT !.at = "collect", !.old = i].found = NoID
BY DEF Idle

\* A call that is over, but may still have to collect an episode.
Over(c) ==
  /\ call'[c].at \in {"idle", "collect"} /\ call'[c].held = {}
  /\ call'[c].at = "idle" <=> call[c].old = NoID
  /\ call'[c].at = "collect" => call'[c].old = call[c].old

LEMMA AttachFields ==
  ASSUME TypeInv, NEW c \in Call, Attach(c)
  PROVE  /\ OthersStay(c) /\ call[c].at = "attach" /\ Over(c)
         /\ Save(call[c].rows, {}, [call[c].files EXCEPT ![call[c].file] = call[c].found],
                 call[c].old)
         /\ call[c].rows \subseteq ID
         /\ [call[c].files EXCEPT ![call[c].file] = call[c].found] \in Files
         /\ [call[c].files EXCEPT ![call[c].file] = call[c].found][call[c].file] = call[c].found
         /\ call[c].file \in File /\ call[c].found \in ID
         /\ UNCHANGED <<row, seriesCreationMutex>>
<1>1. /\ OthersStay(c)
      /\ call'[c] = IF call[c].old = NoID THEN Idle
                    ELSE [Idle EXCEPT !.at = "collect", !.old = call[c].old]
  BY Replaced DEF Attach
<1>2. Over(c)
  BY <1>1 DEF Over, Idle
<1>3. /\ call[c].at = "attach" /\ UNCHANGED <<row, seriesCreationMutex>>
      /\ Save(call[c].rows, {}, [call[c].files EXCEPT ![call[c].file] = call[c].found],
              call[c].old)
  BY DEF Attach
<1>4. call[c].file \in File /\ call[c].found \in ID
  BY <1>3 DEF TypeInv, HasCopies
<1>5. call[c].rows \subseteq ID /\ call[c].files \in Files
  BY Fields DEF TypeInv, TypeOK
<1>6. /\ [call[c].files EXCEPT ![call[c].file] = call[c].found] \in Files
      /\ [call[c].files EXCEPT ![call[c].file] = call[c].found][call[c].file] = call[c].found
  BY <1>4, <1>5 DEF Files
<1> QED BY <1>1, <1>2, <1>3, <1>4, <1>5, <1>6

LEMMA RemoveFields ==
  ASSUME TypeInv, NEW c \in Call, DeleteWithStreams(c)
  PROVE  /\ OthersStay(c) /\ call[c].at = "remove" /\ Over(c)
         /\ call[c].file \in File
         /\ episodeID' = [episodeID EXCEPT ![call[c].file] = Deleted]
         /\ raced' = raced \ {call[c].file}
         /\ left' = left \cup ({episodeID[call[c].file]} \cap (ID \ {call[c].old}))
         /\ UNCHANGED <<row, table, seriesCreationMutex, restored>>
<1>1. /\ OthersStay(c)
      /\ call'[c] = IF call[c].old = NoID THEN Idle
                    ELSE [Idle EXCEPT !.at = "collect", !.old = call[c].old]
  BY Replaced DEF DeleteWithStreams
<1>2. Over(c)
  BY <1>1 DEF Over, Idle
<1>3. call[c].at = "remove" /\ call[c].file \in File
  BY DEF DeleteWithStreams, TypeInv, HasCopies
<1> QED BY <1>1, <1>2, <1>3 DEF DeleteWithStreams

LEMMA CollectFields ==
  ASSUME TypeInv, NEW c \in Call, Collect(c)
  PROVE  /\ OthersStay(c) /\ call[c].at = "collect"
         /\ \/ /\ call'[c] = Idle /\ ~(call[c].old \in table /\ IsEmpty(call[c].old))
            \/ /\ call'[c].at = "delete" /\ call'[c].old = call[c].old
               /\ call'[c].held = call[c].held \cup {call[c].old}
               /\ call[c].old \in table /\ IsEmpty(call[c].old) /\ ~Locked(c, call[c].old)
         /\ UNCHANGED <<row, table, episodeID, seriesCreationMutex, restored, raced, left>>
<1>1. PICK r \in CallStates : r = call[c]
  BY DEF TypeInv, TypeOK
<1>2. /\ OthersStay(c)
      /\ call'[c] = IF r.old \in table /\ IsEmpty(r.old)
                    THEN [r EXCEPT !.at = "delete", !.held = r.held \cup {r.old}] ELSE Idle
  BY <1>1, Replaced DEF Collect
<1>3. /\ call[c].at = "collect" /\ ~Locked(c, call[c].old)
      /\ UNCHANGED <<row, table, episodeID, seriesCreationMutex, restored, raced, left>>
  BY DEF Collect, dbVars, historyVars
<1>4. CASE r.old \in table /\ IsEmpty(r.old)
  <2>1. call'[c] = [r EXCEPT !.at = "delete", !.held = r.held \cup {r.old}]
    BY <1>2, <1>4
  <2>2. /\ call'[c].at = "delete" /\ call'[c].old = r.old /\ call'[c].held = r.held \cup {r.old}
    BY <2>1 DEF CallStates
  <2> QED BY <1>1, <1>2, <1>3, <1>4, <2>2
<1>5. CASE ~(r.old \in table /\ IsEmpty(r.old))
  BY <1>1, <1>2, <1>3, <1>5
<1> QED BY <1>4, <1>5

LEMMA DeleteFields ==
  ASSUME TypeInv, NEW c \in Call, Delete(c)
  PROVE  /\ OthersStay(c) /\ call[c].at = "delete" /\ call[c].old \in ID
         /\ \/ call'[c] = Idle /\ row[call[c].old].parent = NoID
            \/ /\ call'[c].at = "collect" /\ call'[c].old = row[call[c].old].parent
               /\ call'[c].held = call[c].held
         /\ table' = table \ {call[c].old} /\ restored' = restored \ {call[c].old}
         /\ raced' = raced \ {call[c].old} /\ left' = left \ {call[c].old}
         /\ UNCHANGED <<row, episodeID, seriesCreationMutex>>
<1>1. PICK r \in CallStates : r = call[c]
  BY DEF TypeInv, TypeOK
<1>2. /\ OthersStay(c)
      /\ call'[c] = IF row[r.old].level = "series" THEN Idle
                    ELSE [r EXCEPT !.at = "collect", !.old = row[r.old].parent]
  BY <1>1, Replaced DEF Delete
<1>3. /\ call[c].at = "delete" /\ call[c].old \in ID
      /\ row[call[c].old].level = "series" => row[call[c].old].parent = NoID
      /\ table' = table \ {call[c].old} /\ restored' = restored \ {call[c].old}
      /\ raced' = raced \ {call[c].old} /\ left' = left \ {call[c].old}
      /\ UNCHANGED <<row, episodeID, seriesCreationMutex>>
  BY DEF Delete, TypeInv, HasCopies, SeriesAreRoots
<1>4. CASE row[r.old].level = "series"
  BY <1>1, <1>2, <1>3, <1>4
<1>5. CASE row[r.old].level # "series"
  <2>1. call'[c] = [r EXCEPT !.at = "collect", !.old = row[r.old].parent]
    BY <1>2, <1>5
  <2>2. call'[c].at = "collect" /\ call'[c].old = row[r.old].parent /\ call'[c].held = r.held
    BY <2>1 DEF CallStates
  <2> QED BY <1>1, <1>2, <1>3, <2>2
<1> QED BY <1>4, <1>5

LEMMA EndFields ==
  ASSUME TypeInv, NEW c \in Call, AgentFails(c) \/ SaveRefreshed(c) \/ RefreshFails(c)
  PROVE  /\ OthersStay(c) /\ call'[c] = Idle
         /\ call[c].at \in {"create", "refresh"}
         /\ UNCHANGED row
         /\ AgentFails(c) \/ RefreshFails(c) => UNCHANGED <<table, episodeID, restored, raced>>
BY Replaced DEF AgentFails, SaveRefreshed, RefreshFails, dbVars, historyVars
(***************************************************************************)
(* Collections                                                             *)
(***************************************************************************)

\* A row to be deleted is there, and its lock is held by one call.
LockInv ==
  /\ \A c, d \in Call : c # d => call[c].held \cap call[d].held = {}
  /\ \A c \in Call : call[c].at = "delete" => call[c].old \in call[c].held \cap table

\* What is saved below a row that is to be deleted raced with that.
OrphanInv ==
  /\ OrphansRaced
  /\ \A i \in ID : Condemned(i) => Children(i) \subseteq raced /\ EpisodeFiles(i) \subseteq raced

CollectInv == TypeInv /\ LockInv /\ OrphanInv

LEMMA InitCollect == Init => CollectInv
BY InitTypes DEF Init, CollectInv, LockInv, OrphanInv, OrphansRaced, Condemned, Idle

\* A call that takes no lock, and deletes nothing now or next.
LEMMA LocksStay ==
  ASSUME LockInv, NEW c \in Call, OthersStay(c), table \subseteq table',
         call'[c].held \subseteq call[c].held, call'[c].at # "delete"
  PROVE  LockInv'
<1>1. \A d \in Call : call'[d].held \subseteq call[d].held
  BY DEF OthersStay
<1>2. ASSUME NEW d \in Call, call'[d].at = "delete" PROVE call'[d].old \in call'[d].held \cap table'
  BY <1>2 DEF LockInv, OthersStay
<1> QED BY <1>1, <1>2 DEF LockInv

LEMMA CondemnedStays ==
  ASSUME NEW c \in Call, OthersStay(c), call'[c].at # "delete", NEW i \in ID, Condemned(i)'
  PROVE  Condemned(i)
BY DEF Condemned, OthersStay

\* Saving says what has lost its parent, or may.
LEMMA SaveOrphans ==
  ASSUME TypeInv, OrphanInv, NEW S \in SUBSET ID, NEW new, NEW F \in Files, NEW old,
         Save(S, new, F, old), \A j \in table : row'[j] = row[j],
         \A i \in ID : Condemned(i)' => Condemned(i)
  PROVE  OrphanInv'
<1> DEFINE unsafe == {i \in ID : i \notin table \cup S \/ Condemned(i)}
           saved == S \cup {f \in File : F[f] # NoID}
<1>1. /\ table' = table \cup S
      /\ episodeID' = [f \in File |-> IF F[f] = NoID THEN episodeID[f] ELSE F[f]]
      /\ raced' = (raced \ saved) \cup {i \in S : row'[i].parent \in unsafe}
                    \cup {f \in File : F[f] \in unsafe}
  BY DEF Save
<1>3. \A i \in ID : i \notin File
  OBVIOUS
<1>2. \A f \in File : f \notin S /\ (F[f] \in ID \/ F[f] = NoID)
  <2>1. \A f \in File : F[f] \in ID \/ F[f] = NoID
    BY DEF Files
  <2>2. \A f \in File : f \notin S
    BY <1>3
  <2> QED BY <2>1, <2>2
<1>4. ASSUME NEW i \in table', row'[i].parent \in ID, row'[i].parent \notin table' \/ Condemned(row'[i].parent)
      PROVE  i \in raced'
  <2>1. CASE i \in S
    BY <1>1, <1>4, <2>1
  <2>2. CASE i \notin S
    <3>1. i \in table /\ i \in ID /\ row'[i] = row[i]
      BY <1>1, <2>2 DEF TypeInv, TypeOK
    <3>2. i \in raced
      BY <1>1, <1>4, <3>1 DEF OrphanInv, OrphansRaced, Children
    <3> QED BY <1>1, <1>3, <2>2, <3>1, <3>2
  <2> QED BY <2>1, <2>2
<1>5. ASSUME NEW f \in File, episodeID'[f] \in ID, episodeID'[f] \notin table' \/ Condemned(episodeID'[f])
      PROVE  f \in raced'
  <2>1. CASE F[f] # NoID
    <3>1. episodeID'[f] = F[f]
      BY <1>1, <2>1
    <3> QED BY <1>1, <1>5, <3>1
  <2>2. CASE F[f] = NoID
    <3>1. episodeID'[f] = episodeID[f]
      BY <1>1, <2>2
    <3>2. f \in raced
      BY <1>1, <1>5, <3>1 DEF OrphanInv, OrphansRaced, EpisodeFiles
    <3> QED BY <1>1, <1>2, <2>2, <3>2
  <2> QED BY <2>1, <2>2
<1>6. OrphansRaced'
  BY <1>4, <1>5 DEF OrphansRaced
<1>7. ASSUME NEW i \in ID, Condemned(i)'
      PROVE  (Children(i) \subseteq raced /\ EpisodeFiles(i) \subseteq raced)'
  BY <1>4, <1>5, <1>7 DEF Children, EpisodeFiles
<1> QED BY <1>6, <1>7 DEF OrphanInv

\* Neither rows nor files change, nor what is to be deleted.
LEMMA OrphansStay ==
  ASSUME OrphanInv, UNCHANGED <<row, table, episodeID, raced>>,
         \A i \in ID : Condemned(i)' => Condemned(i)
  PROVE  OrphanInv'
BY DEF OrphanInv, OrphansRaced, Children, EpisodeFiles

LEMMA NextCollect == CollectInv /\ [Next]_vars => CollectInv'
<1> SUFFICES ASSUME CollectInv, [Next]_vars PROVE CollectInv'
  OBVIOUS
<1>0. TypeInv /\ TypeInv' /\ LockInv /\ OrphanInv
  BY NextTypes DEF CollectInv
<1>1. CASE UNCHANGED vars
  <2>1. LockInv'
    BY <1>0, <1>1 DEF LockInv, vars, dbVars
  <2>2. \A i \in ID : Condemned(i)' => Condemned(i)
    BY <1>1 DEF Condemned, vars
  <2>3. OrphanInv'
    BY <1>0, <1>1, <2>2, OrphansStay DEF vars, dbVars, historyVars
  <2> QED BY <1>0, <2>1, <2>3 DEF CollectInv
  \* q: nothing is written, nor about to be deleted; s: rows and files are saved.
<1>q. ASSUME NEW c \in Call, OthersStay(c), call'[c].held \subseteq call[c].held,
             call'[c].at # "delete", UNCHANGED <<row, table, episodeID, raced>>
      PROVE  CollectInv'
  <2>1. \A i \in ID : Condemned(i)' => Condemned(i)
    BY <1>q, CondemnedStays
  <2> QED BY <1>0, <1>q, <2>1, LocksStay, OrphansStay DEF CollectInv
<1>s. ASSUME NEW c \in Call, OthersStay(c), call'[c].held \subseteq call[c].held,
             call'[c].at # "delete", NEW S \in SUBSET ID, NEW new, NEW F \in Files, NEW old,
             Save(S, new, F, old), \A j \in table : row'[j] = row[j]
      PROVE  CollectInv'
  <2>1. \A i \in ID : Condemned(i)' => Condemned(i)
    BY <1>s, CondemnedStays
  <2>2. table \subseteq table'
    BY <1>s DEF Save
  <2> QED BY <1>0, <1>s, <2>1, <2>2, LocksStay, SaveOrphans DEF CollectInv
<1>2. ASSUME NEW c \in Call, Start(c) PROVE CollectInv'
  BY <1>0, <1>2, <1>q, StartFields
<1>3. ASSUME NEW c \in Call, Lock(c) PROVE CollectInv'
  <2>1. /\ OthersStay(c) /\ call'[c].held \subseteq call[c].held /\ call'[c].at # "delete"
        /\ UNCHANGED <<row, table, episodeID, raced>>
    <3>1. CASE Found(c)
      BY <1>0, <3>1, FoundFields
    <3>2. CASE NotFound(c)
      BY <1>0, <3>2, NotFoundFields
    <3> QED BY <1>3, <3>1, <3>2 DEF Lock
  <2> QED BY <2>1, <1>q
<1>4. ASSUME NEW c \in Call, NEW i \in ID, Create(c, i) PROVE CollectInv'
  <2>1. \A j \in table : row'[j] = row[j]
    BY <1>0, <1>4, CreateFields DEF TypeInv, TypeOK
  <2>2. /\ OthersStay(c) /\ call'[c].held \subseteq call[c].held /\ call'[c].at # "delete"
        /\ call[c].rows \cup {i} \in SUBSET ID /\ call[c].files \in Files
        /\ Save(call[c].rows \cup {i}, {i}, call[c].files, NoID)
    BY <1>0, <1>4, CreateFields
  <2> QED BY <2>1, <2>2, <1>s
<1>5. ASSUME NEW c \in Call, AgentFails(c) \/ RefreshFails(c) PROVE CollectInv'
  <2>1. OthersStay(c) /\ call'[c].held \subseteq call[c].held /\ call'[c].at # "delete"
        /\ UNCHANGED <<row, table, episodeID, raced>>
    BY <1>0, <1>5, EndFields, IdleFields
  <2> QED BY <2>1, <1>q
<1>6. ASSUME NEW c \in Call, SaveRefreshed(c) PROVE CollectInv'
  <2>1. OthersStay(c) /\ call'[c].held \subseteq call[c].held /\ call'[c].at # "delete"
        /\ row' = row
    BY <1>0, <1>6, EndFields, IdleFields
  <2>2. /\ Save(call[c].rows, {}, call[c].files, NoID)
        /\ call[c].rows \in SUBSET ID /\ call[c].files \in Files
    BY <1>0, <1>6, Fields DEF SaveRefreshed, TypeInv, TypeOK
  <2> QED BY <2>1, <2>2, <1>s
<1>7. ASSUME NEW c \in Call, Attach(c) PROVE CollectInv'
  <2> DEFINE F == [call[c].files EXCEPT ![call[c].file] = call[c].found]
  <2>1. /\ OthersStay(c) /\ call'[c].held \subseteq call[c].held /\ call'[c].at # "delete"
        /\ call[c].rows \in SUBSET ID /\ F \in Files
        /\ Save(call[c].rows, {}, F, call[c].old) /\ row' = row
    BY <1>0, <1>7, AttachFields DEF Over
  <2> HIDE DEF F
  <2> QED BY <2>1, <1>s
<1>8. ASSUME NEW c \in Call, DeleteWithStreams(c) PROVE CollectInv'
  <2>1. /\ OthersStay(c) /\ call'[c].held \subseteq call[c].held /\ call'[c].at # "delete"
        /\ episodeID' = [episodeID EXCEPT ![call[c].file] = Deleted]
        /\ raced' = raced \ {call[c].file} /\ UNCHANGED <<row, table>> /\ call[c].file \in File
    BY <1>0, <1>8, RemoveFields DEF Over
  <2>2. \A i \in ID : Condemned(i)' => Condemned(i)
    BY <2>1, CondemnedStays
  <2>3. /\ \A f \in File : episodeID'[f] \in ID => episodeID'[f] = episodeID[f] /\ f # call[c].file
        /\ \A i \in table : i # call[c].file
    BY <1>0, <2>1 DEF TypeInv, TypeOK
  <2>4. OrphansRaced'
    BY <1>0, <2>1, <2>3 DEF OrphanInv, OrphansRaced
  <2>5. ASSUME NEW i \in ID, Condemned(i)'
        PROVE  (Children(i) \subseteq raced /\ EpisodeFiles(i) \subseteq raced)'
    BY <1>0, <2>1, <2>2, <2>3, <2>5 DEF OrphanInv, Children, EpisodeFiles
  <2>6. LockInv'
    BY <1>0, <2>1, LocksStay
  <2> QED BY <1>0, <2>4, <2>5, <2>6 DEF CollectInv, OrphanInv
<1>9. ASSUME NEW c \in Call, Collect(c) PROVE CollectInv'
  <2>1. CASE call'[c] = Idle
    BY <1>0, <1>9, <1>q, <2>1, CollectFields, IdleFields
  <2>2. CASE call'[c] # Idle
    <3> DEFINE old == call[c].old
    <3>1. /\ OthersStay(c) /\ call'[c].at = "delete" /\ call'[c].old = old
          /\ call'[c].held = call[c].held \cup {old}
          /\ old \in table /\ IsEmpty(old) /\ ~Locked(c, old)
          /\ UNCHANGED <<row, table, episodeID, raced>>
      BY <1>0, <1>9, <2>2, CollectFields
    <3>2. \A d \in Call \ {c} : call'[d] = call[d] /\ old \notin call[d].held
      BY <3>1 DEF OthersStay, Locked
    <3>3. LockInv'
      <4>1. \A d \in Call \ {c} : call[d].held \cap call[c].held = {}
        BY <1>0 DEF LockInv
      <4>2. \A d \in Call \ {c} : call'[d].held \cap call'[c].held = {}
        BY <3>1, <3>2, <4>1
      <4>3. \A d, e \in Call : d # e => call'[d].held \cap call'[e].held = {}
        BY <1>0, <3>2, <4>2 DEF LockInv
      <4>4. ASSUME NEW d \in Call, call'[d].at = "delete"
            PROVE  call'[d].old \in call'[d].held \cap table'
        BY <1>0, <3>1, <3>2, <4>4 DEF LockInv
      <4> QED BY <4>3, <4>4 DEF LockInv
    <3>4. ASSUME NEW i \in ID, Condemned(i)'
          PROVE  Condemned(i) \/ i = old
      BY <3>1, <3>2, <3>4 DEF Condemned
    <3>5. OrphansRaced'
      BY <1>0, <3>1 DEF OrphanInv, OrphansRaced
    <3>6. ASSUME NEW i \in ID, Condemned(i)'
          PROVE  (Children(i) \subseteq raced /\ EpisodeFiles(i) \subseteq raced)'
      BY <1>0, <3>1, <3>4, <3>6 DEF OrphanInv, Children, EpisodeFiles, IsEmpty
    <3> QED BY <1>0, <3>3, <3>5, <3>6 DEF CollectInv, OrphanInv
  <2> QED BY <2>1, <2>2
<1>10. ASSUME NEW c \in Call, Delete(c) PROVE CollectInv'
  <2> DEFINE old == call[c].old
  <2>1. /\ OthersStay(c) /\ call[c].at = "delete" /\ old \in ID
        /\ call'[c].held \subseteq call[c].held /\ call'[c].at # "delete"
        /\ table' = table \ {old} /\ raced' = raced \ {old} /\ UNCHANGED <<row, episodeID>>
    BY <1>0, <1>10, DeleteFields, IdleFields
  <2>2. old \in call[c].held /\ Condemned(old)
    BY <1>0, <2>1 DEF LockInv, Condemned
  <2>3. LockInv'
    <3>1. \A d \in Call : call'[d].held \subseteq call[d].held
      BY <2>1 DEF OthersStay
    <3>2. ASSUME NEW d \in Call, call'[d].at = "delete"
          PROVE  call'[d].old \in call'[d].held \cap table'
      <4>1. d # c /\ call'[d] = call[d] /\ call[d].old \in call[d].held \cap table
        BY <1>0, <2>1, <3>2 DEF LockInv, OthersStay
      <4>2. call[d].old # old
        BY <1>0, <2>2, <4>1 DEF LockInv
      <4> QED BY <2>1, <4>1, <4>2
    <3> QED BY <1>0, <3>1, <3>2 DEF LockInv
  <2>4. \A i \in ID : Condemned(i)' => Condemned(i)
    BY <2>1, CondemnedStays
  <2>5. \A f \in File : f # old
    BY <2>1
  <2>6. OrphansRaced'
    BY <1>0, <2>1, <2>2, <2>5 DEF OrphanInv, OrphansRaced, Children, EpisodeFiles
  <2>7. ASSUME NEW i \in ID, Condemned(i)'
        PROVE  (Children(i) \subseteq raced /\ EpisodeFiles(i) \subseteq raced)'
    BY <1>0, <2>1, <2>4, <2>5, <2>7 DEF OrphanInv, Children, EpisodeFiles
  <2> QED BY <1>0, <2>3, <2>6, <2>7 DEF CollectInv, OrphanInv
<1> QED BY <1>1, <1>2, <1>3, <1>4, <1>5, <1>6, <1>7, <1>8, <1>9, <1>10 DEF Next, Continue

\* Orphans are saved while their parent goes, or afterwards
\* (GarbageCollectEpisodeIfRequired, series.go:350).
THEOREM OrphansRacedAlways == Spec => []OrphansRaced
<1>1. CollectInv => OrphansRaced
  BY DEF CollectInv, OrphanInv
<1> QED BY InitCollect, NextCollect, <1>1, PTL DEF Spec

\* A collection deletes a row that is there and that nobody else deletes
\* (GarbageCollectEpisodeIfRequired, series.go:350).
THEOREM DeletesWhatItFoundAlways == Spec => []DeletesWhatItFound
<1>1. CollectInv => DeletesWhatItFound
  BY DEF CollectInv, LockInv, DeletesWhatItFound
<1> QED BY InitCollect, NextCollect, <1>1, PTL DEF Spec
(***************************************************************************)
(* One row per key                                                         *)
(***************************************************************************)

\* Whoever creates a row has the mutex, and all that has appeared since it looked
\* was brought back.
OneRowInv ==
  /\ TypeInv
  /\ \A c \in Call : call[c].at = "create" => seriesCreationMutex = c /\ Wanted(c) \subseteq restored
  /\ OneRowPerKey

LEMMA InitOneRow == Init => OneRowInv
BY InitTypes DEF Init, OneRowInv, OneRowPerKey, Idle

\* The rows are as they were but for some that were brought back, and none of them
\* is said any longer not to have been.
LEMMA OneRowStays ==
  ASSUME OneRowInv, TypeInv', NEW c \in Call, OthersStay(c), call'[c].at # "create",
         row' = row, \A i \in table' : i \in table \/ i \in restored',
         \A i \in table' : i \in restored => i \in restored',
         call[c].at = "create" \/ seriesCreationMutex' = seriesCreationMutex
  PROVE  OneRowInv'
<1>1. OneRowPerKey'
  BY DEF OneRowInv, OneRowPerKey
<1>2. ASSUME NEW d \in Call, call'[d].at = "create"
      PROVE  seriesCreationMutex' = d /\ Wanted(d)' \subseteq restored'
  <2>1. d # c /\ call'[d] = call[d]
    BY <1>2 DEF OthersStay
  <2>2. seriesCreationMutex = d /\ Wanted(d) \subseteq restored
    BY <1>2, <2>1 DEF OneRowInv
  <2>3. call[c].at # "create"
    BY <2>1, <2>2 DEF OneRowInv
  <2>4. \A i \in Wanted(d)' : i \in table' /\ (i \in table => i \in Wanted(d))
    BY <2>1 DEF Wanted, FindRow
  <2> QED BY <2>2, <2>3, <2>4
<1> QED BY <1>1, <1>2 DEF OneRowInv

LEMMA SaveOneRow ==
  ASSUME NEW S, NEW new, NEW F, NEW old, Save(S, new, F, old)
  PROVE  /\ table' = table \cup S /\ restored \subseteq restored'
         /\ \A i \in table' : i \in table \/ i \in new \/ i \in restored'
BY DEF Save

LEMMA NextOneRow == OneRowInv /\ [Next]_vars => OneRowInv'
<1> SUFFICES ASSUME OneRowInv, [Next]_vars PROVE OneRowInv'
  OBVIOUS
<1>0. TypeInv /\ TypeInv'
  BY NextTypes DEF OneRowInv
<1>1. CASE UNCHANGED vars
  BY <1>0, <1>1 DEF OneRowInv, OneRowPerKey, Wanted, FindRow, vars, dbVars, historyVars
<1>2. ASSUME NEW c \in Call, Start(c) PROVE OneRowInv'
  <2>1. /\ OthersStay(c) /\ call'[c].at # "create"
        /\ UNCHANGED <<row, table, restored, seriesCreationMutex>>
    BY <1>0, <1>2, StartFields
  <2> QED BY <1>0, <2>1, OneRowStays
<1>3. ASSUME NEW c \in Call, Found(c) PROVE OneRowInv'
  <2>1. /\ OthersStay(c) /\ call'[c].at # "create"
        /\ UNCHANGED <<row, table, restored, seriesCreationMutex>>
    BY <1>0, <1>3, FoundFields
  <2> QED BY <1>0, <2>1, OneRowStays
<1>4. ASSUME NEW c \in Call, NotFound(c) PROVE OneRowInv'
  <2>1. /\ OthersStay(c) /\ Wanted(c) = {} /\ seriesCreationMutex = None
        /\ call'[c].found = call[c].found /\ call'[c].level = call[c].level
        /\ call'[c].key = call[c].key /\ seriesCreationMutex' = c
        /\ UNCHANGED <<row, table, restored>>
    BY <1>0, <1>4, NotFoundFields
  <2>2. Wanted(c)' = {}
    BY <2>1 DEF Wanted, FindRow
  <2>3. ASSUME NEW d \in Call, call'[d].at = "create" PROVE d = c
    BY <2>1, <2>3 DEF OneRowInv, OthersStay
  <2>4. OneRowPerKey'
    BY <2>1 DEF OneRowInv, OneRowPerKey
  <2> QED BY <1>0, <2>1, <2>2, <2>3, <2>4 DEF OneRowInv
<1>5. ASSUME NEW c \in Call, NEW i \in ID, Create(c, i) PROVE OneRowInv'
  <2>1. /\ OthersStay(c) /\ call[c].at = "create" /\ call'[c].at # "create"
        /\ i \notin table /\ \A j \in ID \ {i} : row'[j] = row[j]
        /\ row'[i] = [level |-> call[c].level, parent |-> call[c].found,
                      number |-> call[c].key[call[c].level]]
        /\ Save(call[c].rows \cup {i}, {i}, call[c].files, NoID)
        /\ call[c].rows \cup {i} \subseteq ID
    BY <1>0, <1>5, CreateFields
  <2>2. /\ table' = table \cup call[c].rows \cup {i} /\ restored \subseteq restored'
        /\ \A j \in table' : j \in table \/ j = i \/ j \in restored'
    BY <2>1, SaveOneRow
  <2>3. seriesCreationMutex = c /\ Wanted(c) \subseteq restored
    BY <2>1 DEF OneRowInv
  <2>4. \A d \in Call : call'[d].at # "create"
    BY <2>1, <2>3 DEF OneRowInv, OthersStay
  <2>5. ASSUME NEW j \in table', j # i, row'[j] = row'[i] PROVE j \in restored'
    <3>1. CASE j \in table
      <4>1. j \in ID
        BY <1>0, <3>1 DEF TypeInv, TypeOK
      <4>2. j \in Wanted(c)
        BY <2>1, <2>5, <3>1, <4>1 DEF Wanted, FindRow
      <4> QED BY <2>2, <2>3, <4>2
    <3> QED BY <2>2, <2>5, <3>1
  <2>6. OneRowPerKey'
    <3> SUFFICES ASSUME NEW j \in table', NEW k \in table', row'[j] = row'[k]
                 PROVE  j = k \/ {j, k} \cap restored' # {}
      BY DEF OneRowPerKey
    <3>1. CASE j = i \/ k = i
      BY <2>5, <3>1
    <3>2. CASE j # i /\ k # i
      <4>1. j \in ID /\ k \in ID
        BY <1>0, <2>1, <2>2 DEF TypeInv, TypeOK
      <4>2. CASE j \in table /\ k \in table
        <5>1. row[j] = row[k]
          BY <2>1, <3>2, <4>1
        <5> QED BY <2>2, <4>2, <5>1 DEF OneRowInv, OneRowPerKey
      <4> QED BY <2>2, <3>2, <4>2
    <3> QED BY <3>1, <3>2
  <2> QED BY <1>0, <2>4, <2>6 DEF OneRowInv
<1>6. ASSUME NEW c \in Call, AgentFails(c) \/ RefreshFails(c) PROVE OneRowInv'
  <2>1. /\ OthersStay(c) /\ call'[c].at # "create" /\ UNCHANGED <<row, table, restored>>
        /\ call[c].at = "create" \/ seriesCreationMutex' = seriesCreationMutex
    BY <1>0, <1>6, EndFields, IdleFields DEF AgentFails, RefreshFails
  <2> QED BY <1>0, <2>1, OneRowStays
  \* s: rows are saved, none of them new.
<1>s. ASSUME NEW c \in Call, OthersStay(c), call'[c].at # "create", NEW S, NEW F, NEW old,
             Save(S, {}, F, old), UNCHANGED <<row, seriesCreationMutex>>
      PROVE  OneRowInv'
  <2>1. restored \subseteq restored' /\ \A i \in table' : i \in table \/ i \in restored'
    BY <1>s, SaveOneRow
  <2> QED BY <1>0, <1>s, <2>1, OneRowStays
<1>7. ASSUME NEW c \in Call, SaveRefreshed(c) PROVE OneRowInv'
  <2>1. /\ OthersStay(c) /\ call'[c].at # "create" /\ Save(call[c].rows, {}, call[c].files, NoID)
        /\ UNCHANGED <<row, seriesCreationMutex>>
    BY <1>0, <1>7, EndFields, IdleFields DEF SaveRefreshed
  <2> QED BY <1>s, <2>1
<1>8. ASSUME NEW c \in Call, Attach(c) PROVE OneRowInv'
  <2> DEFINE F == [call[c].files EXCEPT ![call[c].file] = call[c].found]
  <2>1. /\ OthersStay(c) /\ call'[c].at # "create" /\ Save(call[c].rows, {}, F, call[c].old)
        /\ UNCHANGED <<row, seriesCreationMutex>>
    BY <1>0, <1>8, AttachFields DEF Over
  <2> HIDE DEF F
  <2> QED BY <1>s, <2>1
<1>9. ASSUME NEW c \in Call, DeleteWithStreams(c) PROVE OneRowInv'
  <2>1. /\ OthersStay(c) /\ call'[c].at # "create"
        /\ UNCHANGED <<row, table, restored, seriesCreationMutex>>
    BY <1>0, <1>9, RemoveFields DEF Over
  <2> QED BY <1>0, <2>1, OneRowStays
<1>10. ASSUME NEW c \in Call, Collect(c) PROVE OneRowInv'
  <2>1. /\ OthersStay(c) /\ call'[c].at # "create"
        /\ UNCHANGED <<row, table, restored, seriesCreationMutex>>
    BY <1>0, <1>10, CollectFields, IdleFields
  <2> QED BY <1>0, <2>1, OneRowStays
<1>11. ASSUME NEW c \in Call, Delete(c) PROVE OneRowInv'
  <2>1. /\ OthersStay(c) /\ call'[c].at # "create" /\ UNCHANGED <<row, seriesCreationMutex>>
        /\ table' = table \ {call[c].old} /\ restored' = restored \ {call[c].old}
    BY <1>0, <1>11, DeleteFields, IdleFields
  <2> QED BY <1>0, <2>1, OneRowStays
<1> QED BY <1>1, <1>2, <1>3, <1>4, <1>5, <1>6, <1>7, <1>8, <1>9, <1>10, <1>11
        DEF Next, Lock, Continue

\* However many calls create, collect and refresh, no two rows say the same unless
\* an old copy brought one of them back (getOrCreateSeries, series.go).
THEOREM OneRowPerKeyAlways == Spec => []OneRowPerKey
<1>1. OneRowInv => OneRowPerKey
  BY DEF OneRowInv
<1> QED BY InitOneRow, NextOneRow, <1>1, PTL DEF Spec

(***************************************************************************)
(* Empty rows                                                              *)
(***************************************************************************)

\* Somebody will give the row something, or delete it.
Expecting(c, i) ==
  \/ call[c].at \in {"collect", "delete"} /\ call[c].old = i
  \/ call[c].at \in {"lock", "create", "attach"} /\ call[c].found = i

\* A call has loaded the row it has found.
HasFound(r) == r.at \in {"lock", "create", "attach"} /\ r.found # NoID => r.found \in r.rows

EmptyInv ==
  /\ TypeInv
  /\ \A c \in Call : HasFound(call[c])
  /\ EmptyRowsAreExpected

LEMMA InitEmpty == Init => EmptyInv
BY InitTypes DEF Init, EmptyInv, EmptyRowsAreExpected, HasFound, Idle

\* An empty row is expected if it was expected by another call, or if this call now
\* sees to it.
LEMMA EmptyStays ==
  ASSUME EmptyInv, TypeInv', NEW c \in Call, OthersStay(c), HasFound(call'[c]),
         \A i \in table' : IsEmpty(i)' /\ i \notin left' =>
           \/ Expecting(c, i)'
           \/ i \in table /\ IsEmpty(i) /\ i \notin left /\ ~Expecting(c, i)
  PROVE  EmptyInv'
<1>1. \A d \in Call : HasFound(call'[d])
  BY DEF EmptyInv, OthersStay
<1>2. ASSUME NEW i \in table', IsEmpty(i)', i \notin left'
      PROVE  \E d \in Call : Expecting(d, i)'
  <2>1. CASE Expecting(c, i)'
    BY <2>1
  <2>2. CASE i \in table /\ IsEmpty(i) /\ i \notin left /\ ~Expecting(c, i)
    <3>1. PICK d \in Call : Expecting(d, i)
      BY <2>2 DEF EmptyInv, EmptyRowsAreExpected, Expecting
    <3>2. d # c /\ call'[d] = call[d]
      BY <2>2, <3>1 DEF OthersStay
    <3> QED BY <3>1, <3>2 DEF Expecting
  <2> QED BY <1>2, <2>1, <2>2
<1> QED BY <1>1, <1>2 DEF EmptyInv, EmptyRowsAreExpected, Expecting, HasFound

\* Rows with something below them that is saved are not empty; the others were, or
\* have lost a file.
LEMMA SaveEmpty ==
  ASSUME TypeInv, TypeInv', NEW S \in SUBSET ID, NEW new, NEW F \in Files, NEW old,
         Save(S, new, F, old), \A j \in table : row'[j] = row[j],
         NEW i \in table', IsEmpty(i)', i \notin left'
  PROVE  /\ \A j \in S : row'[j].parent # i
         /\ \A f \in File : F[f] # i
         /\ \/ i \in new
            \/ i = old
            \/ i \in table /\ IsEmpty(i) /\ i \notin left
<1>1. /\ table' = table \cup S /\ i \in ID
      /\ episodeID' = [f \in File |-> IF F[f] = NoID THEN episodeID[f] ELSE F[f]]
  BY DEF Save, TypeInv, TypeOK
<1>2. \A j \in S : row'[j].parent # i
  BY <1>1 DEF IsEmpty, Children
<1>3. \A f \in File : F[f] # i
  BY <1>1 DEF IsEmpty, EpisodeFiles
<1>4. i \notin {row'[j].parent : j \in S} \cup {F[f] : f \in File}
  BY <1>2, <1>3
<1>5. i \notin left \cup ((S \ new) \ table) \cup Unseen(F, old)
  BY <1>4 DEF Save
<1>6. CASE i \in table /\ i # old
  <2>1. Children(i) = {}
    BY <1>1 DEF IsEmpty, Children
  <2>2. ASSUME NEW f \in File, episodeID[f] = i PROVE FALSE
    <3>1. F[f] \in {NoID, i}
      BY <1>1, <1>5, <1>6, <2>2 DEF Unseen
    <3>2. episodeID'[f] = i
      BY <1>1, <2>2, <3>1
    <3> QED BY <3>2 DEF IsEmpty, EpisodeFiles
  <2> QED BY <1>2, <1>3, <1>5, <1>6, <2>1, <2>2 DEF IsEmpty, EpisodeFiles
<1> QED BY <1>1, <1>2, <1>3, <1>5, <1>6

LEMMA NextEmpty == EmptyInv /\ [Next]_vars => EmptyInv'
<1> SUFFICES ASSUME EmptyInv, [Next]_vars PROVE EmptyInv'
  OBVIOUS
<1>0. TypeInv /\ TypeInv' /\ table \subseteq ID
  BY NextTypes DEF EmptyInv, TypeInv, TypeOK
<1>1. CASE UNCHANGED vars
  BY <1>0, <1>1 DEF EmptyInv, EmptyRowsAreExpected, IsEmpty, Children, EpisodeFiles, HasFound,
                    vars, dbVars, historyVars
  \* q: nothing is written.
<1>q. ASSUME UNCHANGED <<row, table, episodeID>>, NEW i
      PROVE  IsEmpty(i)' <=> IsEmpty(i)
  BY <1>q DEF IsEmpty, Children, EpisodeFiles
<1>2. ASSUME NEW c \in Call, Start(c) PROVE EmptyInv'
  <2>1. /\ OthersStay(c) /\ call[c].at = "idle" /\ call'[c].found = NoID
        /\ UNCHANGED <<row, table, episodeID, left>>
    BY <1>0, <1>2, StartFields
  <2>2. HasFound(call'[c]) /\ \A i : ~Expecting(c, i)
    BY <2>1 DEF HasFound, Expecting
  <2> QED BY <1>0, <1>q, <2>1, <2>2, EmptyStays
<1>3. ASSUME NEW c \in Call, Found(c) PROVE EmptyInv'
  <2>1. /\ OthersStay(c) /\ call[c].at = "lock"
        /\ call'[c].found \in table \cap call'[c].rows
        /\ row[call'[c].found].parent = call[c].found
        /\ UNCHANGED <<row, table, episodeID, left>>
    BY <1>0, <1>3, FoundFields
  <2>2. HasFound(call'[c])
    BY <2>1 DEF HasFound
  <2>3. ASSUME NEW i, IsEmpty(i) PROVE ~Expecting(c, i)
    BY <2>1, <2>3 DEF Expecting, IsEmpty, Children
  <2> QED BY <1>0, <1>q, <2>1, <2>2, <2>3, EmptyStays
<1>4. ASSUME NEW c \in Call, NotFound(c) PROVE EmptyInv'
  <2>1. /\ OthersStay(c) /\ call[c].at = "lock" /\ call'[c].at = "create"
        /\ call'[c].found = call[c].found /\ call'[c].rows = call[c].rows
        /\ UNCHANGED <<row, table, episodeID, left>>
    BY <1>0, <1>4, NotFoundFields
  <2>2. HasFound(call'[c])
    BY <2>1 DEF HasFound, EmptyInv
  <2>3. \A i : Expecting(c, i) => Expecting(c, i)'
    BY <2>1 DEF Expecting
  <2> QED BY <1>0, <1>q, <2>1, <2>2, <2>3, EmptyStays
<1>5. ASSUME NEW c \in Call, NEW n \in ID, Create(c, n) PROVE EmptyInv'
  <2> DEFINE S == call[c].rows \cup {n}
  <2>1. /\ OthersStay(c) /\ call[c].at = "create" /\ call'[c].at \in {"lock", "attach"}
        /\ call'[c].found = n /\ n \in call'[c].rows
        /\ n \notin table /\ \A j \in ID \ {n} : row'[j] = row[j]
        /\ row'[n].parent = call[c].found
    <3>1. row'[n] = [level |-> call[c].level, parent |-> call[c].found,
                     number |-> call[c].key[call[c].level]]
      BY <1>0, <1>5, CreateFields
    <3>2. row'[n].parent = call[c].found
      BY <3>1
    <3>3. /\ OthersStay(c) /\ call[c].at = "create" /\ call'[c].at \in {"lock", "attach"}
          /\ call'[c].found = n /\ call'[c].rows = call[c].rows \cup {n}
          /\ n \notin table /\ \A j \in ID \ {n} : row'[j] = row[j]
      BY <1>0, <1>5, CreateFields
    <3> QED BY <3>2, <3>3
  <2>z. PICK none : none = NoID
    OBVIOUS
  <2>n. PICK new : new = {n}
    OBVIOUS
  <2>f. PICK F \in Files : F = call[c].files
    BY <1>0, Fields DEF TypeInv, TypeOK
  <2>s. Save(S, new, F, none) /\ S \in SUBSET ID /\ n \in S
    <3>1. /\ Save(call[c].rows \cup {n}, {n}, call[c].files, NoID)
          /\ call[c].rows \cup {n} \subseteq ID /\ call[c].files \in Files
      BY <1>0, <1>5, CreateFields
    <3> QED BY <2>z, <2>f, <2>n, <3>1
  <2> HIDE DEF S
  <2>2. \A j \in table : row'[j] = row[j]
    BY <1>0, <2>1
  <2>3. ASSUME NEW i \in table', IsEmpty(i)', i \notin left'
        PROVE  \/ Expecting(c, i)'
               \/ i \in table /\ IsEmpty(i) /\ i \notin left /\ ~Expecting(c, i)
    <3>0. \A j \in S : row'[j].parent # i
      BY <2>s, <2>3 DEF IsEmpty, Children, Save
    <3>1. /\ \A f \in File : F[f] # i
          /\ \/ i \in new
             \/ i = none
             \/ i \in table /\ IsEmpty(i) /\ i \notin left
      BY <1>0, <2>s, <2>2, <2>3, SaveEmpty
    <3>2. i \in ID
      BY <1>0, <2>3 DEF TypeInv, TypeOK
    <3>3. ~Expecting(c, i)
      BY <2>s, <2>1, <3>0 DEF Expecting
    <3>4. i = n => Expecting(c, i)'
      BY <2>1 DEF Expecting
    <3> QED BY <2>z, <2>n, <3>1, <3>2, <3>3, <3>4
  <2>4. HasFound(call'[c])
    BY <2>1 DEF HasFound
  <2> QED BY <1>0, <2>1, <2>3, <2>4, EmptyStays
<1>6. ASSUME NEW c \in Call, AgentFails(c) PROVE EmptyInv'
  <2>1. /\ OthersStay(c) /\ call'[c] = Idle /\ call[c].at = "create"
        /\ UNCHANGED <<row, table, episodeID>>
        /\ left' = left \cup {i \in call[c].rows : IsEmpty(i)}
    BY <1>0, <1>6, EndFields DEF AgentFails, dbVars
  <2>2. HasFound(call'[c]) /\ HasFound(call[c])
    BY <2>1, IdleFields DEF HasFound, EmptyInv
  <2>3. ASSUME NEW i \in table, IsEmpty(i), i \notin left' PROVE ~Expecting(c, i)
    BY <1>0, <2>1, <2>2, <2>3 DEF Expecting, HasFound
  <2> QED BY <1>0, <1>q, <2>1, <2>2, <2>3, EmptyStays
<1>7. ASSUME NEW c \in Call, RefreshFails(c) PROVE EmptyInv'
  <2>1. /\ OthersStay(c) /\ call'[c] = Idle /\ call[c].at = "refresh"
        /\ UNCHANGED <<row, table, episodeID, left>>
    BY <1>0, <1>7, EndFields DEF RefreshFails, dbVars, historyVars
  <2>2. HasFound(call'[c]) /\ \A i : ~Expecting(c, i)
    BY <2>1, IdleFields DEF HasFound, Expecting
  <2> QED BY <1>0, <1>q, <2>1, <2>2, EmptyStays
<1>8. ASSUME NEW c \in Call, SaveRefreshed(c) PROVE EmptyInv'
  <2>z. PICK none : none = NoID
    OBVIOUS
  <2>f. PICK F \in Files : F = call[c].files
    BY <1>0, Fields DEF TypeInv, TypeOK
  <2>1. /\ OthersStay(c) /\ call'[c] = Idle /\ call[c].at = "refresh" /\ row' = row
        /\ Save(call[c].rows, {}, F, none) /\ call[c].rows \in SUBSET ID
    BY <2>z, <2>f, <1>0, <1>8, EndFields, Fields DEF SaveRefreshed, TypeInv, TypeOK
  <2>2. HasFound(call'[c]) /\ \A i : ~Expecting(c, i)
    BY <2>1, IdleFields DEF HasFound, Expecting
  <2>3. ASSUME NEW i \in table', IsEmpty(i)', i \notin left'
        PROVE  i \in table /\ IsEmpty(i) /\ i \notin left
    <3>1. /\ \A f \in File : F[f] # i
          /\ \/ i \in {}
             \/ i = none
             \/ i \in table /\ IsEmpty(i) /\ i \notin left
      BY <1>0, <2>1, <2>3, SaveEmpty
    <3>2. i \in ID
      BY <1>0, <2>3 DEF TypeInv, TypeOK
    <3> QED BY <2>z, <3>1, <3>2
  <2> QED BY <1>0, <2>1, <2>2, <2>3, EmptyStays
<1>9. ASSUME NEW c \in Call, Attach(c) PROVE EmptyInv'
  <2> DEFINE F == [call[c].files EXCEPT ![call[c].file] = call[c].found]
  <2>1. /\ OthersStay(c) /\ call[c].at = "attach" /\ Over(c) /\ row' = row
        /\ call[c].rows \in SUBSET ID /\ F \in Files /\ F[call[c].file] = call[c].found
        /\ call[c].file \in File
        /\ Save(call[c].rows, {}, F, call[c].old)
    BY <1>0, <1>9, AttachFields
  <2> HIDE DEF F
  <2>2. HasFound(call'[c])
    BY <2>1 DEF HasFound, Over
  <2>3. ASSUME NEW i \in table', IsEmpty(i)', i \notin left'
        PROVE  \/ Expecting(c, i)'
               \/ i \in table /\ IsEmpty(i) /\ i \notin left /\ ~Expecting(c, i)
    <3>1. /\ \A f \in File : F[f] # i
          /\ \/ i \in {}
             \/ i = call[c].old
             \/ i \in table /\ IsEmpty(i) /\ i \notin left
      BY <1>0, <2>1, <2>3, SaveEmpty
    <3>2. i \in ID
      BY <1>0, <2>3 DEF TypeInv, TypeOK
    <3>3. ~Expecting(c, i)
      BY <2>1, <3>1 DEF Expecting
    <3>4. i = call[c].old => Expecting(c, i)'
      BY <2>1, <3>2 DEF Expecting, Over
    <3> QED BY <3>1, <3>3, <3>4
  <2> QED BY <1>0, <2>1, <2>2, <2>3, EmptyStays
<1>10. ASSUME NEW c \in Call, DeleteWithStreams(c) PROVE EmptyInv'
  <2>1. /\ OthersStay(c) /\ call[c].at = "remove" /\ Over(c)
        /\ episodeID' = [episodeID EXCEPT ![call[c].file] = Deleted]
        /\ left' = left \cup ({episodeID[call[c].file]} \cap (ID \ {call[c].old}))
        /\ UNCHANGED <<row, table>>
    BY <1>0, <1>10, RemoveFields
  <2>2. HasFound(call'[c]) /\ \A i : ~Expecting(c, i)
    BY <2>1 DEF HasFound, Expecting, Over
  <2>3. ASSUME NEW i \in table', IsEmpty(i)', i \notin left'
        PROVE  \/ Expecting(c, i)'
               \/ i \in table /\ IsEmpty(i) /\ i \notin left
    <3>1. i \in ID /\ i \in table /\ i \notin left
      BY <1>0, <2>1, <2>3
    <3>2. CASE episodeID[call[c].file] = i
      <4>1. call[c].old = i
        BY <2>1, <2>3, <3>1, <3>2
      <4> QED BY <2>1, <3>1, <4>1 DEF Over, Expecting
    <3>3. CASE episodeID[call[c].file] # i
      BY <1>0, <2>1, <2>3, <3>1, <3>3 DEF IsEmpty, Children, EpisodeFiles, TypeInv, TypeOK
    <3> QED BY <3>2, <3>3
  <2> QED BY <1>0, <2>1, <2>2, <2>3, EmptyStays
<1>11. ASSUME NEW c \in Call, Collect(c) PROVE EmptyInv'
  <2>1. /\ OthersStay(c) /\ call[c].at = "collect"
        /\ UNCHANGED <<row, table, episodeID, left>>
    BY <1>0, <1>11, CollectFields
  <2>2. CASE call'[c] = Idle /\ ~(call[c].old \in table /\ IsEmpty(call[c].old))
    <3>1. HasFound(call'[c]) /\ \A i \in table : IsEmpty(i) => ~Expecting(c, i)
      BY <2>1, <2>2, IdleFields DEF HasFound, Expecting
    <3> QED BY <1>0, <1>q, <2>1, <3>1, EmptyStays
  <2>3. CASE call'[c].at = "delete" /\ call'[c].old = call[c].old
    <3>1. HasFound(call'[c]) /\ \A i : Expecting(c, i) => Expecting(c, i)'
      BY <2>1, <2>3 DEF HasFound, Expecting
    <3> QED BY <1>0, <1>q, <2>1, <3>1, EmptyStays
  <2> QED BY <1>0, <1>11, <2>2, <2>3, CollectFields
<1>12. ASSUME NEW c \in Call, Delete(c) PROVE EmptyInv'
  <2> DEFINE old == call[c].old
  <2>1. /\ OthersStay(c) /\ call[c].at = "delete" /\ old \in ID
        /\ \/ call'[c].at = "idle" /\ row[old].parent = NoID
           \/ call'[c].at = "collect" /\ call'[c].old = row[old].parent
        /\ table' = table \ {old} /\ left' = left \ {old} /\ UNCHANGED <<row, episodeID>>
    BY <1>0, <1>12, DeleteFields, IdleFields
  <2>2. HasFound(call'[c])
    BY <2>1 DEF HasFound
  <2>3. ASSUME NEW i \in table', IsEmpty(i)', i \notin left'
        PROVE  \/ Expecting(c, i)'
               \/ i \in table /\ IsEmpty(i) /\ i \notin left /\ ~Expecting(c, i)
    <3>1. i \in ID /\ i \in table /\ i # old /\ i \notin left
      BY <1>0, <2>1, <2>3
    <3>2. ~Expecting(c, i)
      BY <2>1, <3>1 DEF Expecting
    <3>3. CASE row[old].parent = i
      BY <2>1, <3>1, <3>3 DEF Expecting
    <3>4. CASE row[old].parent # i
      <4>1. IsEmpty(i)
        BY <2>1, <2>3, <3>4 DEF IsEmpty, Children, EpisodeFiles
      <4> QED BY <3>1, <3>2, <4>1
    <3> QED BY <3>3, <3>4
  <2> QED BY <1>0, <2>1, <2>2, <2>3, EmptyStays
<1> QED BY <1>1, <1>2, <1>3, <1>4, <1>5, <1>6, <1>7, <1>8, <1>9, <1>10, <1>11, <1>12
        DEF Next, Lock, Continue

\* Somebody sees to every empty row, but for those that a failed creation, an old
\* copy or a call with an old file has left behind (series.go:350).
THEOREM EmptyRowsAreExpectedAlways == Spec => []EmptyRowsAreExpected
<1>1. EmptyInv => EmptyRowsAreExpected
  BY DEF EmptyInv
<1> QED BY InitEmpty, NextEmpty, <1>1, PTL DEF Spec
=============================================================================
