---------------------------- MODULE LibraryManager ----------------------------
(***************************************************************************)
(* The manager of one library on a local disk: the loop that follows the   *)
(* file system and the goroutines that wait for growing files              *)
(* (metadata/managers/fsnotify.go), scans, the probe pool and deletion     *)
(* (metadata/managers/library.go, worker_pool.go), and the resolvers that  *)
(* start them (metadata/resolvers/library.go, resolvers.go).  The process  *)
(* may end at any time and start again with the database and the disk.     *)
(*                                                                         *)
(* The library has one subdirectory.  A row is what SaveMovieFile or       *)
(* SaveEpisodeFile stores, named after the probe that stored it.  Which    *)
(* movies and episodes the rows belong to is the metadata manager's.       *)
(***************************************************************************)
EXTENDS Integers, Sequences, FiniteSets

CONSTANTS
  File,        \* paths of media files
  Inside,      \* those of them in the subdirectory
  Root, Dir,   \* the paths of the library and of the subdirectory
  Importer,    \* goroutines that wait for a growing file, and their channels
  Probe,       \* probe jobs
  Refresh,     \* where scans come from: a subset of AllRefreshes
  Deletion,    \* calls of DeleteLibrary
  Copy,        \* copies of a movie, with its files, that somebody works on
  Workers,     \* size of the probe pool: 4
  None,
  MaxChanges   \* how often the disk changes or the process begins anew

\* Each runs at most once at a time: under rescanningLibraries, under WithLock,
\* and when the manager is made.
AllRefreshes == {"RescanLibraries", "RescanLibrary", "StartUp"}

Path == File \cup {Dir}

ASSUME LibraryManagerAssumption ==
  /\ Inside \subseteq File /\ Dir \notin File /\ Root \notin Path
  /\ None \notin Importer
  /\ Importer \subseteq Nat /\ Probe \subseteq Nat
  /\ Refresh \subseteq AllRefreshes
  /\ Workers \in Nat \ {0}
  /\ MaxChanges \in Nat

Walker == Refresh \cup {"watcher"}

\* MinFileSize lies between small and large.
Content == {"absent", "small", "large"}

Event == [op : {"Create", "Write", "Remove"}, path : Path]

VARIABLES
  disk,        \* what each file holds
  dirExists,
  watched,     \* the directories that are watched
  events,      \* file system events, in order
  changes,     \* how often the disk has changed, or the process begun anew
  loop,        \* where the watcher's loop is
  sendTo,      \* whose channel it sends to
  growing,     \* possiblyGrowingFiles
  importer,    \* the goroutines that wait for a growing file
  closed,      \* whose channel is closed
  walk,        \* RecursiveProbe, for each that may be in it
  todo,        \* rows that a loop has yet to look at
  probe,       \* the probe jobs
  poolOpen,
  probeCache,  \* files whose streams ffmpeg/ffprobe.go remembers
  rows,        \* the files in the database, by the probe that stored them
  identified,  \* those that belong to a movie or episode
  libraryRow,  \* is the library in the database?
  refresh,     \* where each scan is
  deletion,    \* where each deletion is, and the rows it has yet to delete
  crashed,     \* a goroutine has panicked
  left,        \* history: rows whose file's removal nobody will act on
  unheeded,    \* history: files of which some change went unnoticed or was taken for another,
               \* or in which a probe found no video
  copies,      \* the files of each copy
  restored     \* history: deleted rows that a scan or a copy stored again

diskVars    == <<disk, dirExists, events, changes>>
loopVars    == <<loop, sendTo>>
growVars    == <<growing, importer, closed>>
poolVars    == <<probe, poolOpen, probeCache>>
dbVars      == <<rows, identified, libraryRow>>
historyVars == <<left, unheeded, restored>>
vars == <<diskVars, watched, loopVars, growVars, walk, todo, poolVars, dbVars,
          refresh, copies, deletion, crashed, historyVars>>

\* A goroutine's node is what it has seen of its file; running and tick are its
\* timer and the channel of the timer.
ImporterStates ==
  [at : {"unborn", "register", "wait", "stat", "done"}, path : File \cup {None},
   node : Content, running : BOOLEAN, tick : BOOLEAN]

ProbeStates ==
  [at : {"none", "queued", "probed", "stored", "done"}, path : File \cup {None}]

\* A walk has paths to visit, and names it has read in a directory.
Directories == {Root, Dir}

WalkStates ==
  [at : {"off", "visit", "watch"}, visit : SUBSET (Path \cup {Root}), names : SUBSET Path]

RefreshStates == [at : {"start", "idle", "missing", "walk", "identify"}, whole : BOOLEAN]

DeletionStates ==
  [at : {"none", "exit", "pool", "find", "files", "done"}, files : SUBSET Probe]

Idle   == [at |-> "unborn", path |-> None, node |-> "absent",
           running |-> FALSE, tick |-> FALSE]
Finished == [Idle EXCEPT !.at = "done"]
NoProbe == [at |-> "none", path |-> None]
NoRefresh == [at |-> "idle", whole |-> TRUE]
NoWalk == [at |-> "off", visit |-> {}, names |-> {}]

\* AddLibraryManager: the manager is new, and goes to refresh the library.
AddLibraryManager ==
  [r \in Refresh |-> IF r = "StartUp" THEN [NoRefresh EXCEPT !.at = "start"] ELSE NoRefresh]

TypeOK ==
  /\ disk \in [File -> Content]
  /\ dirExists \in BOOLEAN /\ watched \subseteq Directories
  /\ events \in Seq(Event)
  /\ changes \in 0 .. MaxChanges
  /\ loop \in {"select", "send", "missing", "walk", "stopped"}
  /\ sendTo \in Importer \cup {None}
  /\ growing \in [File -> Importer \cup {None}]
  /\ importer \in [Importer -> ImporterStates]
  /\ closed \subseteq Importer
  /\ walk \in [Walker -> WalkStates]
  /\ todo \in [Walker -> SUBSET Probe]
  /\ probe \in [Probe -> ProbeStates]
  /\ poolOpen \in BOOLEAN
  /\ probeCache \subseteq File
  /\ rows \subseteq Probe /\ identified \subseteq Probe
  /\ libraryRow \in BOOLEAN
  /\ refresh \in [Refresh -> RefreshStates]
  /\ copies \in [Copy -> SUBSET Probe]
  /\ deletion \in [Deletion -> DeletionStates]
  /\ crashed \in BOOLEAN
  /\ left \subseteq Probe /\ unheeded \subseteq File /\ restored \subseteq Probe

\* The refresh of the new library has ended, and found nothing.
Init ==
  /\ disk = [f \in File |-> "absent"]
  /\ dirExists = FALSE
  /\ watched = {Root}
  /\ events = <<>>
  /\ changes = 0
  /\ loop = "select" /\ sendTo = None
  /\ growing = [f \in File |-> None]
  /\ importer = [g \in Importer |-> Idle]
  /\ closed = {}
  /\ walk = [w \in Walker |-> NoWalk]
  /\ todo = [w \in Walker |-> {}]
  /\ probe = [j \in Probe |-> NoProbe]
  /\ poolOpen = TRUE
  /\ probeCache = {}
  /\ rows = {} /\ identified = {}
  /\ libraryRow = TRUE
  /\ refresh = [r \in Refresh |-> NoRefresh]
  /\ copies = [c \in Copy |-> {}]
  /\ deletion = [d \in Deletion |-> [at |-> "none", files |-> {}]]
  /\ crashed = FALSE
  /\ left = {} /\ unheeded = {} /\ restored = {}

-----------------------------------------------------------------------------
(* The disk and inotify, which reports changes in watched directories. *)

Exists(p) == IF p \in File THEN disk[p] # "absent" ELSE p = Root \/ dirExists

Entries(d) == {p \in (IF d = Dir THEN Inside ELSE Path \ Inside) : Exists(p)}

Observed(p) == loop # "stopped" /\ (IF p \in Inside THEN Dir ELSE Root) \in watched

Report(op, p) ==
  events' = IF Observed(p) THEN Append(events, [op |-> op, path |-> p]) ELSE events

\* The scan at start-up has yet to look at all files.
ToBeScanned == "StartUp" \in Refresh /\ refresh["StartUp"].at \in {"start", "missing"}

\* A walk that has read the names in the subdirectory but does not watch it yet.
Overtakes(f) == f \in Inside /\ \E w \in Walker : walk[w].at = "watch" /\ Dir \in walk[w].visit

Change ==
  /\ ~crashed /\ changes < MaxChanges
  /\ changes' = changes + 1
  /\ UNCHANGED <<watched, loopVars, growVars, walk, todo, poolVars, dbVars,
                 refresh, copies, deletion, crashed, restored>>

\* A file appears: created empty, or moved in, perhaps over another.
CreateFile(f, c) ==
  /\ Change
  /\ f \in Inside => dirExists
  /\ c = "small" => disk[f] = "absent"
  /\ disk' = [disk EXCEPT ![f] = c]
  /\ Report("Create", f)
  /\ unheeded' = IF Overtakes(f) THEN unheeded \cup {f} ELSE unheeded
  /\ UNCHANGED <<dirExists, left>>

WriteFile(f) ==
  /\ Change
  /\ disk[f] # "absent"
  /\ disk' = [disk EXCEPT ![f] = "large"]
  /\ Report("Write", f)
  /\ unheeded' = IF Observed(f) \/ ToBeScanned THEN unheeded ELSE unheeded \cup {f}
  /\ UNCHANGED <<dirExists, left>>

RowsOf(fs) == {j \in rows : probe[j].path \in fs}

DeleteFile(f) ==
  /\ Change
  /\ disk[f] # "absent"
  /\ disk' = [disk EXCEPT ![f] = "absent"]
  /\ Report("Remove", f)
  /\ left' = IF Observed(f) THEN left ELSE left \cup RowsOf({f})
  /\ UNCHANGED <<dirExists, unheeded>>

MakeDir ==
  /\ Change
  /\ ~dirExists
  /\ dirExists' = TRUE
  /\ Report("Create", Dir)
  /\ UNCHANGED <<disk, left, unheeded>>

\* The directory is moved out of the library.
MoveDir ==
  /\ ~crashed /\ changes < MaxChanges
  /\ dirExists
  /\ changes' = changes + 1
  /\ dirExists' = FALSE
  /\ watched' = watched \ {Dir}
  /\ disk' = [f \in File |-> IF f \in Inside THEN "absent" ELSE disk[f]]
  /\ Report("Remove", Dir)
  /\ left' = IF Observed(Dir) THEN left ELSE left \cup RowsOf(Inside)
  /\ UNCHANGED <<loopVars, growVars, walk, todo, poolVars, dbVars,
                 refresh, copies, deletion, crashed, unheeded, restored>>

\* A removal, or a creation, of f that the watcher will get to.
Pending(op, p) == \E i \in DOMAIN events : events[i] = [op |-> op, path |-> p]

RemovalPending(f) ==
  \E i \in DOMAIN events :
    /\ events[i].op = "Remove"
    /\ events[i].path = f \/ (f \in Inside /\ events[i].path = Dir)

CreationPending(f) == Pending("Create", f) \/ (f \in Inside /\ Pending("Create", Dir))

Gone(f) == disk[f] = "absent" /\ ~RemovalPending(f)

-----------------------------------------------------------------------------
(* Probe jobs *)

\* checkAndAddProbeJob
CheckAndAddProbeJob(f) ==
  IF RowsOf({f}) # {}
  THEN UNCHANGED probe
  ELSE \E j \in Probe :
         /\ probe[j].at = "none"
         /\ \A k \in Probe : probe[k].at = "none" => j <= k
         /\ probe' = [probe EXCEPT ![j] = [at |-> "queued", path |-> f]]

Running(j) == probe[j].at \in {"probed", "stored"}

ProbeStep(j, new) ==
  /\ ~crashed
  /\ probe' = [probe EXCEPT ![j] = new]
  /\ UNCHANGED <<diskVars, watched, loopVars, growVars, walk, todo, poolOpen,
                 libraryRow, refresh, copies, deletion, crashed, unheeded, restored>>

\* A worker of the pool takes the job.
Taken(j) ==
  /\ probe[j].at = "queued"
  /\ poolOpen
  /\ Cardinality({k \in Probe : Running(k)}) < Workers

\* ProbeFile asks ffprobe, or its cache.
ProbeFile(j) ==
  LET f == probe[j].path
      readable == Exists(f) \/ f \in probeCache IN
  /\ Taken(j)
  /\ ProbeStep(j, IF readable THEN [at |-> "probed", path |-> f] ELSE NoProbe)
  /\ probeCache' = IF readable THEN probeCache \cup {f} ELSE probeCache
  /\ UNCHANGED <<rows, identified, left>>

\* ffprobe cannot read the file, or finds no video in it: nothing is stored.
ProbeFails(j) ==
  LET f == probe[j].path IN
  /\ ~crashed
  /\ Taken(j)
  /\ Exists(f) /\ f \notin probeCache
  /\ probe' = [probe EXCEPT ![j] = NoProbe]
  /\ unheeded' = unheeded \cup {f}
  /\ UNCHANGED <<diskVars, watched, loopVars, growVars, walk, todo, poolOpen,
                 probeCache, rows, identified, libraryRow, refresh, copies, deletion,
                 crashed, left, restored>>

\* Save inserts a row that is not there.
SaveFile(j) ==
  /\ rows' = rows \cup {j}
  /\ left' = IF Gone(probe[j].path) THEN left \cup {j} ELSE left

StoreFile(j) ==
  /\ probe[j].at = "probed"
  /\ ProbeStep(j, [probe[j] EXCEPT !.at = "stored"])
  /\ SaveFile(j)
  /\ UNCHANGED <<probeCache, identified>>

\* GetOrCreate...For...File stores the file again when it finds a match.
IdentifyFile(j) ==
  /\ probe[j].at = "stored"
  /\ ProbeStep(j, [probe[j] EXCEPT !.at = "done"])
  /\ SaveFile(j)
  /\ identified' = identified \cup {j}
  /\ UNCHANGED probeCache

NoMatch(j) ==
  /\ probe[j].at = "stored"
  /\ ProbeStep(j, [probe[j] EXCEPT !.at = "done"])
  /\ UNCHANGED <<probeCache, rows, identified, left>>

\* Process panics when the pool is closed; checkPanic recovers.
ProcessPanics(j) ==
  /\ probe[j].at = "queued"
  /\ ~poolOpen
  /\ ProbeStep(j, NoProbe)
  /\ UNCHANGED <<probeCache, rows, identified, left>>

-----------------------------------------------------------------------------
(* Goroutines that wait for a growing file *)

\* Mutant: closes what is in the map, even if nothing is.
Forget_Unchecked(f) ==
  /\ growing' = [growing EXCEPT ![f] = None]
  /\ closed' = closed \cup {growing[f]}

\* Mutant: closes the channel and leaves it in the map.
Forget_LeavesEntry(f) ==
  /\ growing' = growing
  /\ closed' = closed \cup ({growing[f]} \ {None})

\* removeFileFromMapWithMutex: whoever is in the map loses its channel.
Forget(f) ==
  /\ growing' = [growing EXCEPT ![f] = None]
  /\ closed' = closed \cup ({growing[f]} \ {None})

\* g gives up the entry of another goroutine.
ForgetsOther(g) == growing[importer[g].path] \notin {g, None}

ImporterStep ==
  /\ ~crashed
  /\ UNCHANGED <<diskVars, watched, loopVars, walk, todo, poolOpen, probeCache,
                 dbVars, refresh, copies, deletion, crashed, left, restored>>

Register(g) ==
  /\ importer[g].at = "register"
  /\ ImporterStep
  /\ importer' = [importer EXCEPT ![g] = [@ EXCEPT !.at = "wait", !.running = TRUE]]
  /\ growing' = [growing EXCEPT ![importer[g].path] = g]
  /\ UNCHANGED <<closed, probe, unheeded>>

\* What follows a receive from updateChannel: Reset leaves a tick in timer.C.
Updated(g) ==
  importer' = [importer EXCEPT ![g] = [@ EXCEPT !.at = "stat", !.running = TRUE]]

\* A closed channel always has something to receive.
ReceiveFromClosed(g) ==
  /\ importer[g].at = "wait"
  /\ g \in closed
  /\ ImporterStep
  /\ Updated(g)
  /\ UNCHANGED <<growing, closed, probe, unheeded>>

\* Mutant: keeps the node of the creation.
StatAgain_KeepsNode(g) ==
  /\ importer[g].at = "stat"
  /\ Exists(importer[g].path)
  /\ ImporterStep
  /\ importer' = [importer EXCEPT ![g].at = "wait"]
  /\ UNCHANGED <<growing, closed, probe, unheeded>>

StatAgain(g) ==
  /\ importer[g].at = "stat"
  /\ Exists(importer[g].path)
  /\ ImporterStep
  /\ importer' = [importer EXCEPT ![g] =
                 [@ EXCEPT !.at = "wait", !.node = disk[importer[g].path]]]
  /\ UNCHANGED <<growing, closed, probe, unheeded>>

StatFails(g) ==
  /\ importer[g].at = "stat"
  /\ ~Exists(importer[g].path)
  /\ ImporterStep
  /\ importer' = [importer EXCEPT ![g] = Finished]
  /\ Forget(importer[g].path)
  /\ unheeded' = IF ForgetsOther(g) THEN unheeded \cup {importer[g].path} ELSE unheeded
  /\ UNCHANGED probe

\* Five seconds have passed since the last Reset.
Tick(g) ==
  /\ importer[g].at \in {"wait", "stat"}
  /\ importer[g].running
  /\ ImporterStep
  /\ importer' = [importer EXCEPT ![g] = [@ EXCEPT !.running = FALSE, !.tick = TRUE]]
  /\ UNCHANGED <<growing, closed, probe, unheeded>>

ValidFile(c) == c = "large"

Settle(g) ==
  /\ importer[g].at = "wait"
  /\ importer[g].tick
  /\ ImporterStep
  /\ importer' = [importer EXCEPT ![g] = Finished]
  /\ Forget(importer[g].path)
  /\ IF ValidFile(importer[g].node)
     THEN CheckAndAddProbeJob(importer[g].path)
     ELSE UNCHANGED probe
  /\ unheeded' = IF ForgetsOther(g) THEN unheeded \cup {importer[g].path} ELSE unheeded

-----------------------------------------------------------------------------
(* RecursiveProbe, by the watcher or a scan *)

WalkStep(w) ==
  /\ ~crashed
  /\ UNCHANGED <<diskVars, loopVars, growVars, todo, poolOpen, probeCache,
                 dbVars, refresh, copies, deletion, historyVars>>

\* Mutant: leaves files to the events of the watcher.
VisitFile_Unprobed(w, f) ==
  /\ walk[w].at = "visit"
  /\ f \in walk[w].visit
  /\ Exists(f)
  /\ WalkStep(w)
  /\ walk' = [walk EXCEPT ![w].visit = @ \ {f}]
  /\ UNCHANGED <<probe, watched, crashed>>

VisitFile(w, f) ==
  /\ walk[w].at = "visit"
  /\ f \in walk[w].visit
  /\ Exists(f)
  /\ WalkStep(w)
  /\ walk' = [walk EXCEPT ![w].visit = @ \ {f}]
  /\ IF ValidFile(disk[f]) THEN CheckAndAddProbeJob(f) ELSE UNCHANGED probe
  /\ UNCHANGED <<watched, crashed>>

\* filepath.Walk reads the names, then calls walkFn for the directory.
ReadDirNames(w, d) ==
  /\ walk[w].at = "visit"
  /\ d \in walk[w].visit
  /\ Exists(d)
  /\ WalkStep(w)
  /\ walk' = [walk EXCEPT ![w].at = "watch", ![w].names = Entries(d)]
  /\ UNCHANGED <<probe, watched, crashed>>

\* The directory that is walked; the root is the first, alone.
Walking(w) == IF Root \in walk[w].visit THEN Root ELSE Dir

\* Mutant: the directory is not done with.
AddWatcher_Revisits(w) ==
  /\ walk[w].at = "watch"
  /\ WalkStep(w)
  /\ watched' = watched \cup {d \in {Walking(w)} : Exists(d)}
  /\ walk' = [walk EXCEPT ![w] = [at |-> "visit", names |-> {},
                                  visit |-> @.visit \cup @.names]]
  /\ UNCHANGED <<probe, crashed>>

AddWatcher(w) ==
  /\ walk[w].at = "watch"
  /\ WalkStep(w)
  /\ watched' = watched \cup {d \in {Walking(w)} : Exists(d)}
  /\ walk' = [walk EXCEPT ![w] = [at |-> "visit", names |-> {},
                                  visit |-> (@.visit \ {Walking(w)}) \cup @.names]]
  /\ UNCHANGED <<probe, crashed>>

\* Lstat fails: walkFn is given a node without a fileInfo and calls its IsDir.
VisitVanished(w, p) ==
  /\ walk[w].at = "visit"
  /\ p \in walk[w].visit
  /\ ~Exists(p)
  /\ WalkStep(w)
  /\ crashed' = TRUE
  /\ UNCHANGED <<walk, probe, watched>>

StartWalk(w, paths) == walk' = [walk EXCEPT ![w] = [NoWalk EXCEPT !.at = "visit", !.visit = paths]]

Walked(w) == walk[w].at = "visit" /\ walk[w].visit = {}

EndWalk(w) == walk' = [walk EXCEPT ![w] = NoWalk]

-----------------------------------------------------------------------------
(* RemoveMissingFiles, by the watcher or a scan *)

\* Mutant: the path itself, without what is below it.
Under_Itself(p) == {p}

Under(p) == IF p = Dir THEN Inside ELSE {p}

RemoveMissingFile(w, j) ==
  /\ ~crashed
  /\ j \in todo[w]
  /\ (w = "watcher" /\ loop = "missing") \/ (w \in Refresh /\ refresh[w].at = "missing")
  /\ todo' = [todo EXCEPT ![w] = @ \ {j}]
  /\ rows' = IF Exists(probe[j].path) THEN rows ELSE rows \ {j}
  /\ left' = left \ {j}
  /\ UNCHANGED <<diskVars, watched, loopVars, growVars, walk, poolVars, identified,
                 libraryRow, refresh, copies, deletion, crashed, unheeded, restored>>

-----------------------------------------------------------------------------
(* startWatcher *)

Watch(op, p) ==
  /\ ~crashed
  /\ loop = "select"
  /\ events # <<>>
  /\ Head(events) = [op |-> op, path |-> p]
  /\ events' = Tail(events)
  /\ UNCHANGED <<disk, dirExists, changes, poolVars, libraryRow, identified,
                 refresh, copies, deletion, restored>>

CreatedVanished(p) ==
  /\ Watch("Create", p)
  /\ ~Exists(p)
  /\ IF p \in File THEN Forget(p) ELSE UNCHANGED <<growing, closed>>
  /\ UNCHANGED <<watched, loopVars, importer, walk, todo, rows, crashed, left, unheeded>>

CreatedDir ==
  /\ Watch("Create", Dir)
  /\ Exists(Dir)
  /\ loop' = "walk"
  /\ StartWalk("watcher", {Dir})
  /\ UNCHANGED <<watched, sendTo, growVars, todo, rows, crashed, left, unheeded>>

DirWalked ==
  /\ ~crashed
  /\ loop = "walk"
  /\ Walked("watcher")
  /\ EndWalk("watcher")
  /\ loop' = "select"
  /\ UNCHANGED <<diskVars, watched, sendTo, growVars, todo, poolVars, dbVars,
                 refresh, copies, deletion, crashed, historyVars>>

CreatedFile(f) ==
  /\ Watch("Create", f)
  /\ Exists(f)
  /\ \E g \in Importer :
       /\ importer[g].at = "unborn"
       /\ \A h \in Importer : importer[h].at = "unborn" => g <= h
       /\ importer' = [importer EXCEPT ![g] =
                      [Idle EXCEPT !.at = "register", !.path = f, !.node = disk[f]]]
  /\ UNCHANGED <<watched, loopVars, growing, closed, walk, todo, rows, crashed,
                 left, unheeded>>

\* A write that nobody waits for, not yet or no longer, is passed over.
Written(f) ==
  /\ Watch("Write", f)
  /\ IF growing[f] = None
     THEN /\ UNCHANGED loopVars
          /\ unheeded' = unheeded \cup {f}
     ELSE /\ loop' = "send"
          /\ sendTo' = growing[f]
          /\ UNCHANGED unheeded
  /\ UNCHANGED <<watched, growVars, walk, todo, rows, crashed, left>>

SendStep ==
  /\ ~crashed
  /\ loop = "send"
  /\ loop' = "select"
  /\ sendTo' = None
  /\ UNCHANGED <<diskVars, watched, growing, closed, walk, todo, poolVars, dbVars,
                 refresh, copies, deletion, historyVars>>

SendUpdate ==
  /\ SendStep
  /\ sendTo \notin closed
  /\ importer[sendTo].at = "wait"
  /\ Updated(sendTo)
  /\ UNCHANGED crashed

SendPanics ==
  /\ SendStep
  /\ sendTo \in closed
  /\ crashed' = TRUE
  /\ UNCHANGED importer

\* Nobody will ever receive.
SendStuck == loop = "send" /\ sendTo \notin closed /\ importer[sendTo].at = "done"

\* FindMovieFileByPath finds one row; there may be others, and the file may be there
\* again, in a directory that was not watched.
RemovedFile(f) ==
  /\ Watch("Remove", f)
  /\ Forget(f)
  /\ \E j \in RowsOf({f}) :
       /\ rows' = rows \ {j}
       /\ left' = left \cup (RowsOf({f}) \ {j})
  /\ unheeded' = IF Exists(f) /\ ~CreationPending(f) THEN unheeded \cup {f} ELSE unheeded
  /\ UNCHANGED <<watched, loopVars, importer, walk, todo, crashed>>

RemovedUnknown(p) ==
  /\ Watch("Remove", p)
  /\ RowsOf({p}) = {}
  /\ watched' = watched \ {p}
  /\ IF p \in File THEN Forget(p) ELSE UNCHANGED <<growing, closed>>
  /\ loop' = "missing"
  /\ todo' = [todo EXCEPT !["watcher"] = RowsOf(Under(p))]
  /\ UNCHANGED <<sendTo, importer, walk, rows, crashed, left, unheeded>>

MissingRemoved ==
  /\ ~crashed
  /\ loop = "missing"
  /\ todo["watcher"] = {}
  /\ loop' = "select"
  /\ UNCHANGED <<diskVars, watched, sendTo, growVars, walk, todo, poolVars, dbVars,
                 refresh, copies, deletion, crashed, historyVars>>

-----------------------------------------------------------------------------
(* RefreshAll, and RescanFilesystem alone *)

RefreshStep(r) ==
  /\ ~crashed
  /\ UNCHANGED <<diskVars, loopVars, growVars, poolVars, rows, identified,
                 copies, deletion, crashed, historyVars>>

\* The one at start-up is no request.
RefreshAll(r) ==
  /\ refresh[r].at = IF r = "StartUp" THEN "start" ELSE "idle"
  /\ RefreshStep(r)
  /\ refresh' = [refresh EXCEPT ![r] = [at |-> "missing", whole |-> TRUE]]
  /\ todo' = [todo EXCEPT ![r] = rows]
  /\ UNCHANGED <<watched, walk, libraryRow>>

\* RescanFilesystem saves the library, then calls RecursiveProbe.
Rescan(r, whole, d) ==
  /\ RefreshStep(r)
  /\ refresh' = [refresh EXCEPT ![r] = [at |-> "walk", whole |-> whole]]
  /\ libraryRow' = TRUE
  /\ StartWalk(r, {d})
  /\ UNCHANGED todo

\* The root is watched before it is walked.
MissingChecked(r) ==
  /\ refresh[r].at = "missing"
  /\ todo[r] = {}
  /\ Rescan(r, TRUE, Root)
  /\ watched' = watched \cup {Root}

\* RescanLibrary with a path; without a node there the library is not healthy.
RescanPath(r, d) ==
  /\ refresh[r].at = "idle"
  /\ r = "RescanLibrary"
  /\ Exists(d)
  /\ Rescan(r, FALSE, d)
  /\ UNCHANGED watched

RescanUnhealthy(r) ==
  /\ refresh[r].at = "idle"
  /\ r = "RescanLibrary"
  /\ ~Exists(Dir)
  /\ RefreshStep(r)
  /\ libraryRow' = TRUE
  /\ UNCHANGED <<watched, refresh, todo, walk>>

\* SaveLibrary; then FindAllUnidentifiedMovieFilesInLibrary.
Rescanned(r) ==
  /\ refresh[r].at = "walk"
  /\ Walked(r)
  /\ RefreshStep(r)
  /\ refresh' = [refresh EXCEPT ![r] =
                 IF refresh[r].whole THEN [at |-> "identify", whole |-> TRUE] ELSE NoRefresh]
  /\ libraryRow' = TRUE
  /\ EndWalk(r)
  /\ UNCHANGED watched
  /\ todo' = [todo EXCEPT ![r] = IF refresh[r].whole THEN rows \ identified ELSE {}]

IdentifyUnidentified(r, j, found) ==
  /\ ~crashed
  /\ refresh[r].at = "identify"
  /\ j \in todo[r]
  /\ todo' = [todo EXCEPT ![r] = @ \ {j}]
  /\ IF found
     THEN /\ SaveFile(j)
          /\ identified' = identified \cup {j}
          /\ restored' = IF j \in rows THEN restored ELSE restored \cup {j}
     ELSE UNCHANGED <<rows, left, identified, restored>>
  /\ UNCHANGED <<diskVars, watched, loopVars, growVars, walk, poolVars, libraryRow,
                 refresh, copies, deletion, crashed, unheeded>>

Refreshed(r) ==
  /\ refresh[r].at = "identify"
  /\ todo[r] = {}
  /\ RefreshStep(r)
  /\ refresh' = [refresh EXCEPT ![r] = NoRefresh]
  /\ UNCHANGED <<watched, walk, todo, libraryRow>>

-----------------------------------------------------------------------------
(* A movie is loaded and saved with its files: when another file of it is  *)
(* identified, or its metadata refreshed.                                  *)

CopyStep ==
  /\ ~crashed
  /\ UNCHANGED <<diskVars, watched, loopVars, growVars, walk, todo, poolVars,
                 identified, libraryRow, refresh, deletion, crashed, unheeded>>

CollectMovieInfo(c, files) ==
  /\ copies[c] = {}
  /\ CopyStep
  /\ copies' = [copies EXCEPT ![c] = files]
  /\ UNCHANGED <<rows, left, restored>>

\* A refresh saves the movie twice.
SaveMovie(c, again) ==
  /\ CopyStep
  /\ rows' = rows \cup copies[c]
  /\ left' = left \cup {j \in copies[c] : Gone(probe[j].path)}
  /\ restored' = restored \cup (copies[c] \ rows)
  /\ copies' = IF again THEN copies ELSE [copies EXCEPT ![c] = {}]

-----------------------------------------------------------------------------
(* DeleteLibrary: Shutdown, then the files and the library. *)

DeletionStep ==
  /\ ~crashed
  /\ UNCHANGED <<diskVars, watched, sendTo, growVars, walk, todo, probe, probeCache,
                 identified, refresh, copies, crashed, historyVars>>

Delete(d) ==
  /\ deletion[d].at = "none"
  /\ DeletionStep
  /\ deletion' = [deletion EXCEPT ![d].at = "exit"]
  /\ UNCHANGED <<loop, poolOpen, rows, libraryRow>>

\* exitChan is unbuffered.
StopWatcher(d) ==
  /\ deletion[d].at = "exit"
  /\ loop = "select"
  /\ DeletionStep
  /\ deletion' = [deletion EXCEPT ![d].at = "pool"]
  /\ loop' = "stopped"
  /\ UNCHANGED <<poolOpen, rows, libraryRow>>

\* Mutant: closes the pool without waiting.
ClosePool_AtOnce(d) ==
  /\ deletion[d].at = "pool"
  /\ DeletionStep
  /\ deletion' = [deletion EXCEPT ![d].at = "find"]
  /\ poolOpen' = FALSE
  /\ UNCHANGED <<loop, rows, libraryRow>>

\* Close waits for the workers.
ClosePool(d) ==
  /\ deletion[d].at = "pool"
  /\ \A j \in Probe : ~Running(j)
  /\ DeletionStep
  /\ deletion' = [deletion EXCEPT ![d].at = "find"]
  /\ poolOpen' = FALSE
  /\ UNCHANGED <<loop, rows, libraryRow>>

FindFiles(d) ==
  /\ deletion[d].at = "find"
  /\ DeletionStep
  /\ deletion' = [deletion EXCEPT ![d] = [at |-> "files", files |-> rows]]
  /\ UNCHANGED <<loop, poolOpen, rows, libraryRow>>

DeleteWithStreams(d, j) ==
  /\ deletion[d].at = "files"
  /\ j \in deletion[d].files
  /\ DeletionStep
  /\ deletion' = [deletion EXCEPT ![d].files = @ \ {j}]
  /\ rows' = rows \ {j}
  /\ UNCHANGED <<loop, poolOpen, libraryRow>>

DeleteLibraryByID(d) ==
  /\ deletion[d].at = "files"
  /\ deletion[d].files = {}
  /\ DeletionStep
  /\ deletion' = [deletion EXCEPT ![d].at = "done"]
  /\ libraryRow' = FALSE
  /\ UNCHANGED <<loop, poolOpen, rows>>

-----------------------------------------------------------------------------
(* The process ends, by a panic or otherwise, and begins anew.             *)

\* NewResolver makes a manager for every library in the database.  All rows are
\* left until its scan has looked at them; of the probes only what they stored is.
Restart ==
  /\ "StartUp" \in Refresh
  /\ libraryRow
  /\ changes < MaxChanges
  /\ changes' = changes + 1
  /\ watched' = {} /\ events' = <<>>
  /\ loop' = "select" /\ sendTo' = None
  /\ growing' = [f \in File |-> None]
  /\ importer' = [g \in Importer |-> Idle]
  /\ closed' = {}
  /\ walk' = [w \in Walker |-> NoWalk]
  /\ todo' = [w \in Walker |-> {}]
  /\ probe' = [j \in Probe |-> IF j \in rows THEN [probe[j] EXCEPT !.at = "done"]
                                             ELSE NoProbe]
  /\ poolOpen' = TRUE
  /\ probeCache' = {}
  /\ refresh' = AddLibraryManager
  /\ copies' = [c \in Copy |-> {}]
  /\ deletion' = [d \in Deletion |-> [at |-> "none", files |-> {}]]
  /\ crashed' = FALSE
  /\ left' = rows /\ unheeded' = {} /\ restored' = {}
  /\ UNCHANGED <<disk, dirExists, dbVars>>

-----------------------------------------------------------------------------
ChangeDisk ==
  \/ \E f \in File : (\E c \in {"small", "large"} : CreateFile(f, c)) \/ WriteFile(f) \/ DeleteFile(f)
  \/ MakeDir \/ MoveDir

ProbePool(j) ==
  \/ ProbeFile(j) \/ ProbeFails(j) \/ StoreFile(j) \/ IdentifyFile(j) \/ NoMatch(j)
  \/ ProcessPanics(j)

AwaitFile(g) ==
  Register(g) \/ StatAgain(g) \/ StatFails(g) \/ Settle(g)

RecursiveProbe(w) ==
  \/ \E f \in File : VisitFile(w, f)
  \/ \E d \in Directories : ReadDirNames(w, d)
  \/ AddWatcher(w)
  \/ \E p \in Path : VisitVanished(w, p)

RemoveMissingFiles(w) == \E j \in Probe : RemoveMissingFile(w, j)

StartWatcher ==
  \/ \E p \in Path : CreatedVanished(p) \/ RemovedUnknown(p)
  \/ CreatedDir \/ DirWalked \/ MissingRemoved \/ SendUpdate \/ SendPanics
  \/ \E f \in File : CreatedFile(f) \/ Written(f) \/ RemovedFile(f)

StartRefresh(r) ==
  \/ RefreshAll(r) \/ RescanUnhealthy(r)
  \/ \E d \in Directories : RescanPath(r, d)

ContinueRefresh(r) ==
  \/ MissingChecked(r) \/ Rescanned(r) \/ Refreshed(r)
  \/ \E j \in Probe, found \in BOOLEAN : IdentifyUnidentified(r, j, found)

ContinueDeletion(d) ==
  \/ StopWatcher(d) \/ ClosePool(d) \/ FindFiles(d) \/ DeleteLibraryByID(d)
  \/ \E j \in Probe : DeleteWithStreams(d, j)

WorkOnMovie(c) ==
  \/ \E files \in SUBSET (rows \cap identified) : CollectMovieInfo(c, files)
  \/ \E again \in BOOLEAN : SaveMovie(c, again)

Next ==
  \/ ChangeDisk
  \/ StartWatcher
  \/ \E g \in Importer : AwaitFile(g) \/ ReceiveFromClosed(g) \/ Tick(g)
  \/ \E j \in Probe : ProbePool(j)
  \/ \E w \in Walker : RecursiveProbe(w) \/ RemoveMissingFiles(w)
  \/ \E r \in Refresh : StartRefresh(r) \/ ContinueRefresh(r)
  \/ \E c \in Copy : WorkOnMovie(c)
  \/ \E d \in Deletion : Delete(d) \/ ContinueDeletion(d)
  \/ Restart

Spec == Init /\ [][Next]_vars

\* Five seconds pass in which nothing is received, which a closed channel does
\* not let happen; a select that can take two branches takes each at times.
\* Nobody has to change the disk, ask for a scan or a deletion, or work on a movie.
TimerFires(g) == g \notin closed /\ Tick(g)
StartUp == "StartUp" \in Refresh /\ RefreshAll("StartUp")

FairSpec ==
  /\ Spec
  /\ WF_vars(StartWatcher)
  /\ \A g \in Importer : /\ WF_vars(AwaitFile(g)) /\ WF_vars(ReceiveFromClosed(g))
                         /\ WF_vars(TimerFires(g)) /\ SF_vars(Settle(g))
  /\ \A j \in Probe : WF_vars(ProbePool(j))
  /\ \A w \in Walker : WF_vars(RecursiveProbe(w)) /\ WF_vars(RemoveMissingFiles(w))
  /\ WF_vars(StartUp)
  /\ \A r \in Refresh : WF_vars(ContinueRefresh(r))
  /\ \A d \in Deletion : SF_vars(StopWatcher(d)) /\ WF_vars(ContinueDeletion(d))

-----------------------------------------------------------------------------
(* Properties *)

\* The goroutine a write event is looked up for is one that waits for that
\* file, with a channel that is open: closing and forgetting go together
\* (removeFileFromMapWithMutex), whoever does it.
RegisteredIsWaiting ==
  \A f \in File : growing[f] # None =>
    /\ growing[f] \notin closed
    /\ importer[growing[f]].path = f
    /\ importer[growing[f]].at \in {"wait", "stat"}

\* A file in the database is on the disk, or the watcher will hear that it is
\* not.  The exceptions are rows stored after the removal was handled (by a
\* probe, a scan or with their movie), second rows of one path, removals in a
\* directory that was not watched, and after a restart the rows that the scan has
\* yet to look at.
RowsFollowDisk ==
  \A j \in rows :
    Gone(probe[j].path) => j \in left \cup todo["watcher"] \/ loop = "stopped" \/ crashed

\* Deletion closes the pool before it looks for files, so that no probe stores
\* a file of a deleted library; only a scan that is under way can, or a movie
\* that was loaded before.
DeletedFilesStayDeleted ==
  \A d \in Deletion : deletion[d].at = "done" => rows \subseteq restored

\* w has yet to visit p, or to read its names.
Awaits(w, p) ==
  \/ p \in walk[w].names
  \/ p \in walk[w].visit /\ ~(walk[w].at = "watch" /\ p = Walking(w))

WillBeVisited(f) ==
  \E w \in Walker : Awaits(w, f) \/ Awaits(w, Root) \/ (f \in Inside /\ Awaits(w, Dir))

\* A write to f is about to be told to its goroutine.
BeingSent(f) == loop = "send" /\ importer[sendTo].path = f

\* A goroutine waits for f that has seen it valid, or is about to look at it.
HasImporter(f) ==
  \E g \in Importer :
    /\ importer[g].path = f
    /\ \/ importer[g].at = "stat"
       \/ importer[g].at \in {"register", "wait"} /\ ValidFile(importer[g].node)

HasProbe(f) == \E j \in Probe : probe[j].path = f /\ probe[j].at \in {"queued", "probed"}

\* Somebody will look at f as it is now, or probe it.
Expected(f) ==
  \/ ToBeScanned \/ WillBeVisited(f)
  \/ CreationPending(f) \/ Pending("Write", f)
  \/ BeingSent(f) \/ HasImporter(f) \/ HasProbe(f)

\* The watcher has been stopped, panics, or sends to a goroutine that has ended.
WatcherEnds == crashed \/ loop = "stopped" \/ (loop = "send" /\ importer[sendTo].at = "done")

\* A valid file that is not in the database is in somebody's hands at every moment,
\* as it passes from events to goroutines or scans and to probes, unless one of its
\* changes went unheeded, a probe of it failed or the watcher ends (fsnotify.go:47-104).
SettledFilesAreExpected ==
  \A f \in File : ValidFile(disk[f]) =>
    RowsOf({f}) # {} \/ Expected(f) \/ f \in unheeded \/ WatcherEnds

\* A valid file that stays where it is gets into the database, through whatever
\* events, goroutines and scans, unless one of its changes went unheeded, a probe of it
\* failed, or the watcher has ended or waits for nobody (fsnotify.go:47-104).
SettledFilesAreImported ==
  \A f \in File :
    <>[](disk[f] = "large") =>
      []<>(RowsOf({f}) # {} \/ f \in unheeded \/ loop = "stopped" \/ SendStuck \/ crashed)

\* A deletion returns, unless the watcher waits for nobody, has ended for
\* another deletion, or the process has ended, anew or not (library.go:71-76).
DeletionsReturn ==
  \A d \in Deletion :
    deletion[d].at = "exit" ~>
      \/ deletion[d].at \in {"done", "none"} \/ SendStuck \/ crashed
      \/ \E e \in Deletion \ {d} : deletion[e].at \notin {"none", "exit"}

\* fsnotify.go:91: without write events for five seconds the file is taken to be
\* complete and the goroutine ends.
ImportersFinish ==
  \A g \in Importer : importer[g].at = "wait" ~> (importer[g].at = "done" \/ crashed)

\* library.go:78: DeleteLibrary deletes the library and all associated files;
\* the manager must be discarded then.
DeletedLibraryStaysDeleted ==
  \A d \in Deletion : deletion[d].at = "done" => ~libraryRow

=============================================================================
