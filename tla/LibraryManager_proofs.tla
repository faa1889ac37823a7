------------------------- MODULE LibraryManager_proofs -------------------------
(***************************************************************************)
(* What holds of the library manager for any files, goroutines, probes,    *)
(* scans and deletions: types, that write events find a goroutine that     *)
(* waits for them, that the database follows the disk, that deletion       *)
(* leaves nothing behind, and that a valid file without a row is always    *)
(* somebody's to find.                                                     *)
(***************************************************************************)
EXTENDS LibraryManager, TLAPS

USE LibraryManagerAssumption

(***************************************************************************)
(* Types                                                                   *)
(***************************************************************************)

\* What is under way has a path, and the watcher sends to somebody.
HasPath ==
  /\ \A g \in Importer : importer[g].at \in {"register", "wait", "stat"} =>
                           importer[g].path \in File
  /\ \A j \in Probe : probe[j].at # "none" => probe[j].path \in File
  /\ loop = "send" => sendTo \in Importer

TypeInv == TypeOK /\ HasPath

LEMMA InitTypes == Init => TypeInv
<1> SUFFICES ASSUME Init PROVE TypeInv
  OBVIOUS
<1> USE DEF Init
<1>1. /\ disk \in [File -> Content]
      /\ dirExists \in BOOLEAN /\ watched \subseteq Directories /\ crashed \in BOOLEAN
      /\ poolOpen \in BOOLEAN /\ libraryRow \in BOOLEAN
  BY DEF Content, Directories
<1>9. changes \in 0 .. MaxChanges
  OBVIOUS
<1>8. events \in Seq(Event)
  OBVIOUS
<1>2. /\ loop \in {"select", "send", "missing", "walk", "stopped"}
      /\ sendTo \in Importer \cup {None}
      /\ growing \in [File -> Importer \cup {None}]
      /\ closed \subseteq Importer
  OBVIOUS
<1>3. importer \in [Importer -> ImporterStates]
  BY DEF Idle, Content, ImporterStates
<1>4. walk \in [Walker -> WalkStates]
  BY DEF NoWalk, WalkStates
<1>5. /\ todo \in [Walker -> SUBSET Probe]
      /\ probe \in [Probe -> ProbeStates]
      /\ probeCache \subseteq File
      /\ rows \subseteq Probe /\ identified \subseteq Probe
      /\ left \subseteq Probe /\ unheeded \subseteq File /\ restored \subseteq Probe
  BY DEF NoProbe, ProbeStates
<1>6. /\ refresh \in [Refresh -> RefreshStates]
      /\ deletion \in [Deletion -> DeletionStates]
      /\ copies \in [Copy -> SUBSET Probe]
  BY DEF NoRefresh, RefreshStates, DeletionStates
<1>7. HasPath
  BY DEF HasPath, Idle, NoProbe
<1> QED BY <1>1, <1>2, <1>3, <1>4, <1>5, <1>6, <1>7, <1>8, <1>9 DEF TypeInv, TypeOK

LEMMA ReportType ==
  ASSUME TypeInv, NEW op \in {"Create", "Write", "Remove"}, NEW p \in Path, Report(op, p)
  PROVE  events' \in Seq(Event)
<1>1. [op |-> op, path |-> p] \in Event
  BY DEF Event
<1> QED BY <1>1 DEF Report, TypeInv, TypeOK

LEMMA ChangeTypes ==
  ASSUME TypeInv, ChangeDisk
  PROVE  TypeInv'
<1> USE DEF TypeInv, TypeOK, HasPath, Change, loopVars, growVars, poolVars, dbVars, historyVars, Content
<1>0. changes < MaxChanges => changes + 1 \in 0 .. MaxChanges
  OBVIOUS
<1>1. ASSUME NEW f \in File, NEW c \in {"small", "large"}, CreateFile(f, c) PROVE TypeInv'
  <2>1. events' \in Seq(Event)
    BY <1>1, ReportType DEF CreateFile, Path
  <2> QED BY <1>0, <1>1, <2>1 DEF CreateFile
<1>2. ASSUME NEW f \in File, WriteFile(f) PROVE TypeInv'
  <2>1. events' \in Seq(Event)
    BY <1>2, ReportType DEF WriteFile, Path
  <2> QED BY <1>0, <1>2, <2>1 DEF WriteFile
<1>3. ASSUME NEW f \in File, DeleteFile(f) PROVE TypeInv'
  <2>1. events' \in Seq(Event)
    BY <1>3, ReportType DEF DeleteFile, Path
  <2> QED BY <1>0, <1>3, <2>1 DEF DeleteFile, RowsOf
<1>4. CASE MakeDir
  <2>1. events' \in Seq(Event)
    BY <1>4, ReportType DEF MakeDir, Path
  <2> QED BY <1>0, <1>4, <2>1 DEF MakeDir
<1>5. CASE MoveDir
  <2>1. events' \in Seq(Event)
    BY <1>5, ReportType DEF MoveDir, Path
  <2> QED BY <1>0, <1>5, <2>1 DEF MoveDir, RowsOf
<1> QED BY <1>1, <1>2, <1>3, <1>4, <1>5 DEF ChangeDisk

LEMMA AddProbeType ==
  ASSUME TypeInv, NEW f \in File, CheckAndAddProbeJob(f)
  PROVE  /\ probe' \in [Probe -> ProbeStates]
         /\ \A j \in Probe : probe'[j].at # "none" => probe'[j].path \in File
<1>1. CASE UNCHANGED probe
  BY <1>1 DEF TypeInv, TypeOK, HasPath
<1>2. CASE \E j \in Probe : probe' = [probe EXCEPT ![j] = [at |-> "queued", path |-> f]]
  BY <1>2 DEF TypeInv, TypeOK, HasPath, ProbeStates
<1> QED BY <1>1, <1>2 DEF CheckAndAddProbeJob

LEMMA ProbeTypes ==
  ASSUME TypeInv, NEW j \in Probe, ProbePool(j)
  PROVE  TypeInv'
<1> USE DEF TypeInv, TypeOK, HasPath, ProbeStep, diskVars, loopVars, growVars, ProbeStates
<1>0. ASSUME NEW new \in [at : {"queued", "probed", "stored", "done"}, path : File] \cup {NoProbe},
             ProbeStep(j, new)
      PROVE  /\ probe' \in [Probe -> ProbeStates]
             /\ HasPath'
  <2>1. \A k \in Probe : probe'[k] = IF k = j THEN new ELSE probe[k]
    BY <1>0
  <2> QED BY <1>0, <2>1 DEF NoProbe
<1>1. CASE ProbeFile(j)
  <2> DEFINE f == probe[j].path
             readable == Exists(f) \/ f \in probeCache
             new == IF readable THEN [at |-> "probed", path |-> f] ELSE NoProbe
  <2>1. f \in File
    BY <1>1 DEF ProbeFile, Taken
  <2>2. /\ ProbeStep(j, new)
        /\ probeCache' = IF readable THEN probeCache \cup {f} ELSE probeCache
        /\ UNCHANGED <<rows, identified, left>>
    BY <1>1 DEF ProbeFile
  <2>3. new \in [at : {"queued", "probed", "stored", "done"}, path : File] \cup {NoProbe}
    BY <2>1
  <2>4. probeCache' \subseteq File
    BY <2>1, <2>2
  <2> HIDE DEF new, readable
  <2>5. probe' \in [Probe -> ProbeStates] /\ HasPath'
    BY <1>0, <2>2, <2>3
  <2> QED BY <2>2, <2>4, <2>5
<1>2. CASE StoreFile(j) \/ IdentifyFile(j) \/ NoMatch(j)
  <2>1. probe[j].path \in File /\ probe[j] \in ProbeStates
    BY <1>2 DEF StoreFile, IdentifyFile, NoMatch
  <2> PICK to \in {"stored", "done"} : ProbeStep(j, [probe[j] EXCEPT !.at = to])
    BY <1>2 DEF StoreFile, IdentifyFile, NoMatch
  <2> DEFINE new == [probe[j] EXCEPT !.at = to]
  <2>2. new \in [at : {"queued", "probed", "stored", "done"}, path : File] \cup {NoProbe}
    BY <2>1
  <2> HIDE DEF new
  <2>3. /\ probeCache' = probeCache
        /\ rows' \subseteq Probe /\ identified' \subseteq Probe /\ left' \subseteq Probe
    BY <1>2 DEF StoreFile, IdentifyFile, NoMatch, SaveFile
  <2>4. probe' \in [Probe -> ProbeStates] /\ HasPath'
    BY <1>0, <2>2 DEF new
  <2>5. ProbeStep(j, new)
    BY DEF new
  <2> QED BY <2>3, <2>4, <2>5
<1>3. CASE ProcessPanics(j)
  BY <1>0, <1>3 DEF ProcessPanics
<1>4. CASE ProbeFails(j)
  <2>1. /\ probe[j].path \in File
        /\ \A k \in Probe : probe'[k] = IF k = j THEN NoProbe ELSE probe[k]
    BY <1>4 DEF ProbeFails, Taken
  <2>2. probe' \in [Probe -> ProbeStates] /\ HasPath'
    BY <1>4, <2>1 DEF ProbeFails, NoProbe
  <2> QED BY <1>4, <2>1, <2>2 DEF ProbeFails
<1> QED BY <1>1, <1>2, <1>3, <1>4 DEF ProbePool

\* The steps of a goroutine change its own record.
LEMMA ImporterUpdate ==
  ASSUME TypeInv, NEW g \in Importer, NEW new \in ImporterStates,
         new.path \in File, importer' = [importer EXCEPT ![g] = new]
  PROVE  /\ importer' \in [Importer -> ImporterStates]
         /\ \A h \in Importer : importer'[h].at \in {"register", "wait", "stat"} =>
                                 importer'[h].path \in File
  BY DEF TypeInv, TypeOK, HasPath

LEMMA FinishedType ==
  ASSUME TypeInv, NEW g \in Importer, importer' = [importer EXCEPT ![g] = Finished]
  PROVE  /\ importer' \in [Importer -> ImporterStates]
         /\ \A h \in Importer : importer'[h].at \in {"register", "wait", "stat"} =>
                                 importer'[h].path \in File
  BY DEF TypeInv, TypeOK, HasPath, ImporterStates, Finished, Idle, Content

LEMMA ForgetType ==
  ASSUME TypeInv, NEW f \in File, Forget(f)
  PROVE  growing' \in [File -> Importer \cup {None}] /\ closed' \subseteq Importer
  BY DEF TypeInv, TypeOK, Forget

LEMMA ImporterTypes ==
  ASSUME TypeInv, NEW g \in Importer, AwaitFile(g) \/ ReceiveFromClosed(g) \/ Tick(g)
  PROVE  TypeInv'
<1> USE DEF ImporterStep, diskVars, loopVars, dbVars
<1>0. importer[g].path \in File /\ importer[g] \in ImporterStates
  BY DEF AwaitFile, Register, ReceiveFromClosed, StatAgain, StatFails, Settle, Tick,
         TypeInv, TypeOK, HasPath
<1> DEFINE Ok == /\ importer' \in [Importer -> ImporterStates]
                 /\ \A h \in Importer : importer'[h].at \in {"register", "wait", "stat"} =>
                                         importer'[h].path \in File
<1>1. CASE Register(g) \/ ReceiveFromClosed(g) \/ StatAgain(g) \/ Tick(g)
  <2> PICK new \in ImporterStates : /\ new.path \in File
                                    /\ importer' = [importer EXCEPT ![g] = new]
    <3>1. CASE Register(g)
      <4>2. [importer[g] EXCEPT !.at = "wait", !.running = TRUE] \in ImporterStates
        BY <1>0 DEF ImporterStates
      <4> WITNESS [importer[g] EXCEPT !.at = "wait", !.running = TRUE] \in ImporterStates
      <4> QED BY <1>0, <3>1, <4>2 DEF Register, ImporterStates
    <3>2. CASE ReceiveFromClosed(g)
      <4>2. [importer[g] EXCEPT !.at = "stat", !.running = TRUE] \in ImporterStates
        BY <1>0 DEF ImporterStates
      <4> WITNESS [importer[g] EXCEPT !.at = "stat", !.running = TRUE] \in ImporterStates
      <4> QED BY <1>0, <3>2, <4>2 DEF ReceiveFromClosed, Updated, ImporterStates
    <3>3. CASE StatAgain(g)
      <4>1. disk[importer[g].path] \in Content
        BY <1>0 DEF TypeInv, TypeOK
      <4>2. [importer[g] EXCEPT !.at = "wait", !.node = disk[importer[g].path]] \in ImporterStates
        BY <1>0, <4>1 DEF ImporterStates
      <4> WITNESS [importer[g] EXCEPT !.at = "wait", !.node = disk[importer[g].path]] \in ImporterStates
      <4> QED BY <1>0, <3>3, <4>2 DEF StatAgain, ImporterStates
    <3>4. CASE Tick(g)
      <4>2. [importer[g] EXCEPT !.running = FALSE, !.tick = TRUE] \in ImporterStates
        BY <1>0 DEF ImporterStates
      <4> WITNESS [importer[g] EXCEPT !.running = FALSE, !.tick = TRUE] \in ImporterStates
      <4> QED BY <1>0, <3>4, <4>2 DEF Tick, ImporterStates
    <3> QED BY <1>1, <3>1, <3>2, <3>3, <3>4
  <2>1. Ok
    BY ImporterUpdate
  <2>2. growing' \in [File -> Importer \cup {None}] /\ closed' = closed
    BY <1>1 DEF Register, ReceiveFromClosed, StatAgain, Tick, TypeInv, TypeOK
  <2>3. UNCHANGED <<probe, unheeded>>
    BY <1>1 DEF Register, ReceiveFromClosed, StatAgain, Tick
  <2>4. ImporterStep
    BY <1>1 DEF Register, ReceiveFromClosed, StatAgain, Tick
  <2> QED BY <2>1, <2>2, <2>3, <2>4 DEF TypeInv, TypeOK, HasPath
<1>2. CASE StatFails(g)
  <2>1. Ok
    BY <1>2, FinishedType DEF StatFails
  <2>2. growing' \in [File -> Importer \cup {None}] /\ closed' \subseteq Importer
    BY <1>0, <1>2, ForgetType DEF StatFails
  <2> QED BY <1>0, <1>2, <2>1, <2>2 DEF StatFails, TypeInv, TypeOK, HasPath
<1>3. CASE Settle(g)
  <2>1. Ok
    BY <1>3, FinishedType DEF Settle
  <2>2. growing' \in [File -> Importer \cup {None}] /\ closed' \subseteq Importer
    BY <1>0, <1>3, ForgetType DEF Settle
  <2>3. UNCHANGED probe \/ CheckAndAddProbeJob(importer[g].path)
    BY <1>3 DEF Settle
  <2>4. /\ probe' \in [Probe -> ProbeStates]
        /\ \A j \in Probe : probe'[j].at # "none" => probe'[j].path \in File
    BY <1>0, <2>3, AddProbeType DEF TypeInv, TypeOK, HasPath
  <2>5. unheeded' \subseteq File
    BY <1>0, <1>3 DEF Settle, TypeInv, TypeOK
  <2> QED BY <1>3, <2>1, <2>2, <2>4, <2>5 DEF Settle, TypeInv, TypeOK, HasPath
<1> QED BY <1>1, <1>2, <1>3 DEF AwaitFile

LEMMA WalkUpdate ==
  ASSUME TypeInv, NEW w \in Walker, NEW new \in WalkStates,
         walk' = [walk EXCEPT ![w] = new]
  PROVE  walk' \in [Walker -> WalkStates]
  BY DEF TypeInv, TypeOK

LEMMA StartWalkType ==
  ASSUME TypeInv, NEW w \in Walker, NEW paths \in SUBSET (Path \cup {Root}),
         StartWalk(w, paths) \/ EndWalk(w)
  PROVE  walk' \in [Walker -> WalkStates]
<1>1. NoWalk \in WalkStates /\ [NoWalk EXCEPT !.at = "visit", !.visit = paths] \in WalkStates
  BY DEF NoWalk, WalkStates
<1> QED BY <1>1, WalkUpdate DEF StartWalk, EndWalk

LEMMA WalkTypes ==
  ASSUME TypeInv, NEW w \in Walker, RecursiveProbe(w)
  PROVE  TypeInv'
<1> USE DEF WalkStep, diskVars, loopVars, growVars, dbVars, historyVars
<1>0. walk[w] \in WalkStates
  BY DEF TypeInv, TypeOK
<1>1. ASSUME NEW f \in File, VisitFile(w, f) PROVE TypeInv'
  <2>1. walk' = [walk EXCEPT ![w] = [walk[w] EXCEPT !.visit = @ \ {f}]]
    BY <1>0, <1>1 DEF VisitFile, WalkStates, TypeInv, TypeOK
  <2>2. [walk[w] EXCEPT !.visit = @ \ {f}] \in WalkStates
    BY <1>0 DEF WalkStates
  <2>3. walk' \in [Walker -> WalkStates]
    BY <2>1, <2>2, WalkUpdate
  <2>4. UNCHANGED probe \/ CheckAndAddProbeJob(f)
    BY <1>1 DEF VisitFile
  <2>5. /\ probe' \in [Probe -> ProbeStates]
        /\ \A j \in Probe : probe'[j].at # "none" => probe'[j].path \in File
    BY <2>4, AddProbeType DEF TypeInv, TypeOK, HasPath
  <2> QED BY <1>1, <2>3, <2>5 DEF VisitFile, TypeInv, TypeOK, HasPath
<1>2. ASSUME NEW d \in Directories, ReadDirNames(w, d) PROVE TypeInv'
  <2>0. Entries(d) \subseteq Path
    BY DEF Entries, Path
  <2> PICK ns \in SUBSET Path :
        walk' = [walk EXCEPT ![w] = [walk[w] EXCEPT !.at = "watch", !.names = ns]]
    BY <1>0, <1>2, <2>0 DEF ReadDirNames, TypeInv, TypeOK
  <2>1. [walk[w] EXCEPT !.at = "watch", !.names = ns] \in WalkStates
    BY <1>0 DEF WalkStates
  <2>2. walk' \in [Walker -> WalkStates]
    BY <2>1, WalkUpdate
  <2> QED BY <1>2, <2>2 DEF ReadDirNames, TypeInv, TypeOK, HasPath
<1>3. CASE AddWatcher(w)
  <2>1. [at |-> "visit", names |-> {},
         visit |-> (walk[w].visit \ {Walking(w)}) \cup walk[w].names] \in WalkStates
    BY <1>0 DEF WalkStates
  <2>2. walk' \in [Walker -> WalkStates]
    BY <1>3, <2>1, WalkUpdate DEF AddWatcher
  <2>3. watched' \subseteq Directories
    BY <1>3 DEF AddWatcher, Walking, Directories, TypeInv, TypeOK
  <2> QED BY <1>3, <2>2, <2>3 DEF AddWatcher, TypeInv, TypeOK, HasPath
<1>4. ASSUME NEW p \in Path, VisitVanished(w, p) PROVE TypeInv'
  BY <1>4 DEF VisitVanished, TypeInv, TypeOK, HasPath
<1> QED BY <1>1, <1>2, <1>3, <1>4 DEF RecursiveProbe

LEMMA MissingTypes ==
  ASSUME TypeInv, NEW w \in Walker, RemoveMissingFiles(w)
  PROVE  TypeInv'
<1> PICK j \in Probe : RemoveMissingFile(w, j)
  BY DEF RemoveMissingFiles
<1> QED BY DEF RemoveMissingFile, TypeInv, TypeOK, HasPath, diskVars, loopVars, growVars,
               poolVars, historyVars

\* The steps of the watcher's loop.
LEMMA WatcherTypes ==
  ASSUME TypeInv, StartWatcher
  PROVE  TypeInv'
<1> USE DEF diskVars, loopVars, growVars, poolVars, dbVars, historyVars
<1>0. ASSUME NEW op, NEW p, Watch(op, p)
      PROVE  /\ events' \in Seq(Event)
             /\ UNCHANGED <<disk, dirExists, changes, poolVars, libraryRow, identified,
                            refresh, copies, deletion, restored>>
  BY <1>0 DEF Watch, TypeInv, TypeOK
<1>1. ASSUME NEW p \in Path, CreatedVanished(p) PROVE TypeInv'
  <2>1. growing' \in [File -> Importer \cup {None}] /\ closed' \subseteq Importer
    BY <1>1, ForgetType DEF CreatedVanished, TypeInv, TypeOK
  <2>2. Watch("Create", p)
    BY <1>1 DEF CreatedVanished
  <2>3. events' \in Seq(Event)
    BY <1>0, <2>2
  <2>4. UNCHANGED <<disk, dirExists, changes, poolVars, libraryRow, identified,
                    refresh, copies, deletion, restored>>
    BY <1>0, <2>2
  <2> QED BY <1>1, <2>1, <2>3, <2>4 DEF CreatedVanished, TypeInv, TypeOK, HasPath
<1>2. CASE CreatedDir
  <2>1. walk' \in [Walker -> WalkStates]
    BY <1>2, StartWalkType DEF CreatedDir, Walker, Path
  <2>2. Watch("Create", Dir)
    BY <1>2 DEF CreatedDir
  <2> QED BY <1>0, <1>2, <2>1, <2>2 DEF CreatedDir, TypeInv, TypeOK, HasPath
<1>3. CASE DirWalked
  <2>1. walk' \in [Walker -> WalkStates]
    BY <1>3, StartWalkType DEF DirWalked, Walker, Path
  <2> QED BY <1>3, <2>1 DEF DirWalked, TypeInv, TypeOK, HasPath
<1>4. ASSUME NEW f \in File, CreatedFile(f) PROVE TypeInv'
  <2> DEFINE new == [Idle EXCEPT !.at = "register", !.path = f, !.node = disk[f]]
  <2>1. new \in ImporterStates /\ new.path \in File
    BY DEF Idle, ImporterStates, TypeInv, TypeOK
  <2> HIDE DEF new
  <2> PICK g \in Importer : importer' = [importer EXCEPT ![g] = new]
    BY <1>4 DEF CreatedFile, new
  <2>2. /\ importer' \in [Importer -> ImporterStates]
        /\ \A h \in Importer : importer'[h].at \in {"register", "wait", "stat"} =>
                                importer'[h].path \in File
    BY <2>1, ImporterUpdate
  <2>3. Watch("Create", f)
    BY <1>4 DEF CreatedFile
  <2> QED BY <1>0, <1>4, <2>2, <2>3 DEF CreatedFile, TypeInv, TypeOK, HasPath
<1>5. ASSUME NEW f \in File, Written(f) PROVE TypeInv'
  <2>1. Watch("Write", f)
    BY <1>5 DEF Written
  <2> QED BY <1>0, <1>5, <2>1 DEF Written, TypeInv, TypeOK, HasPath
<1>6. CASE SendUpdate
  <2>1. sendTo \in Importer /\ importer[sendTo] \in ImporterStates
    BY <1>6 DEF SendUpdate, SendStep, TypeInv, TypeOK, HasPath
  <2>2. importer[sendTo].path \in File
    BY <1>6, <2>1 DEF SendUpdate, TypeInv, HasPath
  <2>3. /\ [importer[sendTo] EXCEPT !.at = "stat", !.running = TRUE] \in ImporterStates
        /\ [importer[sendTo] EXCEPT !.at = "stat", !.running = TRUE].path \in File
    BY <2>1, <2>2 DEF ImporterStates
  <2>4. /\ importer' \in [Importer -> ImporterStates]
        /\ \A h \in Importer : importer'[h].at \in {"register", "wait", "stat"} =>
                                importer'[h].path \in File
    BY <1>6, <2>1, <2>3, ImporterUpdate DEF SendUpdate, Updated
  <2> QED BY <1>6, <2>4 DEF SendUpdate, SendStep, TypeInv, TypeOK, HasPath
<1>7. CASE SendPanics
  BY <1>7 DEF SendPanics, SendStep, TypeInv, TypeOK, HasPath
<1>8. ASSUME NEW f \in File, RemovedFile(f) PROVE TypeInv'
  <2>1. growing' \in [File -> Importer \cup {None}] /\ closed' \subseteq Importer
    BY <1>8, ForgetType DEF RemovedFile
  <2>2. Watch("Remove", f)
    BY <1>8 DEF RemovedFile
  <2>3. rows' \subseteq Probe /\ left' \subseteq Probe
    BY <1>8 DEF RemovedFile, RowsOf, TypeInv, TypeOK
  <2> QED BY <1>0, <1>8, <2>1, <2>2, <2>3 DEF RemovedFile, TypeInv, TypeOK, HasPath
<1>9. ASSUME NEW p \in Path, RemovedUnknown(p) PROVE TypeInv'
  <2>1. growing' \in [File -> Importer \cup {None}] /\ closed' \subseteq Importer
    BY <1>9, ForgetType DEF RemovedUnknown, TypeInv, TypeOK
  <2>2. Watch("Remove", p)
    BY <1>9 DEF RemovedUnknown
  <2>3. todo' \in [Walker -> SUBSET Probe]
    BY <1>9 DEF RemovedUnknown, RowsOf, TypeInv, TypeOK
  <2>4. watched' \subseteq Directories
    BY <1>9 DEF RemovedUnknown, TypeInv, TypeOK
  <2> QED BY <1>0, <1>9, <2>1, <2>2, <2>3, <2>4 DEF RemovedUnknown, TypeInv, TypeOK, HasPath
<1>10. CASE MissingRemoved
  BY <1>10 DEF MissingRemoved, TypeInv, TypeOK, HasPath
<1> QED BY <1>1, <1>2, <1>3, <1>4, <1>5, <1>6, <1>7, <1>8, <1>9, <1>10 DEF StartWatcher

LEMMA RefreshUpdate ==
  ASSUME TypeInv, NEW r \in Refresh, NEW at \in {"start", "idle", "missing", "walk", "identify"},
         NEW whole \in BOOLEAN,
         refresh' = [refresh EXCEPT ![r] = [at |-> at, whole |-> whole]]
  PROVE  refresh' \in [Refresh -> RefreshStates]
  BY DEF TypeInv, TypeOK, RefreshStates

LEMMA RescanTypes ==
  ASSUME TypeInv, NEW r \in Refresh, NEW whole \in BOOLEAN, NEW d \in Directories,
         Rescan(r, whole, d), watched' \subseteq Directories
  PROVE  TypeInv'
<1>1. refresh' \in [Refresh -> RefreshStates]
  BY RefreshUpdate DEF Rescan
<1>2. walk' \in [Walker -> WalkStates]
  BY StartWalkType DEF Rescan, Walker, Directories, Path
<1> QED BY <1>1, <1>2 DEF Rescan, RefreshStep, TypeInv, TypeOK, HasPath, diskVars, loopVars,
               growVars, poolVars, historyVars

\* The steps of a scan.
LEMMA RefreshTypes ==
  ASSUME TypeInv, NEW r \in Refresh, StartRefresh(r) \/ ContinueRefresh(r)
  PROVE  TypeInv'
<1> USE DEF RefreshStep, diskVars, loopVars, growVars, poolVars, historyVars
<1>0. r \in Walker /\ Root \in Directories
  BY DEF Walker, Directories
<1>1. CASE RefreshAll(r)
  <2>1. refresh' \in [Refresh -> RefreshStates]
    BY <1>1, RefreshUpdate DEF RefreshAll
  <2>2. todo' \in [Walker -> SUBSET Probe]
    BY <1>1 DEF RefreshAll, TypeInv, TypeOK
  <2> QED BY <1>1, <2>1, <2>2 DEF RefreshAll, TypeInv, TypeOK, HasPath
<1>2. CASE MissingChecked(r) \/ \E d \in Directories : RescanPath(r, d)
  <2>1. watched' \subseteq Directories
    BY <1>0, <1>2 DEF RescanPath, MissingChecked, TypeInv, TypeOK
  <2> QED BY <1>0, <1>2, <2>1, RescanTypes DEF RescanPath, MissingChecked
<1>3. CASE RescanUnhealthy(r)
  BY <1>3 DEF RescanUnhealthy, TypeInv, TypeOK, HasPath
<1>4. CASE Rescanned(r)
  <2>1. walk' \in [Walker -> WalkStates]
    BY <1>0, <1>4, StartWalkType DEF Rescanned
  <2>2. todo' \in [Walker -> SUBSET Probe]
    BY <1>4 DEF Rescanned, TypeInv, TypeOK
  <2>4. refresh' \in [Refresh -> RefreshStates]
    <3>1. CASE refresh[r].whole
      <4>1. refresh' = [refresh EXCEPT ![r] = [at |-> "identify", whole |-> TRUE]]
        BY <1>4, <3>1 DEF Rescanned
      <4> QED BY <4>1, RefreshUpdate
    <3>2. CASE ~refresh[r].whole
      <4>1. refresh' = [refresh EXCEPT ![r] = NoRefresh]
        BY <1>4, <3>2 DEF Rescanned
      <4> QED BY <4>1, RefreshUpdate DEF NoRefresh
    <3> QED BY <3>1, <3>2
  <2> QED BY <1>4, <2>1, <2>2, <2>4 DEF Rescanned, TypeInv, TypeOK, HasPath
<1>5. CASE Refreshed(r)
  <2>1. refresh' \in [Refresh -> RefreshStates]
    BY <1>5, RefreshUpdate DEF Refreshed, NoRefresh
  <2> QED BY <1>5, <2>1 DEF Refreshed, TypeInv, TypeOK, HasPath
<1>6. ASSUME NEW j \in Probe, NEW found \in BOOLEAN, IdentifyUnidentified(r, j, found)
      PROVE  TypeInv'
  <2>1. todo' \in [Walker -> SUBSET Probe]
    BY <1>6 DEF IdentifyUnidentified, TypeInv, TypeOK
  <2>2. /\ rows' \subseteq Probe /\ identified' \subseteq Probe
        /\ left' \subseteq Probe /\ restored' \subseteq Probe
    BY <1>6 DEF IdentifyUnidentified, SaveFile, TypeInv, TypeOK
  <2> QED BY <1>6, <2>1, <2>2 DEF IdentifyUnidentified, TypeInv, TypeOK, HasPath
<1> QED BY <1>1, <1>2, <1>3, <1>4, <1>5, <1>6 DEF StartRefresh, ContinueRefresh

LEMMA DeletionUpdate ==
  ASSUME TypeInv, NEW d \in Deletion, NEW new \in DeletionStates,
         deletion' = [deletion EXCEPT ![d] = new]
  PROVE  deletion' \in [Deletion -> DeletionStates]
  BY DEF TypeInv, TypeOK

\* The steps of a deletion.
LEMMA DeletionTypes ==
  ASSUME TypeInv, NEW d \in Deletion, Delete(d) \/ ContinueDeletion(d)
  PROVE  TypeInv'
<1> USE DEF DeletionStep, diskVars, growVars, historyVars
<1>0. deletion[d] \in DeletionStates
  BY DEF TypeInv, TypeOK
<1>1. ASSUME NEW to \in {"exit", "pool", "find", "done"},
             deletion' = [deletion EXCEPT ![d].at = to]
      PROVE  deletion' \in [Deletion -> DeletionStates]
  <2>1. [deletion[d] EXCEPT !.at = to] \in DeletionStates
    BY <1>0 DEF DeletionStates
  <2>2. deletion' = [deletion EXCEPT ![d] = [deletion[d] EXCEPT !.at = to]]
    BY <1>1 DEF TypeInv, TypeOK
  <2> QED BY <2>1, <2>2, DeletionUpdate
<1>2. CASE Delete(d)
  BY <1>1, <1>2 DEF Delete, TypeInv, TypeOK, HasPath
<1>3. CASE StopWatcher(d)
  BY <1>1, <1>3 DEF StopWatcher, TypeInv, TypeOK, HasPath
<1>4. CASE ClosePool(d)
  BY <1>1, <1>4 DEF ClosePool, TypeInv, TypeOK, HasPath
<1>5. CASE DeleteLibraryByID(d)
  BY <1>1, <1>5 DEF DeleteLibraryByID, TypeInv, TypeOK, HasPath
<1>6. CASE FindFiles(d)
  <2>1. [at |-> "files", files |-> rows] \in DeletionStates
    BY DEF DeletionStates, TypeInv, TypeOK
  <2>2. deletion' \in [Deletion -> DeletionStates]
    BY <1>6, <2>1, DeletionUpdate DEF FindFiles
  <2> QED BY <1>6, <2>2 DEF FindFiles, TypeInv, TypeOK, HasPath
<1>7. ASSUME NEW j \in Probe, DeleteWithStreams(d, j) PROVE TypeInv'
  <2>1. [deletion[d] EXCEPT !.files = @ \ {j}] \in DeletionStates
    BY <1>0 DEF DeletionStates
  <2>2. deletion' = [deletion EXCEPT ![d] = [deletion[d] EXCEPT !.files = @ \ {j}]]
    BY <1>7 DEF DeleteWithStreams, TypeInv, TypeOK
  <2>3. deletion' \in [Deletion -> DeletionStates]
    BY <2>1, <2>2, DeletionUpdate
  <2> QED BY <1>7, <2>3 DEF DeleteWithStreams, TypeInv, TypeOK, HasPath
<1> QED BY <1>2, <1>3, <1>4, <1>5, <1>6, <1>7 DEF ContinueDeletion

LEMMA CopyTypes ==
  ASSUME TypeInv, NEW c \in Copy, WorkOnMovie(c)
  PROVE  TypeInv'
<1> USE DEF CopyStep, diskVars, loopVars, growVars, poolVars, TypeInv, TypeOK, HasPath
<1>1. ASSUME NEW files \in SUBSET (rows \cap identified), CollectMovieInfo(c, files) PROVE TypeInv'
  BY <1>1 DEF CollectMovieInfo
<1>2. ASSUME NEW again \in BOOLEAN, SaveMovie(c, again) PROVE TypeInv'
  <2>1. copies[c] \subseteq Probe
    OBVIOUS
  <2>2. /\ rows' \subseteq Probe /\ left' \subseteq Probe /\ restored' \subseteq Probe
        /\ copies' \in [Copy -> SUBSET Probe]
    BY <1>2, <2>1 DEF SaveMovie
  <2> QED BY <1>2, <2>2 DEF SaveMovie
<1> QED BY <1>1, <1>2 DEF WorkOnMovie

(***************************************************************************)
(* Rows and the probes that stored them                                    *)
(***************************************************************************)

StoredIn(j) == probe[j].at \in {"stored", "done"}

\* Rows, and what is listed of them, were stored by their probes; and the watcher
\* has rows to look at only while it looks at them.
ListInv ==
  /\ \A j \in rows : StoredIn(j)
  /\ \A w \in Walker : \A j \in todo[w] : StoredIn(j)
  /\ loop # "missing" => todo["watcher"] = {}

CopiesStored == \A c \in Copy : \A j \in copies[c] : StoredIn(j)

\* A stored probe keeps its path.
LEMMA AddedIsNotStored ==
  ASSUME TypeInv, NEW f \in File, CheckAndAddProbeJob(f) \/ UNCHANGED probe
  PROVE  \A j \in Probe : StoredIn(j) => probe'[j] = probe[j]
<1>1. CASE UNCHANGED probe
  BY <1>1
<1>2. CASE \E j \in Probe : /\ probe[j].at = "none"
                            /\ probe' = [probe EXCEPT ![j] = [at |-> "queued", path |-> f]]
  BY <1>2 DEF StoredIn, TypeInv, TypeOK
<1> QED BY <1>1, <1>2 DEF CheckAndAddProbeJob

LEMMA StoredStays ==
  ASSUME TypeInv, [Next]_vars, ~Restart
  PROVE  \A j \in Probe : StoredIn(j) => StoredIn(j)' /\ probe'[j].path = probe[j].path
<1> DEFINE Goal == \A j \in Probe : StoredIn(j) => StoredIn(j)' /\ probe'[j].path = probe[j].path
<1> USE DEF poolVars
<1>1. ASSUME NEW f \in File, CheckAndAddProbeJob(f) \/ UNCHANGED probe
      PROVE  Goal
  BY <1>1, AddedIsNotStored DEF StoredIn
<1>2. CASE UNCHANGED probe
  BY <1>2 DEF StoredIn
<1>3. ASSUME NEW g \in Importer, AwaitFile(g) \/ ReceiveFromClosed(g) \/ Tick(g)
      PROVE  Goal
  <2>1. importer[g].path \in File
    BY <1>3 DEF AwaitFile, Register, StatAgain, StatFails, Settle, ReceiveFromClosed, Tick,
       TypeInv, HasPath
  <2>2. CheckAndAddProbeJob(importer[g].path) \/ UNCHANGED probe
    BY <1>3 DEF AwaitFile, Register, StatAgain, StatFails, Settle, ReceiveFromClosed, Tick
  <2> QED BY <1>1, <2>1, <2>2
<1>4. ASSUME NEW j \in Probe, ProbePool(j) PROVE Goal
  <2>1. CASE ProbeFile(j) \/ ProbeFails(j) \/ ProcessPanics(j)
    <3>1. /\ probe[j].at = "queued"
          /\ \E new : probe' = [probe EXCEPT ![j] = new]
      BY <2>1 DEF ProbeFile, ProbeFails, Taken, ProcessPanics, ProbeStep
    <3> QED BY <3>1 DEF StoredIn, TypeInv, TypeOK
  <2>2. CASE StoreFile(j) \/ IdentifyFile(j) \/ NoMatch(j)
    <3>1. PICK to \in {"stored", "done"} : probe' = [probe EXCEPT ![j] = [probe[j] EXCEPT !.at = to]]
      BY <2>2 DEF StoreFile, IdentifyFile, NoMatch, ProbeStep
    <3>2. probe[j] \in ProbeStates
      BY DEF TypeInv, TypeOK
    <3>3. [probe[j] EXCEPT !.at = to].at = to /\ [probe[j] EXCEPT !.at = to].path = probe[j].path
      BY <3>2 DEF ProbeStates
    <3>4. \A k \in Probe : probe'[k] = IF k = j THEN [probe[j] EXCEPT !.at = to] ELSE probe[k]
      BY <3>1 DEF TypeInv, TypeOK
    <3> QED BY <3>3, <3>4 DEF StoredIn
  <2> QED BY <1>4, <2>1, <2>2 DEF ProbePool
<1>5. ASSUME NEW w \in Walker, RecursiveProbe(w) PROVE Goal
  <2>1. PICK p \in Path : (p \in File /\ CheckAndAddProbeJob(p)) \/ UNCHANGED probe
    BY <1>5 DEF RecursiveProbe, VisitFile, ReadDirNames, AddWatcher, VisitVanished, Path
  <2> QED BY <1>1, <1>2, <2>1
<1>6. CASE ChangeDisk \/ StartWatcher
  BY <1>2, <1>6 DEF ChangeDisk, CreateFile, WriteFile, DeleteFile, MakeDir, MoveDir, Change,
     StartWatcher, CreatedVanished, RemovedUnknown, CreatedDir, DirWalked, MissingRemoved,
     SendUpdate, SendPanics, SendStep, CreatedFile, Written, RemovedFile, Watch
<1>7. ASSUME NEW w \in Walker, RemoveMissingFiles(w) PROVE Goal
  BY <1>2, <1>7 DEF RemoveMissingFiles, RemoveMissingFile
<1>8. ASSUME NEW r \in Refresh, StartRefresh(r) \/ ContinueRefresh(r) PROVE Goal
  BY <1>2, <1>8 DEF StartRefresh, ContinueRefresh, RefreshAll, RescanPath, RescanUnhealthy,
     MissingChecked, Rescan, Rescanned, Refreshed, RefreshStep, IdentifyUnidentified
<1>9. ASSUME NEW d \in Deletion, Delete(d) \/ ContinueDeletion(d) PROVE Goal
  BY <1>2, <1>9 DEF Delete, ContinueDeletion, StopWatcher, ClosePool, FindFiles,
     DeleteWithStreams, DeleteLibraryByID, DeletionStep
<1>10. CASE UNCHANGED vars
  BY <1>2, <1>10 DEF vars
<1>11. ASSUME NEW c \in Copy, WorkOnMovie(c) PROVE Goal
  BY <1>2, <1>11 DEF WorkOnMovie, CollectMovieInfo, SaveMovie, CopyStep
<1> QED BY <1>3, <1>4, <1>5, <1>6, <1>7, <1>8, <1>9, <1>10, <1>11 DEF Next

LEMMA CopiesFrame ==
  ASSUME [Next]_vars, ~Restart
  PROVE  copies' = copies \/ \E c \in Copy : WorkOnMovie(c)
<1>1. CASE ChangeDisk \/ StartWatcher
  BY <1>1 DEF ChangeDisk, CreateFile, WriteFile, DeleteFile, MakeDir, MoveDir, Change,
     StartWatcher, CreatedVanished, RemovedUnknown, CreatedDir, DirWalked, MissingRemoved,
     SendUpdate, SendPanics, SendStep, CreatedFile, Written, RemovedFile, Watch
<1>2. CASE \/ \E g \in Importer : AwaitFile(g) \/ ReceiveFromClosed(g) \/ Tick(g)
           \/ \E j \in Probe : ProbePool(j)
  BY <1>2 DEF AwaitFile, Register, StatAgain, StatFails, Settle, ReceiveFromClosed, Tick,
     ImporterStep, ProbePool, ProbeFile, ProbeFails, StoreFile, IdentifyFile, NoMatch, ProcessPanics,
     ProbeStep
<1>3. CASE \E w \in Walker : RecursiveProbe(w) \/ RemoveMissingFiles(w)
  BY <1>3 DEF RecursiveProbe, VisitFile, ReadDirNames, AddWatcher, VisitVanished, WalkStep,
     RemoveMissingFiles, RemoveMissingFile
<1>4. CASE \E r \in Refresh : StartRefresh(r) \/ ContinueRefresh(r)
  BY <1>4 DEF StartRefresh, ContinueRefresh, RefreshAll, RescanPath, RescanUnhealthy,
     MissingChecked, Rescan, Rescanned, Refreshed, RefreshStep, IdentifyUnidentified
<1>5. CASE \E d \in Deletion : Delete(d) \/ ContinueDeletion(d)
  BY <1>5 DEF Delete, ContinueDeletion, StopWatcher, ClosePool, FindFiles,
     DeleteWithStreams, DeleteLibraryByID, DeletionStep
<1>6. CASE UNCHANGED vars
  BY <1>6 DEF vars
<1> QED BY <1>1, <1>2, <1>3, <1>4, <1>5, <1>6 DEF Next

\* A movie is loaded with files that were in the database.
LEMMA NextCopies ==
  ASSUME TypeInv, ListInv, CopiesStored, [Next]_vars
  PROVE  CopiesStored'
<1>0. copies \in [Copy -> SUBSET Probe] /\ rows \subseteq Probe
  BY DEF TypeInv, TypeOK
<1>1. CASE Restart
  BY <1>1 DEF Restart, CopiesStored
<1>2. ASSUME ~Restart, copies' = copies PROVE CopiesStored'
  BY <1>0, <1>2, StoredStays DEF CopiesStored
<1>3. ASSUME ~Restart, NEW c \in Copy, WorkOnMovie(c) PROVE CopiesStored'
  <2>0. \A j \in Probe : StoredIn(j) => StoredIn(j)'
    BY <1>3, StoredStays
  <2>1. \A b \in Copy : copies'[b] \subseteq copies[b] \cup rows
    BY <1>0, <1>3 DEF WorkOnMovie, CollectMovieInfo, SaveMovie
  <2> QED BY <1>0, <2>0, <2>1 DEF CopiesStored, ListInv
<1> QED BY <1>1, <1>2, <1>3, CopiesFrame

\* The probes of the rows are all that is left of them.
LEMMA RestartList ==
  ASSUME TypeInv, ListInv, Restart
  PROVE  ListInv'
<1>1. \A j \in rows : probe'[j] = [probe[j] EXCEPT !.at = "done"]
  BY DEF Restart, TypeInv, TypeOK
<1>2. \A j \in rows : probe[j] \in ProbeStates
  BY DEF TypeInv, TypeOK
<1>3. \A j \in rows : StoredIn(j)'
  BY <1>1, <1>2 DEF StoredIn, ProbeStates
<1>4. rows' = rows /\ \A w \in Walker : todo'[w] = {}
  BY DEF Restart, dbVars
<1> QED BY <1>3, <1>4 DEF ListInv, Walker

LEMMA NextList == TypeInv /\ ListInv /\ CopiesStored /\ [Next]_vars => ListInv'
<1> SUFFICES ASSUME TypeInv, ListInv, CopiesStored, [Next]_vars, ~Restart PROVE ListInv'
  BY RestartList
<1> USE DEF poolVars, dbVars, loopVars
<1>0. /\ todo \in [Walker -> SUBSET Probe] /\ rows \subseteq Probe
      /\ "watcher" \in Walker /\ "watcher" \notin Refresh
  BY DEF TypeInv, TypeOK, Walker, AllRefreshes
<1>1. \A j \in Probe : StoredIn(j) => StoredIn(j)'
  BY StoredStays
  \* Most steps store nothing, list nothing, and do not leave the list.
<1>2. ASSUME rows' \subseteq rows, todo' = todo, loop' = "missing" \/ todo["watcher"] = {} \/ loop' = loop
      PROVE  ListInv'
  BY <1>0, <1>1, <1>2 DEF ListInv
<1>3. CASE ChangeDisk
  BY <1>2, <1>3 DEF ChangeDisk, CreateFile, WriteFile, DeleteFile, MakeDir, MoveDir, Change
<1>4. CASE StartWatcher
  <2>1. ASSUME NEW p \in Path, RemovedUnknown(p) PROVE ListInv'
    <3>1. /\ rows' = rows /\ loop' = "missing"
          /\ \A w \in Walker : todo'[w] = IF w = "watcher" THEN RowsOf(Under(p)) ELSE todo[w]
      BY <1>0, <2>1 DEF RemovedUnknown
    <3> QED BY <1>0, <1>1, <3>1 DEF ListInv, RowsOf
  <2>2. ASSUME ~ \E p \in Path : RemovedUnknown(p) PROVE ListInv'
    <3>1. rows' \subseteq rows /\ todo' = todo
      BY <1>4, <2>2 DEF StartWatcher, CreatedVanished, CreatedDir, DirWalked,
         MissingRemoved, SendUpdate, SendPanics, SendStep, CreatedFile, Written, RemovedFile, Watch
    <3>2. loop' = loop \/ loop \in {"select", "walk", "send"} \/ todo["watcher"] = {}
      BY <1>4, <2>2 DEF StartWatcher, CreatedVanished, CreatedDir, DirWalked,
         MissingRemoved, SendUpdate, SendPanics, SendStep, CreatedFile, Written, RemovedFile, Watch
    <3> QED BY <1>2, <3>1, <3>2 DEF ListInv
  <2> QED BY <2>1, <2>2
<1>5. ASSUME NEW g \in Importer, AwaitFile(g) \/ ReceiveFromClosed(g) \/ Tick(g)
      PROVE  ListInv'
  BY <1>2, <1>5 DEF AwaitFile, Register, StatAgain, StatFails, Settle, ReceiveFromClosed, Tick,
     ImporterStep
<1>6. ASSUME NEW j \in Probe, ProbePool(j) PROVE ListInv'
  <2>1. CASE StoreFile(j) \/ IdentifyFile(j)
    <3>1. /\ probe[j].at \in {"probed", "stored"} /\ rows' = rows \cup {j}
          /\ UNCHANGED <<todo, loop>>
      BY <2>1 DEF StoreFile, IdentifyFile, SaveFile, ProbeStep
    <3>2. StoredIn(j)'
      <4>1. PICK to \in {"stored", "done"} : probe' = [probe EXCEPT ![j] = [probe[j] EXCEPT !.at = to]]
        BY <2>1 DEF StoreFile, IdentifyFile, ProbeStep
      <4>2. [probe[j] EXCEPT !.at = to].at = to
        BY DEF TypeInv, TypeOK, ProbeStates
      <4>3. probe'[j] = [probe[j] EXCEPT !.at = to]
        BY <4>1 DEF TypeInv, TypeOK
      <4> QED BY <4>2, <4>3 DEF StoredIn
    <3> QED BY <1>0, <1>1, <3>1, <3>2 DEF ListInv
  <2>2. CASE ProbeFile(j) \/ ProbeFails(j) \/ NoMatch(j) \/ ProcessPanics(j)
    BY <1>2, <2>2 DEF ProbeFile, ProbeFails, NoMatch, ProcessPanics, ProbeStep
  <2> QED BY <1>6, <2>1, <2>2 DEF ProbePool
<1>7. ASSUME NEW w \in Walker, RecursiveProbe(w) PROVE ListInv'
  BY <1>2, <1>7 DEF RecursiveProbe, VisitFile, ReadDirNames, AddWatcher, VisitVanished, WalkStep
<1>8. ASSUME NEW w \in Walker, RemoveMissingFiles(w) PROVE ListInv'
  <2>1. PICK j \in Probe : RemoveMissingFile(w, j)
    BY <1>8 DEF RemoveMissingFiles
  <2>2. /\ rows' \subseteq rows /\ loop' = loop
        /\ \A v \in Walker : todo'[v] \subseteq todo[v]
    BY <1>0, <2>1 DEF RemoveMissingFile
  <2> QED BY <1>0, <1>1, <2>2 DEF ListInv
<1>9. ASSUME NEW r \in Refresh, StartRefresh(r) \/ ContinueRefresh(r) PROVE ListInv'
  <2>0. r \in Walker /\ r # "watcher"
    BY <1>0 DEF Walker
  <2>1. ASSUME NEW j \in Probe, NEW found \in BOOLEAN, IdentifyUnidentified(r, j, found)
        PROVE  ListInv'
    <3>1. /\ rows' \subseteq rows \cup {j} /\ loop' = loop /\ j \in todo[r]
          /\ \A v \in Walker : todo'[v] \subseteq todo[v]
      BY <1>0, <2>1 DEF IdentifyUnidentified, SaveFile
    <3> QED BY <1>0, <1>1, <2>0, <3>1 DEF ListInv
  <2>2. CASE StartRefresh(r) \/ MissingChecked(r) \/ Rescanned(r) \/ Refreshed(r)
    <3>1. rows' = rows /\ loop' = loop
      BY <2>2 DEF StartRefresh, RefreshAll, RescanPath, RescanUnhealthy, MissingChecked,
         Rescan, Rescanned, Refreshed, RefreshStep
    <3>2. \A v \in Walker : todo'[v] \subseteq todo[v] \/ (v = r /\ todo'[v] \subseteq rows)
      BY <1>0, <2>0, <2>2 DEF StartRefresh, RefreshAll, RescanPath, RescanUnhealthy, MissingChecked,
         Rescan, Rescanned, Refreshed
    <3> QED BY <1>0, <1>1, <2>0, <3>1, <3>2 DEF ListInv
  <2> QED BY <1>9, <2>1, <2>2 DEF ContinueRefresh
<1>10. ASSUME NEW d \in Deletion, Delete(d) \/ ContinueDeletion(d) PROVE ListInv'
  <2>1. rows' \subseteq rows /\ todo' = todo /\ (loop' = loop \/ loop = "select")
    BY <1>10 DEF Delete, ContinueDeletion, StopWatcher, ClosePool, FindFiles,
       DeleteWithStreams, DeleteLibraryByID, DeletionStep
  <2> QED BY <1>2, <2>1 DEF ListInv
<1>11. CASE UNCHANGED vars
  BY <1>2, <1>11 DEF vars
<1>12. ASSUME NEW c \in Copy, WorkOnMovie(c) PROVE ListInv'
  <2>1. /\ rows' = rows \/ rows' = rows \cup copies[c]
        /\ UNCHANGED <<todo, loop>>
    BY <1>12 DEF WorkOnMovie, CollectMovieInfo, SaveMovie, CopyStep
  <2>2. copies[c] \subseteq Probe /\ \A j \in copies[c] : StoredIn(j)
    BY DEF TypeInv, TypeOK, CopiesStored
  <2> QED BY <1>0, <1>1, <2>1, <2>2 DEF ListInv
<1> QED BY <1>3, <1>4, <1>5, <1>6, <1>7, <1>8, <1>9, <1>10, <1>11, <1>12 DEF Next

\* What the database holds was stored by probes that have a path.
LEMMA RestartTypes ==
  ASSUME TypeInv, ListInv, Restart
  PROVE  TypeInv'
<1> USE DEF Restart
<1>1. /\ disk' \in [File -> Content] /\ dirExists' \in BOOLEAN
      /\ changes' \in 0 .. MaxChanges
  BY DEF TypeInv, TypeOK
<1>10. /\ watched' \subseteq Directories /\ events' \in Seq(Event)
       /\ loop' \in {"select", "send", "missing", "walk", "stopped"}
  OBVIOUS
<1>11. growing' \in [File -> Importer \cup {None}]
  OBVIOUS
<1>12. /\ sendTo' \in Importer \cup {None} /\ closed' \subseteq Importer
       /\ poolOpen' \in BOOLEAN /\ crashed' \in BOOLEAN
  OBVIOUS
<1>2. importer' \in [Importer -> ImporterStates]
  BY DEF Idle, Content, ImporterStates
<1>3. walk' \in [Walker -> WalkStates] /\ todo' \in [Walker -> SUBSET Probe]
  BY DEF NoWalk, WalkStates
<1>4. refresh' \in [Refresh -> RefreshStates]
  BY DEF AddLibraryManager, NoRefresh, RefreshStates
<1>5. deletion' \in [Deletion -> DeletionStates] /\ copies' \in [Copy -> SUBSET Probe]
  BY DEF DeletionStates
<1>6. ASSUME NEW j \in Probe
      PROVE  /\ probe'[j] \in ProbeStates
             /\ probe'[j].at # "none" => probe'[j].path \in File
  <2>1. probe[j] \in ProbeStates
    BY DEF TypeInv, TypeOK
  <2>2. CASE j \in rows
    <3>1. probe[j].path \in File
      BY <2>2 DEF ListInv, StoredIn, TypeInv, HasPath
    <3> QED BY <2>1, <2>2, <3>1 DEF ProbeStates
  <2>3. CASE j \notin rows
    BY <2>3 DEF NoProbe, ProbeStates
  <2> QED BY <2>2, <2>3
<1>7. probe' \in [Probe -> ProbeStates]
  BY <1>6
<1>8. HasPath'
  BY <1>6 DEF HasPath, Idle
<1>9. /\ probeCache' \subseteq File
      /\ rows' \subseteq Probe /\ identified' \subseteq Probe /\ libraryRow' \in BOOLEAN
      /\ left' \subseteq Probe /\ unheeded' \subseteq File /\ restored' \subseteq Probe
  BY DEF dbVars, TypeInv, TypeOK
<1> QED BY <1>1, <1>2, <1>3, <1>4, <1>5, <1>7, <1>8, <1>9, <1>10, <1>11, <1>12
       DEF TypeInv, TypeOK

LEMMA NextTypes == TypeInv /\ ListInv /\ [Next]_vars => TypeInv'
<1> SUFFICES ASSUME TypeInv, ListInv, [Next]_vars PROVE TypeInv'
  OBVIOUS
<1>1. CASE UNCHANGED vars
  BY <1>1 DEF vars, TypeInv, TypeOK, HasPath, diskVars, loopVars, growVars, poolVars,
              dbVars, historyVars
<1>2. CASE Next
  BY <1>2, ChangeTypes, WatcherTypes, ImporterTypes, ProbeTypes, WalkTypes, MissingTypes,
     RefreshTypes, CopyTypes, DeletionTypes, RestartTypes DEF Next
<1> QED BY <1>1, <1>2

\* Types, and that rows and what is listed of them were stored, hold throughout.
LEMMA TypeInvAlways == Spec => [](TypeInv /\ ListInv)
<1>1. Init => TypeInv /\ ListInv /\ CopiesStored
  BY InitTypes DEF Init, ListInv, CopiesStored, Walker
<1>2. TypeInv /\ ListInv /\ CopiesStored /\ [Next]_vars => (TypeInv /\ ListInv /\ CopiesStored)'
  BY NextTypes, NextList, NextCopies
<1> QED BY <1>1, <1>2, PTL DEF Spec

\* Every reachable state of the library manager is well typed.
THEOREM TypesCorrect == Spec => []TypeOK
<1>1. TypeInv => TypeOK
  BY DEF TypeInv
<1> QED BY <1>1, TypeInvAlways, PTL

(***************************************************************************)
(* The goroutines that wait for growing files                              *)
(***************************************************************************)

\* Nobody closes a channel that has not been registered.
ClosedWasRegistered ==
  \A g \in closed : importer[g].at \in {"wait", "stat", "done"}

GrowInv == RegisteredIsWaiting /\ ClosedWasRegistered

LEMMA ForgetKeepsOrder ==
  ASSUME TypeInv, GrowInv, NEW f \in File, Forget(f), UNCHANGED importer
  PROVE  GrowInv'
<1>1. ClosedWasRegistered'
  BY DEF Forget, GrowInv, RegisteredIsWaiting, ClosedWasRegistered, TypeInv, TypeOK
<1>2. ASSUME NEW e \in File, growing'[e] # None
      PROVE  /\ growing'[e] \notin closed'
             /\ importer'[growing'[e]].path = e
             /\ importer'[growing'[e]].at \in {"wait", "stat"}
  <2>1. e # f /\ growing'[e] = growing[e]
    BY <1>2 DEF Forget, TypeInv, TypeOK
  <2>2. /\ growing[e] \notin closed /\ importer[growing[e]].path = e
        /\ importer[growing[e]].at \in {"wait", "stat"}
    BY <1>2, <2>1 DEF GrowInv, RegisteredIsWaiting
  <2>3. growing[e] # growing[f]
    BY <1>2, <2>1, <2>2 DEF GrowInv, RegisteredIsWaiting
  <2> QED BY <2>1, <2>2, <2>3 DEF Forget
<1> QED BY <1>1, <1>2 DEF GrowInv, RegisteredIsWaiting

\* A goroutine that ends gives up the entry of its path, whoever has it.
LEMMA FinishKeepsOrder ==
  ASSUME TypeInv, GrowInv, NEW g \in Importer, importer[g].at \in {"wait", "stat"},
         Forget(importer[g].path), importer' = [importer EXCEPT ![g] = Finished]
  PROVE  GrowInv'
<1>0. importer[g].path \in File /\ Finished.at = "done"
  BY DEF TypeInv, HasPath, Finished, Idle
<1>1. ClosedWasRegistered'
  BY <1>0 DEF Forget, GrowInv, RegisteredIsWaiting, ClosedWasRegistered, TypeInv, TypeOK
<1>2. ASSUME NEW e \in File, growing'[e] # None
      PROVE  /\ growing'[e] \notin closed'
             /\ importer'[growing'[e]].path = e
             /\ importer'[growing'[e]].at \in {"wait", "stat"}
  <2>1. e # importer[g].path /\ growing'[e] = growing[e]
    BY <1>0, <1>2 DEF Forget, TypeInv, TypeOK
  <2>2. /\ growing[e] \notin closed /\ importer[growing[e]].path = e
        /\ importer[growing[e]].at \in {"wait", "stat"}
    BY <1>2, <2>1 DEF GrowInv, RegisteredIsWaiting
  <2>3. growing[e] # g /\ growing[e] # growing[importer[g].path]
    BY <1>0, <1>2, <2>1, <2>2 DEF GrowInv, RegisteredIsWaiting
  <2>4. importer'[growing[e]] = importer[growing[e]]
    BY <1>2, <2>1, <2>3 DEF TypeInv, TypeOK
  <2> QED BY <2>1, <2>2, <2>3, <2>4 DEF Forget
<1> QED BY <1>1, <1>2 DEF GrowInv, RegisteredIsWaiting

\* A goroutine that goes on waiting, or has yet to register, disturbs nothing.
LEMMA WaitingKeepsOrder ==
  ASSUME TypeInv, GrowInv, NEW g \in Importer, NEW new \in ImporterStates,
         importer' = [importer EXCEPT ![g] = new], UNCHANGED <<growing, closed>>,
         \/ importer[g].at \in {"wait", "stat"} /\ new.at \in {"wait", "stat"}
            /\ new.path = importer[g].path
         \/ importer[g].at = "unborn"
  PROVE  GrowInv'
<1>1. \A h \in Importer : importer'[h] = IF h = g THEN new ELSE importer[h]
  BY DEF TypeInv, TypeOK
<1>2. ClosedWasRegistered'
  BY <1>1 DEF GrowInv, ClosedWasRegistered, TypeInv, TypeOK
<1>3. RegisteredIsWaiting'
  BY <1>1 DEF GrowInv, RegisteredIsWaiting, TypeInv, TypeOK
<1> QED BY <1>2, <1>3 DEF GrowInv

LEMMA RegisterKeepsOrder ==
  ASSUME TypeInv, GrowInv, NEW g \in Importer, Register(g)
  PROVE  GrowInv'
<1>0. importer[g].path \in File /\ importer[g] \in ImporterStates /\ g \notin closed
  BY DEF Register, TypeInv, TypeOK, HasPath, GrowInv, ClosedWasRegistered
<1> DEFINE new == [importer[g] EXCEPT !.at = "wait", !.running = TRUE]
<1>1. new.at = "wait" /\ new.path = importer[g].path
  BY <1>0 DEF ImporterStates
<1>2. \A h \in Importer : importer'[h] = IF h = g THEN new ELSE importer[h]
  BY DEF Register, TypeInv, TypeOK
<1>3. \A e \in File : growing'[e] = IF e = importer[g].path THEN g ELSE growing[e]
  BY <1>0 DEF Register, TypeInv, TypeOK
<1>4. closed' = closed
  BY DEF Register
<1> HIDE DEF new
<1>5. ClosedWasRegistered'
  BY <1>0, <1>2, <1>4 DEF GrowInv, ClosedWasRegistered, TypeInv, TypeOK
<1>6. ASSUME NEW e \in File, growing'[e] # None
      PROVE  /\ growing'[e] \notin closed'
             /\ importer'[growing'[e]].path = e
             /\ importer'[growing'[e]].at \in {"wait", "stat"}
  <2>1. CASE e = importer[g].path
    BY <1>0, <1>1, <1>2, <1>3, <1>4, <2>1
  <2>2. CASE e # importer[g].path
    <3>1. /\ growing'[e] = growing[e] /\ growing[e] \in Importer
          /\ growing[e] \notin closed /\ importer[growing[e]].path = e
          /\ importer[growing[e]].at \in {"wait", "stat"}
      BY <1>3, <1>6, <2>2 DEF GrowInv, RegisteredIsWaiting, TypeInv, TypeOK
    <3>2. growing[e] # g
      BY <3>1 DEF Register
    <3> QED BY <1>2, <1>4, <3>1, <3>2
  <2> QED BY <2>1, <2>2
<1> QED BY <1>5, <1>6 DEF GrowInv, RegisteredIsWaiting

LEMMA NextGrow == TypeInv /\ GrowInv /\ [Next]_vars => GrowInv'
<1> SUFFICES ASSUME TypeInv, GrowInv, [Next]_vars PROVE GrowInv'
  OBVIOUS
<1>1. CASE UNCHANGED growVars
  BY <1>1 DEF growVars, GrowInv, RegisteredIsWaiting, ClosedWasRegistered
<1>2. ASSUME NEW g \in Importer, AwaitFile(g) \/ ReceiveFromClosed(g) \/ Tick(g)
      PROVE  GrowInv'
  <2>0. importer[g] \in ImporterStates
    BY DEF TypeInv, TypeOK
  <2>1. CASE Register(g)
    BY <2>1, RegisterKeepsOrder
  <2>2. CASE StatFails(g) \/ Settle(g)
    BY <2>2, FinishKeepsOrder DEF StatFails, Settle
  <2>3. CASE ReceiveFromClosed(g)
    <3> DEFINE new == [importer[g] EXCEPT !.at = "stat", !.running = TRUE]
    <3>1. new \in ImporterStates /\ new.at = "stat" /\ new.path = importer[g].path
      BY <2>0 DEF ImporterStates
    <3>2. importer' = [importer EXCEPT ![g] = new] /\ UNCHANGED <<growing, closed>>
      BY <2>3 DEF ReceiveFromClosed, Updated
    <3>3. importer[g].at = "wait"
      BY <2>3 DEF ReceiveFromClosed
    <3> HIDE DEF new
    <3> QED BY <3>1, <3>2, <3>3, WaitingKeepsOrder
  <2>4. CASE StatAgain(g)
    <3> DEFINE new == [importer[g] EXCEPT !.at = "wait", !.node = disk[importer[g].path]]
    <3>1. disk[importer[g].path] \in Content
      BY <2>4 DEF StatAgain, TypeInv, TypeOK, HasPath
    <3>2. new \in ImporterStates /\ new.at = "wait" /\ new.path = importer[g].path
      BY <2>0, <3>1 DEF ImporterStates
    <3>3. importer' = [importer EXCEPT ![g] = new] /\ UNCHANGED <<growing, closed>>
      BY <2>4 DEF StatAgain
    <3>4. importer[g].at = "stat"
      BY <2>4 DEF StatAgain
    <3> HIDE DEF new
    <3> QED BY <3>2, <3>3, <3>4, WaitingKeepsOrder
  <2>5. CASE Tick(g)
    <3> DEFINE new == [importer[g] EXCEPT !.running = FALSE, !.tick = TRUE]
    <3>1. new \in ImporterStates /\ new.at = importer[g].at /\ new.path = importer[g].path
      BY <2>0 DEF ImporterStates
    <3>2. importer' = [importer EXCEPT ![g] = new] /\ UNCHANGED <<growing, closed>>
      BY <2>5 DEF Tick
    <3>3. importer[g].at \in {"wait", "stat"}
      BY <2>5 DEF Tick
    <3> HIDE DEF new
    <3> QED BY <3>1, <3>2, <3>3, WaitingKeepsOrder
  <2> QED BY <1>2, <2>1, <2>2, <2>3, <2>4, <2>5 DEF AwaitFile
<1>3. CASE StartWatcher
  <2>1. ASSUME NEW p \in Path, CreatedVanished(p) \/ RemovedUnknown(p) PROVE GrowInv'
    <3>1. importer' = importer
      BY <2>1 DEF CreatedVanished, RemovedUnknown
    <3>2. CASE p \in File
      BY <2>1, <3>1, <3>2, ForgetKeepsOrder DEF CreatedVanished, RemovedUnknown
    <3>3. CASE p \notin File
      BY <1>1, <2>1, <3>1, <3>3 DEF CreatedVanished, RemovedUnknown, growVars
    <3> QED BY <3>2, <3>3
  <2>2. ASSUME NEW f \in File, RemovedFile(f) PROVE GrowInv'
    BY <2>2, ForgetKeepsOrder DEF RemovedFile
  <2>3. ASSUME NEW f \in File, CreatedFile(f) PROVE GrowInv'
    <3> DEFINE new == [Idle EXCEPT !.at = "register", !.path = f, !.node = disk[f]]
    <3>1. new \in ImporterStates
      BY DEF Idle, ImporterStates, TypeInv, TypeOK
    <3>2. PICK g \in Importer : /\ importer[g].at = "unborn"
                                /\ importer' = [importer EXCEPT ![g] = new]
      BY <2>3 DEF CreatedFile
    <3>3. UNCHANGED <<growing, closed>>
      BY <2>3 DEF CreatedFile
    <3> HIDE DEF new
    <3> QED BY <3>1, <3>2, <3>3, WaitingKeepsOrder
  <2>4. CASE SendUpdate
    <3> DEFINE new == [importer[sendTo] EXCEPT !.at = "stat", !.running = TRUE]
    <3>1. sendTo \in Importer /\ importer[sendTo] \in ImporterStates
      BY <2>4 DEF SendUpdate, SendStep, TypeInv, TypeOK, HasPath
    <3>2. new \in ImporterStates /\ new.at = "stat" /\ new.path = importer[sendTo].path
      BY <3>1 DEF ImporterStates
    <3>3. /\ importer' = [importer EXCEPT ![sendTo] = new]
          /\ UNCHANGED <<growing, closed>> /\ importer[sendTo].at = "wait"
      BY <2>4 DEF SendUpdate, SendStep, Updated
    <3> HIDE DEF new
    <3> QED BY <3>1, <3>2, <3>3, WaitingKeepsOrder
  <2>5. CASE CreatedDir \/ DirWalked \/ MissingRemoved \/ SendPanics
    BY <1>1, <2>5 DEF CreatedDir, DirWalked, MissingRemoved, SendPanics, SendStep, growVars
  <2>6. ASSUME NEW f \in File, Written(f) PROVE GrowInv'
    BY <1>1, <2>6 DEF Written
  <2> QED BY <1>3, <2>1, <2>2, <2>3, <2>4, <2>5, <2>6 DEF StartWatcher
<1>4. CASE ChangeDisk
  BY <1>1, <1>4 DEF ChangeDisk, CreateFile, WriteFile, DeleteFile, MakeDir, MoveDir, Change
<1>5. ASSUME NEW j \in Probe, ProbePool(j) PROVE GrowInv'
  BY <1>1, <1>5 DEF ProbePool, ProbeFile, ProbeFails, StoreFile, IdentifyFile, NoMatch, ProcessPanics,
     ProbeStep
<1>6. ASSUME NEW w \in Walker, RecursiveProbe(w) PROVE GrowInv'
  BY <1>1, <1>6 DEF RecursiveProbe, VisitFile, ReadDirNames, AddWatcher, VisitVanished, WalkStep
<1>7. ASSUME NEW w \in Walker, RemoveMissingFiles(w) PROVE GrowInv'
  BY <1>1, <1>7 DEF RemoveMissingFiles, RemoveMissingFile
<1>8. ASSUME NEW r \in Refresh, StartRefresh(r) \/ ContinueRefresh(r) PROVE GrowInv'
  BY <1>1, <1>8 DEF StartRefresh, ContinueRefresh, RefreshAll, RescanPath, RescanUnhealthy,
     MissingChecked, Rescan, Rescanned, Refreshed, RefreshStep, IdentifyUnidentified
<1>9. ASSUME NEW d \in Deletion, Delete(d) \/ ContinueDeletion(d) PROVE GrowInv'
  BY <1>1, <1>9 DEF Delete, ContinueDeletion, StopWatcher, ClosePool, FindFiles,
     DeleteWithStreams, DeleteLibraryByID, DeletionStep
<1>10. CASE UNCHANGED vars
  BY <1>1, <1>10 DEF vars
<1>11. ASSUME NEW c \in Copy, WorkOnMovie(c) PROVE GrowInv'
  BY <1>1, <1>11 DEF WorkOnMovie, CollectMovieInfo, SaveMovie, CopyStep
<1>12. CASE Restart
  BY <1>12 DEF Restart, GrowInv, RegisteredIsWaiting, ClosedWasRegistered
<1> QED BY <1>2, <1>3, <1>4, <1>5, <1>6, <1>7, <1>8, <1>9, <1>10, <1>11, <1>12 DEF Next

\* Whoever closes a channel takes it out of the map, so that a write event
\* always looks up a goroutine that waits for that file.
THEOREM RegisteredIsWaitingAlways == Spec => []RegisteredIsWaiting
<1>1. Init => GrowInv
  BY DEF Init, GrowInv, RegisteredIsWaiting, ClosedWasRegistered
<1>2. TypeInv /\ GrowInv /\ [Next]_vars => GrowInv'
  BY NextGrow
<1>3. GrowInv => RegisteredIsWaiting
  BY DEF GrowInv
<1> QED BY <1>1, <1>2, <1>3, TypeInvAlways, PTL DEF Spec

(***************************************************************************)
(* Deletion                                                                *)
(***************************************************************************)

\* Once a deletion looks for files the pool is closed and idle; what it has not
\* yet deleted is on its list, or has been stored again.
DeletionInv ==
  /\ \A d \in Deletion : deletion[d].at \in {"find", "files", "done"} => ~poolOpen
  /\ ~poolOpen => \A j \in Probe : ~Running(j)
  /\ \A d \in Deletion : deletion[d].at = "files" => rows \subseteq deletion[d].files \cup restored
  /\ \A d \in Deletion : deletion[d].at = "done" => rows \subseteq restored

\* A new job waits for the pool.
LEMMA AddedIsNotRunning ==
  ASSUME TypeInv, NEW f \in File, CheckAndAddProbeJob(f) \/ UNCHANGED probe
  PROVE  \A j \in Probe : Running(j)' => Running(j)
<1>1. CASE UNCHANGED probe
  BY <1>1 DEF Running
<1>2. CASE \E j \in Probe : probe' = [probe EXCEPT ![j] = [at |-> "queued", path |-> f]]
  BY <1>2 DEF Running, TypeInv, TypeOK
<1> QED BY <1>1, <1>2 DEF CheckAndAddProbeJob

\* The steps that store nothing and take no part in a deletion.
LEMMA DeletionFrame ==
  ASSUME DeletionInv, rows' \subseteq rows, UNCHANGED <<deletion, poolOpen, restored>>,
         \A j \in Probe : Running(j)' => Running(j)
  PROVE  DeletionInv'
  BY DEF DeletionInv

LEMMA DeletionKeepsOrder ==
  ASSUME TypeInv, DeletionInv, NEW d \in Deletion, Delete(d) \/ ContinueDeletion(d)
  PROVE  DeletionInv'
<1> DEFINE To(new) == deletion' = [deletion EXCEPT ![d] = new]
<1>0. deletion \in [Deletion -> DeletionStates]
  BY DEF TypeInv, TypeOK
<1>1. probe' = probe /\ restored' = restored
  BY DEF Delete, ContinueDeletion, StopWatcher, ClosePool, FindFiles, DeleteWithStreams,
         DeleteLibraryByID, DeletionStep, historyVars
<1>2. \A j \in Probe : Running(j)' <=> Running(j)
  BY <1>1 DEF Running
<1>3. CASE Delete(d) \/ StopWatcher(d)
  <2>1. /\ \A e \in Deletion : /\ e # d => deletion'[e] = deletion[e]
                               /\ e = d => deletion'[e].at \in {"exit", "pool"}
        /\ UNCHANGED <<rows, poolOpen>>
    BY <1>0, <1>3 DEF Delete, StopWatcher, DeletionStates
  <2> QED BY <1>1, <1>2, <2>1 DEF DeletionInv
<1>4. CASE ClosePool(d)
  <2>1. /\ \A e \in Deletion : /\ e # d => deletion'[e] = deletion[e]
                               /\ e = d => deletion'[e].at = "find"
        /\ rows' = rows /\ ~poolOpen'
        /\ \A j \in Probe : ~Running(j)
    BY <1>0, <1>4 DEF ClosePool, DeletionStates
  <2> QED BY <1>1, <1>2, <2>1 DEF DeletionInv
<1>5. CASE FindFiles(d)
  <2>1. /\ deletion[d].at = "find"
        /\ \A e \in Deletion : /\ e # d => deletion'[e] = deletion[e]
                               /\ e = d => deletion'[e] = [at |-> "files", files |-> rows]
        /\ UNCHANGED <<rows, poolOpen>>
    BY <1>0, <1>5 DEF FindFiles
  <2> QED BY <1>1, <1>2, <2>1 DEF DeletionInv
<1>6. ASSUME NEW j \in Probe, DeleteWithStreams(d, j) PROVE DeletionInv'
  <2>1. /\ deletion[d].at = "files"
        /\ \A e \in Deletion : /\ e # d => deletion'[e] = deletion[e]
                               /\ e = d => /\ deletion'[e].at = "files"
                                           /\ deletion'[e].files = deletion[d].files \ {j}
        /\ rows' = rows \ {j} /\ poolOpen' = poolOpen
    BY <1>0, <1>6 DEF DeleteWithStreams, DeletionStates
  <2> QED BY <1>1, <1>2, <2>1 DEF DeletionInv
<1>7. CASE DeleteLibraryByID(d)
  <2>1. /\ deletion[d].at = "files" /\ deletion[d].files = {}
        /\ \A e \in Deletion : /\ e # d => deletion'[e] = deletion[e]
                               /\ e = d => deletion'[e].at = "done"
        /\ UNCHANGED <<rows, poolOpen>>
    BY <1>0, <1>7 DEF DeleteLibraryByID, DeletionStates
  <2> QED BY <1>1, <1>2, <2>1 DEF DeletionInv
<1> QED BY <1>3, <1>4, <1>5, <1>6, <1>7 DEF ContinueDeletion

LEMMA NextDeletion == TypeInv /\ DeletionInv /\ [Next]_vars => DeletionInv'
<1> SUFFICES ASSUME TypeInv, DeletionInv, [Next]_vars PROVE DeletionInv'
  OBVIOUS
<1> USE DEF poolVars, historyVars, dbVars
<1>1. CASE UNCHANGED <<rows, deletion, poolOpen, restored, probe>>
  BY <1>1, DeletionFrame DEF Running
<1>2. CASE ChangeDisk
  BY <1>1, <1>2 DEF ChangeDisk, CreateFile, WriteFile, DeleteFile, MakeDir, MoveDir, Change
<1>3. CASE StartWatcher
  <2>1. rows' \subseteq rows /\ UNCHANGED <<deletion, poolOpen, restored, probe>>
    BY <1>3 DEF StartWatcher, CreatedVanished, RemovedUnknown, CreatedDir, DirWalked,
       MissingRemoved, SendUpdate, SendPanics, SendStep, CreatedFile, Written, RemovedFile, Watch
  <2> QED BY <2>1, DeletionFrame DEF Running
<1>4. ASSUME NEW g \in Importer, AwaitFile(g) \/ ReceiveFromClosed(g) \/ Tick(g)
      PROVE  DeletionInv'
  <2>1. UNCHANGED <<rows, deletion, poolOpen, restored>>
    BY <1>4 DEF AwaitFile, Register, StatAgain, StatFails, Settle, ReceiveFromClosed, Tick,
       ImporterStep
  <2>2. importer[g].path \in File
    BY <1>4 DEF AwaitFile, Register, StatAgain, StatFails, Settle, ReceiveFromClosed, Tick,
       TypeInv, HasPath
  <2>3. CheckAndAddProbeJob(importer[g].path) \/ UNCHANGED probe
    BY <1>4 DEF AwaitFile, Register, StatAgain, StatFails, Settle, ReceiveFromClosed, Tick
  <2> QED BY <2>1, <2>2, <2>3, AddedIsNotRunning, DeletionFrame
<1>5. ASSUME NEW j \in Probe, ProbePool(j) PROVE DeletionInv'
  <2>1. UNCHANGED <<deletion, restored, poolOpen>>
    BY <1>5 DEF ProbePool, ProbeFile, ProbeFails, StoreFile, IdentifyFile, NoMatch, ProcessPanics,
     ProbeStep
  <2>2. CASE ProbeFile(j) \/ ProbeFails(j)
    BY <2>1, <2>2 DEF ProbeFile, ProbeFails, Taken, DeletionInv
  <2>3. CASE StoreFile(j) \/ IdentifyFile(j) \/ NoMatch(j)
    <3>1. Running(j)
      BY <2>3 DEF StoreFile, IdentifyFile, NoMatch, Running
    <3> QED BY <2>1, <3>1 DEF DeletionInv
  <2>4. CASE ProcessPanics(j)
    <3>1. rows' = rows /\ probe' = [probe EXCEPT ![j] = NoProbe]
      BY <2>4 DEF ProcessPanics, ProbeStep
    <3>2. \A k \in Probe : Running(k)' => Running(k)
      BY <3>1 DEF Running, NoProbe, TypeInv, TypeOK
    <3> QED BY <2>1, <3>1, <3>2, DeletionFrame
  <2> QED BY <1>5, <2>2, <2>3, <2>4 DEF ProbePool
<1>6. ASSUME NEW w \in Walker, RecursiveProbe(w) PROVE DeletionInv'
  <2>1. UNCHANGED <<rows, deletion, poolOpen, restored>>
    BY <1>6 DEF RecursiveProbe, VisitFile, ReadDirNames, AddWatcher, VisitVanished, WalkStep
  <2>2. PICK p \in Path : (p \in File /\ CheckAndAddProbeJob(p)) \/ UNCHANGED probe
    BY <1>6 DEF RecursiveProbe, VisitFile, ReadDirNames, AddWatcher, VisitVanished, Path
  <2>3. \A j \in Probe : Running(j)' => Running(j)
    BY <2>2, AddedIsNotRunning DEF Running
  <2> QED BY <2>1, <2>3, DeletionFrame
<1>7. ASSUME NEW w \in Walker, RemoveMissingFiles(w) PROVE DeletionInv'
  <2>1. rows' \subseteq rows /\ UNCHANGED <<deletion, poolOpen, restored, probe>>
    BY <1>7 DEF RemoveMissingFiles, RemoveMissingFile
  <2> QED BY <2>1, DeletionFrame DEF Running
<1>8. ASSUME NEW r \in Refresh, StartRefresh(r) \/ ContinueRefresh(r) PROVE DeletionInv'
  <2>1. ASSUME NEW j \in Probe, NEW found \in BOOLEAN, IdentifyUnidentified(r, j, found)
        PROVE  DeletionInv'
    <3>1. /\ UNCHANGED <<deletion, poolOpen, probe>>
          /\ \/ UNCHANGED <<rows, restored>>
             \/ /\ rows' = rows \cup {j}
                /\ restored' = IF j \in rows THEN restored ELSE restored \cup {j}
      BY <2>1 DEF IdentifyUnidentified, SaveFile
    <3>2. \A k \in Probe : Running(k)' <=> Running(k)
      BY <3>1 DEF Running
    <3> QED BY <3>1, <3>2 DEF DeletionInv
  <2>2. CASE \/ StartRefresh(r) \/ MissingChecked(r) \/ Rescanned(r) \/ Refreshed(r)
    BY <1>1, <2>2 DEF StartRefresh, RefreshAll, RescanPath, RescanUnhealthy, MissingChecked,
       Rescan, Rescanned, Refreshed, RefreshStep
  <2> QED BY <1>8, <2>1, <2>2 DEF ContinueRefresh
<1>9. ASSUME NEW d \in Deletion, Delete(d) \/ ContinueDeletion(d) PROVE DeletionInv'
  BY <1>9, DeletionKeepsOrder
<1>10. CASE UNCHANGED vars
  BY <1>1, <1>10 DEF vars
<1>11. ASSUME NEW c \in Copy, WorkOnMovie(c) PROVE DeletionInv'
  <2>1. /\ UNCHANGED <<deletion, poolOpen, probe>>
        /\ \/ UNCHANGED <<rows, restored>>
           \/ /\ rows' = rows \cup copies[c]
              /\ restored' = restored \cup (copies[c] \ rows)
    BY <1>11 DEF WorkOnMovie, CollectMovieInfo, SaveMovie, CopyStep
  <2>2. \A k \in Probe : Running(k)' <=> Running(k)
    BY <2>1 DEF Running
  <2> QED BY <2>1, <2>2 DEF DeletionInv
<1>12. CASE Restart
  <2>1. /\ \A d \in Deletion : deletion'[d].at = "none"
        /\ poolOpen' /\ rows' = rows
    BY <1>12 DEF Restart
  <2> QED BY <2>1 DEF DeletionInv
<1> QED BY <1>2, <1>3, <1>4, <1>5, <1>6, <1>7, <1>8, <1>9, <1>10, <1>11, <1>12 DEF Next

\* Since the pool is closed, with its workers done, before the files are looked
\* for, only a scan that was under way, or somebody who works on a movie, can
\* store a file of a deleted library.
THEOREM DeletedFilesStayDeletedAlways == Spec => []DeletedFilesStayDeleted
<1>1. Init => DeletionInv
  BY DEF Init, DeletionInv
<1>2. TypeInv /\ DeletionInv /\ [Next]_vars => DeletionInv'
  BY NextDeletion
<1>3. DeletionInv => DeletedFilesStayDeleted
  BY DEF DeletionInv, DeletedFilesStayDeleted
<1> QED BY <1>1, <1>2, <1>3, TypeInvAlways, PTL DEF Spec

(***************************************************************************)
(* The database and the disk                                               *)
(***************************************************************************)

\* Steps that the disk, the events and the watcher's list do not notice, and that
\* add a row only if its file is there or its removal will be heard of.
LEMMA FollowFrame ==
  ASSUME RowsFollowDisk, UNCHANGED <<disk, events>>,
         \A j \in rows : probe'[j].path = probe[j].path,
         todo'["watcher"] = todo["watcher"], left \subseteq left',
         loop = "stopped" => loop' = "stopped", crashed => crashed',
         \A j \in rows' \ rows : Gone(probe'[j].path) => j \in left'
  PROVE  RowsFollowDisk'
<1>1. \A p : Gone(p)' <=> Gone(p)
  BY DEF Gone, RemovalPending
<1> QED BY <1>1 DEF RowsFollowDisk

\* What the watcher has not got to stays so when an event is added.
LEMMA PendingStays ==
  ASSUME TypeInv, NEW op \in {"Create", "Write", "Remove"}, NEW p \in Path, Report(op, p)
  PROVE  /\ \A f \in File : RemovalPending(f) => RemovalPending(f)'
         /\ op = "Remove" /\ Observed(p) =>
              \A f \in File : p = f \/ (f \in Inside /\ p = Dir) => RemovalPending(f)'
<1>0. events \in Seq(Event) /\ [op |-> op, path |-> p] \in Event
  BY DEF TypeInv, TypeOK, Event
<1>1. CASE Observed(p)
  <2>1. events' = Append(events, [op |-> op, path |-> p])
    BY <1>1 DEF Report
  <2>2. /\ \A i \in DOMAIN events : i \in DOMAIN events' /\ events'[i] = events[i]
        /\ Len(events) + 1 \in DOMAIN events'
        /\ events'[Len(events) + 1] = [op |-> op, path |-> p]
    BY <1>0, <2>1
  <2> QED BY <2>2 DEF RemovalPending
<1>2. CASE ~Observed(p)
  BY <1>2 DEF Report, RemovalPending
<1> QED BY <1>1, <1>2

LEMMA ChangeFollows ==
  ASSUME TypeInv, ListInv, RowsFollowDisk, ChangeDisk
  PROVE  RowsFollowDisk'
<1> USE DEF Change, poolVars, dbVars, loopVars
<1>1. UNCHANGED <<probe, rows, todo, loop, crashed>>
  BY DEF ChangeDisk, CreateFile, WriteFile, DeleteFile, MakeDir, MoveDir
<1>2. rows \subseteq Probe /\ \A j \in rows : probe[j].path \in File
  BY DEF TypeInv, TypeOK, HasPath, ListInv, StoredIn
<1>3. disk \in [File -> Content] /\ Path = File \cup {Dir}
  BY DEF TypeInv, TypeOK, Path
  \* It is enough that nothing is newly gone without being noted.
<1>4. ASSUME left \subseteq left',
             \A f \in File : Gone(f)' => Gone(f) \/ loop = "stopped" \/ RowsOf({f}) \subseteq left'
      PROVE  RowsFollowDisk'
  BY <1>1, <1>2, <1>4 DEF RowsFollowDisk, RowsOf
<1>5. ASSUME NEW f \in File, NEW c \in {"small", "large"}, CreateFile(f, c) PROVE RowsFollowDisk'
  <2>1. \A e \in File : RemovalPending(e) => RemovalPending(e)'
    BY <1>3, <1>5, PendingStays DEF CreateFile
  <2>2. \A e \in File : disk'[e] = "absent" => disk[e] = "absent"
    BY <1>3, <1>5 DEF CreateFile
  <2>3. left' = left
    BY <1>5 DEF CreateFile
  <2> QED BY <1>4, <2>1, <2>2, <2>3 DEF Gone
<1>6. ASSUME NEW f \in File, WriteFile(f) PROVE RowsFollowDisk'
  <2>1. \A e \in File : RemovalPending(e) => RemovalPending(e)'
    BY <1>3, <1>6, PendingStays DEF WriteFile
  <2>2. \A e \in File : disk'[e] = "absent" => disk[e] = "absent"
    BY <1>3, <1>6 DEF WriteFile
  <2>3. left' = left
    BY <1>6 DEF WriteFile
  <2> QED BY <1>4, <2>1, <2>2, <2>3 DEF Gone
<1>7. ASSUME NEW f \in File, DeleteFile(f) PROVE RowsFollowDisk'
  <2>1. /\ \A e \in File : RemovalPending(e) => RemovalPending(e)'
        /\ Observed(f) => RemovalPending(f)'
    BY <1>3, <1>7, PendingStays DEF DeleteFile
  <2>2. \A e \in File : disk'[e] = "absent" => disk[e] = "absent" \/ e = f
    BY <1>3, <1>7 DEF DeleteFile
  <2>3. left' = IF Observed(f) THEN left ELSE left \cup RowsOf({f})
    BY <1>7 DEF DeleteFile
  <2> QED BY <1>4, <2>1, <2>2, <2>3 DEF Gone
<1>8. CASE MakeDir
  <2>1. \A e \in File : RemovalPending(e) => RemovalPending(e)'
    BY <1>3, <1>8, PendingStays DEF MakeDir
  <2> QED BY <1>4, <1>8, <2>1 DEF Gone, MakeDir
<1>9. CASE MoveDir
  <2>1. /\ \A e \in File : RemovalPending(e) => RemovalPending(e)'
        /\ Observed(Dir) => \A e \in Inside : RemovalPending(e)'
    BY <1>3, <1>9, PendingStays DEF MoveDir
  <2>2. \A e \in File : disk'[e] = "absent" => disk[e] = "absent" \/ e \in Inside
    BY <1>3, <1>9 DEF MoveDir
  <2>3. left' = IF Observed(Dir) THEN left ELSE left \cup RowsOf(Inside)
    BY <1>9 DEF MoveDir
  <2>4. \A e \in Inside : RowsOf({e}) \subseteq RowsOf(Inside)
    BY DEF RowsOf
  <2> QED BY <1>4, <2>1, <2>2, <2>3, <2>4 DEF Gone
<1> QED BY <1>5, <1>6, <1>7, <1>8, <1>9 DEF ChangeDisk

\* Handling an event: all others are still to come.
LEMMA TailKeepsOthers ==
  ASSUME TypeInv, NEW op, NEW p, Watch(op, p)
  PROVE  \A f \in File : RemovalPending(f) =>
           RemovalPending(f)' \/ (op = "Remove" /\ (p = f \/ (f \in Inside /\ p = Dir)))
<1>1. events \in Seq(Event) /\ events # <<>> /\ events' = Tail(events)
  BY DEF Watch, TypeInv, TypeOK
<1> SUFFICES ASSUME NEW f \in File, RemovalPending(f)
             PROVE  RemovalPending(f)' \/ (op = "Remove" /\ (p = f \/ (f \in Inside /\ p = Dir)))
  OBVIOUS
<1> PICK i \in DOMAIN events :
      /\ events[i].op = "Remove"
      /\ events[i].path = f \/ (f \in Inside /\ events[i].path = Dir)
  BY DEF RemovalPending
<1>2. CASE i = 1
  <2>1. events[i] = [op |-> op, path |-> p]
    BY <1>1, <1>2 DEF Watch
  <2> QED BY <2>1
<1>3. CASE i # 1
  <2>1. i - 1 \in DOMAIN events' /\ events'[i - 1] = events[i]
    BY <1>1, <1>3
  <2> QED BY <2>1 DEF RemovalPending
<1> QED BY <1>2, <1>3

LEMMA WatcherFollows ==
  ASSUME TypeInv, ListInv, RowsFollowDisk, StartWatcher
  PROVE  RowsFollowDisk'
<1> USE DEF poolVars, dbVars, loopVars, diskVars
<1>0. /\ rows \subseteq Probe /\ \A j \in rows : probe[j].path \in File
      /\ todo \in [Walker -> SUBSET Probe] /\ "watcher" \in Walker
  BY DEF TypeInv, TypeOK, HasPath, ListInv, StoredIn, Walker
  \* An event other than a removal loses nothing.
<1>1. ASSUME NEW op \in {"Create", "Write"}, NEW p, Watch(op, p),
             UNCHANGED <<rows, todo, left, crashed>>
      PROVE  RowsFollowDisk'
  <2>1. \A f \in File : RemovalPending(f) => RemovalPending(f)'
    BY <1>1, TailKeepsOthers
  <2>2. loop # "stopped" /\ disk' = disk /\ probe' = probe
    BY <1>1 DEF Watch
  <2> QED BY <1>0, <1>1, <2>1, <2>2 DEF RowsFollowDisk, Gone
<1>2. ASSUME NEW p \in Path, CreatedVanished(p) PROVE RowsFollowDisk'
  BY <1>1, <1>2 DEF CreatedVanished
<1>3. CASE CreatedDir
  BY <1>1, <1>3 DEF CreatedDir
<1>4. ASSUME NEW f \in File, CreatedFile(f) \/ Written(f) PROVE RowsFollowDisk'
  BY <1>1, <1>4 DEF CreatedFile, Written
<1>5. CASE DirWalked \/ MissingRemoved \/ SendUpdate \/ SendPanics
  <2>1. /\ UNCHANGED <<disk, events, probe, rows, todo, left>>
        /\ loop # "stopped" /\ (crashed => crashed')
    BY <1>5 DEF DirWalked, MissingRemoved, SendUpdate, SendPanics, SendStep, historyVars
  <2> QED BY <2>1, FollowFrame
<1>6. ASSUME NEW f \in File, RemovedFile(f) PROVE RowsFollowDisk'
  <2>1. /\ Watch("Remove", f) /\ loop # "stopped"
        /\ UNCHANGED <<disk, probe, todo, crashed>>
    BY <1>6 DEF RemovedFile, Watch
  <2>2. PICK j \in RowsOf({f}) : /\ rows' = rows \ {j}
                                 /\ left' = left \cup (RowsOf({f}) \ {j})
    BY <1>6 DEF RemovedFile
  <2>3. \A e \in File : RemovalPending(e) => RemovalPending(e)' \/ e = f
    BY <2>1, TailKeepsOthers
  <2>4. \A k \in rows' : k \in rows /\ (probe[k].path = f => k \in left')
    BY <2>2 DEF RowsOf
  <2> QED BY <1>0, <2>1, <2>2, <2>3, <2>4 DEF RowsFollowDisk, Gone
<1>7. ASSUME NEW p \in Path, RemovedUnknown(p) PROVE RowsFollowDisk'
  <2>1. /\ Watch("Remove", p) /\ loop = "select"
        /\ UNCHANGED <<disk, probe, rows, left, crashed>>
        /\ RowsOf({p}) = {}
    BY <1>7 DEF RemovedUnknown, Watch
  <2>2. todo'["watcher"] = RowsOf(Under(p)) /\ todo["watcher"] = {}
    BY <1>0, <1>7, <2>1 DEF RemovedUnknown, ListInv
  <2>3. \A f \in File : RemovalPending(f) =>
          RemovalPending(f)' \/ p = f \/ (f \in Inside /\ p = Dir)
    BY <2>1, TailKeepsOthers
  <2>4. \A k \in rows : probe[k].path # p /\ (p = Dir /\ probe[k].path \in Inside => k \in RowsOf(Under(p)))
    BY <2>1 DEF RowsOf, Under
  <2> QED BY <1>0, <2>1, <2>2, <2>3, <2>4 DEF RowsFollowDisk, Gone
<1> QED BY <1>2, <1>3, <1>4, <1>5, <1>6, <1>7 DEF StartWatcher

LEMMA NextFollows == TypeInv /\ ListInv /\ RowsFollowDisk /\ [Next]_vars => RowsFollowDisk'
<1>13. CASE Restart
  BY <1>13 DEF Restart, RowsFollowDisk, dbVars
<1> SUFFICES ASSUME TypeInv, ListInv, RowsFollowDisk, [Next]_vars, ~Restart PROVE RowsFollowDisk'
  BY <1>13
<1> USE DEF poolVars, dbVars, loopVars, diskVars, historyVars
<1>0. /\ todo \in [Walker -> SUBSET Probe] /\ rows \subseteq Probe
      /\ "watcher" \in Walker /\ "watcher" \notin Refresh
      /\ \A j \in rows : StoredIn(j)
      /\ \A w \in Walker : \A j \in todo[w] : StoredIn(j)
  BY DEF TypeInv, TypeOK, Walker, AllRefreshes, ListInv
<1>1. \A j \in Probe : StoredIn(j) => probe'[j].path = probe[j].path
  BY StoredStays
<1>2. ASSUME UNCHANGED <<disk, events, left>>, rows' \subseteq rows,
             todo'["watcher"] = todo["watcher"],
             loop = "stopped" => loop' = "stopped", crashed => crashed'
      PROVE  RowsFollowDisk'
  BY <1>0, <1>1, <1>2, FollowFrame
<1>3. CASE ChangeDisk
  BY <1>3, ChangeFollows
<1>4. CASE StartWatcher
  BY <1>4, WatcherFollows
<1>5. ASSUME NEW g \in Importer, AwaitFile(g) \/ ReceiveFromClosed(g) \/ Tick(g)
      PROVE  RowsFollowDisk'
  BY <1>2, <1>5 DEF AwaitFile, Register, StatAgain, StatFails, Settle, ReceiveFromClosed, Tick,
     ImporterStep
<1>6. ASSUME NEW j \in Probe, ProbePool(j) PROVE RowsFollowDisk'
  <2>1. CASE StoreFile(j) \/ IdentifyFile(j)
    <3>1. /\ UNCHANGED <<disk, events, todo, loop, crashed>>
          /\ rows' = rows \cup {j}
          /\ left' = IF Gone(probe[j].path) THEN left \cup {j} ELSE left
      BY <2>1 DEF StoreFile, IdentifyFile, SaveFile, ProbeStep
    <3>2. probe'[j].path = probe[j].path
      <4>1. PICK to \in {"stored", "done"} : probe' = [probe EXCEPT ![j] = [probe[j] EXCEPT !.at = to]]
        BY <2>1 DEF StoreFile, IdentifyFile, ProbeStep
      <4>2. [probe[j] EXCEPT !.at = to].path = probe[j].path
        BY DEF TypeInv, TypeOK, ProbeStates
      <4>3. probe'[j] = [probe[j] EXCEPT !.at = to]
        BY <4>1 DEF TypeInv, TypeOK
      <4> QED BY <4>2, <4>3
    <3> QED BY <1>0, <1>1, <3>1, <3>2, FollowFrame
  <2>2. CASE ProbeFile(j) \/ ProbeFails(j) \/ NoMatch(j) \/ ProcessPanics(j)
    BY <1>2, <2>2 DEF ProbeFile, ProbeFails, NoMatch, ProcessPanics, ProbeStep
  <2> QED BY <1>6, <2>1, <2>2 DEF ProbePool
<1>7. ASSUME NEW w \in Walker, RecursiveProbe(w) PROVE RowsFollowDisk'
  BY <1>2, <1>7 DEF RecursiveProbe, VisitFile, ReadDirNames, AddWatcher, VisitVanished, WalkStep
<1>8. ASSUME NEW w \in Walker, RemoveMissingFiles(w) PROVE RowsFollowDisk'
  <2>1. PICK j \in Probe : RemoveMissingFile(w, j)
    BY <1>8 DEF RemoveMissingFiles
  <2>2. /\ UNCHANGED <<disk, events, probe, loop, crashed>>
        /\ left' = left \ {j}
        /\ rows' = IF Exists(probe[j].path) THEN rows ELSE rows \ {j}
        /\ \A v \in Walker : todo[v] \ {j} \subseteq todo'[v]
    BY <1>0, <2>1 DEF RemoveMissingFile
  <2>3. j \in rows' => probe[j].path \in File
    BY <1>0, <2>2 DEF TypeInv, HasPath, StoredIn
  <2>4. j \in rows' => ~Gone(probe[j].path)
    BY <2>2, <2>3 DEF Exists, Gone, Path
  <2>5. \A p : Gone(p)' <=> Gone(p)
    BY <2>2 DEF Gone, RemovalPending
  <2> QED BY <1>0, <2>2, <2>4, <2>5 DEF RowsFollowDisk
<1>9. ASSUME NEW r \in Refresh, StartRefresh(r) \/ ContinueRefresh(r) PROVE RowsFollowDisk'
  <2>0. r # "watcher" /\ r \in Walker
    BY <1>0 DEF Walker
  <2>1. ASSUME NEW j \in Probe, NEW found \in BOOLEAN, IdentifyUnidentified(r, j, found)
        PROVE  RowsFollowDisk'
    <3>1. /\ UNCHANGED <<disk, events, probe, loop, crashed>>
          /\ todo'["watcher"] = todo["watcher"]
          /\ left \subseteq left'
          /\ \A k \in rows' \ rows : Gone(probe[k].path) => k \in left'
      BY <1>0, <2>0, <2>1 DEF IdentifyUnidentified, SaveFile
    <3> QED BY <3>1, FollowFrame
  <2>2. CASE StartRefresh(r) \/ MissingChecked(r) \/ Rescanned(r) \/ Refreshed(r)
    <3>1. UNCHANGED <<disk, events, left, rows, loop, crashed>>
      BY <2>2 DEF StartRefresh, RefreshAll, RescanPath, RescanUnhealthy, MissingChecked,
         Rescan, Rescanned, Refreshed, RefreshStep
    <3>2. todo'["watcher"] = todo["watcher"]
      BY <1>0, <2>0, <2>2 DEF StartRefresh, RefreshAll, RescanPath, RescanUnhealthy, MissingChecked,
         Rescan, Rescanned, Refreshed
    <3> QED BY <1>2, <3>1, <3>2
  <2> QED BY <1>9, <2>1, <2>2 DEF ContinueRefresh
<1>10. ASSUME NEW d \in Deletion, Delete(d) \/ ContinueDeletion(d) PROVE RowsFollowDisk'
  BY <1>2, <1>10 DEF Delete, ContinueDeletion, StopWatcher, ClosePool, FindFiles,
     DeleteWithStreams, DeleteLibraryByID, DeletionStep
<1>11. CASE UNCHANGED vars
  BY <1>2, <1>11 DEF vars
<1>12. ASSUME NEW c \in Copy, WorkOnMovie(c) PROVE RowsFollowDisk'
  <2>1. CASE \E files : CollectMovieInfo(c, files)
    BY <1>2, <2>1 DEF CollectMovieInfo, CopyStep
  <2>2. ASSUME NEW again, SaveMovie(c, again) PROVE RowsFollowDisk'
    <3>1. /\ UNCHANGED <<disk, events, probe, todo, loop, crashed>>
          /\ left' = left \cup {j \in copies[c] : Gone(probe[j].path)}
          /\ rows' = rows \cup copies[c]
      BY <2>2 DEF SaveMovie, CopyStep
    <3> QED BY <3>1, FollowFrame
  <2> QED BY <1>12, <2>1, <2>2 DEF WorkOnMovie
<1> QED BY <1>3, <1>4, <1>5, <1>6, <1>7, <1>8, <1>9, <1>10, <1>11, <1>12 DEF Next

\* While the watcher runs, a row whose file is gone is one it has yet to look at,
\* or will hear of, or one of the rows listed as left: stored too late, second of
\* its path, in a directory that was not watched, or not yet checked by the scan
\* that follows a restart.
THEOREM RowsFollowDiskAlways == Spec => []RowsFollowDisk
<1>1. Init => RowsFollowDisk
  BY DEF Init, RowsFollowDisk
<1>2. TypeInv /\ ListInv /\ RowsFollowDisk /\ [Next]_vars => RowsFollowDisk'
  BY NextFollows
<1> QED BY <1>1, <1>2, TypeInvAlways, PTL DEF Spec

(***************************************************************************)
(* Files that settle                                                       *)
(***************************************************************************)

\* What is in the subdirectory goes with it.
UnderDir == \A f \in Inside : disk[f] # "absent" => dirExists

\* A deletion, and the pool, are past the end of the watcher.
StoppedInv ==
  /\ \A d \in Deletion : deletion[d].at \in {"pool", "find", "files", "done"} => loop = "stopped"
  /\ ~poolOpen => loop = "stopped"

\* The root is walked first and alone, and nobody walks who is not in RecursiveProbe.
WalkInv ==
  /\ \A w \in Walker : /\ walk[w].at # "watch" => walk[w].names = {}
                       /\ walk[w].at = "off" => walk[w].visit = {}
                       /\ Root \in walk[w].visit => walk[w].visit = {Root}
  /\ loop # "walk" => walk["watcher"].at = "off"
  /\ \A r \in Refresh : refresh[r].at # "walk" => walk[r].at = "off"

\* A removal of the subdirectory comes before the creation of what is there now.
DirEventsInv ==
  loop # "stopped" =>
    \A i \in DOMAIN events : events[i] = [op |-> "Remove", path |-> Dir] =>
      /\ Root \in watched
      /\ dirExists => \E k \in DOMAIN events : k > i /\ events[k] = [op |-> "Create", path |-> Dir]

WatchesDir(w) == walk[w].at = "watch" /\ Dir \in walk[w].visit

\* A directory that is not watched will be walked.
WatchedInv ==
  ~WatcherEnds =>
    /\ Root \notin watched => ToBeScanned
    /\ dirExists /\ Dir \notin watched =>
         \/ ToBeScanned \/ Pending("Create", Dir)
         \/ \E w \in Walker : Awaits(w, Root) \/ Awaits(w, Dir) \/ WatchesDir(w)

SettleInv == UnderDir /\ StoppedInv /\ WalkInv /\ DirEventsInv /\ WatchedInv

Held(f) == RowsOf({f}) # {} \/ Expected(f) \/ f \in unheeded \/ WatcherEnds

\* What a step does not touch.
LEMMA Untouched ==
  /\ refresh' = refresh => (ToBeScanned' <=> ToBeScanned)
  /\ walk' = walk => \A f \in File : WillBeVisited(f)' <=> WillBeVisited(f)
  /\ events' = events => \A f \in File : /\ CreationPending(f)' <=> CreationPending(f)
                                         /\ Pending("Write", f)' <=> Pending("Write", f)
  /\ UNCHANGED <<loop, sendTo, importer>> => \A f \in File : BeingSent(f)' <=> BeingSent(f)
  /\ importer' = importer => \A f \in File : HasImporter(f)' <=> HasImporter(f)
  /\ probe' = probe => \A f \in File : HasProbe(f)' <=> HasProbe(f)
  /\ probe' = probe /\ rows \subseteq rows' =>
       \A f \in File : RowsOf({f}) # {} => RowsOf({f})' # {}
  /\ UNCHANGED <<loop, sendTo, importer, crashed>> => (WatcherEnds' <=> WatcherEnds)
<1>1. refresh' = refresh => (ToBeScanned' <=> ToBeScanned)
  BY DEF ToBeScanned
<1>2. walk' = walk => \A f \in File : WillBeVisited(f)' <=> WillBeVisited(f)
  BY DEF WillBeVisited, Awaits, Walking
<1>3. events' = events => \A f \in File : /\ CreationPending(f)' <=> CreationPending(f)
                                          /\ Pending("Write", f)' <=> Pending("Write", f)
  BY DEF CreationPending, Pending
<1>4. importer' = importer => \A f \in File : HasImporter(f)' <=> HasImporter(f)
  BY DEF HasImporter
<1>5. UNCHANGED <<loop, sendTo, importer>> => \A f \in File : BeingSent(f)' <=> BeingSent(f)
  BY DEF BeingSent
<1>6. probe' = probe => \A f \in File : HasProbe(f)' <=> HasProbe(f)
  BY DEF HasProbe
<1>7. probe' = probe /\ rows \subseteq rows' =>
        \A f \in File : RowsOf({f}) # {} => RowsOf({f})' # {}
  BY DEF RowsOf
<1>8. UNCHANGED <<loop, sendTo, importer, crashed>> => (WatcherEnds' <=> WatcherEnds)
  BY DEF WatcherEnds
<1> QED BY <1>1, <1>2, <1>3, <1>4, <1>5, <1>6, <1>7, <1>8

\* Whatever happens to the watcher is for good.
LEMMA EndsStays ==
  ASSUME TypeInv, [Next]_vars, ~Restart, WatcherEnds
  PROVE  WatcherEnds'
<1> USE DEF loopVars, growVars
<1>1. CASE UNCHANGED <<loop, sendTo, importer, crashed>>
  BY <1>1 DEF WatcherEnds
<1>2. CASE ChangeDisk
  BY <1>1, <1>2 DEF ChangeDisk, CreateFile, WriteFile, DeleteFile, MakeDir, MoveDir, Change
<1>3. CASE StartWatcher
  <2>1. ~crashed /\ loop # "stopped"
    BY <1>3 DEF StartWatcher, CreatedVanished, RemovedUnknown, CreatedDir, DirWalked,
       MissingRemoved, SendUpdate, SendPanics, SendStep, CreatedFile, Written, RemovedFile, Watch
  <2>2. loop = "send" /\ importer[sendTo].at = "done"
    BY <2>1 DEF WatcherEnds
  <2>3. SendPanics
    BY <1>3, <2>2 DEF StartWatcher, CreatedVanished, RemovedUnknown, CreatedDir, DirWalked,
       MissingRemoved, SendUpdate, CreatedFile, Written, RemovedFile, Watch
  <2> QED BY <2>3 DEF SendPanics, WatcherEnds
<1>4. ASSUME NEW g \in Importer, AwaitFile(g) \/ ReceiveFromClosed(g) \/ Tick(g)
      PROVE  WatcherEnds'
  <2>1. /\ importer[g].at # "done"
        /\ \E new : importer' = [importer EXCEPT ![g] = new]
        /\ UNCHANGED <<loop, sendTo, crashed>>
    BY <1>4 DEF AwaitFile, Register, StatAgain, StatFails, Settle, ReceiveFromClosed, Tick,
       Updated, ImporterStep
  <2>2. \A h \in Importer : importer[h].at = "done" => importer'[h] = importer[h]
    BY <2>1 DEF TypeInv, TypeOK
  <2>3. loop = "send" => sendTo \in Importer
    BY DEF TypeInv, HasPath
  <2> QED BY <2>1, <2>2, <2>3 DEF WatcherEnds
<1>5. ASSUME NEW j \in Probe, ProbePool(j) PROVE WatcherEnds'
  BY <1>1, <1>5 DEF ProbePool, ProbeFile, ProbeFails, StoreFile, IdentifyFile, NoMatch, ProcessPanics,
     ProbeStep
<1>6. ASSUME NEW w \in Walker, RecursiveProbe(w) PROVE WatcherEnds'
  <2>1. UNCHANGED <<loop, sendTo, importer>> /\ ~crashed
    BY <1>6 DEF RecursiveProbe, VisitFile, ReadDirNames, AddWatcher, VisitVanished, WalkStep
  <2> QED BY <2>1 DEF WatcherEnds
<1>7. ASSUME NEW w \in Walker, RemoveMissingFiles(w) PROVE WatcherEnds'
  BY <1>1, <1>7 DEF RemoveMissingFiles, RemoveMissingFile
<1>8. ASSUME NEW r \in Refresh, StartRefresh(r) \/ ContinueRefresh(r) PROVE WatcherEnds'
  BY <1>1, <1>8 DEF StartRefresh, ContinueRefresh, RefreshAll, RescanPath, RescanUnhealthy,
     MissingChecked, Rescan, Rescanned, Refreshed, RefreshStep, IdentifyUnidentified
<1>9. ASSUME NEW c \in Copy, WorkOnMovie(c) PROVE WatcherEnds'
  BY <1>1, <1>9 DEF WorkOnMovie, CollectMovieInfo, SaveMovie, CopyStep
<1>10. ASSUME NEW d \in Deletion, Delete(d) \/ ContinueDeletion(d) PROVE WatcherEnds'
  <2>1. UNCHANGED <<sendTo, importer, crashed>> /\ (loop' = loop \/ loop' = "stopped")
    BY <1>10 DEF Delete, ContinueDeletion, StopWatcher, ClosePool, FindFiles,
       DeleteWithStreams, DeleteLibraryByID, DeletionStep
  <2> QED BY <2>1 DEF WatcherEnds
<1>11. CASE UNCHANGED vars
  BY <1>1, <1>11 DEF vars
<1> QED BY <1>2, <1>3, <1>4, <1>5, <1>6, <1>7, <1>8, <1>9, <1>10, <1>11 DEF Next

(* Events. *)

\* An event that is added is the last, and the others stay.
LEMMA ReportAdds ==
  ASSUME TypeInv, NEW op \in {"Create", "Write", "Remove"}, NEW p \in Path, Report(op, p)
  PROVE  /\ events \in Seq(Event) /\ events' \in Seq(Event)
         /\ \A i \in DOMAIN events : i \in DOMAIN events' /\ events'[i] = events[i]
         /\ Observed(p) => /\ Len(events) + 1 \in DOMAIN events'
                           /\ events'[Len(events) + 1] = [op |-> op, path |-> p]
         /\ \A i \in DOMAIN events' :
              i \in DOMAIN events \/ (i = Len(events) + 1 /\ events'[i] = [op |-> op, path |-> p])
<1>0. events \in Seq(Event) /\ [op |-> op, path |-> p] \in Event
  BY DEF TypeInv, TypeOK, Event
<1>1. CASE Observed(p)
  <2>1. events' = Append(events, [op |-> op, path |-> p])
    BY <1>1 DEF Report
  <2> QED BY <1>0, <1>1, <2>1
<1>2. CASE ~Observed(p)
  BY <1>0, <1>2 DEF Report
<1> QED BY <1>1, <1>2

LEMMA ReportKeeps ==
  ASSUME TypeInv, NEW op \in {"Create", "Write", "Remove"}, NEW p \in Path, Report(op, p)
  PROVE  /\ \A o, q : Pending(o, q) => Pending(o, q)'
         /\ Observed(p) => Pending(op, p)'
<1>1. ASSUME NEW o, NEW q, Pending(o, q) PROVE Pending(o, q)'
  <2>1. PICK i \in DOMAIN events : events[i] = [op |-> o, path |-> q]
    BY <1>1 DEF Pending
  <2>2. i \in DOMAIN events' /\ events'[i] = [op |-> o, path |-> q]
    BY <2>1, ReportAdds
  <2> QED BY <2>2 DEF Pending
<1>2. Observed(p) => Pending(op, p)'
  BY ReportAdds DEF Pending
<1> QED BY <1>1, <1>2

\* Handling an event: the others move up.
LEMMA TailMoves ==
  ASSUME TypeInv, NEW op, NEW p, Watch(op, p)
  PROVE  /\ events[1] = [op |-> op, path |-> p]
         /\ \A i \in DOMAIN events : i # 1 => i - 1 \in DOMAIN events' /\ events'[i - 1] = events[i]
         /\ \A i \in DOMAIN events' : i + 1 \in DOMAIN events /\ events'[i] = events[i + 1]
<1>1. events \in Seq(Event) /\ events # <<>> /\ events' = Tail(events)
  BY DEF Watch, TypeInv, TypeOK
<1>2. events[1] = [op |-> op, path |-> p]
  BY <1>1 DEF Watch
<1> QED BY <1>1, <1>2

LEMMA TailKeeps ==
  ASSUME TypeInv, NEW op, NEW p, Watch(op, p)
  PROVE  \A o, q : Pending(o, q) => Pending(o, q)' \/ (o = op /\ q = p)
<1> SUFFICES ASSUME NEW o, NEW q, Pending(o, q) PROVE Pending(o, q)' \/ (o = op /\ q = p)
  OBVIOUS
<1>1. PICK i \in DOMAIN events : events[i] = [op |-> o, path |-> q]
  BY DEF Pending
<1>2. CASE i = 1
  <2>1. [op |-> o, path |-> q] = [op |-> op, path |-> p]
    BY <1>1, <1>2, TailMoves
  <2>2. /\ [op |-> o, path |-> q].op = o /\ [op |-> o, path |-> q].path = q
        /\ [op |-> op, path |-> p].op = op /\ [op |-> op, path |-> p].path = p
    OBVIOUS
  <2> QED BY <2>1, <2>2
<1>3. CASE i # 1
  <2>1. i - 1 \in DOMAIN events' /\ events'[i - 1] = [op |-> o, path |-> q]
    BY <1>1, <1>3, TailMoves
  <2> QED BY <2>1 DEF Pending
<1> QED BY <1>2, <1>3

(* Which steps touch the disk, the events, the watches and the walks. *)

LEMMA OnlyChanges ==
  ASSUME [Next]_vars, ~Restart
  PROVE  /\ UNCHANGED <<disk, dirExists>> \/ ChangeDisk
         /\ UNCHANGED events \/ ChangeDisk \/ (StartWatcher /\ \E op, p : Watch(op, p))
<1> USE DEF diskVars
<1>1. CASE StartWatcher
  BY <1>1 DEF StartWatcher, CreatedVanished, RemovedUnknown, CreatedDir, DirWalked,
     MissingRemoved, SendUpdate, SendPanics, SendStep, CreatedFile, Written, RemovedFile, Watch
<1>2. CASE \/ \E g \in Importer : AwaitFile(g) \/ ReceiveFromClosed(g) \/ Tick(g)
           \/ \E j \in Probe : ProbePool(j)
  BY <1>2 DEF AwaitFile, Register, StatAgain, StatFails, Settle, ReceiveFromClosed, Tick,
     ImporterStep, ProbePool, ProbeFile, ProbeFails, StoreFile, IdentifyFile, NoMatch, ProcessPanics,
     ProbeStep
<1>3. CASE \E w \in Walker : RecursiveProbe(w) \/ RemoveMissingFiles(w)
  BY <1>3 DEF RecursiveProbe, VisitFile, ReadDirNames, AddWatcher, VisitVanished, WalkStep,
     RemoveMissingFiles, RemoveMissingFile
<1>4. CASE \E r \in Refresh : StartRefresh(r) \/ ContinueRefresh(r)
  BY <1>4 DEF StartRefresh, ContinueRefresh, RefreshAll, RescanPath, RescanUnhealthy,
     MissingChecked, Rescan, Rescanned, Refreshed, RefreshStep, IdentifyUnidentified
<1>5. CASE \E d \in Deletion : Delete(d) \/ ContinueDeletion(d)
  BY <1>5 DEF Delete, ContinueDeletion, StopWatcher, ClosePool, FindFiles,
     DeleteWithStreams, DeleteLibraryByID, DeletionStep
<1>6. CASE \E c \in Copy : WorkOnMovie(c)
  BY <1>6 DEF WorkOnMovie, CollectMovieInfo, SaveMovie, CopyStep
<1>7. CASE UNCHANGED vars
  BY <1>7 DEF vars
<1> QED BY <1>1, <1>2, <1>3, <1>4, <1>5, <1>6, <1>7 DEF Next

LEMMA OnlyWalks ==
  ASSUME TypeInv, WalkInv, [Next]_vars, ~Restart, ~\E w \in Walker : RecursiveProbe(w)
  PROVE  /\ \A w \in Walker : walk'[w] = walk[w] \/ (walk[w].at # "watch" /\ walk[w].visit = {})
         /\ WalkInv'
<1> USE DEF loopVars
<1>0. /\ walk \in [Walker -> WalkStates] /\ refresh \in [Refresh -> RefreshStates]
      /\ Walker = Refresh \cup {"watcher"} /\ "watcher" \notin Refresh
      /\ Root \notin Path
  BY DEF TypeInv, TypeOK, Walker, AllRefreshes
<1>1. CASE UNCHANGED <<walk, loop, refresh>>
  BY <1>1 DEF WalkInv
<1>2. CASE StartWatcher
  <2>1. CASE CreatedDir \/ DirWalked
    <3>1. /\ walk["watcher"].at # "watch" /\ walk["watcher"].visit = {}
          /\ refresh' = refresh
      BY <1>0, <2>1 DEF CreatedDir, DirWalked, Watch, Walked, WalkInv
    <3>2. CASE CreatedDir
      <4>1. /\ loop' = "walk"
            /\ walk' = [walk EXCEPT !["watcher"] = [NoWalk EXCEPT !.at = "visit", !.visit = {Dir}]]
        BY <3>2 DEF CreatedDir, StartWalk
      <4>2. /\ walk'["watcher"].at = "visit" /\ walk'["watcher"].visit = {Dir}
            /\ walk'["watcher"].names = {}
        BY <1>0, <4>1 DEF NoWalk
      <4>3. \A w \in Refresh : walk'[w] = walk[w]
        BY <1>0, <4>1
      <4> QED BY <1>0, <3>1, <4>1, <4>2, <4>3 DEF WalkInv, Path
    <3>3. CASE DirWalked
      <4>1. loop' = "select" /\ walk' = [walk EXCEPT !["watcher"] = NoWalk]
        BY <3>3 DEF DirWalked, EndWalk
      <4> QED BY <1>0, <3>1, <4>1 DEF WalkInv, NoWalk
    <3> QED BY <2>1, <3>2, <3>3
  <2>2. CASE ~CreatedDir /\ ~DirWalked
    <3>1. UNCHANGED <<walk, refresh>> /\ loop' # "walk" /\ loop # "walk"
      BY <1>2, <2>2 DEF StartWatcher, CreatedVanished, RemovedUnknown, MissingRemoved, SendUpdate,
         SendPanics, SendStep, CreatedFile, Written, RemovedFile, Watch
    <3> QED BY <3>1 DEF WalkInv
  <2> QED BY <2>1, <2>2
<1>3. ASSUME NEW r \in Refresh, StartRefresh(r) \/ ContinueRefresh(r)
      PROVE  /\ \A w \in Walker : walk'[w] = walk[w] \/ (walk[w].at # "watch" /\ walk[w].visit = {})
             /\ WalkInv'
  <2>1. ASSUME NEW whole, NEW d \in Directories, Rescan(r, whole, d), refresh[r].at # "walk"
        PROVE  /\ \A w \in Walker : walk'[w] = walk[w] \/ (walk[w].at # "watch" /\ walk[w].visit = {})
               /\ WalkInv'
    <3>1. /\ loop' = loop
          /\ refresh' = [refresh EXCEPT ![r] = [at |-> "walk", whole |-> whole]]
          /\ walk' = [walk EXCEPT ![r] = [NoWalk EXCEPT !.at = "visit", !.visit = {d}]]
      BY <2>1 DEF Rescan, RefreshStep, StartWalk
    <3>2. walk[r].at # "watch" /\ walk[r].visit = {}
      BY <1>0, <2>1 DEF WalkInv
    <3>3. /\ refresh'[r].at = "walk"
          /\ walk'[r].at = "visit" /\ walk'[r].visit = {d} /\ walk'[r].names = {}
      BY <1>0, <3>1 DEF NoWalk
    <3>4. /\ \A w \in Walker : w # r => walk'[w] = walk[w]
          /\ \A q \in Refresh : q # r => refresh'[q] = refresh[q]
      BY <1>0, <3>1
    <3> QED BY <1>0, <3>1, <3>2, <3>3, <3>4 DEF WalkInv
  <2>2. CASE MissingChecked(r)
    BY <2>1, <2>2 DEF MissingChecked, Directories
  <2>3. ASSUME NEW d \in Directories, RescanPath(r, d)
        PROVE  /\ \A w \in Walker : walk'[w] = walk[w] \/ (walk[w].at # "watch" /\ walk[w].visit = {})
               /\ WalkInv'
    BY <2>1, <2>3 DEF RescanPath
  <2>4. CASE Rescanned(r)
    <3>1. /\ loop' = loop /\ walk[r].at = "visit" /\ walk[r].visit = {}
          /\ \A q \in Refresh : q # r => refresh'[q] = refresh[q]
          /\ walk' = [walk EXCEPT ![r] = NoWalk]
      BY <1>0, <2>4 DEF Rescanned, RefreshStep, Walked, EndWalk
    <3>2. walk'[r] = NoWalk /\ \A w \in Walker : w # r => walk'[w] = walk[w]
      BY <1>0, <3>1
    <3> QED BY <1>0, <3>1, <3>2 DEF WalkInv, NoWalk
  <2>5. CASE RefreshAll(r) \/ RescanUnhealthy(r) \/ Refreshed(r)
    <3>1. /\ UNCHANGED <<walk, loop>> /\ refresh[r].at # "walk"
          /\ \A q \in Refresh : q # r => refresh'[q] = refresh[q]
      BY <1>0, <2>5 DEF RefreshAll, RescanUnhealthy, Refreshed, RefreshStep
    <3> QED BY <1>0, <3>1 DEF WalkInv
  <2>6. ASSUME NEW j \in Probe, NEW found \in BOOLEAN, IdentifyUnidentified(r, j, found)
        PROVE  UNCHANGED <<walk, loop, refresh>>
    BY <2>6 DEF IdentifyUnidentified
  <2> QED BY <1>1, <1>3, <2>2, <2>3, <2>4, <2>5, <2>6 DEF StartRefresh, ContinueRefresh
<1>4. CASE ChangeDisk
  BY <1>1, <1>4 DEF ChangeDisk, CreateFile, WriteFile, DeleteFile, MakeDir, MoveDir, Change
<1>5. CASE \/ \E g \in Importer : AwaitFile(g) \/ ReceiveFromClosed(g) \/ Tick(g)
           \/ \E j \in Probe : ProbePool(j)
  BY <1>1, <1>5 DEF AwaitFile, Register, StatAgain, StatFails, Settle, ReceiveFromClosed, Tick,
     ImporterStep, ProbePool, ProbeFile, ProbeFails, StoreFile, IdentifyFile, NoMatch, ProcessPanics,
     ProbeStep
<1>6. CASE \E w \in Walker : RemoveMissingFiles(w)
  BY <1>1, <1>6 DEF RemoveMissingFiles, RemoveMissingFile
<1>7. CASE \E d \in Deletion : Delete(d) \/ ContinueDeletion(d)
  <2>1. UNCHANGED <<walk, refresh>> /\ (loop' = loop \/ (loop = "select" /\ loop' = "stopped"))
    BY <1>7 DEF Delete, ContinueDeletion, StopWatcher, ClosePool, FindFiles,
       DeleteWithStreams, DeleteLibraryByID, DeletionStep
  <2> QED BY <2>1 DEF WalkInv
<1>8. CASE \E c \in Copy : WorkOnMovie(c)
  BY <1>1, <1>8 DEF WorkOnMovie, CollectMovieInfo, SaveMovie, CopyStep
<1>9. CASE UNCHANGED vars
  BY <1>1, <1>9 DEF vars
<1> QED BY <1>2, <1>3, <1>4, <1>5, <1>6, <1>7, <1>8, <1>9 DEF Next

\* What w awaits it goes on to await, unless it visits that or reads its names; and
\* names that are read are awaited.
LEMMA WalkGoesOn ==
  ASSUME TypeInv, WalkInv, NEW w \in Walker, RecursiveProbe(w), ~crashed'
  PROVE  /\ WalkInv'
         /\ \A v \in Walker : v # w => walk'[v] = walk[v]
         /\ \A p \in Path \cup {Root} : Awaits(w, p) =>
              \/ Awaits(w, p)'
              \/ p \in File /\ VisitFile(w, p)
              \/ p \in Directories /\ ReadDirNames(w, p)
         /\ \A d \in Directories : ReadDirNames(w, d) =>
              /\ \A p \in Entries(d) : Awaits(w, p)'
              /\ d = Dir => WatchesDir(w)'
         /\ WatchesDir(w) => WatchesDir(w)' \/ Dir \in watched' \/ ~dirExists
<1> DEFINE Goal == /\ WalkInv'
                   /\ \A v \in Walker : v # w => walk'[v] = walk[v]
                   /\ \A p \in Path \cup {Root} : Awaits(w, p) =>
                        \/ Awaits(w, p)'
                        \/ p \in File /\ VisitFile(w, p)
                        \/ p \in Directories /\ ReadDirNames(w, p)
                   /\ \A d \in Directories : ReadDirNames(w, d) =>
                        /\ \A p \in Entries(d) : Awaits(w, p)'
                        /\ d = Dir => WatchesDir(w)'
                   /\ WatchesDir(w) => WatchesDir(w)' \/ Dir \in watched' \/ ~dirExists
<1>0. /\ walk \in [Walker -> WalkStates] /\ walk[w] \in WalkStates
      /\ Walker = Refresh \cup {"watcher"}
      /\ Root \notin Path /\ Dir \in Path /\ Dir \notin File /\ File \subseteq Path
      /\ Inside \subseteq File /\ Root # Dir
      /\ Directories = {Root, Dir}
      /\ walk[w].names \subseteq Path
  BY DEF TypeInv, TypeOK, Walker, Path, Directories, WalkStates
<1>1. UNCHANGED <<loop, refresh>>
  BY DEF RecursiveProbe, VisitFile, ReadDirNames, AddWatcher, VisitVanished, WalkStep, loopVars
  \* It is enough to look at the entry of w.
<1>2. ASSUME NEW new \in WalkStates, walk' = [walk EXCEPT ![w] = new], walk[w].at # "off",
             new.at # "off", new.at # "watch" => new.names = {},
             Root \in new.visit => new.visit = {Root}
      PROVE  /\ WalkInv'
             /\ walk'[w] = new
             /\ \A v \in Walker : v # w => walk'[v] = walk[v]
  <2>1. walk'[w] = new /\ \A v \in Walker : v # w => walk'[v] = walk[v]
    BY <1>0, <1>2
  <2> QED BY <1>0, <1>1, <1>2, <2>1 DEF WalkInv
<1>3. ASSUME NEW f \in File, VisitFile(w, f) PROVE Goal
  <2> DEFINE new == [walk[w] EXCEPT !.visit = @ \ {f}]
  <2>1. /\ walk[w].at = "visit" /\ walk[w].names = {}
        /\ walk' = [walk EXCEPT ![w] = new]
    BY <1>0, <1>3 DEF VisitFile, WalkInv
  <2>2. /\ new \in WalkStates /\ new.at = "visit" /\ new.names = {}
        /\ new.visit = walk[w].visit \ {f}
    BY <1>0, <2>1 DEF WalkStates
  <2>3. Root \in new.visit => new.visit = {Root}
    BY <1>0, <2>2 DEF WalkInv
  <2> HIDE DEF new
  <2>4. /\ WalkInv' /\ walk'[w] = new
        /\ \A v \in Walker : v # w => walk'[v] = walk[v]
    BY <1>2, <2>1, <2>2, <2>3
  <2>5. \A p \in Path \cup {Root} : Awaits(w, p) => Awaits(w, p)' \/ (p \in File /\ VisitFile(w, p))
    BY <1>3, <2>1, <2>2, <2>4 DEF Awaits
  <2>6. ~WatchesDir(w) /\ ~\E d \in Directories : ReadDirNames(w, d)
    <3>1. \A d \in Directories : ReadDirNames(w, d) => walk'[w].at = "watch"
      BY <1>0 DEF ReadDirNames
    <3> QED BY <2>1, <2>2, <2>4, <3>1 DEF WatchesDir
  <2> QED BY <2>4, <2>5, <2>6
<1>4. ASSUME NEW d \in Directories, ReadDirNames(w, d) PROVE Goal
  <2> DEFINE new == [walk[w] EXCEPT !.at = "watch", !.names = Entries(d)]
  <2>1. /\ walk[w].at = "visit" /\ walk[w].names = {} /\ d \in walk[w].visit
        /\ walk' = [walk EXCEPT ![w] = new]
    BY <1>0, <1>4 DEF ReadDirNames, WalkInv
  <2>2. /\ new \in WalkStates /\ new.at = "watch" /\ new.names = Entries(d)
        /\ new.visit = walk[w].visit
    BY <1>0, <2>1 DEF WalkStates, Entries
  <2>3. Root \in new.visit => new.visit = {Root}
    BY <1>0, <2>2 DEF WalkInv
  <2> HIDE DEF new
  <2>4. /\ WalkInv' /\ walk'[w] = new
        /\ \A v \in Walker : v # w => walk'[v] = walk[v]
    BY <1>2, <2>1, <2>2, <2>3
  <2>5. d = IF Root \in walk'[w].visit THEN Root ELSE Dir
    BY <1>0, <2>1, <2>2, <2>3, <2>4
  <2>6. \A p \in Path \cup {Root} : Awaits(w, p) => Awaits(w, p)' \/ p = d
    BY <2>1, <2>2, <2>4, <2>5 DEF Awaits, Walking
  <2>7. \A p \in Entries(d) : Awaits(w, p)'
    BY <2>2, <2>4 DEF Awaits
  <2>8. d = Dir => WatchesDir(w)'
    BY <2>1, <2>2, <2>4 DEF WatchesDir
  <2>9. \A e \in Directories : ReadDirNames(w, e) => e = d
    <3>1. \A e \in Directories : ReadDirNames(w, e) => e \in walk[w].visit
      BY DEF ReadDirNames
    <3> QED BY <1>0, <2>1, <3>1 DEF WalkInv
  <2>10. ~WatchesDir(w)
    BY <2>1 DEF WatchesDir
  <2> QED BY <1>4, <2>4, <2>6, <2>7, <2>8, <2>9, <2>10
<1>5. ASSUME AddWatcher(w) PROVE Goal
  <2> DEFINE new == [at |-> "visit", names |-> {},
                     visit |-> (walk[w].visit \ {Walking(w)}) \cup walk[w].names]
  <2>1. /\ walk[w].at = "watch"
        /\ walk' = [walk EXCEPT ![w] = new]
        /\ watched' = watched \cup {d \in {Walking(w)} : Exists(d)}
    BY <1>0, <1>5 DEF AddWatcher
  <2>2. /\ new \in WalkStates /\ new.at = "visit" /\ new.names = {}
        /\ new.visit = (walk[w].visit \ {Walking(w)}) \cup walk[w].names
    BY <1>0, <2>1 DEF WalkStates
  <2>3. Root \notin new.visit
    BY <1>0, <2>2 DEF Walking
  <2> HIDE DEF new
  <2>4. /\ WalkInv' /\ walk'[w] = new
        /\ \A v \in Walker : v # w => walk'[v] = walk[v]
    BY <1>2, <2>1, <2>2, <2>3
  <2>5. \A p \in Path \cup {Root} : Awaits(w, p) => Awaits(w, p)'
    BY <2>1, <2>2, <2>4 DEF Awaits
  <2>6. ~\E d \in Directories : ReadDirNames(w, d)
    BY <2>1 DEF ReadDirNames
  <2>7. WatchesDir(w) => Dir \in watched' \/ ~dirExists
    <3>1. WatchesDir(w) => Walking(w) = Dir
      BY <1>0 DEF WatchesDir, WalkInv, Walking
    <3>2. dirExists => Exists(Dir)
      BY <1>0 DEF Exists
    <3> QED BY <2>1, <3>1, <3>2
  <2> QED BY <2>4, <2>5, <2>6, <2>7
<1>6. ~\E p \in Path : VisitVanished(w, p)
  BY DEF VisitVanished
<1>7. \/ \E f \in File : VisitFile(w, f)
      \/ \E d \in Directories : ReadDirNames(w, d)
      \/ AddWatcher(w)
  BY <1>6 DEF RecursiveProbe
<1> HIDE DEF Goal
<1>8. Goal
  BY <1>3, <1>4, <1>5, <1>7
<1> QED BY <1>8 DEF Goal

LEMMA NextUnderDir ==
  ASSUME TypeInv, UnderDir, [Next]_vars
  PROVE  UnderDir'
<1>0. disk \in [File -> Content] /\ Inside \subseteq File
  BY DEF TypeInv, TypeOK
<1>1. CASE UNCHANGED <<disk, dirExists>>
  BY <1>1 DEF UnderDir
<1>2. CASE ChangeDisk
  <2>1. ASSUME NEW f \in File, NEW c \in {"small", "large"}, CreateFile(f, c) PROVE UnderDir'
    BY <1>0, <2>1 DEF CreateFile, UnderDir
  <2>2. ASSUME NEW f \in File, WriteFile(f) \/ DeleteFile(f) PROVE UnderDir'
    BY <1>0, <2>2 DEF WriteFile, DeleteFile, UnderDir
  <2>3. CASE MakeDir \/ MoveDir
    BY <1>0, <2>3 DEF MakeDir, MoveDir, UnderDir
  <2> QED BY <1>2, <2>1, <2>2, <2>3 DEF ChangeDisk
<1>3. CASE Restart
  BY <1>1, <1>3 DEF Restart
<1> QED BY <1>1, <1>2, <1>3, OnlyChanges

LEMMA NextStopped ==
  ASSUME TypeInv, StoppedInv, [Next]_vars
  PROVE  StoppedInv'
<1> USE DEF loopVars, poolVars
<1>0. deletion \in [Deletion -> DeletionStates]
  BY DEF TypeInv, TypeOK
<1>1. ASSUME UNCHANGED <<deletion, poolOpen>>, loop = "stopped" => loop' = "stopped"
      PROVE  StoppedInv'
  BY <1>1 DEF StoppedInv
<1>2. CASE StartWatcher
  <2>1. UNCHANGED <<deletion, poolOpen>> /\ loop # "stopped"
    BY <1>2 DEF StartWatcher, CreatedVanished, RemovedUnknown, CreatedDir, DirWalked,
       MissingRemoved, SendUpdate, SendPanics, SendStep, CreatedFile, Written, RemovedFile, Watch
  <2> QED BY <1>1, <2>1
<1>3. CASE \/ \E g \in Importer : AwaitFile(g) \/ ReceiveFromClosed(g) \/ Tick(g)
           \/ \E j \in Probe : ProbePool(j)
  BY <1>1, <1>3 DEF AwaitFile, Register, StatAgain, StatFails, Settle, ReceiveFromClosed, Tick,
     ImporterStep, ProbePool, ProbeFile, ProbeFails, StoreFile, IdentifyFile, NoMatch, ProcessPanics,
     ProbeStep
<1>4. CASE \E w \in Walker : RecursiveProbe(w) \/ RemoveMissingFiles(w)
  BY <1>1, <1>4 DEF RecursiveProbe, VisitFile, ReadDirNames, AddWatcher, VisitVanished, WalkStep,
     RemoveMissingFiles, RemoveMissingFile
<1>5. CASE \E r \in Refresh : StartRefresh(r) \/ ContinueRefresh(r)
  BY <1>1, <1>5 DEF StartRefresh, ContinueRefresh, RefreshAll, RescanPath, RescanUnhealthy,
     MissingChecked, Rescan, Rescanned, Refreshed, RefreshStep, IdentifyUnidentified
<1>6. ASSUME NEW d \in Deletion, Delete(d) \/ ContinueDeletion(d) PROVE StoppedInv'
  <2>1. \A e \in Deletion : e # d => deletion'[e] = deletion[e]
    BY <1>0, <1>6 DEF Delete, ContinueDeletion, StopWatcher, ClosePool, FindFiles,
       DeleteWithStreams, DeleteLibraryByID
  <2>2. CASE Delete(d)
    BY <1>0, <2>1, <2>2 DEF Delete, StoppedInv, DeletionStates
  <2>3. CASE StopWatcher(d)
    BY <2>3 DEF StopWatcher, StoppedInv
  <2>4. CASE ~Delete(d) /\ ~StopWatcher(d)
    <3>1. loop' = loop /\ deletion[d].at \in {"pool", "find", "files"}
      BY <1>6, <2>4 DEF ContinueDeletion, ClosePool, FindFiles, DeleteWithStreams, DeleteLibraryByID
    <3> QED BY <3>1 DEF StoppedInv
  <2> QED BY <1>6, <2>2, <2>3, <2>4
<1>7. CASE \E c \in Copy : WorkOnMovie(c)
  BY <1>1, <1>7 DEF WorkOnMovie, CollectMovieInfo, SaveMovie, CopyStep
<1>8. CASE ChangeDisk
  BY <1>1, <1>8 DEF ChangeDisk, CreateFile, WriteFile, DeleteFile, MakeDir, MoveDir, Change
<1>9. CASE Restart
  <2>1. poolOpen' /\ \A d \in Deletion : deletion'[d].at = "none"
    BY <1>9 DEF Restart
  <2> QED BY <2>1 DEF StoppedInv
<1>10. CASE UNCHANGED vars
  BY <1>1, <1>10 DEF vars
<1> QED BY <1>2, <1>3, <1>4, <1>5, <1>6, <1>7, <1>8, <1>9, <1>10 DEF Next

LEMMA NextWalk ==
  ASSUME TypeInv, WalkInv, [Next]_vars
  PROVE  WalkInv'
<1>1. CASE Restart
  <2>1. /\ \A w \in Walker : walk'[w] = NoWalk
        /\ "watcher" \in Walker /\ Refresh \subseteq Walker
    BY <1>1 DEF Restart, Walker
  <2> QED BY <2>1 DEF WalkInv, NoWalk
<1>2. CASE ~Restart /\ ~\E w \in Walker : RecursiveProbe(w)
  BY <1>2, OnlyWalks
<1>3. ASSUME NEW w \in Walker, RecursiveProbe(w), ~crashed' PROVE WalkInv'
  BY <1>3, WalkGoesOn
<1>4. ASSUME NEW w \in Walker, RecursiveProbe(w), crashed' PROVE WalkInv'
  <2>1. ~crashed
    BY <1>4 DEF RecursiveProbe, VisitFile, ReadDirNames, AddWatcher, VisitVanished, WalkStep
  <2>2. \E p \in Path : VisitVanished(w, p)
    BY <1>4, <2>1 DEF RecursiveProbe, VisitFile, ReadDirNames, AddWatcher, VisitVanished
  <2>3. UNCHANGED <<walk, loop, refresh>>
    BY <2>2 DEF VisitVanished, WalkStep, loopVars
  <2> QED BY <2>3 DEF WalkInv
<1> QED BY <1>1, <1>2, <1>3, <1>4

(* Watches. *)

\* Only the start of a walk from the root ends the wait for the scan at start-up.
LEMMA ScanGoesOn ==
  ASSUME TypeInv, WalkInv, [Next]_vars, ~Restart, ToBeScanned
  PROVE  ToBeScanned' \/ (Root \in watched' /\ \E w \in Walker : Awaits(w, Root)')
<1>0. /\ refresh \in [Refresh -> RefreshStates] /\ walk \in [Walker -> WalkStates]
      /\ "StartUp" \in Refresh /\ Refresh \subseteq Walker
      /\ refresh["StartUp"].at \in {"start", "missing"}
  BY DEF TypeInv, TypeOK, ToBeScanned, Walker
<1>1. CASE refresh' = refresh
  BY <1>1 DEF ToBeScanned
<1>2. ASSUME NEW r \in Refresh, StartRefresh(r) \/ ContinueRefresh(r)
      PROVE  ToBeScanned' \/ (Root \in watched' /\ \E w \in Walker : Awaits(w, Root)')
  <2>1. CASE r # "StartUp"
    <3>1. refresh'["StartUp"] = refresh["StartUp"]
      BY <1>0, <1>2, <2>1 DEF StartRefresh, ContinueRefresh, RefreshAll, RescanPath, RescanUnhealthy,
         MissingChecked, Rescan, Rescanned, Refreshed, RefreshStep, IdentifyUnidentified
    <3> QED BY <1>0, <3>1 DEF ToBeScanned
  <2>2. CASE r = "StartUp"
    <3>1. RefreshAll(r) \/ MissingChecked(r)
      BY <1>0, <1>2, <2>2 DEF StartRefresh, ContinueRefresh, RescanPath, RescanUnhealthy,
         Rescanned, Refreshed, IdentifyUnidentified
    <3>2. CASE RefreshAll(r)
      <4>1. refresh' = [refresh EXCEPT ![r] = [at |-> "missing", whole |-> TRUE]]
        BY <3>2 DEF RefreshAll
      <4>2. refresh'["StartUp"].at = "missing"
        BY <1>0, <2>2, <4>1
      <4> QED BY <1>0, <4>2 DEF ToBeScanned
    <3>3. CASE MissingChecked(r)
      <4>1. /\ watched' = watched \cup {Root}
            /\ walk' = [walk EXCEPT ![r] = [NoWalk EXCEPT !.at = "visit", !.visit = {Root}]]
        BY <3>3 DEF MissingChecked, Rescan, StartWalk
      <4>2. walk'[r].at = "visit" /\ walk'[r].visit = {Root}
        BY <1>0, <4>1 DEF NoWalk
      <4> QED BY <1>0, <4>1, <4>2 DEF Awaits
    <3> QED BY <3>1, <3>2, <3>3
  <2> QED BY <2>1, <2>2
<1>3. CASE ChangeDisk
  BY <1>1, <1>3 DEF ChangeDisk, CreateFile, WriteFile, DeleteFile, MakeDir, MoveDir, Change
<1>4. CASE StartWatcher
  BY <1>1, <1>4 DEF StartWatcher, CreatedVanished, RemovedUnknown, CreatedDir, DirWalked,
     MissingRemoved, SendUpdate, SendPanics, SendStep, CreatedFile, Written, RemovedFile, Watch
<1>5. CASE \/ \E g \in Importer : AwaitFile(g) \/ ReceiveFromClosed(g) \/ Tick(g)
           \/ \E j \in Probe : ProbePool(j)
  BY <1>1, <1>5 DEF AwaitFile, Register, StatAgain, StatFails, Settle, ReceiveFromClosed, Tick,
     ImporterStep, ProbePool, ProbeFile, ProbeFails, StoreFile, IdentifyFile, NoMatch, ProcessPanics,
     ProbeStep
<1>6. CASE \E w \in Walker : RecursiveProbe(w) \/ RemoveMissingFiles(w)
  BY <1>1, <1>6 DEF RecursiveProbe, VisitFile, ReadDirNames, AddWatcher, VisitVanished, WalkStep,
     RemoveMissingFiles, RemoveMissingFile
<1>7. CASE \E d \in Deletion : Delete(d) \/ ContinueDeletion(d)
  BY <1>1, <1>7 DEF Delete, ContinueDeletion, StopWatcher, ClosePool, FindFiles,
     DeleteWithStreams, DeleteLibraryByID, DeletionStep
<1>8. CASE \E c \in Copy : WorkOnMovie(c)
  BY <1>1, <1>8 DEF WorkOnMovie, CollectMovieInfo, SaveMovie, CopyStep
<1>9. CASE UNCHANGED vars
  BY <1>1, <1>9 DEF vars
<1> QED BY <1>2, <1>3, <1>4, <1>5, <1>6, <1>7, <1>8, <1>9 DEF Next

\* The root stays watched; the subdirectory until it is moved or a removal handled.
LEMMA OnlyUnwatches ==
  ASSUME TypeInv, [Next]_vars, ~Restart
  PROVE  /\ Root \in watched => Root \in watched'
         /\ Dir \in watched => Dir \in watched' \/ MoveDir \/ RemovedUnknown(Dir)
         /\ loop = "stopped" => loop' = "stopped"
<1> USE DEF loopVars
<1>0. Root # Dir /\ Root \notin Path /\ File \subseteq Path /\ Path = File \cup {Dir}
  BY DEF Path
<1>1. ASSUME watched \subseteq watched', loop' = loop \/ loop # "stopped" \/ loop' = "stopped"
      PROVE  /\ Root \in watched => Root \in watched'
             /\ Dir \in watched => Dir \in watched' \/ MoveDir \/ RemovedUnknown(Dir)
             /\ loop = "stopped" => loop' = "stopped"
  BY <1>1
<1>2. CASE ChangeDisk
  <2>1. CASE MoveDir
    BY <1>0, <2>1 DEF MoveDir
  <2>2. CASE ~MoveDir
    BY <1>1, <1>2, <2>2 DEF ChangeDisk, CreateFile, WriteFile, DeleteFile, MakeDir, Change
  <2> QED BY <2>1, <2>2
<1>3. CASE StartWatcher
  <2>1. ASSUME NEW p \in Path, RemovedUnknown(p)
        PROVE  /\ Root \in watched => Root \in watched'
               /\ Dir \in watched => Dir \in watched' \/ MoveDir \/ RemovedUnknown(Dir)
               /\ loop = "stopped" => loop' = "stopped"
    BY <1>0, <2>1 DEF RemovedUnknown, Watch
  <2>2. CASE ~\E p \in Path : RemovedUnknown(p)
    BY <1>1, <1>3, <2>2 DEF StartWatcher, CreatedVanished, CreatedDir, DirWalked,
       MissingRemoved, SendUpdate, SendPanics, SendStep, CreatedFile, Written, RemovedFile, Watch
  <2> QED BY <2>1, <2>2
<1>4. CASE \/ \E g \in Importer : AwaitFile(g) \/ ReceiveFromClosed(g) \/ Tick(g)
           \/ \E j \in Probe : ProbePool(j)
  BY <1>1, <1>4 DEF AwaitFile, Register, StatAgain, StatFails, Settle, ReceiveFromClosed, Tick,
     ImporterStep, ProbePool, ProbeFile, ProbeFails, StoreFile, IdentifyFile, NoMatch, ProcessPanics,
     ProbeStep
<1>5. CASE \E w \in Walker : RecursiveProbe(w) \/ RemoveMissingFiles(w)
  BY <1>1, <1>5 DEF RecursiveProbe, VisitFile, ReadDirNames, AddWatcher, VisitVanished, WalkStep,
     RemoveMissingFiles, RemoveMissingFile
<1>6. CASE \E r \in Refresh : StartRefresh(r) \/ ContinueRefresh(r)
  BY <1>1, <1>6 DEF StartRefresh, ContinueRefresh, RefreshAll, RescanPath, RescanUnhealthy,
     MissingChecked, Rescan, Rescanned, Refreshed, RefreshStep, IdentifyUnidentified
<1>7. CASE \E d \in Deletion : Delete(d) \/ ContinueDeletion(d)
  BY <1>1, <1>7 DEF Delete, ContinueDeletion, StopWatcher, ClosePool, FindFiles,
     DeleteWithStreams, DeleteLibraryByID, DeletionStep
<1>8. CASE \E c \in Copy : WorkOnMovie(c)
  BY <1>1, <1>8 DEF WorkOnMovie, CollectMovieInfo, SaveMovie, CopyStep
<1>9. CASE UNCHANGED vars
  BY <1>1, <1>9 DEF vars
<1> QED BY <1>2, <1>3, <1>4, <1>5, <1>6, <1>7, <1>8, <1>9 DEF Next

LEMMA NextDirEvents ==
  ASSUME TypeInv, DirEventsInv, [Next]_vars
  PROVE  DirEventsInv'
<1>1. CASE Restart
  <2>1. events' = <<>>
    BY <1>1 DEF Restart
  <2> QED BY <2>1 DEF DirEventsInv
<1> SUFFICES ASSUME ~Restart, loop' # "stopped", NEW i \in DOMAIN events',
                    events'[i] = [op |-> "Remove", path |-> Dir]
             PROVE  /\ Root \in watched'
                    /\ dirExists' => \E k \in DOMAIN events' :
                         k > i /\ events'[k] = [op |-> "Create", path |-> Dir]
  BY <1>1 DEF DirEventsInv
<1>2. loop # "stopped" /\ (Root \in watched => Root \in watched')
  BY OnlyUnwatches
<1>3. events \in Seq(Event) /\ Dir \in Path /\ Dir \notin File /\ Inside \subseteq File
  BY DEF TypeInv, TypeOK, Path
<1>4. CASE UNCHANGED <<events, dirExists>>
  BY <1>2, <1>4 DEF DirEventsInv
<1>5. CASE ChangeDisk
  <2>1. ASSUME NEW op \in {"Create", "Write", "Remove"}, NEW f \in File, Report(op, f),
               UNCHANGED dirExists
        PROVE  /\ Root \in watched'
               /\ dirExists' => \E k \in DOMAIN events' :
                    k > i /\ events'[k] = [op |-> "Create", path |-> Dir]
    <3>1. f \in Path /\ [op |-> op, path |-> f] # [op |-> "Remove", path |-> Dir]
      BY <1>3 DEF Path
    <3>2. /\ \A k \in DOMAIN events : k \in DOMAIN events' /\ events'[k] = events[k]
          /\ i \in DOMAIN events
      BY <2>1, <3>1, ReportAdds
    <3> QED BY <1>2, <2>1, <3>2 DEF DirEventsInv
  <2>2. CASE MakeDir
    <3>1. Report("Create", Dir) /\ watched' = watched
      BY <2>2 DEF MakeDir, Change
    <3>2. [op |-> "Create", path |-> Dir] # [op |-> "Remove", path |-> Dir]
      OBVIOUS
    <3>3. i \in DOMAIN events /\ events[i] = [op |-> "Remove", path |-> Dir]
      BY <1>3, <3>1, <3>2, ReportAdds
    <3>4. Root \in watched
      BY <1>2, <3>3 DEF DirEventsInv
    <3>5. Observed(Dir)
      BY <1>2, <1>3, <3>4 DEF Observed
    <3>6. Len(events) + 1 \in DOMAIN events' /\ events'[Len(events) + 1] = [op |-> "Create", path |-> Dir]
      BY <1>3, <3>1, <3>5, ReportAdds
    <3>7. Len(events) + 1 > i
      BY <1>3, <3>3
    <3> QED BY <3>1, <3>4, <3>6, <3>7
  <2>3. CASE MoveDir
    <3>1. Report("Remove", Dir) /\ ~dirExists'
      BY <2>3 DEF MoveDir
    <3>2. CASE i \in DOMAIN events
      <4>1. events[i] = [op |-> "Remove", path |-> Dir]
        BY <1>3, <3>1, <3>2, ReportAdds
      <4> QED BY <1>2, <3>1, <3>2, <4>1 DEF DirEventsInv
    <3>3. CASE i \notin DOMAIN events
      <4>1. Observed(Dir)
        BY <3>1, <3>3 DEF Report
      <4> QED BY <1>2, <1>3, <3>1, <4>1 DEF Observed
    <3> QED BY <3>2, <3>3
  <2> QED BY <1>5, <2>1, <2>2, <2>3 DEF ChangeDisk, CreateFile, WriteFile, DeleteFile
<1>6. ASSUME NEW op, NEW p, Watch(op, p)
      PROVE  /\ Root \in watched'
             /\ dirExists' => \E k \in DOMAIN events' :
                  k > i /\ events'[k] = [op |-> "Create", path |-> Dir]
  <2>0. i \in Nat /\ i >= 1
    <3>1. events' = Tail(events) /\ events # <<>>
      BY <1>6 DEF Watch
    <3> QED BY <1>3, <3>1
  <2>1. i + 1 \in DOMAIN events /\ events[i + 1] = [op |-> "Remove", path |-> Dir] /\ dirExists' = dirExists
    BY <1>6, TailMoves DEF Watch
  <2>2. Root \in watched'
    BY <1>2, <2>1 DEF DirEventsInv
  <2>3. ASSUME dirExists
        PROVE  \E k \in DOMAIN events' : k > i /\ events'[k] = [op |-> "Create", path |-> Dir]
    <3>1. PICK k \in DOMAIN events : k > i + 1 /\ events[k] = [op |-> "Create", path |-> Dir]
      BY <1>2, <2>1, <2>3 DEF DirEventsInv
    <3>2. k \in Nat
      BY <1>3, <3>1
    <3>3. k # 1 /\ k - 1 > i
      BY <2>0, <3>1, <3>2
    <3>4. k - 1 \in DOMAIN events' /\ events'[k - 1] = events[k]
      BY <1>6, <3>1, <3>3, TailMoves
    <3> QED BY <3>1, <3>3, <3>4
  <2> QED BY <2>1, <2>2, <2>3
<1> QED BY <1>4, <1>5, <1>6, OnlyChanges

\* The watcher comes to the creation of a subdirectory that is there: it walks it.
LEMMA DirIsWalked ==
  ASSUME TypeInv, WalkInv, StartWatcher, Watch("Create", Dir), dirExists
  PROVE  Awaits("watcher", Dir)'
<1>0. /\ walk \in [Walker -> WalkStates] /\ "watcher" \in Walker
      /\ Dir \in Path /\ Dir \notin File
  BY DEF TypeInv, TypeOK, Walker, Path
<1>1. \A op, p : Watch(op, p) => op = "Create" /\ p = Dir
  <2> SUFFICES ASSUME NEW op, NEW p, Watch(op, p) PROVE op = "Create" /\ p = Dir
    OBVIOUS
  <2>1. [op |-> op, path |-> p] = [op |-> "Create", path |-> Dir]
    BY DEF Watch
  <2>2. /\ [op |-> op, path |-> p].op = op /\ [op |-> op, path |-> p].path = p
        /\ [op |-> "Create", path |-> Dir].op = "Create" /\ [op |-> "Create", path |-> Dir].path = Dir
    OBVIOUS
  <2> QED BY <2>1, <2>2
<1>2. loop = "select" /\ Exists(Dir)
  BY <1>0 DEF Watch, Exists
<1>3. CreatedDir
  <2>1. \A f \in File : ~CreatedFile(f) /\ ~Written(f) /\ ~RemovedFile(f)
    BY <1>0, <1>1 DEF CreatedFile, Written, RemovedFile
  <2>2. \A p \in Path : ~CreatedVanished(p) /\ ~RemovedUnknown(p)
    BY <1>1, <1>2 DEF CreatedVanished, RemovedUnknown
  <2>3. ~DirWalked /\ ~MissingRemoved /\ ~SendUpdate /\ ~SendPanics
    BY <1>2 DEF DirWalked, MissingRemoved, SendUpdate, SendPanics, SendStep
  <2> QED BY <2>1, <2>2, <2>3 DEF StartWatcher
<1>4. walk' = [walk EXCEPT !["watcher"] = [NoWalk EXCEPT !.at = "visit", !.visit = {Dir}]]
  BY <1>3 DEF CreatedDir, StartWalk
<1>5. walk'["watcher"].at = "visit" /\ walk'["watcher"].visit = {Dir}
  BY <1>0, <1>4 DEF NoWalk
<1> QED BY <1>5 DEF Awaits

\* A pending creation of the subdirectory is handled only by walking it, as long as
\* it is there.
LEMMA DirStaysPending ==
  ASSUME TypeInv, WalkInv, [Next]_vars, ~Restart, Pending("Create", Dir), dirExists
  PROVE  Pending("Create", Dir)' \/ Awaits("watcher", Dir)'
<1>1. CASE UNCHANGED events
  BY <1>1 DEF Pending
<1>2. CASE ChangeDisk
  <2>1. PICK op \in {"Create", "Write", "Remove"}, p \in Path : Report(op, p)
    <3>1. File \subseteq Path /\ Dir \in Path
      BY DEF Path
    <3> QED BY <1>2, <3>1 DEF ChangeDisk, CreateFile, WriteFile, DeleteFile, MakeDir, MoveDir
  <2> QED BY <2>1, ReportKeeps
<1>3. ASSUME NEW op, NEW p, Watch(op, p), StartWatcher
      PROVE  Pending("Create", Dir)' \/ Awaits("watcher", Dir)'
  <2>1. Pending("Create", Dir)' \/ (op = "Create" /\ p = Dir)
    BY <1>3, TailKeeps
  <2> QED BY <1>3, <2>1, DirIsWalked
<1> QED BY <1>1, <1>2, <1>3, OnlyChanges

\* A walk that will come to the subdirectory, or is about to watch it, does so.
LEMMA DirStaysAwaited ==
  ASSUME TypeInv, WalkInv, [Next]_vars, ~Restart, ~crashed', dirExists,
         NEW w \in Walker, Awaits(w, Root) \/ Awaits(w, Dir) \/ WatchesDir(w)
  PROVE  Awaits(w, Root)' \/ Awaits(w, Dir)' \/ WatchesDir(w)' \/ Dir \in watched'
<1>0. Dir \in Path /\ Dir \notin File /\ Root \notin Path /\ Root # Dir
      /\ Inside \subseteq File /\ File \subseteq Path
  BY DEF Path
<1>1. CASE walk'[w] = walk[w]
  BY <1>1 DEF Awaits, WatchesDir, Walking
<1>2. CASE ~\E v \in Walker : RecursiveProbe(v)
  <2>1. walk'[w] = walk[w] \/ (walk[w].at # "watch" /\ walk[w].visit = {})
    BY <1>2, OnlyWalks
  <2>2. walk[w].at # "watch" /\ walk[w].visit = {} => walk[w].names = {}
    BY DEF WalkInv
  <2>3. walk'[w] = walk[w]
    BY <2>1, <2>2 DEF Awaits, WatchesDir
  <2> QED BY <1>1, <2>3
<1>3. ASSUME NEW v \in Walker, RecursiveProbe(v), v # w PROVE walk'[w] = walk[w]
  BY <1>3, WalkGoesOn
<1>4. CASE RecursiveProbe(w)
  <2>1. CASE Awaits(w, Root)
    <3>1. Awaits(w, Root)' \/ ReadDirNames(w, Root)
      BY <1>0, <1>4, <2>1, WalkGoesOn
    <3>2. Dir \in Entries(Root)
      BY <1>0 DEF Entries, Exists
    <3>3. Root \in Directories
      BY DEF Directories
    <3>4. ReadDirNames(w, Root) => Awaits(w, Dir)'
      BY <1>4, <3>2, <3>3, WalkGoesOn
    <3> QED BY <3>1, <3>4
  <2>2. CASE Awaits(w, Dir)
    <3>1. Awaits(w, Dir)' \/ ReadDirNames(w, Dir)
      BY <1>0, <1>4, <2>2, WalkGoesOn
    <3>2. Dir \in Directories
      BY DEF Directories
    <3>3. ReadDirNames(w, Dir) => WatchesDir(w)'
      BY <1>4, <3>2, WalkGoesOn
    <3> QED BY <3>1, <3>3
  <2>3. CASE WatchesDir(w)
    BY <1>4, <2>3, WalkGoesOn
  <2> QED BY <2>1, <2>2, <2>3
<1> QED BY <1>1, <1>2, <1>3, <1>4

LEMMA NextWatched ==
  ASSUME TypeInv, WalkInv, DirEventsInv, WatchedInv, [Next]_vars
  PROVE  WatchedInv'
<1> DEFINE WillBeWatched == \/ ToBeScanned \/ Pending("Create", Dir)
                            \/ \E w \in Walker : Awaits(w, Root) \/ Awaits(w, Dir) \/ WatchesDir(w)
<1>0. /\ Dir \in Path /\ Dir \notin File /\ Root \notin Path /\ Root # Dir
      /\ Inside \subseteq File /\ "watcher" \in Walker
  BY DEF Path, Walker
<1>1. CASE Restart
  <2>1. ToBeScanned'
    BY <1>1 DEF Restart, AddLibraryManager, ToBeScanned, NoRefresh
  <2> QED BY <2>1 DEF WatchedInv
<1> SUFFICES ASSUME ~Restart, ~WatcherEnds'
             PROVE  /\ Root \notin watched' => ToBeScanned'
                    /\ dirExists' /\ Dir \notin watched' => WillBeWatched'
  BY <1>1 DEF WatchedInv
<1>2. ~WatcherEnds /\ ~crashed' /\ loop # "stopped"
  BY EndsStays DEF WatcherEnds
<1>3. ToBeScanned => ToBeScanned' \/ (Root \in watched' /\ WillBeWatched')
  BY ScanGoesOn
<1>4. Root \notin watched' => ToBeScanned'
  BY <1>2, <1>3, OnlyUnwatches DEF WatchedInv
<1>5. ASSUME dirExists, Dir \notin watched, Dir \notin watched' PROVE WillBeWatched'
  <2>1. WillBeWatched
    BY <1>2, <1>5 DEF WatchedInv
  <2>2. CASE ToBeScanned
    BY <1>3, <2>2
  <2>3. CASE Pending("Create", Dir)
    BY <1>0, <1>5, <2>3, DirStaysPending
  <2>4. ASSUME NEW w \in Walker, Awaits(w, Root) \/ Awaits(w, Dir) \/ WatchesDir(w)
        PROVE  WillBeWatched'
    BY <1>2, <1>5, <2>4, DirStaysAwaited
  <2> QED BY <2>1, <2>2, <2>3, <2>4
<1>6. ASSUME dirExists, Dir \in watched, Dir \notin watched', dirExists' PROVE WillBeWatched'
  <2>1. RemovedUnknown(Dir)
    BY <1>6, OnlyUnwatches DEF MoveDir
  <2>2. Watch("Remove", Dir)
    BY <2>1 DEF RemovedUnknown
  <2>3. events \in Seq(Event) /\ events # <<>>
    BY <2>2 DEF TypeInv, TypeOK, Watch
  <2>4. 1 \in DOMAIN events /\ events[1] = [op |-> "Remove", path |-> Dir]
    BY <2>2, <2>3, TailMoves
  <2>5. PICK k \in DOMAIN events : k > 1 /\ events[k] = [op |-> "Create", path |-> Dir]
    BY <1>2, <1>6, <2>4 DEF DirEventsInv
  <2>6. k # 1
    BY <2>3, <2>5
  <2>7. k - 1 \in DOMAIN events' /\ events'[k - 1] = [op |-> "Create", path |-> Dir]
    BY <2>2, <2>5, <2>6, TailMoves
  <2> QED BY <2>7 DEF Pending
<1>7. ASSUME ~dirExists, dirExists', Dir \notin watched' PROVE WillBeWatched'
  <2>1. MakeDir
    BY <1>7, OnlyChanges DEF ChangeDisk, CreateFile, WriteFile, DeleteFile, MoveDir
  <2>2. CASE Root \in watched
    <3>1. Report("Create", Dir) /\ Observed(Dir)
      BY <1>0, <1>2, <2>1, <2>2 DEF MakeDir, Observed
    <3>2. Pending("Create", Dir)'
      BY <1>0, <3>1, ReportKeeps
    <3> QED BY <3>2
  <2>3. CASE Root \notin watched
    BY <1>2, <1>3, <2>3 DEF WatchedInv
  <2> QED BY <2>2, <2>3
<1> QED BY <1>4, <1>5, <1>6, <1>7, <1>0

LEMMA NextSettle == TypeInv /\ SettleInv /\ [Next]_vars => SettleInv'
BY NextUnderDir, NextStopped, NextWalk, NextDirEvents, NextWatched DEF SettleInv

(* Who has a file in hand. *)

LEMMA VisitsStay ==
  ASSUME TypeInv, WalkInv, [Next]_vars, ~Restart, ~\E w \in Walker : RecursiveProbe(w)
  PROVE  /\ \A w \in Walker : \A p : Awaits(w, p) => Awaits(w, p)'
         /\ \A f \in File : WillBeVisited(f) => WillBeVisited(f)'
<1>1. ASSUME NEW w \in Walker, NEW p, Awaits(w, p) PROVE Awaits(w, p)'
  <2>1. walk[w].at # "watch" => walk[w].names = {}
    BY DEF WalkInv
  <2>2. walk'[w] = walk[w]
    BY <1>1, <2>1, OnlyWalks DEF Awaits
  <2> QED BY <1>1, <2>2 DEF Awaits, Walking
<1> QED BY <1>1 DEF WillBeVisited

\* A job that is added leaves the others, and the rows, as they are.
LEMMA AddKeeps ==
  ASSUME TypeInv, ListInv, NEW e \in File, rows' = rows
  PROVE  /\ CheckAndAddProbeJob(e) \/ UNCHANGED probe =>
              \A f \in File : /\ RowsOf({f}) # {} => RowsOf({f})' # {}
                              /\ HasProbe(f) => HasProbe(f)'
         /\ CheckAndAddProbeJob(e) => RowsOf({e})' # {} \/ HasProbe(e)'
<1>0. rows \subseteq Probe /\ (\A j \in rows : StoredIn(j)) /\ probe \in [Probe -> ProbeStates]
  BY DEF TypeInv, TypeOK, ListInv
<1>1. UNCHANGED probe =>
        \A f \in File : /\ RowsOf({f}) # {} => RowsOf({f})' # {}
                        /\ HasProbe(f) => HasProbe(f)'
  BY DEF RowsOf, HasProbe
<1>2. ASSUME NEW j \in Probe, probe[j].at = "none",
             probe' = [probe EXCEPT ![j] = [at |-> "queued", path |-> e]]
      PROVE  /\ \A f \in File : /\ RowsOf({f}) # {} => RowsOf({f})' # {}
                                /\ HasProbe(f) => HasProbe(f)'
             /\ HasProbe(e)'
  <2>1. /\ \A k \in Probe : k # j => probe'[k] = probe[k]
        /\ probe'[j].at = "queued" /\ probe'[j].path = e
        /\ j \notin rows
    BY <1>0, <1>2 DEF StoredIn
  <2>2. \A k \in rows : probe'[k] = probe[k]
    BY <1>0, <2>1
  <2>3. \A f \in File : RowsOf({f}) # {} => RowsOf({f})' # {}
    BY <2>2 DEF RowsOf
  <2>4. \A f \in File : HasProbe(f) => HasProbe(f)'
    BY <1>2, <2>1 DEF HasProbe
  <2>5. HasProbe(e)'
    BY <2>1 DEF HasProbe
  <2> QED BY <2>3, <2>4, <2>5
<1>3. CheckAndAddProbeJob(e) =>
        \/ UNCHANGED probe
        \/ \E j \in Probe : /\ probe[j].at = "none"
                            /\ probe' = [probe EXCEPT ![j] = [at |-> "queued", path |-> e]]
  BY DEF CheckAndAddProbeJob
<1>4. CheckAndAddProbeJob(e) /\ UNCHANGED probe =>
        RowsOf({e})' # {} \/ HasProbe(e)'
  <2> SUFFICES ASSUME CheckAndAddProbeJob(e), UNCHANGED probe, RowsOf({e}) = {}
               PROVE  HasProbe(e)'
    BY DEF RowsOf
  <2> QED BY <1>2 DEF CheckAndAddProbeJob
<1> QED BY <1>1, <1>2, <1>3, <1>4

\* Nothing else than the disk and its events.
LEMMA ChangeHolds ==
  ASSUME TypeInv, UnderDir, WatchedInv, ChangeDisk, NEW f \in File, ~WatcherEnds,
         ValidFile(disk[f]) => Held(f), ValidFile(disk'[f])
  PROVE  Held(f)'
<1>0. /\ disk \in [File -> Content] /\ Inside \subseteq File /\ Dir \notin File
      /\ File \subseteq Path /\ Dir \in Path
  BY DEF TypeInv, TypeOK, Path
<1>1. UNCHANGED <<loop, sendTo, importer, walk, probe, rows, refresh, crashed>>
  BY DEF ChangeDisk, CreateFile, WriteFile, DeleteFile, MakeDir, MoveDir, Change,
     loopVars, growVars, poolVars, dbVars
<1>2. unheeded \subseteq unheeded'
  BY DEF ChangeDisk, CreateFile, WriteFile, DeleteFile, MakeDir, MoveDir, Change
<1>3. \A o, q : Pending(o, q) => Pending(o, q)'
  BY <1>0, ReportKeeps DEF ChangeDisk, CreateFile, WriteFile, DeleteFile, MakeDir, MoveDir
<1>4. Held(f) => Held(f)'
  BY <1>1, <1>2, <1>3, Untouched DEF Held, Expected, CreationPending
<1>5. CASE ValidFile(disk[f])
  BY <1>4, <1>5
<1>6. CASE ~ValidFile(disk[f])
  <2>1. disk'[f] = "large" /\ disk[f] # "large"
    BY <1>6 DEF ValidFile
  <2>2. (\E c \in {"small", "large"} : CreateFile(f, c)) \/ WriteFile(f)
    BY <1>0, <2>1 DEF ChangeDisk, CreateFile, WriteFile, DeleteFile, MakeDir, MoveDir
  <2>3. ASSUME NEW c \in {"small", "large"}, CreateFile(f, c) PROVE Held(f)'
    <3>1. CASE Observed(f)
      <4>1. Pending("Create", f)'
        BY <1>0, <2>3, <3>1, ReportKeeps DEF CreateFile
      <4> QED BY <4>1 DEF Held, Expected, CreationPending
    <3>2. CASE Overtakes(f)
      BY <2>3, <3>2 DEF CreateFile, Held
    <3>3. CASE ~Observed(f) /\ ~Overtakes(f)
      <4>1. loop # "stopped"
        BY DEF WatcherEnds
      <4>2. CASE f \notin Inside
        BY <1>1, <3>3, <4>1, <4>2, Untouched DEF Observed, WatchedInv, Held, Expected
      <4>3. CASE f \in Inside
        <5>1. dirExists /\ Dir \notin watched
          BY <2>3, <3>3, <4>1, <4>3 DEF CreateFile, Observed
        <5>2. \A w \in Walker : ~WatchesDir(w)
          BY <3>3, <4>3 DEF Overtakes, WatchesDir
        <5>3. ToBeScanned \/ CreationPending(f) \/ WillBeVisited(f)
          BY <4>3, <5>1, <5>2 DEF WatchedInv, CreationPending, WillBeVisited
        <5> QED BY <1>4, <5>3 DEF Held, Expected
      <4> QED BY <4>2, <4>3
    <3> QED BY <3>1, <3>2, <3>3
  <2>4. CASE WriteFile(f)
    <3>1. CASE Observed(f)
      <4>1. Pending("Write", f)'
        BY <1>0, <2>4, <3>1, ReportKeeps DEF WriteFile
      <4> QED BY <4>1 DEF Held, Expected
    <3>2. CASE ToBeScanned
      BY <1>4, <3>2 DEF Held, Expected
    <3>3. CASE ~Observed(f) /\ ~ToBeScanned
      BY <2>4, <3>3 DEF WriteFile, Held
    <3> QED BY <3>1, <3>2, <3>3
  <2> QED BY <2>2, <2>3, <2>4
<1> QED BY <1>5, <1>6

LEMMA ImporterHolds ==
  ASSUME TypeInv, ListInv, NEW g \in Importer, AwaitFile(g) \/ ReceiveFromClosed(g) \/ Tick(g),
         NEW f \in File, Held(f), ~WatcherEnds, ~WatcherEnds', ValidFile(disk[f])
  PROVE  Held(f)'
<1>0. /\ importer \in [Importer -> ImporterStates]
      /\ loop = "send" => sendTo \in Importer
      /\ Exists(f)
  BY DEF TypeInv, TypeOK, HasPath, Exists, ValidFile
<1>1. /\ UNCHANGED <<loop, sendTo, walk, events, rows, refresh, crashed, disk>>
      /\ unheeded \subseteq unheeded'
  BY DEF AwaitFile, Register, StatAgain, StatFails, Settle, ReceiveFromClosed, Tick,
     ImporterStep, loopVars, dbVars, diskVars
<1>2. PICK new : importer' = [importer EXCEPT ![g] = new]
  BY DEF AwaitFile, Register, StatAgain, StatFails, Settle, ReceiveFromClosed, Tick, Updated
<1>3. importer'[g] = new /\ \A h \in Importer : h # g => importer'[h] = importer[h]
  BY <1>0, <1>2
  \* Of the parts of Held, those of g and of the probes remain to be looked at.
<1>4. ASSUME BeingSent(f) => Held(f)', HasImporter(f) => Held(f)', HasProbe(f) => Held(f)',
             RowsOf({f}) # {} => Held(f)'
      PROVE  Held(f)'
  BY <1>1, <1>4, Untouched DEF Held, Expected
<1>5. ASSUME UNCHANGED probe,
             new.path = importer[g].path,
             new.at \in {"register", "wait", "stat"},
             importer[g].at \in {"register", "wait", "stat"},
             \/ new.at = "stat"
             \/ importer[g].at # "stat" /\ new.node = importer[g].node
             \/ importer[g].path = f => ValidFile(new.node)
      PROVE  Held(f)'
  <2>1. HasImporter(f) => HasImporter(f)'
    BY <1>3, <1>5 DEF HasImporter
  <2>2. BeingSent(f) => BeingSent(f)'
    BY <1>0, <1>1, <1>3, <1>5 DEF BeingSent
  <2>3. (HasProbe(f) => HasProbe(f)') /\ (RowsOf({f}) # {} => RowsOf({f})' # {})
    BY <1>1, <1>5, Untouched
  <2> QED BY <1>4, <2>1, <2>2, <2>3 DEF Held, Expected
<1>6. CASE Register(g) \/ ReceiveFromClosed(g) \/ Tick(g)
  <2>1. /\ UNCHANGED probe
        /\ importer[g].at \in {"register", "wait", "stat"}
        /\ \/ /\ importer' = [importer EXCEPT ![g] = [importer[g] EXCEPT !.at = "wait", !.running = TRUE]]
              /\ importer[g].at = "register"
           \/ importer' = [importer EXCEPT ![g] = [importer[g] EXCEPT !.at = "stat", !.running = TRUE]]
           \/ importer' = [importer EXCEPT ![g] = [importer[g] EXCEPT !.running = FALSE, !.tick = TRUE]]
    BY <1>6 DEF Register, ReceiveFromClosed, Tick, Updated
  <2>3. /\ importer[g] \in ImporterStates
        /\ \/ /\ new = [importer[g] EXCEPT !.at = "wait", !.running = TRUE]
              /\ importer[g].at = "register"
           \/ new = [importer[g] EXCEPT !.at = "stat", !.running = TRUE]
           \/ new = [importer[g] EXCEPT !.running = FALSE, !.tick = TRUE]
    BY <1>0, <1>3, <2>1
  <2>2. /\ new.path = importer[g].path /\ new.node = importer[g].node
        /\ new.at = "stat" \/ (new.at = "wait" /\ importer[g].at = "register") \/ new.at = importer[g].at
    BY <2>3 DEF ImporterStates
  <2> QED BY <1>5, <2>1, <2>2
<1>7. CASE StatAgain(g)
  <2>1. /\ UNCHANGED probe /\ importer[g].at = "stat"
        /\ importer' = [importer EXCEPT ![g] =
                         [@ EXCEPT !.at = "wait", !.node = disk[importer[g].path]]]
    BY <1>7 DEF StatAgain
  <2>2. new.path = importer[g].path /\ new.node = disk[importer[g].path] /\ new.at = "wait"
    BY <1>0, <1>3, <2>1 DEF ImporterStates
  <2> QED BY <1>5, <2>1, <2>2
<1>8. CASE StatFails(g) \/ Settle(g)
  <2>1. new = Finished /\ importer[g].at \in {"wait", "stat"} /\ importer[g].path \in File
    BY <1>0, <1>3, <1>8 DEF StatFails, Settle, TypeInv, HasPath
  <2>2. new.at = "done" /\ new.path = None
    BY <2>1 DEF Finished, Idle
  <2>3. BeingSent(f) => BeingSent(f)'
    <3>1. loop = "send" => sendTo # g
      BY <1>1, <1>3, <2>2 DEF WatcherEnds
    <3> QED BY <1>0, <1>1, <1>3, <3>1 DEF BeingSent
  <2>4. CheckAndAddProbeJob(importer[g].path) \/ UNCHANGED probe
    BY <1>8 DEF StatFails, Settle
  <2>5. (HasProbe(f) => HasProbe(f)') /\ (RowsOf({f}) # {} => RowsOf({f})' # {})
    BY <1>1, <2>1, <2>4, AddKeeps
  <2>6. HasImporter(f) => HasImporter(f)' \/ HasProbe(f)' \/ RowsOf({f})' # {}
    <3>1. PICK h \in Importer : HasImporter(f) =>
            /\ importer[h].path = f
            /\ \/ importer[h].at = "stat"
               \/ importer[h].at \in {"register", "wait"} /\ ValidFile(importer[h].node)
      BY DEF HasImporter
    <3>2. CASE h # g
      BY <1>3, <3>1, <3>2 DEF HasImporter
    <3>3. ASSUME h = g, HasImporter(f), StatFails(g) PROVE FALSE
      BY <1>0, <3>1, <3>3 DEF StatFails
    <3>4. ASSUME h = g, HasImporter(f), Settle(g) PROVE HasProbe(f)' \/ RowsOf({f})' # {}
      <4>1. CheckAndAddProbeJob(f)
        BY <3>1, <3>4 DEF Settle
      <4> QED BY <1>1, <4>1, AddKeeps
    <3> QED BY <1>8, <3>2, <3>3, <3>4
  <2> QED BY <1>4, <2>3, <2>5, <2>6 DEF Held, Expected
<1> QED BY <1>6, <1>7, <1>8 DEF AwaitFile

LEMMA ProbeHolds ==
  ASSUME TypeInv, ListInv, StoppedInv, [Next]_vars, NEW j \in Probe, ProbePool(j),
         NEW f \in File, Held(f), ~WatcherEnds, ~Restart, ValidFile(disk[f])
  PROVE  Held(f)'
<1>0. /\ probe \in [Probe -> ProbeStates] /\ rows \subseteq Probe
      /\ \A k \in rows : StoredIn(k)
      /\ Exists(f)
  BY DEF TypeInv, TypeOK, ListInv, Exists, ValidFile
<1>1. /\ UNCHANGED <<loop, sendTo, importer, walk, events, refresh, crashed>>
      /\ unheeded \subseteq unheeded' /\ rows \subseteq rows'
  BY DEF ProbePool, ProbeFile, ProbeFails, StoreFile, IdentifyFile, NoMatch, ProcessPanics,
     ProbeStep, SaveFile,
     loopVars, growVars, diskVars
<1>2. PICK new : probe' = [probe EXCEPT ![j] = new]
  BY DEF ProbePool, ProbeFile, ProbeFails, StoreFile, IdentifyFile, NoMatch, ProcessPanics,
     ProbeStep
<1>3. probe'[j] = new /\ \A k \in Probe : k # j => probe'[k] = probe[k]
  BY <1>0, <1>2
<1>4. RowsOf({f}) # {} => RowsOf({f})' # {}
  <2>1. \A k \in rows : k \in rows' /\ probe'[k].path = probe[k].path
    BY <1>0, <1>1, StoredStays
  <2> QED BY <2>1 DEF RowsOf
<1>5. HasProbe(f) => HasProbe(f)' \/ RowsOf({f})' # {} \/ f \in unheeded'
  <2>1. SUFFICES ASSUME probe[j].path = f, probe[j].at \in {"queued", "probed"}
                 PROVE  HasProbe(f)' \/ RowsOf({f})' # {} \/ f \in unheeded'
    BY <1>3 DEF HasProbe
  <2>2. ~ProcessPanics(j)
    BY DEF ProcessPanics, StoppedInv, WatcherEnds
  <2>3. CASE ProbeFile(j)
    <3>1. probe' = [probe EXCEPT ![j] = [at |-> "probed", path |-> f]]
      BY <1>0, <2>1, <2>3 DEF ProbeFile, ProbeStep
    <3>2. probe'[j].at = "probed" /\ probe'[j].path = f
      BY <1>0, <3>1
    <3> QED BY <3>2 DEF HasProbe
  <2>4. CASE StoreFile(j)
    <3>1. probe' = [probe EXCEPT ![j] = [probe[j] EXCEPT !.at = "stored"]] /\ j \in rows'
      BY <2>4 DEF StoreFile, ProbeStep, SaveFile
    <3>2. probe'[j].path = f
      BY <1>0, <2>1, <3>1 DEF ProbeStates
    <3> QED BY <3>1, <3>2 DEF RowsOf
  <2>5. ~IdentifyFile(j) /\ ~NoMatch(j)
    BY <2>1 DEF IdentifyFile, NoMatch
  <2>6. CASE ProbeFails(j)
    BY <2>1, <2>6 DEF ProbeFails
  <2> QED BY <2>2, <2>3, <2>4, <2>5, <2>6 DEF ProbePool
<1> QED BY <1>1, <1>4, <1>5, Untouched DEF Held, Expected

LEMMA WalkHolds ==
  ASSUME TypeInv, ListInv, UnderDir, WalkInv, NEW w \in Walker, RecursiveProbe(w),
         NEW f \in File, Held(f), ~WatcherEnds, ~WatcherEnds', ValidFile(disk[f])
  PROVE  Held(f)'
<1>0. /\ Inside \subseteq File /\ Dir \notin File /\ Root \notin Path /\ File \subseteq Path
      /\ Path = File \cup {Dir}
      /\ Exists(f) /\ (f \in Inside => dirExists)
      /\ Directories = {Root, Dir}
  BY DEF Path, Exists, ValidFile, UnderDir, Directories
<1>1. /\ UNCHANGED <<loop, sendTo, importer, events, refresh, rows, disk, unheeded>>
      /\ ~crashed'
  BY DEF RecursiveProbe, VisitFile, ReadDirNames, AddWatcher, VisitVanished, WalkStep,
     loopVars, growVars, diskVars, dbVars, historyVars, WatcherEnds
<1>2. PICK e \in File : CheckAndAddProbeJob(e) \/ UNCHANGED probe
  BY DEF RecursiveProbe, VisitFile, ReadDirNames, AddWatcher, VisitVanished
<1>3. (RowsOf({f}) # {} => RowsOf({f})' # {}) /\ (HasProbe(f) => HasProbe(f)')
  BY <1>1, <1>2, AddKeeps
<1>4. WillBeVisited(f) => WillBeVisited(f)' \/ RowsOf({f})' # {} \/ HasProbe(f)'
  <2>1. ASSUME NEW v \in Walker, v # w, Awaits(v, f) \/ Awaits(v, Root) \/ (f \in Inside /\ Awaits(v, Dir))
        PROVE  WillBeVisited(f)'
    <3>1. walk'[v] = walk[v]
      BY <1>1, <2>1, WalkGoesOn
    <3> QED BY <2>1, <3>1 DEF WillBeVisited, Awaits, Walking
  <2>2. CASE Awaits(w, f)
    <3>1. Awaits(w, f)' \/ VisitFile(w, f)
      <4>1. f \notin Directories /\ f \in Path \cup {Root}
        BY <1>0
      <4> QED BY <1>1, <2>2, <4>1, WalkGoesOn
    <3>2. VisitFile(w, f) => CheckAndAddProbeJob(f)
      BY DEF VisitFile
    <3>3. CheckAndAddProbeJob(f) => RowsOf({f})' # {} \/ HasProbe(f)'
      BY <1>1, AddKeeps
    <3> QED BY <3>1, <3>2, <3>3 DEF WillBeVisited
  <2>3. CASE Awaits(w, Root)
    <3>1. Awaits(w, Root)' \/ ReadDirNames(w, Root)
      BY <1>0, <1>1, <2>3, WalkGoesOn
    <3>2. ReadDirNames(w, Root) => \A p \in Entries(Root) : Awaits(w, p)'
      BY <1>0, <1>1, WalkGoesOn
    <3>3. f \notin Inside => f \in Entries(Root)
      BY <1>0 DEF Entries
    <3>4. f \in Inside => Dir \in Entries(Root)
      BY <1>0 DEF Entries, Exists
    <3> QED BY <3>1, <3>2, <3>3, <3>4 DEF WillBeVisited
  <2>4. CASE f \in Inside /\ Awaits(w, Dir)
    <3>1. Awaits(w, Dir)' \/ ReadDirNames(w, Dir)
      BY <1>0, <1>1, <2>4, WalkGoesOn
    <3>2. ReadDirNames(w, Dir) => \A p \in Entries(Dir) : Awaits(w, p)'
      BY <1>0, <1>1, WalkGoesOn
    <3>3. f \in Entries(Dir)
      BY <1>0, <2>4 DEF Entries
    <3> QED BY <2>4, <3>1, <3>2, <3>3 DEF WillBeVisited
  <2> QED BY <2>1, <2>2, <2>3, <2>4 DEF WillBeVisited
<1> QED BY <1>1, <1>3, <1>4, Untouched DEF Held, Expected

LEMMA WatcherHolds ==
  ASSUME TypeInv, ListInv, RegisteredIsWaiting, UnderDir, WalkInv, [Next]_vars, ~Restart,
         StartWatcher, ~\E w \in Walker : RecursiveProbe(w),
         NEW f \in File, Held(f), ~WatcherEnds, ~WatcherEnds', ValidFile(disk[f])
  PROVE  Held(f)'
<1>0. /\ importer \in [Importer -> ImporterStates]
      /\ growing \in [File -> Importer \cup {None}] /\ None \notin Importer
      /\ Inside \subseteq File /\ Dir \notin File /\ Path = File \cup {Dir}
      /\ Exists(f) /\ (f \in Inside => dirExists /\ Exists(Dir))
      /\ loop = "send" => sendTo \in Importer
      /\ "watcher" \in Walker
      /\ ~crashed /\ ~crashed'
  BY DEF TypeInv, TypeOK, HasPath, Path, Exists, ValidFile, UnderDir, Walker, WatcherEnds
<1>1. UNCHANGED <<disk, refresh, probe>>
  BY DEF StartWatcher, CreatedVanished, RemovedUnknown, CreatedDir, DirWalked, MissingRemoved,
     SendUpdate, SendPanics, SendStep, CreatedFile, Written, RemovedFile, Watch, diskVars, poolVars
<1>2. WillBeVisited(f) => WillBeVisited(f)'
  BY VisitsStay
  \* Of the parts of Held, those of events, the goroutines and the rows remain.
<1>3. ASSUME CreationPending(f) => Held(f)', Pending("Write", f) => Held(f)',
             BeingSent(f) => Held(f)', HasImporter(f) => Held(f)',
             RowsOf({f}) # {} => Held(f)', f \in unheeded => Held(f)'
      PROVE  Held(f)'
  BY <1>1, <1>2, <1>3, Untouched DEF Held, Expected
<1>4. HasImporter(f)' => Held(f)'
  BY DEF Held, Expected
<1>5. RowsOf({f})' # {} => Held(f)'
  BY DEF Held
<1>6. CreationPending(f)' \/ Pending("Write", f)' => Held(f)'
  BY DEF Held, Expected
<1>7. unheeded \subseteq unheeded'
  BY DEF StartWatcher, CreatedVanished, RemovedUnknown, CreatedDir, DirWalked, MissingRemoved,
     SendUpdate, SendPanics, SendStep, CreatedFile, Written, RemovedFile, Watch, historyVars
<1>8. f \in unheeded' => Held(f)'
  BY DEF Held
  \* Handling an event, the loop sends to nobody; it may lose what the event announced.
<1>9. ASSUME NEW op, NEW p, Watch(op, p), importer' = importer \/ \E e \in File : CreatedFile(e),
             RowsOf({f}) # {} => Held(f)',
             op = "Create" /\ (p = f \/ (f \in Inside /\ p = Dir)) => Held(f)',
             op = "Write" /\ p = f => Held(f)'
      PROVE  Held(f)'
  <2>1. ~BeingSent(f)
    BY <1>9 DEF Watch, BeingSent
  <2>2. CreationPending(f) => Held(f)'
    <3>1. CreationPending(f) => CreationPending(f)' \/ (op = "Create" /\ (p = f \/ (f \in Inside /\ p = Dir)))
      BY <1>9, TailKeeps DEF CreationPending
    <3> QED BY <1>6, <1>9, <3>1
  <2>3. Pending("Write", f) => Held(f)'
    <3>1. Pending("Write", f) => Pending("Write", f)' \/ (op = "Write" /\ p = f)
      BY <1>9, TailKeeps
    <3> QED BY <1>6, <1>9, <3>1
  <2>4. HasImporter(f) => HasImporter(f)'
    <3>1. CASE importer' = importer
      BY <3>1, Untouched
    <3>2. ASSUME NEW e \in File, CreatedFile(e) PROVE HasImporter(f) => HasImporter(f)'
      <4>1. PICK g \in Importer : /\ importer[g].at = "unborn"
                                  /\ \E new : importer' = [importer EXCEPT ![g] = new]
        BY <3>2 DEF CreatedFile
      <4>2. \A h \in Importer : importer[h].at # "unborn" => importer'[h] = importer[h]
        BY <1>0, <4>1
      <4> QED BY <4>2 DEF HasImporter
    <3> QED BY <1>9, <3>1, <3>2
  <2> QED BY <1>3, <1>4, <1>7, <1>8, <1>9, <2>1, <2>2, <2>3, <2>4
<1>10. ASSUME rows' = rows PROVE RowsOf({f}) # {} => Held(f)'
  BY <1>1, <1>5, <1>10, Untouched
<1>11. ASSUME NEW p \in Path, CreatedVanished(p) PROVE Held(f)'
  <2>1. /\ Watch("Create", p) /\ ~Exists(p)
        /\ importer' = importer /\ rows' = rows
    BY <1>11 DEF CreatedVanished
  <2>2. p # f /\ ~(f \in Inside /\ p = Dir)
    BY <1>0, <2>1
  <2> QED BY <1>9, <1>10, <2>1, <2>2
<1>12. CASE CreatedDir
  <2>1. /\ Watch("Create", Dir) /\ importer' = importer /\ rows' = rows
        /\ dirExists
    BY <1>0, <1>12 DEF CreatedDir, Exists, growVars
  <2>2. f \in Inside => WillBeVisited(f)'
    BY <1>0, <2>1, DirIsWalked DEF WillBeVisited
  <2>3. f \in Inside => Held(f)'
    BY <2>2 DEF Held, Expected
  <2> QED BY <1>0, <1>9, <1>10, <2>1, <2>3
<1>13. CASE DirWalked \/ MissingRemoved
  <2>1. UNCHANGED <<events, importer, rows>> /\ loop # "send"
    BY <1>13 DEF DirWalked, MissingRemoved, diskVars, growVars, dbVars
  <2>2. ~BeingSent(f)
    BY <2>1 DEF BeingSent
  <2>3. /\ CreationPending(f) => CreationPending(f)'
        /\ Pending("Write", f) => Pending("Write", f)'
        /\ HasImporter(f) => HasImporter(f)'
    BY <2>1, Untouched
  <2> QED BY <1>3, <1>4, <1>6, <1>7, <1>8, <1>10, <2>1, <2>2, <2>3
<1>14. CASE SendUpdate
  <2>1. /\ UNCHANGED <<events, rows>> /\ loop = "send" /\ sendTo \in Importer
        /\ importer' = [importer EXCEPT ![sendTo] = [importer[sendTo] EXCEPT !.at = "stat", !.running = TRUE]]
    BY <1>0, <1>14 DEF SendUpdate, SendStep, Updated, diskVars, dbVars
  <2>2. /\ importer'[sendTo].at = "stat" /\ importer'[sendTo].path = importer[sendTo].path
        /\ \A h \in Importer : h # sendTo => importer'[h] = importer[h]
    BY <1>0, <2>1 DEF ImporterStates
  <2>3. BeingSent(f) \/ HasImporter(f) => HasImporter(f)'
    BY <2>1, <2>2 DEF BeingSent, HasImporter
  <2>4. /\ CreationPending(f) => CreationPending(f)'
        /\ Pending("Write", f) => Pending("Write", f)'
    BY <2>1, Untouched
  <2> QED BY <1>3, <1>4, <1>6, <1>7, <1>8, <1>10, <2>1, <2>3, <2>4
<1>15. ~SendPanics
  BY <1>0 DEF SendPanics
<1>16. ASSUME NEW e \in File, CreatedFile(e) PROVE Held(f)'
  <2>1. Watch("Create", e) /\ rows' = rows
    BY <1>16 DEF CreatedFile
  <2>2. e = f => HasImporter(f)'
    <3>1. PICK g \in Importer :
            importer' = [importer EXCEPT ![g] =
                          [Idle EXCEPT !.at = "register", !.path = e, !.node = disk[e]]]
      BY <1>16 DEF CreatedFile
    <3>2. importer'[g].at = "register" /\ importer'[g].path = e /\ importer'[g].node = disk[e]
      BY <1>0, <3>1 DEF Idle
    <3> QED BY <3>2 DEF HasImporter
  <2>3. e # Dir
    BY <1>0
  <2> QED BY <1>4, <1>9, <1>10, <1>16, <2>1, <2>2, <2>3
<1>17. ASSUME NEW e \in File, Written(e) PROVE Held(f)'
  <2>1. Watch("Write", e) /\ importer' = importer /\ rows' = rows
    BY <1>17 DEF Written, growVars
  <2>2. CASE growing[e] = None
    <3>1. e \in unheeded'
      BY <1>17, <2>2 DEF Written
    <3> QED BY <1>8, <1>9, <1>10, <2>1, <3>1
  <2>3. CASE growing[e] # None
    <3>1. loop' = "send" /\ sendTo' = growing[e] /\ importer[growing[e]].path = e
      BY <1>17, <2>3 DEF Written, RegisteredIsWaiting
    <3>2. e = f => BeingSent(f)'
      BY <2>1, <3>1 DEF BeingSent
    <3>3. BeingSent(f)' => Held(f)'
      BY DEF Held, Expected
    <3> QED BY <1>9, <1>10, <2>1, <3>2, <3>3
  <2> QED BY <2>2, <2>3
<1>18. ASSUME NEW e \in File, RemovedFile(e) PROVE Held(f)'
  <2>1. /\ Watch("Remove", e) /\ importer' = importer
        /\ unheeded' = IF Exists(e) /\ ~CreationPending(e) THEN unheeded \cup {e} ELSE unheeded
    BY <1>18 DEF RemovedFile
  <2>2. PICK j \in RowsOf({e}) : rows' = rows \ {j}
    BY <1>18 DEF RemovedFile
  <2>3. e # f => (RowsOf({f}) # {} => RowsOf({f})' # {})
    BY <1>1, <2>2 DEF RowsOf
  <2>4. e = f => Held(f)'
    <3>1. CASE CreationPending(f)
      <4>1. CreationPending(f)'
        BY <2>1, <3>1, TailKeeps DEF CreationPending
      <4> QED BY <1>6, <4>1
    <3>2. CASE ~CreationPending(f)
      BY <1>0, <1>8, <2>1, <3>2
    <3> QED BY <3>1, <3>2
  <2> QED BY <1>5, <1>9, <2>1, <2>3, <2>4
<1>19. ASSUME NEW p \in Path, RemovedUnknown(p) PROVE Held(f)'
  <2>1. Watch("Remove", p) /\ importer' = importer /\ rows' = rows
    BY <1>19 DEF RemovedUnknown
  <2> QED BY <1>9, <1>10, <2>1
<1> QED BY <1>11, <1>12, <1>13, <1>14, <1>15, <1>16, <1>17, <1>18, <1>19 DEF StartWatcher

LEMMA NextSettles ==
  TypeInv /\ ListInv /\ RegisteredIsWaiting /\ SettleInv /\ SettledFilesAreExpected /\ [Next]_vars
    => SettledFilesAreExpected'
<1>1. CASE Restart
  <2>1. ToBeScanned'
    BY <1>1 DEF Restart, AddLibraryManager, ToBeScanned, NoRefresh
  <2> QED BY <2>1 DEF SettledFilesAreExpected, Expected
<1> SUFFICES ASSUME TypeInv, ListInv, RegisteredIsWaiting, SettleInv, SettledFilesAreExpected,
                    [Next]_vars, ~Restart, ~WatcherEnds', NEW f \in File, ValidFile(disk'[f])
             PROVE  Held(f)'
  BY <1>1 DEF SettledFilesAreExpected, Held
<1> USE DEF SettleInv
<1>2. ~WatcherEnds /\ (ValidFile(disk[f]) => Held(f))
  BY EndsStays DEF SettledFilesAreExpected, Held
<1>3. CASE ChangeDisk
  BY <1>2, <1>3, ChangeHolds
<1>4. ASSUME ~ChangeDisk PROVE Held(f)'
  <2>1. ValidFile(disk[f]) /\ Held(f)
    BY <1>2, <1>4, OnlyChanges
  <2>2. ASSUME NEW w \in Walker, RecursiveProbe(w) PROVE Held(f)'
    BY <1>2, <2>1, <2>2, WalkHolds
  <2> SUFFICES ASSUME ~\E w \in Walker : RecursiveProbe(w) PROVE Held(f)'
    BY <2>2
  <2>3. CASE StartWatcher
    BY <1>2, <2>1, <2>3, WatcherHolds
  <2>4. ASSUME NEW g \in Importer, AwaitFile(g) \/ ReceiveFromClosed(g) \/ Tick(g) PROVE Held(f)'
    BY <1>2, <2>1, <2>4, ImporterHolds
  <2>5. ASSUME NEW j \in Probe, ProbePool(j) PROVE Held(f)'
    BY <1>2, <2>1, <2>5, ProbeHolds
    \* The other steps leave events, goroutines and probes alone.
  <2>6. ASSUME UNCHANGED <<loop, sendTo, importer, events, probe, unheeded>>,
               RowsOf({f}) # {} => RowsOf({f})' # {}
        PROVE  Held(f)'
    <3>1. WillBeVisited(f) => WillBeVisited(f)'
      BY VisitsStay
    <3>2. ToBeScanned => ToBeScanned' \/ WillBeVisited(f)'
      BY ScanGoesOn DEF WillBeVisited
    <3> QED BY <1>2, <2>1, <2>6, <3>1, <3>2, Untouched DEF Held, Expected
  <2>7. ASSUME UNCHANGED probe, rows \subseteq rows'
        PROVE  RowsOf({f}) # {} => RowsOf({f})' # {}
    BY <2>7, Untouched
  <2> USE DEF diskVars, loopVars, growVars, poolVars, dbVars, historyVars
  <2>8. ASSUME NEW w \in Walker, RemoveMissingFiles(w) PROVE Held(f)'
    <3>1. PICK j \in Probe : RemoveMissingFile(w, j)
      BY <2>8 DEF RemoveMissingFiles
    <3>2. /\ UNCHANGED <<loop, sendTo, importer, events, probe, unheeded>>
          /\ rows' = IF Exists(probe[j].path) THEN rows ELSE rows \ {j}
      BY <3>1 DEF RemoveMissingFile
    <3>3. Exists(f)
      BY <2>1 DEF Exists, ValidFile
    <3>4. RowsOf({f}) # {} => RowsOf({f})' # {}
      BY <3>2, <3>3 DEF RowsOf
    <3> QED BY <2>6, <3>2, <3>4
  <2>9. ASSUME NEW r \in Refresh, StartRefresh(r) \/ ContinueRefresh(r) PROVE Held(f)'
    <3>1. /\ UNCHANGED <<loop, sendTo, importer, events, probe, unheeded>>
          /\ rows \subseteq rows'
      BY <2>9 DEF StartRefresh, ContinueRefresh, RefreshAll, RescanPath, RescanUnhealthy,
         MissingChecked, Rescan, Rescanned, Refreshed, RefreshStep, IdentifyUnidentified, SaveFile
    <3> QED BY <2>6, <2>7, <3>1
  <2>10. ASSUME NEW c \in Copy, WorkOnMovie(c) PROVE Held(f)'
    <3>1. /\ UNCHANGED <<loop, sendTo, importer, events, probe, unheeded>>
          /\ rows \subseteq rows'
      BY <2>10 DEF WorkOnMovie, CollectMovieInfo, SaveMovie, CopyStep
    <3> QED BY <2>6, <2>7, <3>1
  <2>11. ASSUME NEW d \in Deletion, Delete(d) \/ ContinueDeletion(d) PROVE Held(f)'
    <3>1. UNCHANGED <<sendTo, importer, events, probe, unheeded>>
      BY <2>11 DEF Delete, ContinueDeletion, StopWatcher, ClosePool, FindFiles,
         DeleteWithStreams, DeleteLibraryByID, DeletionStep
    <3>2. loop # "stopped" /\ loop' # "stopped"
      BY <1>2 DEF WatcherEnds
    <3>3. Delete(d)
      BY <2>11, <3>2 DEF ContinueDeletion, StopWatcher, ClosePool, FindFiles,
         DeleteWithStreams, DeleteLibraryByID, StoppedInv
    <3>4. UNCHANGED <<loop, rows>>
      BY <3>3 DEF Delete
    <3> QED BY <2>6, <2>7, <3>1, <3>4
  <2>12. CASE UNCHANGED vars
    <3>1. UNCHANGED <<loop, sendTo, importer, events, probe, unheeded, rows>>
      BY <2>12 DEF vars
    <3> QED BY <2>6, <2>7, <3>1
  <2> QED BY <1>4, <2>3, <2>4, <2>5, <2>8, <2>9, <2>10, <2>11, <2>12 DEF Next
<1> QED BY <1>3, <1>4

\* A valid file that is not in the database is never forgotten: until it is stored an
\* event, a goroutine, a scan or a probe has it, apart from the files that the history
\* names and from a watcher that has ended (fsnotify.go:47-104).
THEOREM SettledFilesAreExpectedAlways == Spec => []SettledFilesAreExpected
<1>1. Init => SettleInv /\ SettledFilesAreExpected
  <2> SUFFICES ASSUME Init PROVE SettleInv /\ SettledFilesAreExpected
    OBVIOUS
  <2>1. /\ disk = [f \in File |-> "absent"] /\ dirExists = FALSE /\ watched = {Root}
        /\ events = <<>> /\ loop = "select" /\ poolOpen = TRUE
        /\ Inside \subseteq File /\ Refresh \subseteq Walker /\ "watcher" \in Walker
        /\ \A w \in Walker : walk[w].at = "off" /\ walk[w].names = {} /\ walk[w].visit = {}
        /\ \A d \in Deletion : deletion[d].at = "none"
    BY DEF Init, NoWalk, Walker
  <2> QED BY <2>1 DEF SettleInv, UnderDir, StoppedInv, WalkInv, DirEventsInv, WatchedInv,
       SettledFilesAreExpected, ValidFile
<1>2. TypeInv /\ GrowInv /\ [Next]_vars => GrowInv'
  BY NextGrow
<1>3. Init => GrowInv
  BY DEF Init, GrowInv, RegisteredIsWaiting, ClosedWasRegistered
<1>4. GrowInv => RegisteredIsWaiting
  BY DEF GrowInv
<1> QED BY <1>1, <1>2, <1>3, <1>4, NextSettle, NextSettles, TypeInvAlways, PTL DEF Spec

=============================================================================
