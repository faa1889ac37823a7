# A verification project for olaris-server

olaris-server is a media server written in Go: it scans libraries of video
files, keeps their metadata in a database, and streams them, transcoded by
ffmpeg on the fly, over DASH and HLS.  This directory holds TLA+ models of the
parts of it where many goroutines meet, TLC configurations that check the
models on small instances, and proofs of their main properties that hold for
instances of any size.

Contents: 1 the system, 2 the modules, 3 the runs, 4 the proofs, 5 what is left
out, 6 what could come next, 7 how to run it.

## 1. The system

### 1.1 Components

| component | code | state | operations | who calls it |
|---|---|---|---|---|
| playback sessions | `streaming/session.go`, `segments.go`, `ffmpeg_feedback.go` | the session map under `mtx`; per session a reference count, the last index asked for and served, the time of the last access | get a session for a segment, get one by ID, serve, release, collect, time out | one goroutine per HTTP request, one per session (ticker), one per new session (collection) |
| transcoding sessions | `ffmpeg/session.go`, `ffmpeg.go` | a process, its directory, `Terminated` | start, list segments, destroy | playback sessions |
| event broker | `metadata/managers/metadata/subscriber.go` | the set of subscriber channels under an RWMutex | add, remove, publish | the metadata manager, GraphQL subscriptions |
| GraphQL subscriptions | `metadata/resolvers/subscriptions.go` | a goroutine per subscription between two bounded channels | filter, convert, forward or drop | the GraphQL library |
| metadata manager | `metadata/managers/metadata/{metadata,movies,series}.go` | the rows of movies, series, seasons, episodes; two creation mutexes; three tables of per-row try-locks | get or create, refresh, collect garbage | probes, scans, the file watcher, GraphQL mutations |
| library manager | `metadata/managers/library.go`, `worker_pool.go`, `metadata/resolvers/library.go` | a pool of four probe workers, an exit channel, a row per library | rescan, probe, identify, remove missing files, delete, shut down | GraphQL mutations, timers, start-up |
| file watcher | `metadata/managers/fsnotify.go` | a map from growing files to update channels, a timer goroutine per file | handle create, write, remove, rename; stop | fsnotify |
| named try-locks | `metadata/helpers/locks.go` | a `sync.Map` of locked names | run a function unless its name is locked | refreshes, rescans, deletions |
| file re-tagging | `metadata/resolvers/update_*_file_metadata.go` | none of its own | attach files to another movie or episode, collect the old one | GraphQL mutations |
| users, invites, tokens | `metadata/db/user.go`, `metadata/auth` | rows of users and invites, one signing secret | register with an invite, log in, check a token, issue a streaming ticket | HTTP handlers |
| play state, up next | `metadata/db/play_state.go`, `metadata/resolvers/play_state.go` | a row per user and media item | save, list what to watch next | GraphQL |
| probe cache | `ffmpeg/ffprobe.go` | file name to probe result | probe | probes, streaming |
| image cache | `metadata/image_cache.go` | files on disk | serve, download on a miss | HTTP handlers |
| playlists | `streaming/{dash,hls,metadata}.go`, `dash`, `hls`, `ffmpeg/{streams,transmux,transcode*,subtitles,client_capabilities,encoder_params}.go` | none on the server; the URLs a client holds | codecs to ask about, manifests, lists of segments, the process for a representation | HTTP handlers |
| segment algorithms | `ffmpeg/util.go` | none | cut a duration into segments | playlists |

Playback sessions are independent of the metadata side, but for the row of the
file that is played; what they serve is decided by the playlists.  On the metadata side
everything meets in the database and in the broker: a probe job or a refresh
changes rows and publishes an event while it may hold a creation mutex; a
subscription's goroutine takes the event off its channel, filters it, and hands
it to the GraphQL library.

### 1.2 What is hard about it, and what makes each part correct

*Playback sessions.*  Three kinds of goroutines share a session: handlers, the
collections started by every new session, and its own ticker.  Only the
manager's part of the work is done under `mtx`; handlers poll, serve, update
the indices and release without it.  A collection works from a list it made
earlier.  Correct means: the reference count is what its comment says, nothing
is destroyed under a handler, no process is left behind, a player gets every
segment once and in order, and every request is answered.

*The event broker.*  `publish` sends while it holds the read lock, and often
while its caller holds a creation mutex, so one subscriber that does not take
its events can stop everything.  Payloads are pointers that are followed later.
Correct means: whoever is subscribed gets every event, once and in order, up to
what its own subscription drops; calls return; what the client sees is what the
event was about.

*Metadata.*  Creation is serialised by a mutex, collection of unused rows is
not, or by another; refreshes hold a copy of a row across a slow call to an
agent, and GORM saves with a copy everything that was loaded with it.  Correct
means: no file refers to a row that is gone, no two rows exist for one title, an
unused row goes in the end, and a deletion is not undone.

*Library manager and file watcher.*  One loop, one goroutine per growing file, an
unbuffered channel that either of them may close; scans that walk the same
directories at the same time; four probe workers that store what they find; a
deletion that has to stop all of it.  The disk changes meanwhile, and what
inotify says of it arrives later.  Correct means: a file that stopped growing is
probed, the loop goes on to the next event, the database follows the disk, and
what was deleted stays deleted.

*Playlists.*  One decision is taken again and again from different inputs: by
the list of codecs a client is asked about, by the manifest, by the list of
segments and by the process for one of them, each of which starts from a URL.
Correct means: they agree.

*Users, play states, images.*  Check-then-act sequences of several statements
without a lock around them.  Correct means: an invite makes one account, what
was reported is not lost, what is offered next is what comes next, and what is
cached is what was downloaded.

`PROJECT.json` lists these hazards one by one, at their lines, with the
properties that cover them.

## 2. The modules

| module | models |
|---|---|
| `TranscodingSession` | one ffmpeg process and its directory as a record, with the operations of `ffmpeg/session.go` |
| `PlaybackSession` | the session manager, the handlers, collections and tickers |
| `PlaybackSession_proofs` | theorems about it |
| `RWMutex` | Go's `sync.RWMutex` as a record, with a pending writer that keeps later readers out |
| `Multicast` | the abstract specification of a broker |
| `EventBroker` | the broker, the calls that publish, and the subscriptions |
| `EventBroker_proofs` | theorems about it, the refinement of `Multicast` among them |
| `LibraryManager` | the watcher, the goroutines that wait for growing files, scans, the probe pool, deletion |
| `LibraryManager_proofs` | theorems about it |
| `MovieManager` | movies and the files that belong to them: identifying, retagging, deleting, collecting, refreshing |
| `SeriesManager` | the same for series, seasons and episodes |
| `Playlists` | from the streams of a file to the process for a segment that a manifest lists |
| `PlayState` | reports of what was played, and what is up next |
| `Users` | registration, invites, deletion of users |
| `ImageCache` | requests for images and the files they leave |
| `MovieManager_proofs`, `SeriesManager_proofs`, `PlayState_proofs`, `Users_proofs` | theorems about them |
| `MCPlaybackSession`, `MCEventBroker`, `MCLibraryManager`, `MCMovieManager`, `MCSeriesManager` | instances for TLC |
| `MCClients` | one instance for `Playlists`, `PlayState`, `Users` and `ImageCache`, which do not depend on one another: a behaviour is about one of them |
| `Clients_proofs` | theorems about `Playlists`, `ImageCache` and `MCClients` |

### 2.1 PlaybackSession

A session object has an identity in `Sid`; `sessions` maps keys to identities as
the Go map does, so an object can outlive its entry, which is where the
interesting cases come from.  A key is a pair `<<stream, player>>`: the stream
part stands for StreamKey and userID, which is what collections group by; the
player part for sessionID and representationID.

Everything done under `mtx` is one action: `GetExisting`, `StartSession`,
`StartSessionFails` (the three ways through `GetPlaybackSession`),
`GetPlaybackSessionByID`, `RemovePlaybackSession` (part of `GCRemove` and
`TickerFires`).  A handler then takes the actions `ServeInit` or `ServeSegment`
and `RecordServed`, or `PollFails`, or `Feedback`, and then `Decrement` and
`Cleanup`, which are two because `Release` reads the counter twice and holds no
lock.  Waiting is the absence of an enabled action; the polling loop of a
handler changes nothing.  `GCIterate` is the unlocked iteration over the map, and
`GCRemove` each of the removals that follow, by whatever was listed then.

Data is kept to what the properties tell apart.  `lastAccessed` is the relation
`newer` between sessions and a flag `expired`, which `Expire` sets when
playbackSessionTimeout has passed: this is all the code ever asks of a time.  A
directory is the range of its segment files, and whether init.mp4 is there.

Constants that are choices and not sizes:

- `Overlap`: whether updates of one counter can overlap, as the Go memory model allows.
  The decrement in `Release` is then a load and a store that other updates can come
  between (`DecrementLoad` and `DecrementStore`), and an update by the manager, whose lock
  handlers do not take, may have read any value the counter has had since the manager's
  last update (`recent`), so that the decrements since are undone.  Whoever writes over an
  update it has not read puts the session into `lost`; the counter is exact until
  then.  Only `UnderUser` has `Overlap = FALSE`: what it shows needs no overlap.
- `Pipelined`: whether a client may ask for a segment while one is on its way to
  it.  Clients that do can be served one segment twice and another never,
  because handlers read `lastServedSegmentIdx` without a lock.
- `MayFail`: whether starting a session can fail and ffmpeg can exit early.

Each request is issued once (`Request` is a set of one-shot handlers); more
requests of one client are more members of the set.  History variables:
`detached` counts how often the manager has let go of a session, `served`
records what was served for what, and `lost` the sessions an update of whose counter
was lost.

### 2.2 EventBroker

A channel has an identity; `queue` is its contents.  Besides the one that
`addSubscriber` makes, a client can have the one that `removeSubscriber` makes
(it inserts a new channel instead of deleting the old one; nothing in the
repository calls it, and `Removes` says whether anybody does).

A publisher is one call of an operation of the metadata manager.  Its operation
is a record: the kind of media, the change, the mutex it holds while it
publishes, and how many events.  The operations are `Creations` (one event,
under a creation mutex), `Refreshes` (a loop over items, no mutex) and
`Collections` (one event; that of a series, season or episode is published under
the lock of its row, that of a movie under none).  All collections of a kind are
taken to be of one row, so that they wait for each other.  What calls do to the
database is not part of this module: one that has a mutex to take either takes it
and publishes (`TakeMutex`), or finds under it that there is nothing to do
(`NothingToDo`: the record is there, the row is gone or in use, the agent or
the database failed).  `GetOrCreateEpisode...` publishes for a series, a season and an episode
in three critical sections one after the other: three publishers here.  The
collection of an episode that leaves its season and series empty is three
publishers, too; in the code the later ones still hold the locks of the earlier
ones, always in the order episode, season, series, which adds calls that wait but
no circle.  A refresh that a mutation asks for publishes within a
`WithLock` of its row that others pass by rather than wait for, so nothing is held.
`publish` is `Publish` (RLock), `RangeOverSubscribers`, one `Send` per channel, and
`Published`; `target` is the channel the loop has come to, in the order of a map
(`GoesOn`), and the loop waits for that one even if another has room;
`SendPanics` is a send on a closed channel.

A subscription is `Subscribe`, `LockSubscribers` and `AddSubscriber`, then a loop
of `Receive`, `FilterOut` or `Convert`, `Forward` or `Drop`; `Stop` when the client
is gone.  The Go code evaluates the conversion before it waits, so `Convert` is
before `Forward`.  An event is `<<publisher, n>>`; `shows` is the item the payload
pointed to when it was converted: the loop variable of a refresh is one variable
(go.mod asks for Go 1.18), so it is the item the loop has reached.

`seasonChanged` filters the seasons of one series; here there is one series.

`Multicast` is what a broker is for: members join, an event is given to a member
once and after its predecessors from the same publisher, and its publication is
complete only when every member has it.

### 2.3 LibraryManager

One library on a local disk, with a root and one subdirectory `Dir`.  The disk is
the environment: `CreateFile`, `WriteFile`, `DeleteFile`, `MakeDir`, `MoveDir` change
it and append what inotify reports to `events`, provided the directory is
watched.  A file is absent, smaller than MinFileSize, or a valid media file; that
is all `ValidFile` asks.

- The watcher's loop (`startWatcher`) handles one event per action: `CreatedFile`,
  `CreatedDir`, `CreatedVanished`, `Written`, `RemovedFile`, `RemovedUnknown`, and then
  whatever the branch has to wait for: `SendUpdate` (the unbuffered send to a
  goroutine's channel) or `SendPanics`, `DirWalked` (RecursiveProbe), `MissingRemoved`
  (RemoveMissingFiles).  `SendStuck` is the state in which nobody will receive.
- A goroutine that waits for a growing file is a record of where it is, its node
  (what its last stat saw) and its timer: `Register`, `ReceiveFromClosed`, `StatAgain`
  or `StatFails`, `Tick`, `Settle`.  A goroutine and its channel have one name, so the
  map `growing` is the Go map `possiblyGrowingFiles`, and `closed` is the set of
  channels that `removeFileFromMapWithMutex` (`Forget`) has closed.  `Reset` does not
  take a tick out of the channel of the timer, as in the Go version of go.mod.
- A walk (`RecursiveProbe`) can be made by the watcher and by each scan: `VisitFile`,
  `ReadDirNames` and then `AddWatcher` (filepath.Walk reads the names before it calls
  the function that adds the watcher), and `VisitVanished`, where lstat fails and
  the function asks a node without a fileInfo whether it is a directory.  The root and
  `Dir` are walked alike; `watched` is the set of those that inotify watches.
- A probe job goes from `queued` to `probed` (`ProbeFile`, with the cache of
  `ffmpeg/ffprobe.go`) or ends there (`ProbeFails`: ffprobe cannot read the file, or
  finds no video stream in it, and nothing is stored), `stored` (`StoreFile`) and `done` (`IdentifyFile`, which stores the
  row again, or `NoMatch`).  `Workers` of them run at once.  A row is named after the
  job that stored it, so a path can have two rows, as in the code.
- A scan is `RefreshAll`, or `RescanPath` for RescanFilesystem with a path; `todo` is the
  list that RemoveMissingFiles or IdentifyUnidentifiedFiles has fetched and not
  finished.  `Refresh` names who can scan: RescanLibrary, one at a time under
  `WithLock`, RescanLibraries, one at a time under its flag, and StartUp, which runs
  when the manager has been made; they can overlap.
- `Restart`: the process ends at any point, by a panic or not, and `NewResolver` makes a
  new manager (`AddLibraryManager`).  The watcher's events and watches, the goroutines,
  jobs, walks, the probe cache and deletions are lost; the rows, the disk and the row of
  the library stay.  The disk may change before the scan that follows watches the
  root, as it may while no process runs.  A library that is created begins with the
  same scan, of no rows.
- A deletion is `Delete`, `StopWatcher` (the send on exitChan), `ClosePool`, `FindFiles`, a
  `DeleteWithStreams` per file, `DeleteLibraryByID`.
- A movie is loaded with its files (`CollectMovieInfo`) and saved with them (`SaveMovie`)
  whenever its metadata are refreshed or another file of it is identified.  `Copy`
  names the copies in somebody's hands, `copies` the files of each; what the movie
  is, and that an episode is saved with its season, is left open.

Gorm's Save inserts a row that is no longer there, which is why storing and
saving are unions and assignments of TRUE here.  History variables: `left` are rows
that no event the watcher is going to see will remove, `unheeded` are files of
which a change was not seen or not acted on, that were there again when the
event of an earlier removal took their row, or a probe of which failed (both begin anew with a
restart, `left` with all rows, until the scan has looked at them), `restored` are rows that a scan, or
the saving of a movie, stored after they had been deleted.

### 2.4 MovieManager

A call is a goroutine that identifies a file (`GetOrCreateMovieForMovieFile`, up to
the match), retags one (`UpdateMovieFileMetadata`), removes one (`FindMovieFile`,
`DeleteWithStreams`), or refreshes a movie (`RefreshAgentMetadataForUUID`); when it
is done it may make another.  Each statement or transaction of the database is
one step, and so is what happens between two of them: `Found` and `NotFound` are
GetOrCreateMovieByTmdbID up to its answer or to the call of the agent, `Create` and
`AgentFails` what comes after, `Collect` and `DeleteMovieByID` the two halves of
GarbageCollectMovieIfRequired.

What a call loads is a copy, and saving a copy is what GORM does with it (version
1.9.16, in go.mod): Save of a movie updates its row and then saves the files
that were loaded with it, which moves them back to this movie or inserts them
again; Save of a file saves its movie first.  A movie is deleted by setting
DeletedAt, after which no query finds it and no Save updates it; Save then tries to
insert a row with a key that exists, and fails.  So `deleted` only grows, and
`tmdbID` of a movie never changes.

`WithLock` is the table of names in `metadata/helpers/locks.go` as far as movies are
concerned; it covers a refresh from the call of the agent to the second save, but
not the loading before it.  History variables: `raced` are files saved with a
movie that somebody had counted the files of and was about to delete, or had
deleted; `left` are movies that lost a file in a step of a call that took it to
be another's.

### 2.5 SeriesManager

As 2.4, with three tables.  One sequence of keys serves them; `row` is what was
inserted under a key, which never changes, and `table` the rows that are there:
series, seasons and episodes are deleted for good, so Save of an old copy inserts
them again.  The creation mutex is taken once for each level, so `Found`,
`NotFound` and `Create` are made three times by a call, with `level` going down.
Which rows come with a row is `RowsWith`, after the Preloads of the queries in
`metadata/db/series.go`: a series with its seasons, their episodes and files, a season
with all that and its series.

`Collect` and `Delete` go up from the episode to the season to the series, with the
lock of each held to the end.  History variables: `raced` as before, `restored` the
rows that an old copy brought back, `left` the rows with nothing below them that
nobody is responsible for.

### 2.6 Playlists

Everything from a file's streams to a command line is a function of what ffprobe
said, so most of the module are operators, named as in Go, and the variables are
one client: what it plays, what it was asked about and answered, the manifest and
the media playlist it got, the process for a segment it asked for.  `Resolved` is
the way back through a URL: a stream is its file and ID, a representation its ID,
and `EncoderParamsToString` is what gob makes of a record with one exported field.
Durations are counted in milliseconds, and in units of the time base (`Dts`)
where the code does; a video's share of the file is computed with whole seconds, as
in `streams.go`.  Two ends of the code's integers are values of their own:
`Unknown` for a stream without a duration, and `TooLong` for a subtitle's, which
overflows.

The streams of a file are a set (`StreamsOf`), and where the code takes the first of
those with a property, `FirstOf` takes the one with the least ID.  Two hypotheses say
what ffprobe says of a file: that what is named .srt holds subtitles
(`SubtitlesAreSubtitles`), and that no file's audio is in what its video is in
(`CodecsAreOfOneKind`).  The theorems that need one assume it, and TLC evaluates
both for the files of `MCClients`.  Which segments ffmpeg writes is `Writes`: those that
begin before the stream ends, by its own duration and time base, which need not be
the file's.

A codec is its tag.  The 20 levels of `avc1Levels` are in the module with their
bounds, because the choice among them is what a client is asked about.

### 2.7 PlayState

A report is two statements, `FindFirst` and `SavePlayState`: the row is looked for
and then inserted or updated.  `Assign` is what an update with a record does, which
passes over zero fields.  What is up next is one statement per action: `FindSeries`,
then for each series `FindHighest`, `FindNext`, `FindLater` and `Load`.  `FindHighest`
fails where the code takes the first row of an empty answer.  The library changes
meanwhile (`AddEpisode`, `RemoveEpisode`).  An answer or a report is `disturbed` if
another request has written a row it depends on since it began.  `latest` is a history:
what may have been reported of a row last, which is one report, and more only if
reports overlapped.  The row of a series, which statements two and three join, is taken
to be there.

### 2.8 Users

`Count`, `FindInvite`, `Refuse`, `CreateUser` and `SaveInvite` are the statements of
CreateUserWithCode; administrators create invites and delete users meanwhile,
a user's invites first.  `redeemed` and `overlapped` are history: the code each user
was created with, and the users whose registration another one wrote across.

### 2.9 ImageCache

A request looks for the file (`FileExists`), reads it (`ReadFile`), or asks for the image
(`Get`), creates or empties the file (`Create`), receives the image into memory (`Copy`) and
writes it in two parts (`Write`, `WriteRest`).  If another request empties the file between
the two, what is then in it is a `tail`, which is whole only once somebody writes the
beginning.  Every one of these can fail.  `failed`
are the images of which a request failed after the file had been created.

## 3. The runs

All runs say `CHECK_DEADLOCK FALSE`: requests, calls and subscriptions are made
once each, and when they are done the system is idle.

| run | shows | bounds |
|---|---|---|
| `Sessions` | until an update of its counter is lost, the reference count of a session is exact, it is not left without an owner, and it is destroyed under a handler only when the manager let go of it twice; every entry has its ticker, and is lost only by a stale removal | 2 sessions, 2 players of one stream, 2 requests, indices init to 1; overlapping updates, failing starts |
| `Serving` | under fairness: segments in order, every handler returns, every session ends unless a decrement was lost | 1 session, 2 requests, a file of 2 segments; overlapping decrements, a client that waits |
| `UnderUser` | the promise of session.go:65 does not hold | as `Sessions`, with 1 player |
| `Broker` | the broker implements `Multicast`; what a client sees is in order and shows its own or a later item; under fairness calls return while no client goes away | 1 client that comes, goes and unsubscribes, 2 calls of up to 2 events of 2 kinds, channels of 1 |
| `Disconnected` | once a client has gone away they need not return | as `Broker`, with 1 kind and without unsubscribing |
| `Watch` | write events find a goroutine that waits; the database follows the disk; a valid file that is not in it is expected by somebody; under fairness a file that stays is imported and a deletion returns, all of it across restarts | 2 files, one in the subdirectory, 3 changes of the disk or restarts, 2 goroutines, 3 probes, 2 workers, the scan after a restart, 1 deletion |
| `Delete` | only a scan, or a movie loaded before, leaves files behind a deletion | 1 file, 2 changes, 2 goroutines, 2 probes, scans by RescanLibrary, 1 copy of a movie, 1 deletion |
| `Spins` | a goroutine whose channel was closed never ends | 1 file, 2 changes |
| `Undeleted` | the row of a deleted library comes back | as `Delete`, without the movie |
| `Movies` | no two movies for one TMDB ID; files of deleted movies, and movies without files, are only those that the missing locks explain; under fairness an unused movie goes | 2 calls at a time, any number one after the other, 2 files, 2 TMDB IDs, 2 rows of movies |
| `Series` | duplicates, orphans and empty rows are only those that old copies, stale files and failing agents explain; what is deleted is there and deleted once | 2 calls at a time, 2 files, 2 episodes of one season, 4 rows |
| `Clients` | the parts of `MCClients`: manifests, media playlists and processes agree; a row says what was reported last; what follows is offered; one account per invite; a broken image is being written | 8 files, all sets of 5 codecs with and without AVC; 1 user, 4 libraries of 3 episodes, and all of at most 2 of 6, which come and go, 2 reports, 1 request for what is up next; 2 registrations, 2 codes, 2 names, 3 users; 1 image, 3 requests |

Why these bounds are enough to be interesting.  Two sessions of one key are
what it takes for a stale pointer (the replaced one and its successor), two keys
of a stream what it takes for a collection to remove anything, two requests
what it takes for handlers to overlap; the window of 5 and the distance of 10
are `SkipWindow = 2` and `ThrottleAhead = 1`, so that a request inside, at the
edge of and beyond the window all occur.  Channels of capacity 2 and 10 are
channels of capacity 1: four events then fill the client's channel, the
subscription and the broker's channel and block the call that publishes.  Two
changes of the disk make a file come and go, or come twice, which is what gives
one path two goroutines; three put it into a directory that appears first, or
write to it between the two.  A restart takes the place of a change: two changes before
it, between it and its scan, or after, or one on each side.  Probes are as many as there
can be jobs in these histories: a path without a row can be queued by the goroutine
and by a walk, and what was never stored is forgotten in a restart.

Two calls on movies or series are what it takes for one to act between the two
halves of the other; a third call's part can be played by the second one when it
has finished, because calls are made again and again.  Two files of one movie are
what it takes for a collection to find that there is one left.  Four rows are a
series, a season and two episodes, or one path to an episode and, after its series has
been collected, the beginning of a second.  A library of three
episodes has one played, one that follows and one that could be taken for it; the
episodes are numbered 1, 2 and 102 and, in a later season, 0 and 1, so that their order
within a season, Height, the special number 0 and the change of season all occur.  The files of `MCClients` are
one of each kind that takes another branch of `ffmpeg/streams.go`: with AVC and two
audio streams and subtitles, without, without a bit rate, below a second, without a
video stream, without a duration, with a time base whose numerator is not 1, with
streams that end before the file does, and with a duration that is a multiple of five
seconds and one that is not.  Two requests for one image empty and write one file across each other; a third then
reads it.

Fairness.  `FairSpec` of `PlaybackSession` has weak fairness of every action of
a handler, of collections and tickers (goroutines that can run do run), of
`Expire` (time passes) and of ffmpeg's progress (`Transcode`, `Exit`).  No client
has to send anything.  `FairSpec` of `EventBroker` has weak fairness for the
calls that publish and for the goroutines of the subscriptions, where `Drop`
includes that two seconds pass; clients need not subscribe, read, or go away,
and no call has to begin.  A send is not assumed to happen: it is fair only as
long as the channel has room.  `FairSpec` of `LibraryManager` has weak fairness of
the loop, the goroutines, probes, walks, scans and deletions that have begun, and of
the beginning of the scan after a restart (`StartUp`), which is a goroutine.  The
timer fires only while the channel is open (`TimerFires`): five seconds without a
receive do not come where there is always something to receive.  `Settle` and
`StopWatcher` are strongly fair because Go's select chooses at random among what
is ready, so that a branch that is ready again and again is taken.  The disk
need not change, and nobody has to scan, delete or work on a movie.  `FairSpec` of
`MovieManager` has weak fairness for every call that has begun (the agent and the
database answer) and strong fairness for taking the creation mutex, which Go
hands to a waiting goroutine after a millisecond, so that others cannot take it
for ever; no call has to begin.  The other runs are about safety only.

### 3.1 What the code does not do

- `UnderUser` (session.go:243).  A session that was replaced by a seek has been
  let go of by the manager; its ticker, or a collection that had listed it, lets
  go of it again, and takes the reference of a handler.
- `Disconnected` (subscriptions.go:26).  A subscription that ends does not
  remove its channel; publishers block on it when it is full, with the read
  lock and a creation mutex held, and then every creation and every new
  subscription waits behind them.
- `Spins` (fsnotify.go:74).  The second creation of a path overwrites the map entry
  of the first.  Whichever goroutine settles first closes the channel that is in
  the map.  If it is the other's, that one receives from a closed channel for
  ever, and stats the file in a loop.
- `Undeleted` (resolvers/library.go:229).  A deleted library's manager stays
  registered and no scan is waited for, so a scan saves the library again.

Without a run of their own, but visible in the models: a file that vanishes between
being listed and being visited ends the process (`VisitVanished`); a write event
that finds the channel just closed ends it, too (`SendPanics`), and one that finds
its goroutine about to settle stops the loop for ever (`SendStuck`), after which
deletion does not return; events that are handled late are taken for what is there
now: the removal of a directory drops the watch that a scan has set on its
successor, and the removal of a file the row that a walk has found for the next one
of that name (`RemovedFile`); a second deletion of a library never returns; a
write before the goroutine has registered is passed over, so that a file that
was too small when it was created is never imported; a path can get two rows; a
probe that is slower than the removal of its file leaves a row that stays until the
next scan, and so does a movie that was loaded before it; an overlapping decrement
is lost and a session then stays for ever (`Overlap`); two collections can remove
each other's survivor; a handler that waits for a segment that will never exist
never returns (`Serving` keeps requests within the file); a `SeriesUpdated` event
that reaches `seriesChanged` ends the process (`ConvertPanics`); the events of
`RefreshAllMovieMetadata` can all show the last movie (`ShowsOwnOrLater` is as
much as holds).

Of the metadata manager: a movie can be deleted with a file just attached to it,
which is then neither shown nor identified again (`raced`); a refresh moves a file
back to the movie it was retagged from, or inserts a file that was deleted
meanwhile; a retag or a deletion collects the movie the file had when it was
loaded, and the one it really leaves stays without files (`left`).  Series, seasons
and episodes that an old copy brings back can exist twice (`restored`), and what was
created before the agent failed stays empty.

Of play states and users: a report that says less than the row (no playtime, or
not finished) leaves that field as it was, because an update with a record passes
over zeros (db/play_state.go:119).  The resolver speaks of overwriting
(resolvers/play_state.go:38) and answers with what it was told, but a finished episode
that is played again stays finished; `LastReportStands` asks only for the fields that a
report sets, of which either reading is true.  Two overlapping first reports lose one and answer success to both; an
up-next request whose episode is removed in between takes the first row of nothing
(db/play_state.go:67); an episode numbered 100 or more passes those of the next season
(db/play_state.go:59); "recently finished" (db/play_state.go:47) is the highest episode
played, so who finishes episode 5 with 7 played before is not offered 6, but 7 or 8.  Two requests can both be the first user, or use one invite
(user.go:79).

Of playlists: what a representation's URL brings back has the codecs and nothing
else, so a transcode "similar" to its stream is started without a bit rate and height
(encoder_params.go:21), and no audio transcode is told its rate
(transcode_audio.go:73); the codecs of audio streams are never asked about, because
the video stream is passed in their place (streaming/metadata.go:50); the tags of
the five lowest AVC levels have too few digits (transcode.go:41); a video below a
second that does not give its rate is a division by zero (streams.go:128); a subtitle
of a file without a duration gets one that overflows (streams.go:156); the numerator of
a time base is ignored, so that the list of such a stream ends before the stream does
(util.go:78); the playlist of a subtitle lists a segment for every five seconds, although
the comment on its template says that it "only contains one" (hls/manifest.go:70), and the
process writes one; a DASH player counts segments by the duration of the file
(dash/manifest.go:73), so it asks for some of a shorter stream that no process writes.  A file
of an image whose download failed is served for ever (image_cache.go:58).

## 4. The proofs

`tlapm` checks every proof for all values of the constants that satisfy the
assumptions named in the modules.

`PlaybackSession_proofs`:

- `TypesCorrect`.  The inductive invariant adds `HoldsSession` (a handler past its
  start has a session), without which the updates at `held[r]` have no type.
- `RegisteredHasTickerAlways`: with `MapInv` (a key maps to a session of that key).
- `ForgottenOnlyByStaleRemovalAlways`: inductive given the types; the case that
  matters is a removal by s of the entry of t: then either s was let go of before,
  or s itself was not in the map, and then some third session was let go of
  twice.
- `CountsOwnersAlways`: an update that is written over another one that it has not read
  loses it (`lost`), and a counter is exact as long as none of its own updates is lost,
  whatever happens to the others, and whether or not updates overlap.  The argument has two parts.  `OwnerInv` holds whatever the
  counters say: what has not been started is not referred to (a stale list names only
  sessions that were started), a live session without references has a handler that has yet to
  finish with it, and a ticker stops only by letting go.  `CountedInv(s)` is kept by every
  step that loses no update of s (`KeepsCounts`); a removal of something never started
  would be a decrement without an owner, which is why it needs `OwnerInv`.
- `NothingLingersUnlessMiscounted`, `DestroyedUnderUserNeedsTwoDetachesUnlessMiscounted`:
  what follows for one session whose counter is right at that moment, with no
  hypothesis about the behaviour; `NothingLingers` and
  `DestroyedUnderUserNeedsTwoDetaches` are the properties of the run, for the sessions no
  update of whose counter was lost.
- `ServedInOrderAlways`, for `Pipelined = FALSE`: from `InOrderInv`, which says that at most one
  handler of a session asks for a segment, that the one it asks for is not the last
  recorded, and that between serving a segment and recording it the client has
  been served one more than the session says.

`EventBroker_proofs`:

- `TypesCorrect`.
- `BrokerIsMulticast`: the refinement.  `BrokerInv` says who can hold the read lock
  and when (`ReadersInv`), that a publisher still has to send to exactly the
  subscribers that do not have its event (`SentInv`), that the events before the
  current one are complete and those from it on are not (`TurnInv`,
  `CompletedInv`).  The step that needs the lock is `AddSubscriber`: nobody
  publishes then, so the new member has missed nothing that is not complete.
- `SeenInOrderAlways`, from `OrderInv`: the events of one call on their way to a
  client (in the broker's channel, in the subscription's hands, in the client's
  channel, seen) are increasing in that order, and none is beyond what its call
  has sent.  Dropping any of them keeps this, which is the lemma `OrderlyDrop`.
- `ShowsOwnOrLaterAlways`, from `ShownInv`, with the turn of each call: the item a loop
  has reached is never before that of an event it has published.
- `NobodyWaitsInACircleAlways`: a call waits for a mutex, for the read lock, or for
  room in the channel it has come to (by `TargetInv` one of those it has still to
  send to); a subscription for its turn to write, for
  the readers, for an event, or for its client.  From `WaitInv` (who holds a mutex publishes;
  there is one pending writer, and readers wait only for it; no channel is more
  than full): a chain of waiting goes from a mutex to its holder, from the lock to a
  reader or the writer, from the writer to the readers, from a reader to a channel, and
  ends at the subscription that empties it, which can forward or drop.  So somebody
  can always go on, unless the channel is one whose subscription has ended: the
  run `Disconnected` is the only way to stop.

`LibraryManager_proofs`:

- `TypesCorrect`: with `HasPath` (what is under way has a path) and `ListInv` (below), by
  which the probes that a restart keeps have one.
- `RegisteredIsWaitingAlways`: with `ClosedWasRegistered` (a channel is closed only
  after its goroutine has registered it), so that `Register` puts an open channel
  into the map.
- `DeletedFilesStayDeletedAlways`, from `DeletionInv`: once a deletion looks for files
  the pool is closed and nothing runs in it, and what is in the database is still
  on the deletion's list or was stored again by a scan or with its movie.
- `RowsFollowDiskAlways`: with `ListInv` (rows and listed rows were stored by a probe,
  whose path then no longer changes; the watcher's list is empty unless it
  works on it, so that a new list loses nothing) and `CopiesStored` (so were the files
  of a movie in somebody's hands).  The heart of it is that an
  event that is added keeps the removals pending (`PendingStays`) and one that is
  handled keeps all others (`TailKeepsOthers`).
- `SettledFilesAreExpectedAlways`: what `SettledFilesAreImported` needs at every moment.  A
  valid file without a row is `Expected`: a scan has yet to begin or to reach it, an event
  of it is pending or being sent, a goroutine has seen it valid or is about to look,
  or a probe has it.  The proof is by who had it and to whom the step hands it
  (`ChangeHolds`, `ImporterHolds`, `ProbeHolds`, `WalkHolds`, `WatcherHolds`).  The invariant
  it needs, `SettleInv`, is about directories: what is in one goes with it (`UnderDir`); the
  root is walked first and alone (`WalkInv`); a directory that is not watched has a
  creation pending or a walk before it (`WatchedInv`), which in turn needs that a removal of
  the directory comes before the creation of its successor (`DirEventsInv`).  It is not
  true without the last disjunct of `unheeded`, a removal handled late that takes the row
  of a file nobody will look at again (`RemovedFile`): that takes six changes of the disk,
  more than the runs have, and the attempt to prove it showed it.

`MovieManager_proofs`:

- `TypesCorrect`.
- `MoviesAreUnique`, from the mutex: only its holder is between not finding a movie
  and creating it, and while it is held nobody else creates; nothing else adds
  a movie, and none that is deleted comes back.
- `OrphansRaced`: `FilesOfDeletedMoviesRaced` with what it needs of calls about to
  delete.  The step that matters is `DeleteMovieByID`: whatever belongs to the movie by
  then was saved when the movie was `Doomed`.
- `RefreshesExclude`: at most one refresh of a movie runs (`OneRefreshPerMovie`), from a lock in
  the table that exactly one refresh holds.
- `UnusedMoviesAreExpectedAlways`: at every moment a movie without files has a call that
  `Attends` to it, unless it is in `left`.  A step that moves files leaves a movie empty
  which the call goes on to collect, or lists it (`FilesMoved`); for that a refresh, which
  moves files too, must have nothing to collect (`NothingOld`).

`SeriesManager_proofs`:

- `TypesCorrect`, with what a call's copies refer to: rows that exist or existed.
- `OneRowPerKeyAlways`: from the mutex, and that a row comes back only into `restored`.
- `OrphansRacedAlways`, `DeletesWhatItFoundAlways`: the second says that the row a call
  is about to delete is in the table and locked by this call alone, and the first
  needs it where a row is deleted.
- `EmptyRowsAreExpectedAlways`: each way of making a row empty (deleting its last child,
  moving its last file, a failing agent) leaves a call that has it next, or is
  written to `left`.

`PlayState_proofs`: `PlayStateTypesCorrect`; `LastReportStandsAlways` from `ReportInv` (a
report that found no row, and has not been disturbed, finds none when it writes; one
that found a row finds it, or was told that it is gone); `UpNextFailsOnlyIfDisturbedAlways`
(an undisturbed request works on series with something played in them and on episodes that
are there).  `UpNextFollowsTheHighestAlways` is proved for one row per series, season and number
(`EpisodesDistinct`, which `OneRowPerKey` of `SeriesManager` says of the rows): from
`AllRight`, which says of a series a request is done with that what it offers is what
should be offered, and of the one it is looking at what the statements so far have
established.  Its lemmas relate two ways of ordering episodes: the height that the
first statement sorts by is the order by season and number if seasons do not overlap in it
(`HighestIsLast`), and the first of a season, or else of later ones, is what follows in
that order, but for episodes with the number 0 (`ExpectedInSeason`, `ExpectedLater`).

`Users_proofs`: `UsersTypesCorrect`; `OneEachUnlessOverlappedAlways` from `OnceInv`: an
undisturbed registration past its look at the invite still finds it unused, and the
user of an invite is the one it was redeemed for, unless somebody overlapped.

`Clients_proofs`, which takes in the two above:

- `PlaylistsTypesCorrect`, from `PlaylistsInv`: the answers, the manifest, the media playlist
  and the process are those of the same file and of what was asked and answered.
- `ServesWhatWasListedAlways`, if what is named .srt holds subtitles: whatever a manifest lists is
  `Offered`, and what is offered is `Faithful`, one lemma for each kind of
  representation: its ID leads back to a process that makes what was listed.
- `OffersWhatPlaysAlways`, `HLSAnnouncesItsAudioAlways`: by whether the client was asked about a
  codec (`TransmuxedIfPlayable`, `AnsweredVariants`), the second if no file's audio is in
  what its video is in: a client is asked about AAC and the video's codecs only.
- `PlaylistsRunThrough`, `PlaylistsAreWrittenAlways`: the segments of a playlist last five
  seconds each and the last one less (`SegmentsAreCut`, `SegmentsRunThrough`), a process
  started for one begins where it does (`SegmentsBeginAsListed`), and those that are not
  empty are the ones a transcode writes (`SegmentsAreWritten`), for every duration of
  streams and files and every time base; with a numerator that is not 1, they are some of
  those.  Subtitles are one file, and only the first of the three is said of them.
  The products of unknowns are stated once, in `Grid`, and hidden from there on.
- `ImagesTypesCorrect` and `BrokenFilesAreBeingWrittenAlways`, inductive with the types and with what a
  request past `Create` has in its file.
- `ClientsTypesCorrect`: a behaviour of `MCClients` is one of each of its modules
  (`PartsAreSpecified`), so their theorems hold of it.

Model-checked only: the liveness properties (`RequestsReturn`, `SessionsEnd`,
`CallsReturn`, `SettledFilesAreImported`, `DeletionsReturn`, `UnusedMoviesGo`), which are
beyond the prover.  What some of them rest on is proved: `NothingLingers` for `SessionsEnd`,
`NobodyWaitsInACircleAlways` for `CallsReturn`, `SettledFilesAreExpectedAlways` for
`SettledFilesAreImported`, and `UnusedMoviesAreExpectedAlways` for `UnusedMoviesGo`.  Every
invariant, every action property and the refinement that the runs check are theorems.

## 5. What is not modelled

- `CleanupSessions` (session.go:298): the shutdown that cmd/serve runs never
  calls it.  `GetPlaybackSessions` copies the map for a debug page.
- The rest of an ffmpeg command line, the XML and M3U text of playlists, titles and
  languages in them, what agents answer and parsers make of file names:
  formatting and I/O.  guessTransmuxedSegmentList, buildIntervals, Filter and
  buildAudioSegmentDurations are called by tests only, or by nothing.
- A process that cannot be started (the error is dropped at ffmpeg.go:144), the directory
  that Destroy removes before the process has ended (ffmpeg/session.go:48), and an
  init.mp4 that is served before it is complete (ffmpeg/session.go:65): what is in
  these files is not part of the model.
- The crash of the Go runtime when it detects concurrent use of a map
  (session.go:189), and a handler's recovered panic when its session could not
  be started (segments.go:44): the request ends without effect.
- Of the library manager: the checks and the row of CreateLibrary (the model begins with
  an empty library that has been scanned), rclone libraries (no watcher), hidden
  folders, a root that cannot be read.  `RemoveMissingFile` takes the stat and
  the deletion of a row as one step, `RemovedFile` the look-up of a row and its deletion,
  and `MoveDir` ends the watch of a directory with the event that it has gone (inotify
  keeps it until the loop removes it); `rescanningLibraries`, a bool without a
  lock, is taken to be one.  A prefix of a file's path can match its siblings in
  FindMovieFilesInLibraryByLocator; they are only checked then, and left out here.
  Which movies and episodes the rows belong to, and collecting those, is for
  `MovieManager` and `SeriesManager`.  A file that is replaced under its name keeps
  the old one's cached probe (ffprobe.go:99); contents are not modelled there.
- Of the metadata manager: the contents of metadata; a query's preloads as separate
  statements (one step here), and likewise the two queries before `Collect` decides
  (movies.go:211, 216), what a query loads along with a season
  (db/series.go:222 loads seasons without their series, `RowsWith` always with it); deleting a whole series or season;
  findEpisodeFilesForSeries, which appends to a copy and so returns less than it
  should, and the join in FindSeriesInLibrary (db/series.go:239): their callers then
  do less, and are left with the files that a request names.  A refresh of everything
  is one refresh after the other.
- Of users: that two deletions of users overlap (`DeleteInvites` is of one at a time);
  passwords, log-in, tokens and tickets, which read and change nothing that is
  shared.  Of play states: LatestPlayStates and UpNextMovies, one query each.
- rclone libraries, their cache and configuration; the agents' HTTP clients; the
  command line, the server's wiring, the debug page and the web application.
- Crashes of the other parts: sessions, subscriptions and locks are in memory and lost
  with it.  Between two statements of the metadata manager a crash can leave a movie or a
  series that no file is attached to; collections are called for what a file leaves,
  and do not look for those.

## 6. What could come next

Every component of section 1.1 that keeps state which concurrent requests change has a
module.  What they leave out:

- A crash between two statements of `MovieManager` and `SeriesManager`, with the rows it
  leaves behind.

## 7. Running

    tlc -workers 2 -config MCPlaybackSession_Sessions.cfg MCPlaybackSession.tla
    tlapm PlaybackSession_proofs.tla

Every run takes less than three minutes.  The operators marked "Mutant" in the
modules are plausible bugs of the definition that follows them: with one in its
place, the property that `PROJECT.json` names with it is violated.
