------------------------------ MODULE MCClients ------------------------------
(* Instances for TLC of what clients do that does not depend on one another: *)
(* part says which of them a behaviour is about; the others stand still.     *)
EXTENDS Playlists, PlayState, Users, ImageCache, TLC

Symmetry == Permutations(Report)

-----------------------------------------------------------------------------
(* What ffprobe says of some files.                                        *)
Milliseconds == [num |-> 1, den |-> 1000]
VideoStream(codecs, bitRate, width, height, timeBase, durationTs) ==
  [type |-> "video", codecs |-> codecs, bitRate |-> bitRate, width |-> width,
   height |-> height, frameRate |-> 25, timeBase |-> timeBase, durationTs |-> durationTs]
AudioStream(codecs, bitRate, durationTs) ==
  [type |-> "audio", codecs |-> codecs, bitRate |-> bitRate, width |-> 0,
   height |-> 0, frameRate |-> 0, timeBase |-> Milliseconds, durationTs |-> durationTs]
SubtitleStream ==
  [type |-> "subtitle", codecs |-> NoCodec, bitRate |-> 0, width |-> 0,
   height |-> 0, frameRate |-> 0, timeBase |-> Milliseconds, durationTs |-> 0]
File(duration, size, streams, subtitles) ==
  [duration |-> duration, size |-> size, streams |-> streams, subtitles |-> subtitles]

\* A film whose streams end at different times; an AVI file; one with HEVC and no
\* durations; one without sound, below a second; one below a second that does not
\* say its rate; a song; a stream; subtitles.
Files ==
  [movie  |-> File(10240, 4000000,
                <<VideoStream("avc1.640028", 0, 1920, 1080, [num |-> 1, den |-> 12800], 128000),
                  AudioStream("ac3", 384000, 10240), AudioStream(AAC, 128000, 9500),
                  SubtitleStream>>, {"srt"}),
   avi    |-> File(11011, 2000000,
                <<VideoStream("mpeg4", 900000, 320, 240, [num |-> 1001, den |-> 24000], 264),
                  AudioStream("mp3", 128000, 11011)>>, {}),
   hevc   |-> File(7000, 4000000,
                <<AudioStream(AAC, 192000, 0),
                  VideoStream("hevc", 30000000, 3840, 2160, Milliseconds, 0)>>, {}),
   silent |-> File(900, 100000,
                <<VideoStream("avc1.640028", 6000000, 1280, 720, Milliseconds, 900)>>, {}),
   clip   |-> File(900, 100000,
                <<VideoStream("avc1.640028", 0, 1280, 720, Milliseconds, 900)>>, {}),
   song   |-> File(9000, 100000, <<AudioStream(AAC, 128000, 9000)>>, {}),
   live   |-> File(0, 100000,
                <<VideoStream("avc1.640028", 1000000, 640, 480, Milliseconds, 6000),
                  AudioStream(AAC, 128000, 6000)>>, {}),
   srt    |-> File(0, 1000, <<SubtitleStream>>, {})]
FileNames == DOMAIN Files

AVC == Tags \ MalformedTags
Codecs == {"hevc", "mpeg4", "ac3", "mp3", AAC} \cup AVC

\* They are what ffprobe is expected to say.
ASSUME FilesAssumption == SubtitlesAreSubtitles /\ CodecsAreOfOneKind

\* Clients play all of AVC or nothing of it.
Plays(others, avc) == plays = others \cup (IF avc THEN AVC ELSE {})

-----------------------------------------------------------------------------
(* Episodes.                                                               *)
EpisodeRow(s, season, num) == [series |-> s, season |-> season, num |-> num]
Episodes == {EpisodeRow("s", 1, 1), EpisodeRow("s", 1, 2), EpisodeRow("s", 1, 102),
             EpisodeRow("s", 2, 0), EpisodeRow("s", 2, 1), EpisodeRow("t", 1, 1)}

\* What is in a library that does not change: seasons that follow one another,
\* one with an episode that is skipped, one with a high number, another series.
Libraries ==
  LET s(season, num) == EpisodeRow("s", season, num)
  IN {{s(1, 1), s(1, 2), s(2, 1)}, {s(1, 1), s(2, 0), s(2, 1)}, {s(1, 1), s(1, 2), s(1, 102)},
      {s(1, 2), s(2, 1), EpisodeRow("t", 1, 1)}}

CONSTANT Changing  \* how many there are in a library where they come and go

Ever == episodes \cup removed

\* Reports that overlap, of one episode; nobody asks what is up next.
OverlappingReports ==
  /\ UNCHANGED <<libraryVars, upNext>>
  /\ \A r \in Report : report'[r] # NoReport => report'[r].key[2] = EpisodeRow("s", 1, 1)

\* Somebody asks, while others report, one at a time, either that they have begun
\* an episode or that they have finished it, and the library changes.
AskingForUpNext ==
  /\ Cardinality(Ever') <= Changing \/ UNCHANGED libraryVars
  /\ \A r \in Report : report[r] # NoReport => report'[r] = NoReport
  /\ \A r, q \in Report : r # q => report'[r] = NoReport \/ report'[q] = NoReport
  /\ \A r \in Report : report'[r] # NoReport =>
       /\ report'[r].key[2] \in Ever
       /\ report'[r].finished <=> report'[r].playtime = 0

-----------------------------------------------------------------------------
VARIABLE part

vars == <<part, playlistVars, playVars, userVars, imageVars>>

Init ==
  /\ part \in {"playlists", "reports", "upNext", "users", "images"}
  /\ \E others \in SUBSET {"hevc", "mpeg4", "ac3", "mp3", AAC}, avc \in BOOLEAN :
       /\ part # "playlists" => others = {} /\ ~avc
       /\ Plays(others, avc)
  /\ PlaylistsInit
  /\ part # "playlists" => file = "srt"
  /\ PlayStateInit
  /\ IF part = "upNext" THEN episodes \in Libraries \/ Cardinality(episodes) <= Changing
                        ELSE episodes = {}
  /\ UsersInit
  /\ ImageCacheInit

Next ==
  /\ UNCHANGED part
  /\ \/ /\ part = "playlists"
        /\ PlaylistsNext
        /\ UNCHANGED <<playVars, userVars, imageVars>>
     \/ /\ part = "reports"
        /\ PlayStateNext /\ OverlappingReports
        /\ UNCHANGED <<playlistVars, userVars, imageVars>>
     \/ /\ part = "upNext"
        /\ PlayStateNext /\ AskingForUpNext
        /\ UNCHANGED <<playlistVars, userVars, imageVars>>
     \/ /\ part = "users"
        /\ UsersNext
        /\ UNCHANGED <<playlistVars, playVars, imageVars>>
     \/ /\ part = "images"
        /\ ImageCacheNext
        /\ UNCHANGED <<playlistVars, playVars, userVars>>

Spec == Init /\ [][Next]_vars

\* What each variable holds (the type invariants of the four modules).
TypeOK == PlaylistsTypeOK /\ PlayStateTypeOK /\ UsersTypeOK /\ ImageCacheTypeOK
=============================================================================
