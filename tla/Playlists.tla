------------------------------ MODULE Playlists ------------------------------
(***************************************************************************)
(* From a file to the segments a player asks for: what is read of the      *)
(* file's streams (ffmpeg/streams.go), the representations each can be     *)
(* served in (ffmpeg/ffmpeg.go, transmux.go, transcode*.go, subtitles.go), *)
(* the codecs a client is asked about (streaming/metadata.go), the         *)
(* manifests (streaming/dash.go, hls.go, dash and hls), the list of        *)
(* segments (ffmpeg/util.go), and the process that is started for one.     *)
(*                                                                         *)
(* One client plays one file: it may ask which codecs to check, says which *)
(* of them it plays, gets a manifest, and asks for what is listed there.   *)
(* URLs name a stream by its file and ID and a representation by its ID,   *)
(* so everything else is worked out again for each request.                *)
(***************************************************************************)
EXTENDS Integers, Sequences, FiniteSets

CONSTANTS
  Media,   \* names of files
  Probed,  \* what ffprobe says of each
  Codec    \* what a client may or may not play

(* Milliseconds; a bit rate is in bits per second.                         *)
SegmentDuration == 5000
Unknown == -1   \* TotalDurationInvalid
TooLong == -2   \* what a subtitle without a duration gets: no int64 holds it

NoCodec == ""
AAC == "mp4a.40.2"

ProbeStreams == [type : {"video", "audio", "subtitle", "data"}, codecs : Codec \cup {NoCodec},
                 bitRate : Nat, width : Nat, height : Nat, frameRate : Nat,
                 timeBase : [num : Nat \ {0}, den : Nat \ {0}], durationTs : Nat]

ASSUME PlaylistsAssumption ==
  \A f \in Media :
    /\ Probed[f].duration \in Nat             \* 0: ffprobe does not know
    /\ Probed[f].size \in Nat
    /\ Probed[f].streams \in Seq(ProbeStreams)
    /\ Probed[f].subtitles \subseteq Media       \* .srt files next to it

-----------------------------------------------------------------------------
(* Streams.                                                                *)

\* The total duration at the i-th stream: a subtitle sets it for those that follow.
DurationAt(p, i) ==
  IF p.duration > 0 THEN p.duration
  ELSE IF \E j \in 1 .. i : p.streams[j].type = "subtitle" THEN TooLong ELSE Unknown

DurationDts(p, i) ==
  LET s == p.streams[i] IN
  IF s.type = "subtitle" THEN DurationAt(p, i)
  ELSE IF s.durationTs > 0 THEN s.durationTs
  ELSE (p.duration * s.timeBase.den) \div 1000

\* A video stream that does not say gets its share of the file, as if by the second.
BitRate(p, i) ==
  LET s == p.streams[i] IN
  IF s.type = "video" /\ s.bitRate = 0
  THEN IF p.duration < 1000 THEN 0 ELSE (p.size \div (p.duration \div 1000)) * 8
  ELSE s.bitRate

\* A stream's ID is its index, which ffprobe counts from 0.
StreamAt(f, i) ==
  LET s == Probed[f].streams[i] IN
  [file |-> f, id |-> i - 1, type |-> s.type, codecs |-> s.codecs,
   bitRate |-> BitRate(Probed[f], i), width |-> s.width, height |-> s.height,
   frameRate |-> s.frameRate, duration |-> DurationAt(Probed[f], i),
   durationDts |-> DurationDts(Probed[f], i),
   timeBase |-> IF s.type = "subtitle" THEN 1000 ELSE s.timeBase.den]

\* A subtitle file: what is known of it before it is probed itself.
ExternalSubtitleStream(f, srt) ==
  [file |-> srt, id |-> 0, type |-> "subtitle", codecs |-> NoCodec,
   bitRate |-> 0, width |-> 0, height |-> 0, frameRate |-> 0,
   duration |-> DurationAt(Probed[f], Len(Probed[f].streams)), durationDts |-> 0,
   timeBase |-> 0]

\* No duration is an error; less than a second and no bit rate, a division by zero.
GetStreamsFails(f) ==
  LET p == Probed[f] IN
  \E i \in DOMAIN p.streams :
    \/ p.streams[i].type \in {"video", "audio"} /\ DurationAt(p, i) = Unknown
    \/ p.streams[i].type = "video" /\ p.streams[i].bitRate = 0 /\ p.duration \in 1 .. 999

\* The streams of one type; their order is that of the file.
StreamsOf(f, type) ==
  {StreamAt(f, i) : i \in {j \in DOMAIN Probed[f].streams : Probed[f].streams[j].type = type}}
VideoStreams(f) == StreamsOf(f, "video")
AudioStreams(f) == StreamsOf(f, "audio")
SubtitleStreams(f) ==
  StreamsOf(f, "subtitle") \cup {ExternalSubtitleStream(f, srt) : srt \in Probed[f].subtitles}

FirstOf(streams) == CHOOSE s \in streams : \A t \in streams : s.id <= t.id
GetVideoStream(f) == FirstOf(VideoStreams(f))

\* What a URL's file and stream ID stand for.
GetStream(f, id) == StreamAt(f, id + 1)

-----------------------------------------------------------------------------
(* Representations.                                                        *)

Direct == [kind |-> "direct", name |-> NoCodec]
WebVTT == [kind |-> "webvtt", name |-> NoCodec]
Preset(n) == [kind |-> "preset", name |-> n]

NoParams == [width |-> 0, height |-> 0, videoBitrate |-> 0, audioBitrate |-> 0,
             codecs |-> NoCodec]

\* gob writes the exported field and no other.
EncoderParamsToString(params) == [kind |-> "transcode", name |-> params.codecs]
EncoderParamsFromString(id) == [NoParams EXCEPT !.codecs = id.name]

\* The levels: macroblocks per second, macroblocks per frame, bits per second,
\* and the tag.  A level below 16 is one digit, where two are meant to be.
avc1Levels == <<
  <<1485, 99, 64000, "avc1.6400a">>,            <<1485, 99, 128000, "avc1.64009">>,
  <<3000, 396, 192000, "avc1.6400b">>,          <<6000, 396, 384000, "avc1.6400c">>,
  <<11880, 396, 768000, "avc1.6400d">>,         <<11880, 396, 2000000, "avc1.640014">>,
  <<19800, 792, 4000000, "avc1.640015">>,       <<20250, 1620, 4000000, "avc1.640016">>,
  <<40500, 1620, 10000000, "avc1.64001e">>,     <<108000, 3600, 14000000, "avc1.64001f">>,
  <<216000, 5120, 20000000, "avc1.640020">>,    <<245760, 8192, 20000000, "avc1.640028">>,
  <<245760, 8192, 50000000, "avc1.640029">>,    <<522240, 8704, 50000000, "avc1.64002a">>,
  <<589824, 22080, 135000000, "avc1.640032">>,  <<983040, 36864, 240000000, "avc1.640033">>,
  <<2073600, 36864, 240000000, "avc1.640034">>, <<4177920, 139264, 240000000, "avc1.64003c">>,
  <<8355840, 139264, 480000000, "avc1.64003d">>, <<16711680, 139264, 800000000, "avc1.64003e">> >>
Tags == {avc1Levels[i][4] : i \in DOMAIN avc1Levels}
MalformedTags == {avc1Levels[i][4] : i \in 1 .. 5}

\* The first level that is more than enough, or the last one.
GetAVC1Tag(width, height, bitRate, frameRate) ==
  LET macroblocks == (width \div 16) * (height \div 16)
      Enough(l) == bitRate < l[3] /\ macroblocks < l[2] /\ macroblocks * frameRate < l[1]
      enough == {i \in DOMAIN avc1Levels : Enough(avc1Levels[i])}
      i == IF enough = {} THEN Len(avc1Levels) ELSE CHOOSE j \in enough : \A k \in enough : j <= k
  IN avc1Levels[i][4]

GetSimilarEncoderParams(s) ==
  IF s.type = "video"
  THEN [NoParams EXCEPT !.videoBitrate = s.bitRate, !.width = -2, !.height = s.height,
          !.codecs = GetAVC1Tag(s.width, s.height, s.bitRate, s.frameRate)]
  ELSE [NoParams EXCEPT !.audioBitrate = s.bitRate, !.codecs = AAC]

\* The even width nearest to the one that keeps the aspect ratio.
ScaledWidth(s, height) ==
  IF s.height = 0 THEN 0
  ELSE ((2 * height * s.width + 2 * s.height) \div (4 * s.height)) * 2

VideoPresets == {"480-1000k-video", "720-5000k-video", "1080-10000k-video"}
AudioPresets == {"64k-audio", "128k-audio"}
PresetHeight == [n \in VideoPresets |-> CASE n = "480-1000k-video" -> 480
                   [] n = "720-5000k-video" -> 720 [] OTHER -> 1080]
PresetBitrate == [n \in VideoPresets \cup AudioPresets |->
                   CASE n = "480-1000k-video" -> 1000000 [] n = "720-5000k-video" -> 5000000
                     [] n = "1080-10000k-video" -> 10000000
                     [] n = "64k-audio" -> 64000 [] OTHER -> 128000]

GetVideoEncoderPreset(s, n) ==
  [NoParams EXCEPT !.height = PresetHeight[n], !.width = -2, !.videoBitrate = PresetBitrate[n],
     !.codecs = GetAVC1Tag(ScaledWidth(s, PresetHeight[n]), PresetHeight[n],
                           PresetBitrate[n], s.frameRate)]
AudioEncoderPresets(n) == [NoParams EXCEPT !.audioBitrate = PresetBitrate[n], !.codecs = AAC]

\* A representation of a stream: params are what ffmpeg gets to see, for audio
\* nothing.
GetTransmuxedRepresentation(s) ==
  [stream |-> s, id |-> Direct, bitRate |-> s.bitRate, height |-> s.height,
   codecs |-> s.codecs, params |-> NoParams]

\* Mutant: for video nothing, either.
GetTranscodedVideoRepresentation_NoParams(s, id, p) ==
  [stream |-> s, id |-> id, bitRate |-> p.videoBitrate, height |-> p.height,
   codecs |-> p.codecs, params |-> NoParams]

GetTranscodedVideoRepresentation(s, id, p) ==
  [stream |-> s, id |-> id, bitRate |-> p.videoBitrate, height |-> p.height,
   codecs |-> p.codecs, params |-> p]
GetTranscodedAudioRepresentation(s, id, p) ==
  [stream |-> s, id |-> id, bitRate |-> p.audioBitrate, height |-> 0,
   codecs |-> p.codecs, params |-> NoParams]
GetSubtitleStreamRepresentation(s) ==
  [stream |-> s, id |-> WebVTT, bitRate |-> 0, height |-> 0,
   codecs |-> NoCodec, params |-> NoParams]

GetTranscodedRepresentation(s, id, p) ==
  IF s.type = "audio" THEN GetTranscodedAudioRepresentation(s, id, p)
                      ELSE GetTranscodedVideoRepresentation(s, id, p)
GetSimilarTranscodedRepresentation(s) ==
  GetTranscodedRepresentation(s, EncoderParamsToString(GetSimilarEncoderParams(s)),
                              GetSimilarEncoderParams(s))

\* No codecs at all count as no preference.
CanPlay(sr, playable) == sr.codecs \in playable

\* Mutant: what is looked at is the codec it would be transcoded to.
GetTransmuxedOrTranscodedRepresentation_Similar(s, playable) ==
  IF playable = {} \/ CanPlay(GetSimilarTranscodedRepresentation(s), playable)
  THEN GetTransmuxedRepresentation(s) ELSE GetSimilarTranscodedRepresentation(s)

GetTransmuxedOrTranscodedRepresentation(s, playable) ==
  IF playable = {} \/ CanPlay(GetTransmuxedRepresentation(s), playable)
  THEN GetTransmuxedRepresentation(s) ELSE GetSimilarTranscodedRepresentation(s)

StreamRepresentationFromRepresentationId(s, id) ==
  CASE s.type = "subtitle" -> GetSubtitleStreamRepresentation(s)
    [] s.type # "subtitle" /\ id.kind = "direct" -> GetTransmuxedRepresentation(s)
    [] s.type # "subtitle" /\ id.kind = "preset" /\ id.name \in VideoPresets ->
         GetTranscodedVideoRepresentation(s, id, GetVideoEncoderPreset(s, id.name))
    [] s.type # "subtitle" /\ id.kind = "preset" /\ id.name \in AudioPresets ->
         GetTranscodedAudioRepresentation(s, id, AudioEncoderPresets(id.name))
    [] s.type # "subtitle" /\ id.kind = "transcode" ->
         GetTranscodedRepresentation(s, id, EncoderParamsFromString(id))

-----------------------------------------------------------------------------
(* Segments.                                                               *)

\* Mutant: without the rest.
BuildConstantSegmentDurations_Full(end, timeBase) ==
  LET segmentDurationDts == (SegmentDuration \div 1000) * timeBase
  IN [i \in 1 .. (IF end < segmentDurationDts THEN 1 ELSE end \div segmentDurationDts) |->
        [id |-> i - 1, start |-> (i - 1) * segmentDurationDts, end |-> i * segmentDurationDts]]

\* Segments of the duration a process cuts, from start to end on the stream's
\* own time line, and one with the rest, which may be nothing.
BuildConstantSegmentDurations(end, timeBase) ==
  LET segmentDurationDts == (SegmentDuration \div 1000) * timeBase
      numFullSegments == end \div segmentDurationDts
  IN [i \in 1 .. numFullSegments + 1 |->
        [id |-> i - 1, start |-> (i - 1) * segmentDurationDts,
         end |-> IF i <= numFullSegments THEN i * segmentDurationDts ELSE end]]

StartTime(n) == n * SegmentDuration

\* What a process is told: which stream to convert to what, at which rate and
\* height, where 0 is nothing, from when, and the number of its first file.
Process(sr, n, encoder, rate, height) ==
  [file |-> sr.stream.file, stream |-> sr.stream.id, encoder |-> encoder,
   rate |-> rate, height |-> height, start |-> StartTime(n), first |-> n]
NewTransmuxingSession(sr, n) == Process(sr, n, "copy", 0, 0)
NewVideoTranscodingSession(sr, n) ==
  Process(sr, n, "libx264", sr.params.videoBitrate, sr.params.height)
NewAudioTranscodingSession(sr, n) == Process(sr, n, "aac", sr.params.audioBitrate, 0)
NewSubtitleSession(sr) == Process(sr, 0, "webvtt", 0, 0)
NewTranscodingSession(sr, n) ==
  CASE sr.id = Direct                             -> NewTransmuxingSession(sr, n)
    [] sr.id # Direct /\ sr.stream.type = "video" -> NewVideoTranscodingSession(sr, n)
    [] sr.id # Direct /\ sr.stream.type = "audio" -> NewAudioTranscodingSession(sr, n)
    [] sr.id # Direct /\ sr.stream.type = "subtitle" -> NewSubtitleSession(sr)

\* What ffprobe says of a stream that is not a file of its own.
ProbedStream(s) == Probed[s.file].streams[s.id + 1]

\* How many units of its time base a stream lasts: as many as it says, or else as
\* there are in its file.
Units(s) ==
  LET q == ProbedStream(s) IN
  IF q.durationTs > 0 THEN q.durationTs
  ELSE (Probed[s.file].duration * q.timeBase.den) \div (1000 * q.timeBase.num)

\* Whether a transcode of s writes segment i, which is ffmpeg's business: if the
\* stream lasts that long.  A process that copies cuts at keyframes, and may write
\* fewer; the one for subtitles writes all of them to the file of segment 0.
Writes(s, i) ==
  LET base == ProbedStream(s).timeBase
  IN StartTime(i) * base.den < Units(s) * base.num * 1000

-----------------------------------------------------------------------------
(* Manifests.                                                              *)

\* A manifest lists a set of variants, each a video with the audio that goes
\* with it, and the subtitles; audioCodecs is what HLS says the audio is in.
Variant(v, as, codecs) == [video |-> v, audio |-> as, audioCodecs |-> codecs]

FullQuality(f, playable) == GetTransmuxedOrTranscodedRepresentation(GetVideoStream(f), playable)
GetStandardPresetVideoRepresentations(s) ==
  {StreamRepresentationFromRepresentationId(s, Preset(n)) : n \in VideoPresets}
LowerQuality(f, playable) ==
  {r \in GetStandardPresetVideoRepresentations(GetVideoStream(f)) :
     r.bitRate < FullQuality(f, playable).bitRate}
AudioRepresentations(f, playable) ==
  {GetTransmuxedOrTranscodedRepresentation(s, playable) : s \in AudioStreams(f)}
GetSubtitleStreamRepresentations(f) ==
  {GetSubtitleStreamRepresentation(s) : s \in SubtitleStreams(f)}

\* Every video representation, with any of the audio ones.
DASHManifest(f, playable) ==
  {Variant(v, AudioRepresentations(f, playable), NoCodec) :
     v \in {FullQuality(f, playable)} \cup LowerQuality(f, playable)}

\* Lower qualities only beside a transcoded one; the first audio stream's codecs
\* stand for all.
HLSMasterPlaylist(f, playable) ==
  {Variant(v, AudioRepresentations(f, playable),
           GetTransmuxedOrTranscodedRepresentation(FirstOf(AudioStreams(f)), playable).codecs) :
     v \in {FullQuality(f, playable)} \cup
             (IF FullQuality(f, playable).id = Direct THEN {} ELSE LowerQuality(f, playable))}

HLSTransmuxingMasterPlaylist(f) ==
  {Variant(GetTransmuxedRepresentation(GetVideoStream(f)),
           {GetTransmuxedRepresentation(s) : s \in AudioStreams(f)}, AAC)}

HLSTranscodingMasterPlaylist(f) ==
  {Variant(StreamRepresentationFromRepresentationId(GetVideoStream(f), Preset(q[1])),
           {StreamRepresentationFromRepresentationId(s, Preset(q[2])) :
              s \in AudioStreams(f)}, AAC) :
     q \in {<<"480-1000k-video", "64k-audio">>, <<"720-5000k-video", "128k-audio">>}}

Listed(vs) == {v.video : v \in vs} \cup UNION {v.audio : v \in vs}

-----------------------------------------------------------------------------
(* A client.                                                               *)

VARIABLES
  file,      \* what it plays
  plays,     \* what it is able to play
  asked,     \* the codecs it was asked about, if it was
  playable,  \* its answer: the playableCodecs of a request for a manifest
  manifest,  \* which one it got: its kind, variants and subtitles
  playlist,  \* the HLS media playlist of a representation
  session    \* the process started for a segment of a representation

playlistVars == <<file, plays, asked, playable, manifest, playlist, session>>

PlaylistsInit ==
  /\ file \in Media
  /\ plays \in SUBSET Codec
  /\ asked = {} /\ playable = {}
  /\ manifest = [kind |-> "none", variants |-> {}, subtitles |-> {}]
  /\ playlist = [of |-> {}, segments |-> <<>>]
  /\ session = {}

\* Mutant: what the audio streams are in now is asked about, too.
CheckCodecs_OfAudio(f) ==
  LET v == GetVideoStream(f)
      ofVideo == {GetTransmuxedRepresentation(v).codecs, GetSimilarTranscodedRepresentation(v).codecs}
  IN ofVideo \cup {s.codecs : s \in AudioStreams(f)} \cup {AAC}

\* What may be served of the video, and for each audio stream once more the same,
\* and what a preset makes of it.
CheckCodecs(f) ==
  LET v == GetVideoStream(f)
      ofVideo == {GetTransmuxedRepresentation(v).codecs, GetSimilarTranscodedRepresentation(v).codecs}
  IN ofVideo \cup {r.codecs : r \in GetStandardPresetVideoRepresentations(v)}
       \cup {StreamRepresentationFromRepresentationId(s, Preset("128k-audio")).codecs :
               s \in AudioStreams(f)}

\* The client tests what it is asked about, and reports what it plays.
ServeMetadata ==
  /\ manifest.kind = "none" /\ asked = {}
  /\ ~GetStreamsFails(file) /\ VideoStreams(file) # {}
  /\ asked' = CheckCodecs(file)
  /\ playable' = asked' \cap plays
  /\ UNCHANGED <<file, plays, manifest, playlist, session>>

\* A manifest needs a video stream, and HLS an audio stream.
Serve(kind, variants) ==
  /\ manifest.kind = "none"
  /\ ~GetStreamsFails(file) /\ VideoStreams(file) # {}
  /\ manifest' = [kind |-> kind, variants |-> variants,
                  subtitles |-> GetSubtitleStreamRepresentations(file)]
  /\ UNCHANGED <<file, plays, asked, playable, playlist, session>>

ServeDASHManifest == Serve("dash", DASHManifest(file, playable))
ServeHLSMasterPlaylist ==
  AudioStreams(file) # {} /\ Serve("hls", HLSMasterPlaylist(file, playable))
ServeHLSTransmuxingMasterPlaylist == Serve("transmuxing", HLSTransmuxingMasterPlaylist(file))
ServeHLSTranscodingMasterPlaylist == Serve("transcoding", HLSTranscodingMasterPlaylist(file))

\* What a request for something listed makes of its URL.
Resolved(sr) ==
  StreamRepresentationFromRepresentationId(GetStream(sr.stream.file, sr.stream.id), sr.id)
Items == Listed(manifest.variants) \cup manifest.subtitles

\* No list can be made of a stream that lasts too long.
ServeHLSMediaPlaylist(sr) ==
  /\ manifest.kind \in {"hls", "transmuxing", "transcoding"}
  /\ sr \in Items /\ playlist.of = {}
  /\ Resolved(sr).stream.durationDts # TooLong
  /\ playlist' = [of |-> {sr}, segments |->
       BuildConstantSegmentDurations(Resolved(sr).stream.durationDts, Resolved(sr).stream.timeBase)]
  /\ UNCHANGED <<file, plays, asked, playable, manifest, session>>

\* The segments of the playlist, or, for DASH, as many as last for the duration;
\* subtitles are one file there.
Segments(sr) ==
  IF manifest.kind # "dash"
  THEN IF sr \in playlist.of
       THEN {playlist.segments[i].id : i \in DOMAIN playlist.segments} ELSE {}
  ELSE IF sr.id = WebVTT THEN {0}
       ELSE {n \in 0 .. sr.stream.duration \div SegmentDuration :
               StartTime(n) < sr.stream.duration}

ServeSegment(sr, n) ==
  /\ session = {} /\ n \in Segments(sr)
  /\ session' = {[of |-> sr, segment |-> n,
                  process |-> NewTranscodingSession(Resolved(sr), n)]}
  /\ UNCHANGED <<file, plays, asked, playable, manifest, playlist>>

PlaylistsNext ==
  \/ ServeMetadata
  \/ ServeDASHManifest \/ ServeHLSMasterPlaylist
  \/ ServeHLSTransmuxingMasterPlaylist \/ ServeHLSTranscodingMasterPlaylist
  \/ \E sr \in Items :
       \/ ServeHLSMediaPlaylist(sr)
       \/ \E n \in Segments(sr) : ServeSegment(sr, n)

PlaylistsSpec == PlaylistsInit /\ [][PlaylistsNext]_playlistVars

-----------------------------------------------------------------------------
(* What should hold.                                                       *)

PlaylistsTypeOK ==
  /\ file \in Media
  /\ plays \subseteq Codec
  /\ playable \subseteq plays \cap asked
  /\ manifest.kind \in {"none", "dash", "hls", "transmuxing", "transcoding"}
  /\ \A sr \in playlist.of : sr \in Items
  /\ \A x \in session : x.of \in Items /\ x.segment \in Segments(x.of)

\* The codec that a process is going to produce of a stream that is in codecs.
Produces(process, codecs) ==
  CASE process.encoder = "copy"    -> {codecs}
    [] process.encoder = "libx264" -> Tags
    [] process.encoder = "aac"     -> {AAC}
    [] process.encoder = "webvtt"  -> {NoCodec}

\* The process for a segment that is listed makes what the manifest says: of
\* that stream, in that codec, and, if it is one of the video presets, at that
\* rate and height.  A similar transcode's ID keeps nothing but the codec, and
\* no audio encoder is told its rate (StreamRepresentationFromRepresentationId,
\* ffmpeg.go:96).
ServesWhatWasListed ==
  \A x \in session :
    /\ x.process.file = x.of.stream.file /\ x.process.stream = x.of.stream.id
    /\ x.of.codecs \in Produces(x.process, x.of.stream.codecs)
    /\ x.of.id.name \in VideoPresets =>
         x.process.rate = x.of.bitRate /\ x.process.height = x.of.height

\* The client was asked, plays something it was asked about, and got a manifest
\* that takes this into account.
Answered == playable # {} /\ manifest.kind \in {"dash", "hls"}

\* A client that plays AVC and AAC plays whatever a manifest lists for it, but
\* for a small picture's malformed tag; and the video is direct if, and only if,
\* the client plays it as it is (serveMetadata, metadata.go:21).
OffersWhatPlays ==
  Answered =>
    /\ (Tags \ MalformedTags) \cup {AAC} \subseteq plays =>
         \A sr \in Listed(manifest.variants) : sr.codecs \in plays \cup MalformedTags
    /\ (\E v \in manifest.variants : v.video.id = Direct)
         <=> GetVideoStream(file).codecs \in plays

\* The codec that an HLS master playlist announces for the audio of a variant is
\* that of each of its audio streams, if the client has answered (hls.go:66).
HLSAnnouncesItsAudio ==
  Answered /\ manifest.kind = "hls" =>
    \A v \in manifest.variants : \A sr \in v.audio : sr.codecs = v.audioCodecs

Empty(s) == s.start = s.end

\* Segments from the start to the end of a stream, numbered one by one and without
\* a gap: each lasts as long as a process makes them, but for the last one, which
\* is shorter and may be empty.
RunsThrough(segments, s) ==
  /\ segments[1].start = 0 /\ segments[Len(segments)].end = s.durationDts
  /\ \A i \in DOMAIN segments :
       LET lasts == (segments[i].end - segments[i].start) * 1000
           full  == SegmentDuration * s.timeBase
       IN /\ segments[i].id = i - 1
          /\ IF i = Len(segments) THEN lasts \in 0 .. full - 1
             ELSE lasts = full /\ segments[i].end = segments[i + 1].start

\* A process started for a segment begins where the list has that segment begin.
BeginsAsListed(segments, sr) ==
  \A i \in DOMAIN segments :
    segments[i].start * 1000 = NewTranscodingSession(sr, segments[i].id).start * sr.stream.timeBase

\* No transcode leaves a listed segment out that is not empty, unless the numerator
\* of the time base, which Interval does not know, decides how many units a file
\* has; and if it is 1, nothing is written that is not listed.
ListsWhatIsWritten(segments, s) ==
  LET Unit == ProbedStream(s).timeBase.num = 1 IN
  /\ Unit \/ ProbedStream(s).durationTs > 0 =>
       \A i \in DOMAIN segments : ~Empty(segments[i]) => Writes(s, segments[i].id)
  /\ Unit => /\ \A i \in DOMAIN segments : Writes(s, segments[i].id) => ~Empty(segments[i])
             /\ ~Writes(s, Len(segments))

\* A media playlist runs from the start to the end of its stream (util.go:78).  But
\* for subtitles, which are one file, the process for a segment begins where that
\* segment does; and the segments are those that a transcode writes.
PlaylistsAreWritten ==
  \A sr \in playlist.of :
    LET segments == playlist.segments
        resolved == Resolved(sr)
    IN /\ RunsThrough(segments, resolved.stream)
       /\ sr.id # WebVTT => BeginsAsListed(segments, resolved)
       /\ sr.id \notin {Direct, WebVTT} => ListsWhatIsWritten(segments, resolved.stream)

-----------------------------------------------------------------------------
(* What ffprobe is expected to say of files, where a theorem needs it.     *)

\* What is named .srt holds subtitles.
SubtitlesAreSubtitles ==
  \A f \in Media : \A srt \in Probed[f].subtitles :
    Probed[srt].streams # <<>> /\ Probed[srt].streams[1].type = "subtitle"

\* What a file's audio is in is not what its video is in.
CodecsAreOfOneKind ==
  \A f \in Media : \A i, j \in DOMAIN Probed[f].streams :
    Probed[f].streams[i].type = "audio" /\ Probed[f].streams[j].type = "video" =>
      Probed[f].streams[i].codecs \notin Codec \cap ({Probed[f].streams[j].codecs} \cup Tags)
=============================================================================
