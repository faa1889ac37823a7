------------------------------ MODULE Clients_proofs ------------------------------
(* Theorems about Playlists and ImageCache, and about MCClients, which puts them   *)
(* together with PlayState and Users: what was listed is what is served, what is   *)
(* offered can be played, the segments of a playlist are those of a process, for   *)
(* every file that satisfies the hypotheses at the end of Playlists.               *)
EXTENDS MCClients, PlayState_proofs, Users_proofs, WellFoundedInduction, TLAPS

-----------------------------------------------------------------------------
(* Numbers.                                                                *)

LEMMA LeastExists ==
  ASSUME NEW S \in SUBSET Nat, S # {}
  PROVE  \E n \in S : \A m \in S : n <= m
<1>1. PICK n \in S : \A m \in S : ~ (<<m, n>> \in OpToRel(<, Nat))
  BY NatLessThanWellFounded, WFMin
<1>2. \A m \in S : ~ (m < n)
  BY <1>1 DEF OpToRel
<1> QED BY <1>2

LEMMA DivFact ==
  ASSUME NEW a \in Nat, NEW b \in Nat \ {0}
  PROVE  /\ a \div b \in Nat
         /\ (a \div b) * b <= a
         /\ a < (a \div b) * b + b
OBVIOUS

LEMMA TimesKeepsOrder ==
  ASSUME NEW a \in Int, NEW b \in Int, NEW c \in Nat \ {0}
  PROVE  a < b <=> a * c < b * c
OBVIOUS

-----------------------------------------------------------------------------
LEMMA LevelsAreTags ==
  ASSUME NEW w, NEW h, NEW b, NEW r
  PROVE  GetAVC1Tag(w, h, b, r) \in Tags
<1>1. Len(avc1Levels) = 20 /\ DOMAIN avc1Levels = 1 .. 20
  BY DEF avc1Levels
<1> DEFINE macroblocks == (w \div 16) * (h \div 16)
           Enough(l) == b < l[3] /\ macroblocks < l[2] /\ macroblocks * r < l[1]
           enough == {i \in DOMAIN avc1Levels : Enough(avc1Levels[i])}
<1>0. GetAVC1Tag(w, h, b, r) =
        avc1Levels[IF enough = {} THEN Len(avc1Levels)
                   ELSE CHOOSE j \in enough : \A k \in enough : j <= k][4]
  BY DEF GetAVC1Tag
<1> HIDE DEF Enough
<1>2. CASE enough = {}
  <2>1. GetAVC1Tag(w, h, b, r) = avc1Levels[20][4]
    BY <1>0, <1>1, <1>2
  <2>2. 20 \in DOMAIN avc1Levels
    BY <1>1
  <2> QED BY <2>1, <2>2 DEF Tags
<1>3. CASE enough # {}
  <2>1. PICK n \in enough : \A m \in enough : n <= m
    BY <1>1, <1>3, LeastExists
  <2> DEFINE j == CHOOSE j \in enough : \A k \in enough : j <= k
  <2>2. j \in enough
    BY <2>1
  <2>3. GetAVC1Tag(w, h, b, r) = avc1Levels[j][4]
    BY <1>0, <1>3
  <2> QED BY <2>2, <2>3 DEF Tags
<1> QED BY <1>2, <1>3

LEMMA PresetsAreNotTags ==
  /\ Tags \cap (VideoPresets \cup AudioPresets) = {}
  /\ {AAC, NoCodec} \cap (VideoPresets \cup AudioPresets) = {}
  /\ AAC \notin Tags
BY DEF Tags, avc1Levels, VideoPresets, AudioPresets, AAC, NoCodec

-----------------------------------------------------------------------------
(* Streams, and what is listed for them.                                   *)

LEMMA ProbedTypes ==
  ASSUME NEW f \in Media
  PROVE  /\ Probed[f].duration \in Nat
         /\ Probed[f].subtitles \subseteq Media
         /\ Probed[f].streams \in Seq(ProbeStreams)
         /\ DOMAIN Probed[f].streams \subseteq Nat \ {0}
         /\ \A i \in DOMAIN Probed[f].streams : Probed[f].streams[i] \in ProbeStreams
BY PlaylistsAssumption

\* A stream is found again under its file and its ID.
LEMMA StreamIsFound ==
  ASSUME NEW f \in Media, NEW type, NEW s \in StreamsOf(f, type)
  PROVE  /\ s.file = f /\ s.type = type
         /\ s.id + 1 \in DOMAIN Probed[f].streams
         /\ s = StreamAt(f, s.id + 1)
         /\ GetStream(s.file, s.id) = s
<1>1. PICK i \in DOMAIN Probed[f].streams :
        Probed[f].streams[i].type = type /\ s = StreamAt(f, i)
  BY DEF StreamsOf
<1>2. i \in Nat /\ (i - 1) + 1 = i
  BY ProbedTypes
<1> QED BY <1>1, <1>2 DEF StreamAt, GetStream

LEMMA FirstIsOne ==
  ASSUME NEW f \in Media, NEW type, StreamsOf(f, type) # {}
  PROVE  FirstOf(StreamsOf(f, type)) \in StreamsOf(f, type)
<1> DEFINE Ids == {s.id : s \in StreamsOf(f, type)}
<1>1. Ids \in SUBSET Nat /\ Ids # {}
  BY StreamIsFound, ProbedTypes DEF StreamsOf, StreamAt
<1>2. PICK n \in Ids : \A m \in Ids : n <= m
  BY <1>1, LeastExists
<1>3. PICK s \in StreamsOf(f, type) : \A t \in StreamsOf(f, type) : s.id <= t.id
  BY <1>2
<1> QED BY <1>3 DEF FirstOf

\* Whatever a manifest may list for a file.
Offered(f) ==
  {GetTransmuxedRepresentation(s) : s \in VideoStreams(f) \cup AudioStreams(f)}
    \cup {GetSimilarTranscodedRepresentation(s) : s \in VideoStreams(f) \cup AudioStreams(f)}
    \cup {StreamRepresentationFromRepresentationId(s, Preset(n)) :
            s \in VideoStreams(f), n \in VideoPresets}
    \cup {StreamRepresentationFromRepresentationId(s, Preset(n)) :
            s \in AudioStreams(f), n \in AudioPresets}
    \cup GetSubtitleStreamRepresentations(f)

\* It is listed as it is served: with an ID that leads back to the same
\* representation, but for what a similar transcode's parameters were.
Faithful(sr) ==
  LET p(n) == NewTranscodingSession(Resolved(sr), n)
  IN \A n : /\ p(n).file = sr.stream.file /\ p(n).stream = sr.stream.id
            /\ sr.codecs \in Produces(p(n), sr.stream.codecs)
            /\ sr.id.name \in VideoPresets =>
                 p(n).rate = sr.bitRate /\ p(n).height = sr.height

LEMMA DirectIsFaithful ==
  ASSUME NEW f \in Media, NEW s \in VideoStreams(f) \cup AudioStreams(f)
  PROVE  LET sr == GetTransmuxedRepresentation(s)
         IN Faithful(sr) /\ Resolved(sr).stream = s /\ sr.stream = s
<1> DEFINE sr == GetTransmuxedRepresentation(s)
<1>1. GetStream(s.file, s.id) = s /\ s.type \in {"video", "audio"}
  BY StreamIsFound DEF VideoStreams, AudioStreams
<1>2. Resolved(sr) = sr
  BY <1>1 DEF Resolved, StreamRepresentationFromRepresentationId, GetTransmuxedRepresentation, Direct
<1>3. sr.id = Direct /\ sr.stream = s /\ sr.codecs = s.codecs
  BY DEF GetTransmuxedRepresentation
<1>4. Direct.name \notin VideoPresets
  BY PresetsAreNotTags DEF Direct
<1> HIDE DEF sr
<1>5. \A n : NewTranscodingSession(sr, n) = NewTransmuxingSession(sr, n)
  BY <1>1, <1>3 DEF NewTranscodingSession
<1>6. Faithful(sr)
  BY <1>2, <1>3, <1>4, <1>5 DEF Faithful, NewTransmuxingSession, Process, Produces
<1> QED BY <1>2, <1>3, <1>6 DEF sr

LEMMA SimilarIsFaithful ==
  ASSUME NEW f \in Media, NEW s \in VideoStreams(f) \cup AudioStreams(f)
  PROVE  LET sr == GetSimilarTranscodedRepresentation(s)
         IN Faithful(sr) /\ Resolved(sr).stream = s /\ sr.stream = s
<1> DEFINE sr == GetSimilarTranscodedRepresentation(s)
           r == Resolved(sr)
<1>1. GetStream(s.file, s.id) = s /\ s.type \in {"video", "audio"}
  BY StreamIsFound DEF VideoStreams, AudioStreams
<1>2. /\ sr.stream = s /\ sr.id = [kind |-> "transcode", name |-> sr.codecs]
      /\ sr.codecs = GetSimilarEncoderParams(s).codecs
  BY DEF GetSimilarTranscodedRepresentation, GetTranscodedRepresentation,
         GetTranscodedAudioRepresentation, GetTranscodedVideoRepresentation, EncoderParamsToString
<1>3. r = GetTranscodedRepresentation(s, sr.id, EncoderParamsFromString(sr.id))
  BY <1>1, <1>2 DEF Resolved, StreamRepresentationFromRepresentationId
<1>4. r.stream = s /\ r.id # Direct
  BY <1>2, <1>3 DEF GetTranscodedRepresentation, GetTranscodedAudioRepresentation,
         GetTranscodedVideoRepresentation, Direct
<1>5. \/ sr.codecs \in Tags /\ \A n : NewTranscodingSession(r, n) = NewVideoTranscodingSession(r, n)
      \/ sr.codecs = AAC /\ \A n : NewTranscodingSession(r, n) = NewAudioTranscodingSession(r, n)
  <2>1. CASE s.type = "video"
    <3>1. sr.codecs \in Tags
      BY <1>2, <2>1, LevelsAreTags DEF GetSimilarEncoderParams, NoParams
    <3> QED BY <1>4, <2>1, <3>1 DEF NewTranscodingSession
  <2>2. CASE s.type = "audio"
    <3>1. sr.codecs = AAC
      BY <1>2, <2>2 DEF GetSimilarEncoderParams, NoParams
    <3> QED BY <1>4, <2>2, <3>1 DEF NewTranscodingSession
  <2> QED BY <1>1, <2>1, <2>2
<1>6. sr.id.name \notin VideoPresets
  BY <1>2, <1>5, PresetsAreNotTags
<1> HIDE DEF sr, r
<1>7. Resolved(sr) = r
  BY DEF r
<1>8. Faithful(sr)
  BY <1>2, <1>4, <1>5, <1>6, <1>7 DEF Faithful, Process, Produces, NewVideoTranscodingSession,
         NewAudioTranscodingSession
<1> QED BY <1>2, <1>4, <1>8 DEF sr, r

LEMMA PresetIsFaithful ==
  ASSUME NEW f \in Media, NEW s, NEW n,
         \/ s \in VideoStreams(f) /\ n \in VideoPresets
         \/ s \in AudioStreams(f) /\ n \in AudioPresets
  PROVE  LET sr == StreamRepresentationFromRepresentationId(s, Preset(n))
         IN Faithful(sr) /\ Resolved(sr).stream = s /\ sr.stream = s
<1> DEFINE sr == StreamRepresentationFromRepresentationId(s, Preset(n))
<1>1. GetStream(s.file, s.id) = s
  BY StreamIsFound DEF VideoStreams, AudioStreams
<1>2. VideoPresets \cap AudioPresets = {} /\ Preset(n) # Direct /\ Preset(n).name = n
  BY DEF VideoPresets, AudioPresets, Preset, Direct
<1>3. CASE s \in VideoStreams(f) /\ n \in VideoPresets
  <2>1. s.type = "video"
    BY <1>3, StreamIsFound DEF VideoStreams
  <2>2. sr = GetTranscodedVideoRepresentation(s, Preset(n), GetVideoEncoderPreset(s, n))
    BY <1>2, <1>3, <2>1 DEF StreamRepresentationFromRepresentationId, Preset
  <2>3. /\ sr.stream = s /\ sr.id = Preset(n) /\ sr.params = GetVideoEncoderPreset(s, n)
        /\ sr.bitRate = sr.params.videoBitrate /\ sr.height = sr.params.height
        /\ sr.codecs \in Tags
    <3>1. GetVideoEncoderPreset(s, n).codecs \in Tags
      BY LevelsAreTags DEF GetVideoEncoderPreset, NoParams
    <3> QED BY <2>2, <3>1 DEF GetTranscodedVideoRepresentation
  <2>4. Resolved(sr) = sr
    BY <1>1, <2>3 DEF Resolved
  <2> HIDE DEF sr
  <2>5. \A m : NewTranscodingSession(sr, m) = NewVideoTranscodingSession(sr, m)
    BY <1>2, <2>1, <2>3 DEF NewTranscodingSession
  <2>6. Faithful(sr)
    BY <2>3, <2>4, <2>5 DEF Faithful, NewVideoTranscodingSession, Process, Produces
  <2> QED BY <2>3, <2>4, <2>6 DEF sr
<1>4. CASE s \in AudioStreams(f) /\ n \in AudioPresets
  <2>1. s.type = "audio"
    BY <1>4, StreamIsFound DEF AudioStreams
  <2>2. sr = GetTranscodedAudioRepresentation(s, Preset(n), AudioEncoderPresets(n))
    BY <1>2, <1>4, <2>1 DEF StreamRepresentationFromRepresentationId, Preset
  <2>3. sr.stream = s /\ sr.id = Preset(n) /\ sr.codecs = AAC
    BY <2>2 DEF GetTranscodedAudioRepresentation, AudioEncoderPresets, NoParams
  <2>4. Resolved(sr) = sr
    BY <1>1, <2>3 DEF Resolved
  <2> HIDE DEF sr
  <2>5. \A m : NewTranscodingSession(sr, m) = NewAudioTranscodingSession(sr, m)
    BY <1>2, <2>1, <2>3 DEF NewTranscodingSession
  <2>6. Faithful(sr)
    BY <1>2, <1>4, <2>3, <2>4, <2>5 DEF Faithful, NewAudioTranscodingSession, Process, Produces
  <2> QED BY <2>3, <2>4, <2>6 DEF sr
<1> QED BY <1>3, <1>4

LEMMA SubtitleIsFaithful ==
  ASSUME SubtitlesAreSubtitles, NEW f \in Media, NEW s \in SubtitleStreams(f)
  PROVE  LET sr == GetSubtitleStreamRepresentation(s)
         IN /\ Faithful(sr) /\ sr.id = WebVTT
            /\ \E g \in Media : Resolved(sr).stream \in StreamsOf(g, "subtitle")
<1> DEFINE sr == GetSubtitleStreamRepresentation(s)
           t == GetStream(s.file, s.id)
           Found == /\ s.type = "subtitle" /\ t.file = s.file /\ t.id = s.id
                    /\ \E g \in Media : t \in StreamsOf(g, "subtitle")
<1>1. Found
  <2>1. CASE s \in StreamsOf(f, "subtitle")
    BY <2>1, StreamIsFound
  <2>2. ASSUME NEW srt \in Probed[f].subtitles, s = ExternalSubtitleStream(f, srt)
        PROVE  Found
    <3>1. srt \in Media /\ 1 \in DOMAIN Probed[srt].streams /\ Probed[srt].streams[1].type = "subtitle"
      BY ProbedTypes DEF SubtitlesAreSubtitles
    <3>2. StreamAt(srt, 1) \in StreamsOf(srt, "subtitle")
      BY <3>1 DEF StreamsOf
    <3>3. s.type = "subtitle" /\ s.file = srt /\ s.id = 0
      BY <2>2 DEF ExternalSubtitleStream
    <3>4. t = StreamAt(srt, 1)
      BY <3>3 DEF GetStream
    <3>5. t.file = srt /\ t.id = 0
      BY <3>4 DEF StreamAt
    <3> QED BY <3>1, <3>2, <3>3, <3>4, <3>5
  <2> QED BY <2>1, <2>2 DEF SubtitleStreams
<1>2. t.type = "subtitle"
  BY <1>1, StreamIsFound
<1>3. sr.stream = s /\ sr.id = WebVTT /\ sr.codecs = NoCodec
  BY DEF GetSubtitleStreamRepresentation
<1> DEFINE r == GetSubtitleStreamRepresentation(t)
<1>4. Resolved(sr) = r
  BY <1>2, <1>3 DEF Resolved, StreamRepresentationFromRepresentationId
<1>5. r.stream = t /\ r.id = WebVTT
  BY DEF GetSubtitleStreamRepresentation
<1>6. WebVTT # Direct /\ WebVTT.name \notin VideoPresets
  BY PresetsAreNotTags DEF WebVTT, Direct
<1> HIDE DEF sr, r, t
<1>7. \A n : NewTranscodingSession(r, n) = NewSubtitleSession(r)
  BY <1>2, <1>5, <1>6 DEF NewTranscodingSession
<1>8. Faithful(sr)
  BY <1>1, <1>3, <1>4, <1>5, <1>6, <1>7 DEF Faithful, NewSubtitleSession, Process, Produces
<1> QED BY <1>1, <1>3, <1>4, <1>5, <1>8 DEF sr

LEMMA OfferedIsFaithful ==
  ASSUME SubtitlesAreSubtitles, NEW f \in Media, NEW sr \in Offered(f)
  PROVE  /\ Faithful(sr)
         /\ \/ Resolved(sr).stream \in VideoStreams(f) \cup AudioStreams(f)
            \/ sr.id = WebVTT /\ \E g \in Media : Resolved(sr).stream \in StreamsOf(g, "subtitle")
<1>1. CASE \E s \in VideoStreams(f) \cup AudioStreams(f) :
             sr \in {GetTransmuxedRepresentation(s), GetSimilarTranscodedRepresentation(s)}
  BY <1>1, DirectIsFaithful, SimilarIsFaithful
<1>2. ASSUME NEW s, NEW n, sr = StreamRepresentationFromRepresentationId(s, Preset(n)),
             \/ s \in VideoStreams(f) /\ n \in VideoPresets
             \/ s \in AudioStreams(f) /\ n \in AudioPresets
      PROVE  Faithful(sr) /\ Resolved(sr).stream \in VideoStreams(f) \cup AudioStreams(f)
  BY <1>2, PresetIsFaithful
<1>3. CASE \E s \in SubtitleStreams(f) : sr = GetSubtitleStreamRepresentation(s)
  BY <1>3, SubtitleIsFaithful
<1> QED BY <1>1, <1>2, <1>3 DEF Offered, GetSubtitleStreamRepresentations

-----------------------------------------------------------------------------
(* Playlists.                                                              *)

\* The answer is to what was asked.
AnswerInv == asked \in {{}, CheckCodecs(file)} /\ playable = asked \cap plays

\* The manifest is still the one that this answer leads to.
ManifestInv ==
  \/ manifest = [kind |-> "none", variants |-> {}, subtitles |-> {}]
  \/ /\ ~GetStreamsFails(file) /\ VideoStreams(file) # {}
     /\ manifest.subtitles = GetSubtitleStreamRepresentations(file)
     /\ \/ manifest.kind = "dash" /\ manifest.variants = DASHManifest(file, playable)
        \/ /\ manifest.kind = "hls" /\ AudioStreams(file) # {}
           /\ manifest.variants = HLSMasterPlaylist(file, playable)
        \/ manifest.kind = "transmuxing" /\ manifest.variants = HLSTransmuxingMasterPlaylist(file)
        \/ manifest.kind = "transcoding" /\ manifest.variants = HLSTranscodingMasterPlaylist(file)

\* The segments are those of the stream that was found for what is listed.
PlaylistInv ==
  \A sr \in playlist.of :
    /\ manifest.kind \in {"hls", "transmuxing", "transcoding"} /\ sr \in Items
    /\ Resolved(sr).stream.durationDts # TooLong
    /\ playlist.segments =
         BuildConstantSegmentDurations(Resolved(sr).stream.durationDts, Resolved(sr).stream.timeBase)

\* So is the process.
SessionInv ==
  \A x \in session :
    /\ x.of \in Items /\ x.segment \in Segments(x.of)
    /\ x.process = NewTranscodingSession(Resolved(x.of), x.segment)

PlaylistsInv ==
  file \in Media /\ plays \subseteq Codec /\ AnswerInv /\ ManifestInv /\ PlaylistInv /\ SessionInv

LEMMA NothingBeforeManifest ==
  ASSUME PlaylistsInv, manifest.kind = "none"
  PROVE  playlist.of = {} /\ session = {}
<1>1. Items = {}
  BY DEF PlaylistsInv, ManifestInv, Items, Listed
<1> QED BY <1>1 DEF PlaylistsInv, PlaylistInv, SessionInv

LEMMA PlaylistsInitInv == PlaylistsInit => PlaylistsInv
BY DEF PlaylistsInit, PlaylistsInv, AnswerInv, ManifestInv, PlaylistInv, SessionInv

LEMMA PlaylistsNextInv == PlaylistsInv /\ [PlaylistsNext]_playlistVars => PlaylistsInv'
<1> SUFFICES ASSUME PlaylistsInv, [PlaylistsNext]_playlistVars PROVE PlaylistsInv'
  OBVIOUS
<1>1. CASE UNCHANGED playlistVars
  BY <1>1 DEF playlistVars, PlaylistsInv, AnswerInv, ManifestInv, PlaylistInv, SessionInv,
              Items, Segments
<1>2. CASE ServeMetadata
  <2>1. playlist'.of = {} /\ session' = {}
    BY <1>2, NothingBeforeManifest DEF ServeMetadata
  <2>2. AnswerInv' /\ ManifestInv'
    BY <1>2 DEF ServeMetadata, PlaylistsInv, AnswerInv, ManifestInv
  <2> QED BY <1>2, <2>1, <2>2 DEF ServeMetadata, PlaylistsInv, PlaylistInv, SessionInv
<1>3. ASSUME NEW kind, NEW variants, Serve(kind, variants),
             \/ kind = "dash" /\ variants = DASHManifest(file, playable)
             \/ /\ kind = "hls" /\ AudioStreams(file) # {}
                /\ variants = HLSMasterPlaylist(file, playable)
             \/ kind = "transmuxing" /\ variants = HLSTransmuxingMasterPlaylist(file)
             \/ kind = "transcoding" /\ variants = HLSTranscodingMasterPlaylist(file)
      PROVE  PlaylistsInv'
  <2>1. playlist'.of = {} /\ session' = {}
    BY <1>3, NothingBeforeManifest DEF Serve
  <2>2. /\ manifest'.kind = kind /\ manifest'.variants = variants
        /\ manifest'.subtitles = GetSubtitleStreamRepresentations(file)
        /\ UNCHANGED <<file, plays, asked, playable>>
    BY <1>3 DEF Serve
  <2>3. ManifestInv'
    BY <1>3, <2>2 DEF Serve, ManifestInv
  <2> QED BY <2>1, <2>2, <2>3 DEF PlaylistsInv, AnswerInv, PlaylistInv, SessionInv
<1>4. ASSUME NEW sr \in Items, ServeHLSMediaPlaylist(sr) PROVE PlaylistsInv'
  <2>1. session = {}
    BY <1>4 DEF ServeHLSMediaPlaylist, PlaylistsInv, SessionInv, Segments
  <2>2. AnswerInv' /\ ManifestInv'
    BY <1>4 DEF ServeHLSMediaPlaylist, PlaylistsInv, AnswerInv, ManifestInv
  <2>3. PlaylistInv'
    BY <1>4 DEF ServeHLSMediaPlaylist, PlaylistInv, Items
  <2> QED BY <1>4, <2>1, <2>2, <2>3 DEF ServeHLSMediaPlaylist, PlaylistsInv, SessionInv
<1>5. ASSUME NEW sr \in Items, NEW n \in Segments(sr), ServeSegment(sr, n) PROVE PlaylistsInv'
  <2>1. AnswerInv' /\ ManifestInv' /\ PlaylistInv'
    BY <1>5 DEF ServeSegment, PlaylistsInv, AnswerInv, ManifestInv, PlaylistInv, Items
  <2>2. SessionInv'
    BY <1>5 DEF ServeSegment, SessionInv, Items, Segments
  <2> QED BY <1>5, <2>1, <2>2 DEF ServeSegment, PlaylistsInv
<1>6. CASE \/ ServeDASHManifest \/ ServeHLSMasterPlaylist
           \/ ServeHLSTransmuxingMasterPlaylist \/ ServeHLSTranscodingMasterPlaylist
  BY <1>3, <1>6 DEF ServeDASHManifest, ServeHLSMasterPlaylist, ServeHLSTransmuxingMasterPlaylist,
                    ServeHLSTranscodingMasterPlaylist
<1> QED BY <1>1, <1>2, <1>4, <1>5, <1>6 DEF PlaylistsNext

LEMMA PlaylistsInvHolds == PlaylistsSpec => []PlaylistsInv
BY PlaylistsInitInv, PlaylistsNextInv, PTL DEF PlaylistsSpec

\* Whatever was listed, asked for, or served is part of the manifest
\* (streaming/dash.go, hls.go, segments.go).
THEOREM PlaylistsTypesCorrect == PlaylistsSpec => []PlaylistsTypeOK
<1>1. PlaylistsInv => PlaylistsTypeOK
  BY DEF PlaylistsInv, AnswerInv, ManifestInv, PlaylistInv, SessionInv, PlaylistsTypeOK
<1> QED BY <1>1, PlaylistsInvHolds, PTL

LEMMA FirstVideoStream ==
  ASSUME PlaylistsInv, manifest.kind # "none"
  PROVE  file \in Media /\ GetVideoStream(file) \in VideoStreams(file)
BY FirstIsOne DEF PlaylistsInv, ManifestInv, GetVideoStream, VideoStreams

LEMMA FullQualityIsOffered ==
  ASSUME PlaylistsInv, manifest.kind # "none"
  PROVE  {FullQuality(file, playable)} \cup LowerQuality(file, playable) \subseteq Offered(file)
<1>1. FullQuality(file, playable) \in Offered(file)
  BY FirstVideoStream DEF FullQuality, GetTransmuxedOrTranscodedRepresentation, Offered
<1>2. ASSUME NEW n \in VideoPresets
      PROVE  StreamRepresentationFromRepresentationId(GetVideoStream(file), Preset(n)) \in Offered(file)
  BY FirstVideoStream DEF Offered
<1>3. LowerQuality(file, playable) \subseteq Offered(file)
  BY <1>2 DEF LowerQuality, GetStandardPresetVideoRepresentations
<1> QED BY <1>1, <1>3

LEMMA ItemsAreOffered ==
  ASSUME PlaylistsInv
  PROVE  Items \subseteq Offered(file)
<1> SUFFICES ASSUME NEW sr \in Items PROVE sr \in Offered(file)
  OBVIOUS
<1>1. manifest.kind # "none"
  BY DEF PlaylistsInv, ManifestInv, Items, Listed
<1>2. CASE sr \in manifest.subtitles
  BY <1>1, <1>2 DEF PlaylistsInv, ManifestInv, Offered
<1>3. ASSUME NEW v \in manifest.variants, sr = v.video \/ sr \in v.audio
      PROVE  sr \in Offered(file)
  <2>1. CASE manifest.variants \in {DASHManifest(file, playable), HLSMasterPlaylist(file, playable)}
    <3>1. v.video \in {FullQuality(file, playable)} \cup LowerQuality(file, playable)
          /\ v.audio = AudioRepresentations(file, playable)
      BY <2>1 DEF DASHManifest, HLSMasterPlaylist, Variant
    <3>2. AudioRepresentations(file, playable) \subseteq Offered(file)
      BY DEF AudioRepresentations, GetTransmuxedOrTranscodedRepresentation, Offered
    <3> QED BY <1>1, <1>3, <3>1, <3>2, FullQualityIsOffered
  <2>2. CASE manifest.variants = HLSTransmuxingMasterPlaylist(file)
    <3>1. /\ v.video = GetTransmuxedRepresentation(GetVideoStream(file))
          /\ v.audio = {GetTransmuxedRepresentation(s) : s \in AudioStreams(file)}
      BY <2>2 DEF HLSTransmuxingMasterPlaylist, Variant
    <3> QED BY <1>1, <1>3, <3>1, FirstVideoStream DEF Offered
  <2>3. CASE manifest.variants = HLSTranscodingMasterPlaylist(file)
    <3>1. PICK n \in VideoPresets, m \in AudioPresets :
            /\ v.video = StreamRepresentationFromRepresentationId(GetVideoStream(file), Preset(n))
            /\ v.audio = {StreamRepresentationFromRepresentationId(s, Preset(m)) :
                            s \in AudioStreams(file)}
      <4>1. PICK q \in {<<"480-1000k-video", "64k-audio">>, <<"720-5000k-video", "128k-audio">>} :
              v = Variant(StreamRepresentationFromRepresentationId(GetVideoStream(file), Preset(q[1])),
                          {StreamRepresentationFromRepresentationId(s, Preset(q[2])) :
                             s \in AudioStreams(file)}, AAC)
        BY <2>3 DEF HLSTranscodingMasterPlaylist
      <4>2. q[1] \in VideoPresets /\ q[2] \in AudioPresets
        BY DEF VideoPresets, AudioPresets
      <4> QED BY <4>1, <4>2 DEF Variant
    <3>2. v.video \in Offered(file)
      BY <1>1, <3>1, FirstVideoStream DEF Offered
    <3>3. ASSUME NEW s \in AudioStreams(file)
          PROVE  StreamRepresentationFromRepresentationId(s, Preset(m)) \in Offered(file)
      BY DEF Offered
    <3> QED BY <1>3, <3>1, <3>2, <3>3
  <2> QED BY <1>1, <2>1, <2>2, <2>3 DEF PlaylistsInv, ManifestInv
<1> QED BY <1>2, <1>3 DEF Items, Listed

\* A process that is started for a segment makes what was listed: of that stream,
\* in that codec, and a preset at its rate and height, whatever the files are
\* (segments.go, StreamRepresentationFromRepresentationId).
THEOREM ServesWhatWasListedAlways ==
  ASSUME SubtitlesAreSubtitles
  PROVE  PlaylistsSpec => []ServesWhatWasListed
<1>1. PlaylistsInv => ServesWhatWasListed
  BY ItemsAreOffered, OfferedIsFaithful DEF PlaylistsInv, SessionInv, Faithful, ServesWhatWasListed
<1> QED BY <1>1, PlaylistsInvHolds, PTL

LEMMA SimilarCodecs ==
  ASSUME NEW f \in Media, NEW s
  PROVE  /\ GetSimilarTranscodedRepresentation(s).id # Direct
         /\ s \in VideoStreams(f) => GetSimilarTranscodedRepresentation(s).codecs \in Tags
         /\ s \in AudioStreams(f) => GetSimilarTranscodedRepresentation(s).codecs = AAC
<1> USE DEF GetSimilarTranscodedRepresentation, GetTranscodedRepresentation,
           GetTranscodedAudioRepresentation, GetTranscodedVideoRepresentation
<1>1. GetSimilarTranscodedRepresentation(s).id # Direct
  BY DEF EncoderParamsToString, Direct
<1>2. ASSUME s \in VideoStreams(f) PROVE GetSimilarTranscodedRepresentation(s).codecs \in Tags
  <2>1. s.type = "video"
    BY <1>2, StreamIsFound DEF VideoStreams
  <2>2. GetSimilarEncoderParams(s).codecs \in Tags
    BY <2>1, LevelsAreTags DEF GetSimilarEncoderParams, NoParams
  <2> QED BY <2>1, <2>2
<1>3. ASSUME s \in AudioStreams(f) PROVE GetSimilarTranscodedRepresentation(s).codecs = AAC
  <2>1. s.type = "audio"
    BY <1>3, StreamIsFound DEF AudioStreams
  <2>2. GetSimilarEncoderParams(s).codecs = AAC
    BY <2>1 DEF GetSimilarEncoderParams, NoParams
  <2> QED BY <2>1, <2>2
<1> QED BY <1>1, <1>2, <1>3

\* What a preset makes of a video is AVC, and never the video as it is.
LEMMA PresetCodecs ==
  ASSUME NEW f \in Media, NEW s \in VideoStreams(f),
         NEW r \in GetStandardPresetVideoRepresentations(s)
  PROVE  r.id # Direct /\ r.codecs \in Tags
<1>1. PICK n \in VideoPresets : r = StreamRepresentationFromRepresentationId(s, Preset(n))
  BY DEF GetStandardPresetVideoRepresentations
<1>2. s.type = "video" /\ VideoPresets \cap AudioPresets = {}
  BY StreamIsFound DEF VideoStreams, VideoPresets, AudioPresets
<1>3. r = GetTranscodedVideoRepresentation(s, Preset(n), GetVideoEncoderPreset(s, n))
  BY <1>1, <1>2 DEF StreamRepresentationFromRepresentationId, Preset
<1>4. GetVideoEncoderPreset(s, n).codecs \in Tags
  BY LevelsAreTags DEF GetVideoEncoderPreset, NoParams
<1> QED BY <1>3, <1>4 DEF GetTranscodedVideoRepresentation, Preset, Direct

\* A stream is listed as it is if, and only if, that is among what plays.
LEMMA TransmuxedIfPlayable ==
  ASSUME NEW s, playable # {}
  PROVE  LET r == GetTransmuxedOrTranscodedRepresentation(s, playable)
         IN \/ s.codecs \in playable /\ r = GetTransmuxedRepresentation(s)
                 /\ r.id = Direct /\ r.codecs = s.codecs
            \/ s.codecs \notin playable /\ r = GetSimilarTranscodedRepresentation(s)
BY DEF GetTransmuxedOrTranscodedRepresentation, CanPlay, GetTransmuxedRepresentation

\* What a manifest lists for a client that has answered.
LEMMA AnsweredVariants ==
  ASSUME PlaylistsInv, Answered
  PROVE  /\ asked = CheckCodecs(file)
         /\ \E v \in manifest.variants : v.video = FullQuality(file, playable)
         /\ \A v \in manifest.variants :
              /\ v.audio = AudioRepresentations(file, playable)
              /\ v.video \in {FullQuality(file, playable)} \cup LowerQuality(file, playable)
<1>1. asked = CheckCodecs(file)
  BY DEF Answered, PlaylistsInv, AnswerInv
<1>2. PICK lower, codecs :
        /\ lower \subseteq LowerQuality(file, playable)
        /\ manifest.variants = {Variant(v, AudioRepresentations(file, playable), codecs) :
                                  v \in {FullQuality(file, playable)} \cup lower}
  <2>1. CASE manifest.variants = DASHManifest(file, playable)
    BY <2>1 DEF DASHManifest
  <2>2. CASE manifest.variants = HLSMasterPlaylist(file, playable)
    <3> DEFINE lower == IF FullQuality(file, playable).id = Direct THEN {}
                        ELSE LowerQuality(file, playable)
               codecs == GetTransmuxedOrTranscodedRepresentation(
                           FirstOf(AudioStreams(file)), playable).codecs
    <3>1. lower \subseteq LowerQuality(file, playable)
      OBVIOUS
    <3>2. manifest.variants = {Variant(v, AudioRepresentations(file, playable), codecs) :
                                 v \in {FullQuality(file, playable)} \cup lower}
      BY <2>2 DEF HLSMasterPlaylist
    <3> HIDE DEF lower, codecs
    <3> QED BY <3>1, <3>2
  <2> QED BY <2>1, <2>2 DEF Answered, PlaylistsInv, ManifestInv
<1>3. \E v \in manifest.variants : v.video = FullQuality(file, playable)
  <2>1. Variant(FullQuality(file, playable), AudioRepresentations(file, playable), codecs)
          \in manifest.variants
    BY <1>2
  <2> QED BY <2>1 DEF Variant
<1> QED BY <1>1, <1>2, <1>3 DEF Variant

\* Whatever is listed for a client that plays AVC and AAC is something it plays,
\* or a malformed tag, and the video is listed as it is if that plays, for any
\* codecs (metadata.go, GetTransmuxedOrTranscodedRepresentation).
THEOREM OffersWhatPlaysAlways == PlaylistsSpec => []OffersWhatPlays
<1>1. ASSUME PlaylistsInv, Answered PROVE OffersWhatPlays
  <2> DEFINE video == GetVideoStream(file)
  <2>0. playable # {} /\ manifest.kind # "none"
    BY <1>1 DEF Answered
  <2>1. file \in Media /\ video \in VideoStreams(file)
    BY <1>1, <2>0, FirstVideoStream
  <2>2. video.codecs \in playable <=> video.codecs \in plays
    <3>1. video.codecs \in CheckCodecs(file)
      BY DEF CheckCodecs, GetTransmuxedRepresentation
    <3> QED BY <1>1, <3>1, AnsweredVariants DEF PlaylistsInv, AnswerInv
  <2>3. \A r \in LowerQuality(file, playable) : r.id # Direct /\ r.codecs \in Tags
    BY <2>1, PresetCodecs DEF LowerQuality
  <2>4. \/ /\ video.codecs \in playable /\ FullQuality(file, playable).id = Direct
           /\ FullQuality(file, playable).codecs = video.codecs
        \/ /\ video.codecs \notin playable /\ FullQuality(file, playable).id # Direct
           /\ FullQuality(file, playable).codecs \in Tags
    BY <2>0, <2>1, TransmuxedIfPlayable, SimilarCodecs DEF FullQuality
  <2>5. \A r \in AudioRepresentations(file, playable) : r.codecs \in playable \cup {AAC}
    BY <2>0, <2>1, TransmuxedIfPlayable, SimilarCodecs DEF AudioRepresentations
  <2>6. playable \subseteq plays
    BY <1>1 DEF PlaylistsInv, AnswerInv
  <2>7. ASSUME (Tags \ MalformedTags) \cup {AAC} \subseteq plays, NEW sr \in Listed(manifest.variants)
        PROVE  sr.codecs \in plays \cup MalformedTags
    <3>1. sr \in {FullQuality(file, playable)} \cup LowerQuality(file, playable)
                   \cup AudioRepresentations(file, playable)
      BY <1>1, <2>7, AnsweredVariants DEF Listed
    <3>2. Tags \subseteq plays \cup MalformedTags
      BY <2>7
    <3> QED BY <2>3, <2>4, <2>5, <2>6, <2>7, <3>1, <3>2
  <2>8. (\E v \in manifest.variants : v.video.id = Direct) <=> video.codecs \in plays
    BY <1>1, <2>2, <2>3, <2>4, AnsweredVariants
  <2> QED BY <2>7, <2>8 DEF OffersWhatPlays
<1>2. PlaylistsInv => OffersWhatPlays
  BY <1>1 DEF OffersWhatPlays
<1> QED BY <1>2, PlaylistsInvHolds, PTL

\* The codec announced for the audio of a variant is that of each of its streams,
\* if no file's audio is in what its video is in (hls.go:66): of the codecs of
\* audio the client is only asked about AAC.
THEOREM HLSAnnouncesItsAudioAlways ==
  ASSUME CodecsAreOfOneKind
  PROVE  PlaylistsSpec => []HLSAnnouncesItsAudio
<1>1. ASSUME PlaylistsInv, Answered, manifest.kind = "hls",
             NEW s \in AudioStreams(file)
      PROVE  GetTransmuxedOrTranscodedRepresentation(s, playable).codecs = AAC
  <2>1. file \in Media /\ GetVideoStream(file) \in VideoStreams(file) /\ playable # {}
    BY <1>1, FirstVideoStream DEF Answered
  <2>2. CASE s.codecs \notin playable
    BY <2>1, <2>2, TransmuxedIfPlayable, SimilarCodecs
  <2>3. CASE s.codecs \in playable
    <3>1. s.codecs \in Codec /\ s.codecs \in CheckCodecs(file)
      BY <1>1, <2>3, AnsweredVariants DEF PlaylistsInv, AnswerInv
    <3>2. s.codecs \notin Codec \cap ({GetVideoStream(file).codecs} \cup Tags)
      <4>1. \A t \in VideoStreams(file) : s.codecs \notin Codec \cap ({t.codecs} \cup Tags)
        BY <2>1 DEF VideoStreams, AudioStreams, StreamsOf, StreamAt, CodecsAreOfOneKind
      <4> QED BY <2>1, <4>1
    <3>3. \A r \in GetStandardPresetVideoRepresentations(GetVideoStream(file)) : r.codecs \in Tags
      BY <2>1, PresetCodecs
    <3>4. GetSimilarTranscodedRepresentation(GetVideoStream(file)).codecs \in Tags
      BY <2>1, SimilarCodecs
    <3>5. ASSUME NEW t \in AudioStreams(file)
          PROVE  StreamRepresentationFromRepresentationId(t, Preset("128k-audio")).codecs = AAC
      BY <2>1, StreamIsFound DEF AudioStreams, StreamRepresentationFromRepresentationId, Preset,
           VideoPresets, AudioPresets, GetTranscodedAudioRepresentation, AudioEncoderPresets, NoParams
    <3>6. s.codecs = AAC
      BY <3>1, <3>2, <3>3, <3>4, <3>5 DEF CheckCodecs, GetTransmuxedRepresentation
    <3> QED BY <2>1, <2>3, <3>6, TransmuxedIfPlayable
  <2> QED BY <2>2, <2>3
<1>2. ASSUME PlaylistsInv, Answered, manifest.kind = "hls" PROVE HLSAnnouncesItsAudio
  <2>1. FirstOf(AudioStreams(file)) \in AudioStreams(file)
    BY <1>2, FirstIsOne DEF PlaylistsInv, ManifestInv, AudioStreams
  <2>2. \A v \in manifest.variants :
          /\ v.audio = AudioRepresentations(file, playable)
          /\ v.audioCodecs = GetTransmuxedOrTranscodedRepresentation(FirstOf(AudioStreams(file)), playable).codecs
    BY <1>2 DEF PlaylistsInv, ManifestInv, HLSMasterPlaylist, Variant
  <2>3. \A sr \in AudioRepresentations(file, playable) : sr.codecs = AAC
    BY <1>1, <1>2 DEF AudioRepresentations
  <2> QED BY <1>1, <1>2, <2>1, <2>2, <2>3 DEF HLSAnnouncesItsAudio
<1>3. PlaylistsInv => HLSAnnouncesItsAudio
  BY <1>2 DEF HLSAnnouncesItsAudio
<1> QED BY <1>3, PlaylistsInvHolds, PTL

-----------------------------------------------------------------------------
(* Segments.                                                               *)

\* at[n] is where segment n begins on the time line of a stream with that time base.
Grid(at, timeBase) ==
  /\ at \in [Nat -> Nat] /\ at[0] = 0
  /\ \A n \in Nat : /\ at[n] * 1000 = StartTime(n) * timeBase
                    /\ (at[n + 1] - at[n]) * 1000 = SegmentDuration * timeBase
Increasing(at) == \A m, n \in Nat : m < n => at[m] < at[n]

\* The segments are cut there; full of them have all of their length, and there is
\* one more.
Cut(segments, at, full, end) ==
  /\ DOMAIN segments = 1 .. full + 1 /\ Len(segments) = full + 1
  /\ at[full] <= end /\ end < at[full + 1]
  /\ \A i \in 1 .. full + 1 :
       /\ segments[i].id = i - 1 /\ segments[i].start = at[i - 1]
       /\ segments[i].end = IF i <= full THEN at[i] ELSE end

LEMMA SegmentsAreCut ==
  ASSUME NEW end \in Nat, NEW timeBase \in Nat \ {0}
  PROVE  \E full \in Nat, at \in [Nat -> Nat] :
           /\ Grid(at, timeBase) /\ Increasing(at)
           /\ Cut(BuildConstantSegmentDurations(end, timeBase), at, full, end)
<1> DEFINE d == 5 * timeBase
           full == end \div d
           segments == BuildConstantSegmentDurations(end, timeBase)
           at == [n \in Nat |-> n * d]
<1>1. /\ d \in Nat \ {0} /\ (SegmentDuration \div 1000) * timeBase = d
      /\ d * 1000 = SegmentDuration * timeBase
  BY DEF SegmentDuration
<1>2. \A n \in Nat : at[n] * 1000 = StartTime(n) * timeBase
  BY DEF StartTime, SegmentDuration
<1> HIDE DEF d
<1>3. full \in Nat /\ full * d <= end /\ end < full * d + d
  BY <1>1, DivFact
<1>4. segments = [i \in 1 .. full + 1 |->
                    [id |-> i - 1, start |-> (i - 1) * d, end |-> IF i <= full THEN i * d ELSE end]]
  BY <1>1 DEF BuildConstantSegmentDurations
<1> HIDE DEF full, segments
<1>10. ASSUME NEW n \in Nat PROVE at[n + 1] = at[n] + d
  BY <1>1
<1>5. at \in [Nat -> Nat] /\ at[0] = 0 /\ at[full] <= end /\ end < at[full + 1]
  <2>1. at[full] = full * d
    BY <1>3
  <2> QED BY <1>1, <1>3, <1>10, <2>1
<1>6. Increasing(at)
  <2> SUFFICES ASSUME NEW m \in Nat, NEW n \in Nat, m < n PROVE m * d < n * d
    BY DEF Increasing
  <2> QED BY <1>1, TimesKeepsOrder
<1>7. DOMAIN segments = 1 .. full + 1 /\ Len(segments) = full + 1
  BY <1>3, <1>4
<1>8. ASSUME NEW i \in 1 .. full + 1
      PROVE  /\ segments[i].id = i - 1 /\ segments[i].start = at[i - 1]
             /\ segments[i].end = IF i <= full THEN at[i] ELSE end
  <2>1. at[i - 1] = (i - 1) * d /\ at[i] = i * d
    BY <1>3
  <2>2. segments[i] = [id |-> i - 1, start |-> (i - 1) * d, end |-> IF i <= full THEN i * d ELSE end]
    BY <1>4
  <2> HIDE DEF at
  <2> QED BY <2>1, <2>2
<1> HIDE DEF at
<1>9. Grid(at, timeBase)
  <2>1. \A n \in Nat : (at[n + 1] - at[n]) * 1000 = SegmentDuration * timeBase
    BY <1>1, <1>5, <1>10
  <2> QED BY <1>2, <1>5, <2>1 DEF Grid
<1>11. Cut(segments, at, full, end)
  BY <1>5, <1>7, <1>8 DEF Cut
<1> QED BY <1>3, <1>5, <1>6, <1>9, <1>11 DEF segments

LEMMA SegmentsRunThrough ==
  ASSUME NEW s, s.durationDts \in Nat, s.timeBase \in Nat \ {0}
  PROVE  RunsThrough(BuildConstantSegmentDurations(s.durationDts, s.timeBase), s)
<1> DEFINE segments == BuildConstantSegmentDurations(s.durationDts, s.timeBase)
           whole == SegmentDuration * s.timeBase
<1>1. PICK full \in Nat, at \in [Nat -> Nat] :
        Grid(at, s.timeBase) /\ Cut(segments, at, full, s.durationDts)
  BY SegmentsAreCut
<1> HIDE DEF segments
<1>2. segments[1].start = 0 /\ segments[Len(segments)].end = s.durationDts
  <2>0. 1 \in 1 .. full + 1 /\ full + 1 \in 1 .. full + 1 /\ ~(full + 1 <= full)
    OBVIOUS
  <2>1. segments[1].start = at[1 - 1] /\ segments[full + 1].end = s.durationDts
    BY <1>1, <2>0 DEF Cut
  <2>2. Len(segments) = full + 1 /\ at[1 - 1] = 0
    BY <1>1 DEF Cut, Grid
  <2> QED BY <2>1, <2>2
<1>3. ASSUME NEW i \in DOMAIN segments
      PROVE  LET lasts == (segments[i].end - segments[i].start) * 1000
             IN /\ segments[i].id = i - 1
                /\ IF i = Len(segments) THEN lasts \in 0 .. whole - 1
                   ELSE lasts = whole /\ segments[i].end = segments[i + 1].start
  <2>0. i \in 1 .. full + 1
    BY <1>1 DEF Cut
  <2>6. Len(segments) = full + 1
    BY <1>1 DEF Cut
  <2>1. i \in 1 .. full + 1 /\ i - 1 \in Nat /\ i \in Nat /\ (i - 1) + 1 = i /\ (i + 1) - 1 = i
    BY <2>0
  <2>2. /\ segments[i].id = i - 1 /\ segments[i].start = at[i - 1]
        /\ segments[i].end = IF i <= full THEN at[i] ELSE s.durationDts
    BY <1>1, <2>1 DEF Cut
  <2>3. (at[i] - at[i - 1]) * 1000 = whole /\ at[i] \in Nat /\ at[i - 1] \in Nat
    <3> HIDE DEF whole
    <3>1. \A n \in Nat : (at[n + 1] - at[n]) * 1000 = whole
      BY <1>1 DEF Grid, whole
    <3> QED BY <2>1, <3>1
  <2>4. CASE i = Len(segments)
    <3>0. i = full + 1
      BY <2>4, <2>6, Zenon
    <3>1. at[i - 1] <= s.durationDts /\ s.durationDts < at[i] /\ segments[i].end = s.durationDts
      BY <1>1, <2>1, <2>2, <3>0 DEF Cut
    <3>2. whole \in Int
      BY DEF SegmentDuration
    <3> HIDE DEF whole
    <3>3. (s.durationDts - at[i - 1]) * 1000 \in 0 .. whole - 1
      BY <2>3, <3>1, <3>2
    <3>4. segments[i].id = i - 1 /\ segments[i].start = at[i - 1]
      BY <2>2
    <3>5. (segments[i].end - segments[i].start) * 1000 \in 0 .. whole - 1
      BY <3>1, <3>3, <3>4
    <3> QED BY <2>4, <3>4, <3>5, Zenon
  <2>5. CASE i # Len(segments)
    <3>0. i # full + 1
      BY <2>5, <2>6, Zenon
    <3>1. i <= full /\ i + 1 \in 1 .. full + 1
      BY <2>0, <3>0
    <3>2. segments[i].end = at[i] /\ segments[i + 1].start = at[i]
      BY <1>1, <2>1, <3>1 DEF Cut
    <3> QED BY <2>2, <2>3, <2>5, <3>2
  <2> QED BY <2>4, <2>5
<1> QED BY <1>2, <1>3 DEF RunsThrough, segments

\* A process of a video or audio representation is started at a segment's time.
LEMMA ProcessBegins ==
  ASSUME NEW sr, sr.stream.type \in {"video", "audio"}, NEW n
  PROVE  NewTranscodingSession(sr, n).start = StartTime(n)
BY DEF NewTranscodingSession, NewTransmuxingSession, NewVideoTranscodingSession,
       NewAudioTranscodingSession, Process

LEMMA SegmentsBeginAsListed ==
  ASSUME NEW sr, sr.stream.type \in {"video", "audio"},
         sr.stream.durationDts \in Nat, sr.stream.timeBase \in Nat \ {0}
  PROVE  BeginsAsListed(
           BuildConstantSegmentDurations(sr.stream.durationDts, sr.stream.timeBase), sr)
<1> DEFINE s == sr.stream
           segments == BuildConstantSegmentDurations(s.durationDts, s.timeBase)
<1>1. PICK full \in Nat, at \in [Nat -> Nat] :
        Grid(at, s.timeBase) /\ Cut(segments, at, full, s.durationDts)
  BY SegmentsAreCut
<1> HIDE DEF segments
<1>2. ASSUME NEW i \in DOMAIN segments
      PROVE  segments[i].start * 1000 =
               NewTranscodingSession(sr, segments[i].id).start * s.timeBase
  <2>0. i \in 1 .. full + 1
    BY <1>1 DEF Cut
  <2>1. i \in 1 .. full + 1 /\ i - 1 \in Nat
    BY <2>0
  <2>2. segments[i].id = i - 1 /\ segments[i].start = at[i - 1]
    BY <1>1, <2>1 DEF Cut
  <2>3. at[i - 1] * 1000 = StartTime(i - 1) * s.timeBase
    BY <1>1, <2>1 DEF Grid
  <2> QED BY <2>2, <2>3, ProcessBegins
<1> QED BY <1>2 DEF BeginsAsListed, segments

\* Whether a transcode writes a segment, in the units in which segments are counted.
LEMMA WrittenUntilTheEnd ==
  ASSUME NEW f \in Media, NEW type \in {"video", "audio"}, NEW s \in StreamsOf(f, type),
         s.durationDts \in Nat, NEW n \in Nat
  PROVE  LET q == ProbedStream(s)
             before == StartTime(n) * s.timeBase < s.durationDts * 1000
         IN /\ q.durationTs > 0 /\ before => Writes(s, n)
            /\ q.timeBase.num = 1 => (Writes(s, n) <=> before)
<1> DEFINE q == ProbedStream(s)
           num == q.timeBase.num
           den == q.timeBase.den
<1>1. /\ s.file = f /\ q = Probed[f].streams[s.id + 1] /\ q.type = type
      /\ s.id + 1 \in DOMAIN Probed[f].streams /\ s = StreamAt(f, s.id + 1)
  <2>1. /\ s.file = f /\ s.type = type /\ s = StreamAt(f, s.id + 1)
        /\ s.id + 1 \in DOMAIN Probed[f].streams
    BY StreamIsFound
  <2>2. s.type = Probed[f].streams[s.id + 1].type
    BY <2>1 DEF StreamAt
  <2> QED BY <2>1, <2>2 DEF ProbedStream
<1>2. /\ num \in Nat \ {0} /\ den \in Nat \ {0} /\ q.durationTs \in Nat
      /\ Probed[f].duration \in Nat
  BY <1>1, ProbedTypes DEF ProbeStreams
<1> HIDE DEF q
<1>3. /\ s.timeBase = den
      /\ s.durationDts = IF q.durationTs > 0 THEN q.durationTs
                         ELSE (Probed[f].duration * den) \div 1000
  <2>1. s.durationDts = DurationDts(Probed[f], s.id + 1) /\ s.timeBase = den
    BY <1>1 DEF StreamAt
  <2> QED BY <1>1, <2>1 DEF DurationDts
<1>4. Writes(s, n) <=> StartTime(n) * den < Units(s) * num * 1000
  BY DEF Writes, q
<1>5. Units(s) = IF q.durationTs > 0 THEN q.durationTs
                 ELSE (Probed[f].duration * den) \div (1000 * num)
  BY <1>1 DEF Units, q
<1>6. StartTime(n) * den \in Int
  BY <1>2 DEF StartTime, SegmentDuration
<1>7. ASSUME q.durationTs > 0, StartTime(n) * den < s.durationDts * 1000
      PROVE  Writes(s, n)
  <2>1. Units(s) = s.durationDts
    BY <1>3, <1>5, <1>7
  <2>2. s.durationDts <= s.durationDts * num
    BY <1>2
  <2>3. s.durationDts * num \in Nat
    BY <1>2
  <2> HIDE DEF num, den
  <2> QED BY <1>4, <1>6, <1>7, <2>1, <2>2, <2>3
<1>8. ASSUME num = 1
      PROVE  Writes(s, n) <=> StartTime(n) * den < s.durationDts * 1000
  <2>1. Units(s) = s.durationDts
    BY <1>3, <1>5, <1>8
  <2>2. s.durationDts * num = s.durationDts
    BY <1>8
  <2> QED BY <1>4, <2>1, <2>2
<1> QED BY <1>3, <1>7, <1>8 DEF q

\* What is written of a stream is what its segments list.
LEMMA SegmentsAreWritten ==
  ASSUME NEW f \in Media, NEW type \in {"video", "audio"}, NEW s \in StreamsOf(f, type),
         s.durationDts \in Nat, s.timeBase \in Nat \ {0}
  PROVE  ListsWhatIsWritten(BuildConstantSegmentDurations(s.durationDts, s.timeBase), s)
<1> DEFINE segments == BuildConstantSegmentDurations(s.durationDts, s.timeBase)
           Unit == ProbedStream(s).timeBase.num = 1
           Precedes(n) == StartTime(n) * s.timeBase < s.durationDts * 1000
<1>1. PICK full \in Nat, at \in [Nat -> Nat] :
        /\ Grid(at, s.timeBase) /\ Increasing(at)
        /\ Cut(segments, at, full, s.durationDts)
  BY SegmentsAreCut
<1>2. ASSUME NEW n \in Nat
      PROVE  /\ ProbedStream(s).durationTs > 0 /\ Precedes(n) => Writes(s, n)
             /\ Unit => (Writes(s, n) <=> Precedes(n))
  BY WrittenUntilTheEnd
<1>3. ASSUME NEW n \in Nat PROVE Precedes(n) <=> at[n] < s.durationDts
  <2>1. StartTime(n) * s.timeBase = at[n] * 1000 /\ at[n] \in Nat
    BY <1>1 DEF Grid
  <2>2. at[n] * 1000 < s.durationDts * 1000 <=> at[n] < s.durationDts
    BY <2>1
  <2> QED BY <2>1, <2>2
<1> HIDE DEF segments, Precedes, Unit
<1>4. ASSUME NEW i \in DOMAIN segments
      PROVE  /\ segments[i].id \in Nat
             /\ ~Empty(segments[i]) <=> Precedes(segments[i].id)
  <2>0. i \in 1 .. full + 1
    BY <1>1 DEF Cut
  <2>1. i \in 1 .. full + 1 /\ i - 1 \in Nat /\ i \in Nat /\ i - 1 < i
    BY <2>0
  <2>2. /\ segments[i].id = i - 1 /\ segments[i].start = at[i - 1]
        /\ segments[i].end = IF i <= full THEN at[i] ELSE s.durationDts
        /\ at[full] <= s.durationDts
    BY <1>1, <2>1 DEF Cut
  <2>3. Precedes(i - 1) <=> at[i - 1] < s.durationDts
    BY <1>3, <2>1
  <2>4. at[i - 1] \in Nat /\ at[i] \in Nat /\ at[full] \in Nat
    BY <2>1
  <2>5. CASE i <= full
    <3>1. at[i - 1] < at[i] /\ at[i - 1] < at[full]
      BY <1>1, <2>1, <2>5 DEF Increasing
    <3> QED BY <2>1, <2>2, <2>3, <2>4, <2>5, <3>1 DEF Empty
  <2>6. CASE i = full + 1
    <3>1. at[i - 1] <= s.durationDts /\ segments[i].end = s.durationDts
      BY <2>2, <2>6
    <3> QED BY <2>1, <2>2, <2>3, <2>4, <3>1 DEF Empty
  <2> QED BY <2>1, <2>5, <2>6
<1>5. Len(segments) \in Nat /\ ~Precedes(Len(segments))
  <2>1. Len(segments) = full + 1 /\ s.durationDts < at[full + 1] /\ at[full + 1] \in Nat
    BY <1>1 DEF Cut
  <2> QED BY <1>3, <2>1
<1>6. Unit \/ ProbedStream(s).durationTs > 0 =>
        \A i \in DOMAIN segments : ~Empty(segments[i]) => Writes(s, segments[i].id)
  BY <1>2, <1>4
<1>7. Unit => /\ \A i \in DOMAIN segments : Writes(s, segments[i].id) => ~Empty(segments[i])
              /\ ~Writes(s, Len(segments))
  BY <1>2, <1>4, <1>5
<1> QED BY <1>6, <1>7 DEF ListsWhatIsWritten, segments, Unit

LEMMA StreamLasts ==
  ASSUME NEW f \in Media, NEW type, NEW s \in StreamsOf(f, type), s.durationDts # TooLong
  PROVE  s.durationDts \in Nat /\ s.timeBase \in Nat \ {0} /\ s.duration \in Int
<1>1. PICK i \in DOMAIN Probed[f].streams : s = StreamAt(f, i)
  BY DEF StreamsOf
<1> DEFINE p == Probed[f]
           stream == p.streams[i]
<1>2. /\ i \in Nat \ {0} /\ p.duration \in Nat /\ stream.durationTs \in Nat
      /\ stream.timeBase.den \in Nat \ {0}
  BY ProbedTypes DEF ProbeStreams
<1>3. /\ s.durationDts = DurationDts(p, i) /\ s.duration = DurationAt(p, i)
      /\ s.timeBase = IF stream.type = "subtitle" THEN 1000 ELSE stream.timeBase.den
  BY <1>1 DEF StreamAt
<1> HIDE DEF p
<1>4. DurationAt(p, i) \in Int
  BY <1>2 DEF DurationAt, TooLong, Unknown
<1>5. CASE stream.type = "subtitle"
  <2>1. DurationDts(p, i) = DurationAt(p, i)
    BY <1>5 DEF DurationDts
  <2>2. DurationAt(p, i) \in Nat \cup {TooLong}
    BY <1>2, <1>5 DEF DurationAt
  <2> QED BY <1>2, <1>3, <1>4, <1>5, <2>1, <2>2
<1>6. CASE stream.type # "subtitle"
  <2>1. (p.duration * stream.timeBase.den) \div 1000 \in Nat
    BY <1>2
  <2>2. DurationDts(p, i) \in Nat
    BY <1>2, <1>6, <2>1 DEF DurationDts
  <2> QED BY <1>2, <1>3, <1>4, <1>6, <2>2
<1> QED BY <1>5, <1>6

\* What a playlist was made of.
LEMMA PlaylistStream ==
  ASSUME SubtitlesAreSubtitles, PlaylistsInv, NEW sr \in playlist.of
  PROVE  LET s == Resolved(sr).stream
         IN /\ s.durationDts \in Nat /\ s.timeBase \in Nat \ {0}
            /\ playlist.segments = BuildConstantSegmentDurations(s.durationDts, s.timeBase)
            /\ \/ \E type \in {"video", "audio"} : s \in StreamsOf(file, type)
               \/ sr.id = WebVTT
<1> DEFINE s == Resolved(sr).stream
<1>1. /\ file \in Media /\ sr \in Items /\ s.durationDts # TooLong
      /\ playlist.segments = BuildConstantSegmentDurations(s.durationDts, s.timeBase)
  BY DEF PlaylistsInv, PlaylistInv
<1>2. \/ s \in VideoStreams(file) \cup AudioStreams(file)
      \/ sr.id = WebVTT /\ \E g \in Media : s \in StreamsOf(g, "subtitle")
  BY <1>1, ItemsAreOffered, OfferedIsFaithful
<1>3. \E g \in Media, type \in {"video", "audio", "subtitle"} : s \in StreamsOf(g, type)
  BY <1>1, <1>2 DEF VideoStreams, AudioStreams
<1>4. s.durationDts \in Nat /\ s.timeBase \in Nat \ {0}
  BY <1>1, <1>3, StreamLasts
<1>5. (\E type \in {"video", "audio"} : s \in StreamsOf(file, type)) \/ sr.id = WebVTT
  BY <1>2 DEF VideoStreams, AudioStreams
<1> QED BY <1>1, <1>4, <1>5

\* A media playlist runs from the start to the end of its stream without a gap, in
\* segments of five seconds and a shorter last one, whatever the stream's duration
\* and time base (util.go:78).
THEOREM PlaylistsRunThrough ==
  ASSUME SubtitlesAreSubtitles
  PROVE  PlaylistsSpec =>
           [](\A sr \in playlist.of : RunsThrough(playlist.segments, Resolved(sr).stream))
<1>1. PlaylistsInv => \A sr \in playlist.of : RunsThrough(playlist.segments, Resolved(sr).stream)
  BY PlaylistStream, SegmentsRunThrough
<1> QED BY <1>1, PlaylistsInvHolds, PTL

\* The process for a segment begins where the playlist says, and the segments that are
\* listed are those that a transcode writes, however long the stream and its file
\* last (transcode_video.go:84, util.go:78).
THEOREM PlaylistsAreWrittenAlways ==
  ASSUME SubtitlesAreSubtitles
  PROVE  PlaylistsSpec => []PlaylistsAreWritten
<1>1. ASSUME PlaylistsInv, NEW sr \in playlist.of
      PROVE  LET segments == playlist.segments
                 resolved == Resolved(sr)
             IN /\ RunsThrough(segments, resolved.stream)
                /\ sr.id # WebVTT => BeginsAsListed(segments, resolved)
                /\ sr.id \notin {Direct, WebVTT} => ListsWhatIsWritten(segments, resolved.stream)
  <2> DEFINE resolved == Resolved(sr)
             s == resolved.stream
  <2>1. /\ s.durationDts \in Nat /\ s.timeBase \in Nat \ {0} /\ file \in Media
        /\ playlist.segments = BuildConstantSegmentDurations(s.durationDts, s.timeBase)
        /\ (\E type \in {"video", "audio"} : s \in StreamsOf(file, type)) \/ sr.id = WebVTT
    BY <1>1, PlaylistStream DEF PlaylistsInv, PlaylistInv
  <2> HIDE DEF resolved
  <2>2. RunsThrough(playlist.segments, s)
    BY <2>1, SegmentsRunThrough
  <2>3. ASSUME sr.id # WebVTT
        PROVE  BeginsAsListed(playlist.segments, resolved) /\ ListsWhatIsWritten(playlist.segments, s)
    <3>1. PICK type \in {"video", "audio"} : s \in StreamsOf(file, type)
      BY <2>1, <2>3
    <3>2. s.type = type
      BY <2>1, <3>1, StreamIsFound
    <3>3. BeginsAsListed(playlist.segments, resolved)
      BY <2>1, <3>2, SegmentsBeginAsListed
    <3>4. ListsWhatIsWritten(playlist.segments, s)
      BY <2>1, <3>1, SegmentsAreWritten
    <3> QED BY <3>3, <3>4
  <2> QED BY <2>2, <2>3 DEF resolved
<1>2. PlaylistsInv => PlaylistsAreWritten
  BY <1>1 DEF PlaylistsAreWritten
<1> QED BY <1>2, PlaylistsInvHolds, PTL

-----------------------------------------------------------------------------
(* The cache of images.                                                    *)

\* A request that is under way is for an image.
ImageTypeInv ==
  /\ ImageCacheTypeOK
  /\ \A r \in ImageRequest : request[r].at # "idle" => request[r].image \in Image

\* A step of one request, and where it takes it.
LEMMA ImageRequestTypes ==
  ASSUME ImageTypeInv, NEW r \in ImageRequest, NEW next \in ImageRequests,
         next.at # "idle" => next.image \in Image,
         request' = [request EXCEPT ![r] = next],
         cached' \in [Image -> Contents], failed' \subseteq Image
  PROVE  ImageTypeInv'
BY DEF ImageTypeInv, ImageCacheTypeOK

LEMMA NoRequestType == NoRequest \in ImageRequests /\ NoRequest.at = "idle"
BY DEF NoRequest, ImageRequests

LEMMA GoType ==
  ASSUME ImageTypeInv, NEW r \in ImageRequest, request[r].at # "idle",
         NEW at \in {"read", "get", "create", "copy", "write", "rest"}
  PROVE  LET next == [request[r] EXCEPT !.at = at]
         IN next \in ImageRequests /\ next.image = request[r].image /\ next.image \in Image
BY DEF ImageTypeInv, ImageCacheTypeOK, ImageRequests

\* Where the request goes, what becomes of the file, and of the failures.
LEMMA ImageNextTypes == ImageTypeInv /\ [ImageCacheNext]_imageVars => ImageTypeInv'
<1> SUFFICES ASSUME ImageTypeInv, [ImageCacheNext]_imageVars PROVE ImageTypeInv'
  OBVIOUS
<1> USE DEF Go, Finish
<1>1. CASE UNCHANGED imageVars
  BY <1>1 DEF ImageTypeInv, ImageCacheTypeOK, imageVars
<1>2. ASSUME NEW r \in ImageRequest, NEW i \in Image, FileExists(r, i) PROVE ImageTypeInv'
  <2> DEFINE next == [at |-> IF cached[i] = "none" THEN "get" ELSE "read", image |-> i]
  <2>1. next \in ImageRequests /\ next.image \in Image
    BY DEF ImageRequests
  <2>2. request' = [request EXCEPT ![r] = next] /\ UNCHANGED <<cached, failed>>
    BY <1>2 DEF FileExists
  <2> QED BY <2>1, <2>2, ImageRequestTypes DEF ImageTypeInv, ImageCacheTypeOK
<1>3. ASSUME NEW r \in ImageRequest,
             ReadFile(r) \/ Get(r) \/ Create(r) \/ Copy(r) \/ Write(r) \/ WriteRest(r)
      PROVE  ImageTypeInv'
  <2>1. request[r].at # "idle" /\ request[r].image \in Image
    BY <1>3 DEF ReadFile, Get, Create, Copy, Write, WriteRest, ImageTypeInv
  <2>2. cached' \in [Image -> Contents] /\ failed' \subseteq Image
    <3> USE <2>1 DEF ImageTypeInv, ImageCacheTypeOK, Contents
    <3>1. CASE ReadFile(r) \/ Get(r)
      BY <3>1 DEF ReadFile, Get
    <3>2. CASE Create(r)
      BY <3>2 DEF Create
    <3>3. CASE Copy(r)
      BY <3>3 DEF Copy
    <3>4. CASE Write(r)
      BY <3>4 DEF Write
    <3>5. CASE WriteRest(r)
      BY <3>5 DEF WriteRest
    <3> QED BY <1>3, <3>1, <3>2, <3>3, <3>4, <3>5
  <2>3. \/ request' = [request EXCEPT ![r] = NoRequest]
        \/ \E at \in {"read", "get", "create", "copy", "write", "rest"} :
             request' = [request EXCEPT ![r] = [request[r] EXCEPT !.at = at]]
    BY <1>3 DEF ReadFile, Get, Create, Copy, Write, WriteRest
  <2>4. CASE request' = [request EXCEPT ![r] = NoRequest]
    BY <2>2, <2>4, NoRequestType, ImageRequestTypes
  <2>5. ASSUME NEW at \in {"read", "get", "create", "copy", "write", "rest"},
               request' = [request EXCEPT ![r] = [request[r] EXCEPT !.at = at]]
        PROVE  ImageTypeInv'
    <3>1. /\ [request[r] EXCEPT !.at = at] \in ImageRequests
          /\ [request[r] EXCEPT !.at = at].image \in Image
      BY <2>1, GoType
    <3> QED BY <2>2, <2>5, <3>1, ImageRequestTypes
  <2> QED BY <2>3, <2>4, <2>5
<1> QED BY <1>1, <1>2, <1>3 DEF ImageCacheNext

LEMMA ImageInitTypes == ImageCacheInit => ImageTypeInv
BY NoRequestType DEF ImageCacheInit, ImageTypeInv, ImageCacheTypeOK, Contents

\* Every reachable state of the cache and its requests is well typed
\* (image_cache.go).
THEOREM ImagesTypesCorrect == ImageCacheSpec => []ImageCacheTypeOK
<1>1. ImageTypeInv => ImageCacheTypeOK
  BY DEF ImageTypeInv
<1> QED BY ImageInitTypes, ImageNextTypes, <1>1, PTL DEF ImageCacheSpec

\* The request that writes the rest into an empty file does not make it whole,
\* so a file without a beginning needs one that has not begun to write.
BeingWritten(i) ==
  /\ cached[i] \in {"empty", "tail"} /\ i \notin failed =>
       \E r \in ImageRequest : request[r].image = i /\ request[r].at \in {"copy", "write"}
  /\ cached[i] = "part" /\ i \notin failed =>
       \E r \in ImageRequest :
         request[r].image = i /\ request[r].at \in {"copy", "write", "rest"}

BrokenInv == \A i \in Image : BeingWritten(i)

\* Nothing happens to the other images.
LEMMA OtherImages ==
  ASSUME NEW i \in Image, NEW r \in ImageRequest, BeingWritten(i),
         cached'[i] = cached[i], failed \subseteq failed',
         request[r].image # i \/ request[r].at \notin {"copy", "write", "rest"},
         \A q \in ImageRequest \ {r} : request'[q] = request[q]
  PROVE  BeingWritten(i)'
BY DEF BeingWritten

LEMMA NextBroken == ImageTypeInv /\ BrokenInv /\ [ImageCacheNext]_imageVars => BrokenInv'
<1> SUFFICES ASSUME ImageTypeInv, BrokenInv, [ImageCacheNext]_imageVars, NEW i \in Image
             PROVE  BeingWritten(i)'
  BY DEF BrokenInv
<1>0. BeingWritten(i)
  BY DEF BrokenInv
<1> USE DEF Go, Finish
<1>1. CASE UNCHANGED imageVars
  BY <1>0, <1>1 DEF BeingWritten, imageVars
<1>2. ASSUME NEW r \in ImageRequest, NEW j \in Image, FileExists(r, j)
      PROVE  BeingWritten(i)'
  <2>1. /\ cached' = cached /\ failed' = failed /\ request[r].at = "idle"
        /\ \A q \in ImageRequest \ {r} : request'[q] = request[q]
    BY <1>2 DEF FileExists, ImageTypeInv, ImageCacheTypeOK
  <2> QED BY <1>0, <2>1, OtherImages
<1>3. ASSUME NEW r \in ImageRequest,
             ReadFile(r) \/ Get(r) \/ Create(r) \/ Copy(r) \/ Write(r) \/ WriteRest(r)
      PROVE  BeingWritten(i)'
  <2>1. /\ \A q \in ImageRequest \ {r} : request'[q] = request[q]
        /\ failed \subseteq failed'
        /\ \A j \in Image \ {request[r].image} : cached'[j] = cached[j]
    BY <1>3 DEF ReadFile, Get, Create, Copy, Write, WriteRest, ImageTypeInv, ImageCacheTypeOK
  <2>2. CASE request[r].image # i
    BY <1>0, <2>1, <2>2, OtherImages
  <2>3. CASE request[r].image = i
    <3>1. CASE ReadFile(r) \/ Get(r)
      <4>1. cached' = cached /\ request[r].at \in {"read", "get"}
        BY <3>1 DEF ReadFile, Get
      <4> QED BY <1>0, <2>1, <4>1, OtherImages
    <3>2. CASE Create(r)
      <4>1. CASE cached' = cached
        <5>1. request[r].at = "create"
          BY <3>2 DEF Create
        <5> QED BY <1>0, <2>1, <4>1, <5>1, OtherImages
      <4>2. CASE request' = [request EXCEPT ![r].at = "copy"]
        <5>1. request'[r].at = "copy" /\ request'[r].image = i
          BY <2>3, <4>2 DEF ImageTypeInv, ImageCacheTypeOK, ImageRequests
        <5> QED BY <5>1 DEF BeingWritten
      <4> QED BY <3>2, <4>1, <4>2 DEF Create
    <3>3. CASE Copy(r)
      <4>1. CASE failed' = failed \cup {i}
        BY <4>1 DEF BeingWritten
      <4>2. CASE request' = [request EXCEPT ![r].at = "write"]
        <5>1. request'[r].at = "write" /\ request'[r].image = i
          BY <2>3, <4>2 DEF ImageTypeInv, ImageCacheTypeOK, ImageRequests
        <5> QED BY <5>1 DEF BeingWritten
      <4> QED BY <2>3, <3>3, <4>1, <4>2 DEF Copy
    <3>4. CASE Write(r)
      <4>1. cached'[i] \in {"part", "whole"}
        BY <2>3, <3>4 DEF Write, ImageTypeInv, ImageCacheTypeOK
      <4>2. request'[r].at = "rest" /\ request'[r].image = i
        BY <2>3, <3>4 DEF Write, ImageTypeInv, ImageCacheTypeOK, ImageRequests
      <4> QED BY <4>1, <4>2 DEF BeingWritten
    <3>5. CASE WriteRest(r)
      <4>1. CASE failed' = failed \cup {i}
        BY <4>1 DEF BeingWritten
      <4>2. CASE cached'[i] = "whole"
        BY <4>2 DEF BeingWritten
      <4>3. CASE cached[i] \in {"empty", "tail"} /\ cached'[i] = "tail" /\ failed' = failed
        <5>1. request[r].at = "rest"
          BY <3>5 DEF WriteRest
        <5> QED BY <1>0, <2>1, <4>3, <5>1 DEF BeingWritten
      <4>4. cached' = [cached EXCEPT ![i] =
                         IF cached[i] \in {"empty", "tail"} THEN "tail" ELSE "whole"]
              \/ failed' = failed \cup {i}
        BY <2>3, <3>5 DEF WriteRest
      <4>5. failed' = failed \/ failed' = failed \cup {i}
        BY <2>3, <3>5 DEF WriteRest
      <4> QED BY <4>1, <4>2, <4>3, <4>4, <4>5 DEF ImageTypeInv, ImageCacheTypeOK
    <3> QED BY <1>3, <3>1, <3>2, <3>3, <3>4, <3>5
  <2> QED BY <2>2, <2>3
<1> QED BY <1>1, <1>2, <1>3 DEF ImageCacheNext

\* However requests for an image overlap, a file that is not the whole image is
\* going to be written, unless a request has failed (HTTPHandler,
\* image_cache.go:31).
THEOREM BrokenFilesAreBeingWrittenAlways ==
  ImageCacheSpec => []BrokenFilesAreBeingWritten
<1>1. ImageCacheInit => BrokenInv
  BY DEF ImageCacheInit, BrokenInv, BeingWritten
<1>2. BrokenInv => BrokenFilesAreBeingWritten
  BY DEF BrokenInv, BeingWritten, BrokenFilesAreBeingWritten
<1> QED BY ImageInitTypes, ImageNextTypes, NextBroken, <1>1, <1>2, PTL DEF ImageCacheSpec

-----------------------------------------------------------------------------
(* All of what clients do.                                                 *)

\* Whatever part a behaviour is about, it is one of each module: the bounds of the
\* instance only leave steps out.
LEMMA PartsAreSpecified ==
  Spec => PlaylistsSpec /\ PlayStateSpec /\ UsersSpec /\ ImageCacheSpec
<1>1. Init => PlaylistsInit /\ PlayStateInit /\ UsersInit /\ ImageCacheInit
  BY DEF Init
<1>2. [Next]_vars => /\ [PlaylistsNext]_playlistVars /\ [PlayStateNext]_playVars
                     /\ [UsersNext]_userVars /\ [ImageCacheNext]_imageVars
  BY DEF Next, vars
<1> QED BY <1>1, <1>2, PTL DEF Spec, PlaylistsSpec, PlayStateSpec, UsersSpec, ImageCacheSpec

\* Every reachable state of what clients do is well typed.
THEOREM ClientsTypesCorrect == Spec => []TypeOK
BY PartsAreSpecified, PlaylistsTypesCorrect, PlayStateTypesCorrect, UsersTypesCorrect,
   ImagesTypesCorrect, PTL DEF TypeOK
=============================================================================
