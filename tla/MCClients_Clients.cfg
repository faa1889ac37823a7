SPECIFICATION Spec
CHECK_DEADLOCK FALSE
CONSTANTS
  Media <- FileNames
  Probed <- Files
  Codec <- Codecs
  User = {u1}
  Episode <- Episodes
  Changing = 2
  Report = {p1, p2}
  UpNext = {n1}
  MaxPlaytime = 1
  NoRow = NoRow
  NoEpisode = NoEpisode
  NoReport = NoReport
  NoUpNext = NoUpNext
  Registration = {r1, r2}
  Code = {c1, c2}
  Name = {a1, a2}
  MaxUsers = 3
  NoName = NoName
  NoCode = NoCode
  Image = {i1}
  ImageRequest = {q1, q2, q3}
  NoImage = NoImage
SYMMETRY Symmetry
INVARIANTS TypeOK ServesWhatWasListed OffersWhatPlays HLSAnnouncesItsAudio PlaylistsAreWritten LastReportStands UpNextFollowsTheHighest UpNextFailsOnlyIfDisturbed OneEachUnlessOverlapped BrokenFilesAreBeingWritten
