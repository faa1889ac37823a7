------------------------------ MODULE PlayState ------------------------------
(***************************************************************************)
(* What a user has played (metadata/db/play_state.go, with the resolvers   *)
(* of play states and of what is up next, and the queries of               *)
(* metadata/db/series.go for the episodes around one).                     *)
(*                                                                         *)
(* A player reports how far a user is with an episode or a movie           *)
(* (CreatePlayState); the row of that user and that medium is looked up    *)
(* and then inserted or updated, and requests run concurrently, so each    *)
(* statement is a step.  What is up next takes up to four statements for   *)
(* every series the user has played something of (UpNextEpisodes).         *)
(* Episodes come and go meanwhile, as SeriesManager says in detail.        *)
(***************************************************************************)
EXTENDS Integers, FiniteSets

CONSTANTS
  User,
  Episode,     \* the rows of episodes: a series, a season's number, a number
  Report,      \* requests that report how far a user is
  UpNext,      \* requests for what is up next
  MaxPlaytime

ASSUME PlayStateAssumption ==
  /\ \A e \in Episode : e.season \in Nat /\ e.num \in Nat
  /\ MaxPlaytime \in Nat

Playtime == 0 .. MaxPlaytime
Series == {e.series : e \in Episode}
Key == User \X Episode

PlayStates == [finished : BOOLEAN, playtime : Playtime]
CONSTANTS NoRow, NoEpisode
ASSUME NoneAssumption == NoRow \notin PlayStates /\ NoEpisode \notin Episode

VARIABLES
  episodes,    \* the table of episodes
  removed,     \* those that were in it; one that comes back has another UUID
  playStates,  \* the table of play states, with its unique index
  report,      \* the requests that report
  upNext,      \* the requests for what is up next
  latest       \* of each row, what may have been reported of it last

libraryVars == <<episodes, removed>>
playVars == <<libraryVars, playStates, report, upNext, latest>>

Rows == {k \in Key : playStates[k] # NoRow}

-----------------------------------------------------------------------------
(* Order of episodes.                                                      *)

\* By season, then by number (GetNextEpisodes, GetPreviousEpisodes).
Before(e, f) == \/ e.season < f.season
                \/ e.season = f.season /\ e.num < f.num

\* LIMIT 1 of a query in that order.
First(E) == {e \in E : \A f \in E \ {e} : Before(e, f)}

\* The episodes a query for those after, or before, another one selects.
GetNextEpisodes(e) ==
  {f \in episodes : e \in episodes /\ f.series = e.series /\ Before(e, f)}
GetPreviousEpisodes(e) ==
  {f \in episodes : e \in episodes /\ f.series = e.series /\ Before(f, e)}

\* How UpNextEpisodes orders what has been played.
Height(e) == e.season * 100 + e.num

\* The episodes of a series a user has a row for.
Played(u, s) == {e \in episodes : e.series = s /\ <<u, e>> \in Rows}

\* The first statement for a series: the highest of them.
Highest(u, s) ==
  {e \in Played(u, s) : \A f \in Played(u, s) : Height(f) <= Height(e)}

\* The second: those that follow in its season.  Statements two and three join
\* the series as well, whose row is taken to be there for a season that has one
\* (a season that lost it, see SeriesManager, would drop out).
InSeason(e) ==
  {f \in episodes : f.series = e.series /\ f.season = e.season /\ f.num > e.num}

\* Mutant: of this season, too.
InLaterSeasons_From(e) ==
  {f \in episodes : f.series = e.series /\ f.season >= e.season /\ f.num > 0}

\* The third: those of the seasons that follow.
InLaterSeasons(e) ==
  {f \in episodes : f.series = e.series /\ f.season > e.season /\ f.num > 0}

\* UnwatchedEpisodesInSeriesCount counts these.
Unwatched(u, s) ==
  {e \in episodes : e.series = s /\
      ~ (<<u, e>> \in Rows /\ playStates[<<u, e>>].finished)}

-----------------------------------------------------------------------------
(* Reports.                                                                *)

\* A report that has looked for its row: whether it found one, and whether that
\* row is there no longer; disturbed says that another one wrote meanwhile.
Reports == [key : Key, finished : BOOLEAN, playtime : Playtime,
            found : {"none", "row", "gone"}, disturbed : BOOLEAN]
CONSTANT NoReport
ASSUME NoReportAssumption == NoReport \notin Reports

\* Requests for what is up next: the series left, the one being looked at, the
\* episode found for it, what has been gathered; disturbed says that a table
\* has changed since the first statement.
UpNexts == [at : {"series", "highest", "next", "later", "load", "answered", "failed"},
            user : User, todo : SUBSET Series, last : Episode \cup {NoEpisode},
            offered : SUBSET (Episode \cup {NoEpisode}), disturbed : BOOLEAN]
CONSTANT NoUpNext
ASSUME NoUpNextAssumption == NoUpNext \notin UpNexts

\* Whoever is in the middle of something with a row that is written.
DisturbReports(k, gone) ==
  [r \in Report |->
     IF report[r] = NoReport \/ report[r].key # k THEN report[r]
     ELSE [report[r] EXCEPT !.disturbed = TRUE,
             !.found = IF gone /\ @ = "row" THEN "gone" ELSE @]]

DisturbUpNext ==
  [n \in UpNext |-> IF upNext[n] = NoUpNext THEN NoUpNext
                    ELSE [upNext[n] EXCEPT !.disturbed = TRUE]]

\* Mutant: what is saved counts for a row that is inserted only (gorm's Attrs
\* instead of its Assign).
Assign_Attrs(row, finished, playtime) == row

\* Mutant: the time is added up.
Assign_Adds(row, finished, playtime) ==
  [finished |-> row.finished \/ finished, playtime |-> row.playtime + playtime]

\* Saving a row writes the fields that are not zero: an update with a record
\* passes over the others.
Assign(row, finished, playtime) ==
  [finished |-> row.finished \/ finished,
   playtime |-> IF playtime = 0 THEN row.playtime ELSE playtime]

\* Nothing played and not finished means: not watched.
DeletePlayState(k) ==
  /\ playStates' = [playStates EXCEPT ![k] = NoRow]
  /\ report' = DisturbReports(k, TRUE)
  /\ upNext' = DisturbUpNext
  /\ latest' = [latest EXCEPT ![k] = {NoRow}]
  /\ UNCHANGED libraryVars

\* Anything else is saved: the row is looked for.
FindFirst(r, k, finished, playtime) ==
  /\ report[r] = NoReport
  /\ finished \/ playtime # 0
  /\ report' = [report EXCEPT ![r] =
       [key |-> k, finished |-> finished, playtime |-> playtime,
        found |-> IF k \in Rows THEN "row" ELSE "none", disturbed |-> FALSE]]
  /\ UNCHANGED <<libraryVars, playStates, upNext, latest>>

\* The row is inserted, which the unique index refuses if there is one by now,
\* or updated, if it is still there.  Either way the answer is success.
SavePlayState(r) ==
  /\ report[r] # NoReport
  /\ LET rep == report[r]
         k == rep.key
     IN /\ \/ /\ rep.found = "none" /\ k \notin Rows
              /\ playStates' = [playStates EXCEPT ![k] =
                   [finished |-> rep.finished, playtime |-> rep.playtime]]
           \/ /\ rep.found = "row"
              /\ playStates' = [playStates EXCEPT ![k] =
                   Assign(playStates[k], rep.finished, rep.playtime)]
           \/ /\ rep.found = "gone" \/ (rep.found = "none" /\ k \in Rows)
              /\ UNCHANGED playStates
        /\ report' = [DisturbReports(k, FALSE) EXCEPT ![r] = NoReport]
        /\ upNext' = DisturbUpNext
        /\ latest' = [latest EXCEPT ![k] =
             (IF rep.disturbed THEN @ ELSE {})
               \cup {[finished |-> rep.finished, playtime |-> rep.playtime]}]
  /\ UNCHANGED libraryVars

-----------------------------------------------------------------------------
(* Up next.                                                                *)

\* Mutant: all series, as if each had a row.
FindSeries_All(n, u) ==
  /\ upNext[n] = NoUpNext
  /\ upNext' = [upNext EXCEPT ![n] =
       [at |-> "series", user |-> u, todo |-> Series,
        last |-> NoEpisode, offered |-> {}, disturbed |-> FALSE]]
  /\ UNCHANGED <<libraryVars, playStates, report, latest>>

\* The series the user has a row in.
FindSeries(n, u) ==
  /\ upNext[n] = NoUpNext
  /\ upNext' = [upNext EXCEPT ![n] =
       [at |-> "series", user |-> u, todo |-> {s \in Series : Played(u, s) # {}},
        last |-> NoEpisode, offered |-> {}, disturbed |-> FALSE]]
  /\ UNCHANGED <<libraryVars, playStates, report, latest>>

\* The highest episode played of one of them; the answer's first row is used
\* whether there is one or not.  One that is not finished is offered itself.
FindHighest(n) ==
  /\ upNext[n] # NoUpNext /\ upNext[n].at = "series"
  /\ \E s \in upNext[n].todo :
       \/ /\ Played(upNext[n].user, s) = {}
          /\ upNext' = [upNext EXCEPT ![n].at = "failed"]
       \/ \E e \in Highest(upNext[n].user, s) :
            upNext' = [upNext EXCEPT ![n] =
              [upNext[n] EXCEPT !.last = e, !.todo = @ \ {s},
                 !.at = IF playStates[<<upNext[n].user, e>>].finished THEN "next" ELSE "load"]]
  /\ UNCHANGED <<libraryVars, playStates, report, latest>>

\* The one that follows a finished one in its season.
FindNext(n) ==
  /\ upNext[n] # NoUpNext /\ upNext[n].at = "next"
  /\ \/ /\ InSeason(upNext[n].last) = {}
        /\ upNext' = [upNext EXCEPT ![n].at = "later"]
     \/ \E e \in First(InSeason(upNext[n].last)) :
          upNext' = [upNext EXCEPT ![n].at = "load", ![n].last = e]
  /\ UNCHANGED <<libraryVars, playStates, report, latest>>

\* Or in the seasons after that.
FindLater(n) ==
  /\ upNext[n] # NoUpNext /\ upNext[n].at = "later"
  /\ \/ /\ InLaterSeasons(upNext[n].last) = {}
        /\ upNext' = [upNext EXCEPT ![n].at = "series"]
     \/ \E e \in First(InLaterSeasons(upNext[n].last)) :
          upNext' = [upNext EXCEPT ![n].at = "load", ![n].last = e]
  /\ UNCHANGED <<libraryVars, playStates, report, latest>>

\* The episode is loaded by its ID; one that is gone by now is an empty one.
Load(n) ==
  /\ upNext[n] # NoUpNext /\ upNext[n].at = "load"
  /\ upNext' = [upNext EXCEPT ![n].at = "series",
                  ![n].offered = @ \cup {IF upNext[n].last \in episodes
                                         THEN upNext[n].last ELSE NoEpisode}]
  /\ UNCHANGED <<libraryVars, playStates, report, latest>>

Answer(n) ==
  /\ upNext[n] # NoUpNext
  /\ upNext[n].at = "series" /\ upNext[n].todo = {}
  /\ upNext' = [upNext EXCEPT ![n].at = "answered"]
  /\ UNCHANGED <<libraryVars, playStates, report, latest>>

\* The request is over.
Return(n) ==
  /\ upNext[n] # NoUpNext
  /\ upNext[n].at \in {"answered", "failed"}
  /\ upNext' = [upNext EXCEPT ![n] = NoUpNext]
  /\ UNCHANGED <<libraryVars, playStates, report, latest>>

-----------------------------------------------------------------------------
(* The library.                                                            *)

AddEpisode(e) ==
  /\ e \notin episodes \cup removed
  /\ episodes' = episodes \cup {e}
  /\ upNext' = DisturbUpNext
  /\ UNCHANGED <<removed, playStates, report, latest>>

\* The play states of an episode stay.
RemoveEpisode(e) ==
  /\ e \in episodes
  /\ episodes' = episodes \ {e}
  /\ removed' = removed \cup {e}
  /\ upNext' = DisturbUpNext
  /\ UNCHANGED <<playStates, report, latest>>

PlayStateInit ==
  /\ episodes \in SUBSET Episode
  /\ removed = {}
  /\ playStates = [k \in Key |-> NoRow]
  /\ report = [r \in Report |-> NoReport]
  /\ upNext = [n \in UpNext |-> NoUpNext]
  /\ latest = [k \in Key |-> {NoRow}]

PlayStateNext ==
  \/ \E k \in Key : DeletePlayState(k)
  \/ \E r \in Report :
       \/ \E k \in Key, f \in BOOLEAN, p \in Playtime : FindFirst(r, k, f, p)
       \/ SavePlayState(r)
  \/ \E n \in UpNext :
       \/ \E u \in User : FindSeries(n, u)
       \/ FindHighest(n) \/ FindNext(n) \/ FindLater(n) \/ Load(n)
       \/ Answer(n) \/ Return(n)
  \/ \E e \in Episode : AddEpisode(e) \/ RemoveEpisode(e)

PlayStateSpec == PlayStateInit /\ [][PlayStateNext]_playVars

-----------------------------------------------------------------------------
(* What should hold.                                                       *)

PlayStateTypeOK ==
  /\ episodes \subseteq Episode
  /\ removed \subseteq Episode
  /\ playStates \in [Key -> PlayStates \cup {NoRow}]
  /\ report \in [Report -> Reports \cup {NoReport}]
  /\ upNext \in [UpNext -> UpNexts \cup {NoUpNext}]
  /\ latest \in [Key -> SUBSET (PlayStates \cup {NoRow})]

\* A row says of a report the fields it sets.  Of those it leaves zero nothing is
\* asked: the code keeps what the row had, where the resolver speaks of
\* overwriting it (resolvers/play_state.go:38).
Says(row, rep) ==
  IF row = NoRow \/ rep = NoRow THEN row = rep
  ELSE (rep.finished => row.finished) /\ (rep.playtime # 0 => row.playtime = rep.playtime)

\* A row says what was reported last, and there is none if it was marked as not
\* watched last, however many report of it at the same time: only a report that
\* a write got in the way of, between its two statements, may be lost, and then
\* the row says what came before (SavePlayState, play_state.go:113).
LastReportStands ==
  \A k \in Key : \E rep \in latest[k] : Says(playStates[k], rep)

\* Seasons do not overlap in Height: no season but the last of a series has
\* episodes numbered so high that they pass one of a later season.
HeightsFit(s) ==
  \A e, f \in episodes :
    e.series = s /\ f.series = s /\ e.season < f.season => Height(e) < Height(f)

\* What is offered for a series: the highest episode the user has played of it,
\* or, if it is finished, one after it that GetPreviousEpisodes has nothing
\* before it but what has the number 0.  The comment of UpNextEpisodes speaks of
\* the one that was finished recently (play_state.go:47); who has played a later
\* one before is offered what follows that.
HighestPlayed(u, s) ==
  {e \in Played(u, s) : \A f \in Played(u, s) \ {e} : Before(f, e)}
Expected(u, s) ==
  UNION {IF playStates[<<u, e>>].finished
         THEN {f \in GetNextEpisodes(e) : f.num > 0 /\
                 \A g \in GetNextEpisodes(e) \cap GetPreviousEpisodes(f) : g.num = 0}
         ELSE {e}
           : e \in HighestPlayed(u, s)}

Undisturbed(n) ==
  upNext[n] # NoUpNext /\ upNext[n].at = "answered" /\ ~upNext[n].disturbed

\* A request that nobody gets in the way of answers with just that for every
\* series, if its seasons do not overlap in height, and with nothing the user
\* has finished (UpNextEpisodes, play_state.go:48).
UpNextFollowsTheHighest ==
  \A n \in UpNext : Undisturbed(n) =>
    \A s \in Series : HeightsFit(s) =>
      LET offered == {e \in upNext[n].offered : e.series = s}
      IN /\ offered = Expected(upNext[n].user, s)
         /\ offered \subseteq Unwatched(upNext[n].user, s)

\* A request fails, or offers an empty episode, only if a table has changed
\* since it began (play_state.go:67 and :83).
UpNextFailsOnlyIfDisturbed ==
  \A n \in UpNext :
    /\ upNext[n] # NoUpNext
    /\ upNext[n].at = "failed" \/ NoEpisode \in upNext[n].offered
    => upNext[n].disturbed
=============================================================================
