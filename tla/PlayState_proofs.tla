--------------------------- MODULE PlayState_proofs ---------------------------
(***************************************************************************)
(* What holds of play states and of what is up next for any number of      *)
(* users, episodes and requests: types, that a row says what was reported, *)
(* when a request for what is up next fails, and that it answers with      *)
(* what should be offered.                                                 *)
(***************************************************************************)
EXTENDS PlayState, TLAPS

USE PlayStateAssumption, NoneAssumption, NoReportAssumption, NoUpNextAssumption

(***************************************************************************)
(* Reports                                                                 *)
(***************************************************************************)

\* What a report has found is still so, unless another one has written.
StillFound(rep) ==
  rep # NoReport =>
    /\ rep.found = "row" => rep.key \in Rows
    /\ ~rep.disturbed => rep.found # "gone" /\ (rep.found = "none" => rep.key \notin Rows)

ReportInv ==
  /\ PlayStateTypeOK
  /\ \A r \in Report : StillFound(report[r])
  /\ LastReportStands

LEMMA AssignType ==
  ASSUME NEW row \in PlayStates, NEW finished \in BOOLEAN, NEW playtime \in Playtime
  PROVE  /\ Assign(row, finished, playtime) \in PlayStates
         /\ Says(Assign(row, finished, playtime), [finished |-> finished, playtime |-> playtime])
BY DEF Assign, Says, PlayStates

LEMMA DisturbReportsType ==
  ASSUME PlayStateTypeOK, NEW k \in Key, NEW gone \in BOOLEAN
  PROVE  /\ DisturbReports(k, gone) \in [Report -> Reports \cup {NoReport}]
         /\ \A r \in Report :
              LET d == DisturbReports(k, gone)[r]
              IN  /\ (d = NoReport) <=> (report[r] = NoReport)
                  /\ report[r] # NoReport /\ report[r].key # k => d = report[r]
                  /\ report[r] # NoReport /\ report[r].key = k =>
                       /\ d.key = k /\ d.disturbed
                       /\ d.found = "row" => report[r].found = "row" /\ ~gone
<1>1. ASSUME NEW r \in Report
      PROVE  LET d == DisturbReports(k, gone)[r]
             IN  /\ d \in Reports \cup {NoReport}
                 /\ (d = NoReport) <=> (report[r] = NoReport)
                 /\ report[r] # NoReport /\ report[r].key # k => d = report[r]
                 /\ report[r] # NoReport /\ report[r].key = k =>
                      /\ d.key = k /\ d.disturbed
                      /\ d.found = "row" => report[r].found = "row" /\ ~gone
  <2> DEFINE d == DisturbReports(k, gone)[r]
  <2>1. CASE report[r] = NoReport \/ report[r].key # k
    BY <2>1 DEF DisturbReports, PlayStateTypeOK
  <2>2. CASE report[r] # NoReport /\ report[r].key = k
    <3>1. report[r] \in Reports
      BY <2>2 DEF PlayStateTypeOK
    <3>2. d = [report[r] EXCEPT !.disturbed = TRUE,
                 !.found = IF gone /\ report[r].found = "row" THEN "gone" ELSE report[r].found]
      BY <2>2, <3>1 DEF DisturbReports, Reports
    <3>3. /\ d \in Reports /\ d.key = k /\ d.disturbed
          /\ d.found = IF gone /\ report[r].found = "row" THEN "gone" ELSE report[r].found
      BY <2>2, <3>1, <3>2 DEF Reports
    <3> QED BY <2>2, <3>3
  <2> QED BY <2>1, <2>2
<1>2. DisturbReports(k, gone) = [r \in Report |-> DisturbReports(k, gone)[r]]
  BY DEF DisturbReports
<1> QED BY <1>1, <1>2

LEMMA DisturbUpNextType ==
  ASSUME PlayStateTypeOK
  PROVE  /\ DisturbUpNext \in [UpNext -> UpNexts \cup {NoUpNext}]
         /\ \A n \in UpNext :
              /\ (DisturbUpNext[n] = NoUpNext) <=> (upNext[n] = NoUpNext)
              /\ DisturbUpNext[n] # NoUpNext => DisturbUpNext[n].disturbed
BY DEF DisturbUpNext, PlayStateTypeOK, UpNexts
(***************************************************************************)
(* Requests for what is up next                                            *)
(***************************************************************************)

\* What a request has been told is still so, unless a table has changed.
StillUpNext(ask) ==
  ask # NoUpNext /\ ~ask.disturbed =>
    /\ ask.at # "failed"
    /\ NoEpisode \notin ask.offered
    /\ \A s \in ask.todo : Played(ask.user, s) # {}
    /\ ask.at = "load" => ask.last \in episodes

UpNextTypes ==
  /\ upNext \in [UpNext -> UpNexts \cup {NoUpNext}]
  /\ \A n \in UpNext : StillUpNext(upNext[n])

\* A step of one request, which changes no table.
LEMMA AskMoves ==
  ASSUME PlayStateTypeOK, UpNextTypes, UNCHANGED <<libraryVars, playStates>>,
         NEW n \in UpNext, NEW ask \in UpNexts \cup {NoUpNext}, StillUpNext(ask),
         upNext' = [upNext EXCEPT ![n] = ask]
  PROVE  UpNextTypes'
<1>1. upNext' \in [UpNext -> UpNexts \cup {NoUpNext}]
  BY DEF UpNextTypes
<1>2. \A u, s : Played(u, s)' = Played(u, s)
  BY DEF Played, Rows, libraryVars
<1>3. ASSUME NEW m \in UpNext PROVE StillUpNext(upNext[m])'
  <2>1. StillUpNext(upNext'[m])
    BY DEF UpNextTypes
  <2> QED BY <1>2, <2>1 DEF StillUpNext, libraryVars
<1> QED BY <1>1, <1>3 DEF UpNextTypes

LEMMA AskSteps ==
  ASSUME PlayStateTypeOK, UpNextTypes, NEW n \in UpNext,
         \/ \E u \in User : FindSeries(n, u)
         \/ FindHighest(n) \/ FindNext(n) \/ FindLater(n) \/ Load(n) \/ Answer(n) \/ Return(n)
  PROVE  UpNextTypes' /\ UNCHANGED <<libraryVars, playStates, report, latest>>
<1>0. PICK ask \in UpNexts \cup {NoUpNext} : ask = upNext[n] /\ StillUpNext(ask)
  BY DEF UpNextTypes
<1>1. ASSUME NEW u \in User, FindSeries(n, u) PROVE UpNextTypes'
  <2> DEFINE next == [at |-> "series", user |-> u, todo |-> {s \in Series : Played(u, s) # {}},
                      last |-> NoEpisode, offered |-> {}, disturbed |-> FALSE]
  <2>1. next \in UpNexts
    BY DEF UpNexts
  <2>2. StillUpNext(next)
    BY DEF StillUpNext
  <2>3. upNext' = [upNext EXCEPT ![n] = next] /\ UNCHANGED <<libraryVars, playStates>>
    BY <1>1 DEF FindSeries
  <2> HIDE DEF next
  <2> QED BY <2>1, <2>2, <2>3, AskMoves
<1>2. ASSUME FindHighest(n) PROVE UpNextTypes'
  <2>0. ask \in UpNexts /\ ask.at = "series" /\ UNCHANGED <<libraryVars, playStates>>
    BY <1>0, <1>2 DEF FindHighest
  <2>1. PICK s \in ask.todo :
          \/ /\ Played(ask.user, s) = {}
             /\ upNext' = [upNext EXCEPT ![n] = [ask EXCEPT !.at = "failed"]]
          \/ \E e \in Highest(ask.user, s) :
               upNext' = [upNext EXCEPT ![n] =
                 [ask EXCEPT !.last = e, !.todo = ask.todo \ {s},
                    !.at = IF playStates[<<ask.user, e>>].finished THEN "next" ELSE "load"]]
    BY <1>0, <1>2, <2>0 DEF FindHighest
  <2>2. CASE /\ Played(ask.user, s) = {}
             /\ upNext' = [upNext EXCEPT ![n] = [ask EXCEPT !.at = "failed"]]
    <3> DEFINE next == [ask EXCEPT !.at = "failed"]
    <3>1. next \in UpNexts /\ next.disturbed = ask.disturbed
      BY <2>0 DEF UpNexts
    <3>2. ask # NoUpNext /\ ask.disturbed
      BY <1>0, <2>0, <2>2 DEF StillUpNext
    <3>3. StillUpNext(next)
      BY <3>1, <3>2 DEF StillUpNext
    <3>4. upNext' = [upNext EXCEPT ![n] = next]
      BY <2>2
    <3> HIDE DEF next
    <3> QED BY <2>0, <3>1, <3>3, <3>4, AskMoves
  <2>3. ASSUME NEW e \in Highest(ask.user, s),
               upNext' = [upNext EXCEPT ![n] =
                 [ask EXCEPT !.last = e, !.todo = ask.todo \ {s},
                    !.at = IF playStates[<<ask.user, e>>].finished THEN "next" ELSE "load"]]
        PROVE  UpNextTypes'
    <3> DEFINE next == [ask EXCEPT !.last = e, !.todo = ask.todo \ {s},
                          !.at = IF playStates[<<ask.user, e>>].finished THEN "next" ELSE "load"]
    <3>1. e \in episodes /\ e \in Episode
      BY DEF Highest, Played, PlayStateTypeOK
    <3>2. /\ next \in UpNexts /\ next.disturbed = ask.disturbed /\ next.user = ask.user
          /\ next.offered = ask.offered /\ next.todo \subseteq ask.todo
          /\ next.last = e /\ next.at # "failed"
      BY <2>0, <3>1 DEF UpNexts
    <3>3. StillUpNext(next)
      BY <1>0, <2>0, <3>1, <3>2 DEF StillUpNext
    <3>4. upNext' = [upNext EXCEPT ![n] = next]
      BY <2>3
    <3> HIDE DEF next
    <3> QED BY <2>0, <3>2, <3>3, <3>4, AskMoves
  <2> QED BY <2>1, <2>2, <2>3
  \* The two statements for an episode that follows.
<1>3. ASSUME NEW E \in SUBSET episodes, NEW at \in {"later", "series"}, ask # NoUpNext,
             UNCHANGED <<libraryVars, playStates>>,
             \/ /\ E = {}
                /\ upNext' = [upNext EXCEPT ![n] = [ask EXCEPT !.at = at]]
             \/ \E e \in First(E) :
                  upNext' = [upNext EXCEPT ![n] = [ask EXCEPT !.at = "load", !.last = e]]
      PROVE  UpNextTypes'
  <2>0. ask \in UpNexts
    BY <1>0, <1>3
  <2>1. CASE upNext' = [upNext EXCEPT ![n] = [ask EXCEPT !.at = at]]
    <3> DEFINE next == [ask EXCEPT !.at = at]
    <3>1. /\ next \in UpNexts /\ next.disturbed = ask.disturbed /\ next.user = ask.user
          /\ next.offered = ask.offered /\ next.todo = ask.todo /\ next.at = at
      BY <2>0 DEF UpNexts
    <3>2. StillUpNext(next)
      BY <1>0, <1>3, <3>1 DEF StillUpNext
    <3>3. upNext' = [upNext EXCEPT ![n] = next]
      BY <2>1
    <3> HIDE DEF next
    <3> QED BY <1>3, <3>1, <3>2, <3>3, AskMoves
  <2>2. ASSUME NEW e \in First(E),
               upNext' = [upNext EXCEPT ![n] = [ask EXCEPT !.at = "load", !.last = e]]
        PROVE  UpNextTypes'
    <3> DEFINE next == [ask EXCEPT !.at = "load", !.last = e]
    <3>1. e \in episodes /\ e \in Episode
      BY DEF First, PlayStateTypeOK
    <3>2. /\ next \in UpNexts /\ next.disturbed = ask.disturbed /\ next.user = ask.user
          /\ next.offered = ask.offered /\ next.todo = ask.todo /\ next.at = "load" /\ next.last = e
      BY <2>0, <3>1 DEF UpNexts
    <3>3. StillUpNext(next)
      BY <1>0, <1>3, <3>1, <3>2 DEF StillUpNext
    <3>4. upNext' = [upNext EXCEPT ![n] = next]
      BY <2>2
    <3> HIDE DEF next
    <3> QED BY <1>3, <3>2, <3>3, <3>4, AskMoves
  <2> QED BY <1>3, <2>1, <2>2
<1>4. ASSUME FindNext(n) PROVE UpNextTypes'
  <2>1. InSeason(ask.last) \in SUBSET episodes
    BY DEF InSeason
  <2>2. /\ ask # NoUpNext /\ UNCHANGED <<libraryVars, playStates>>
        /\ \/ /\ InSeason(ask.last) = {}
              /\ upNext' = [upNext EXCEPT ![n] = [ask EXCEPT !.at = "later"]]
           \/ \E e \in First(InSeason(ask.last)) :
                upNext' = [upNext EXCEPT ![n] = [ask EXCEPT !.at = "load", !.last = e]]
    BY <1>0, <1>4 DEF FindNext, UpNextTypes, UpNexts
  <2> QED BY <1>3, <2>1, <2>2
<1>5. ASSUME FindLater(n) PROVE UpNextTypes'
  <2>1. InLaterSeasons(ask.last) \in SUBSET episodes
    BY DEF InLaterSeasons
  <2>2. /\ ask # NoUpNext /\ UNCHANGED <<libraryVars, playStates>>
        /\ \/ /\ InLaterSeasons(ask.last) = {}
              /\ upNext' = [upNext EXCEPT ![n] = [ask EXCEPT !.at = "series"]]
           \/ \E e \in First(InLaterSeasons(ask.last)) :
                upNext' = [upNext EXCEPT ![n] = [ask EXCEPT !.at = "load", !.last = e]]
    BY <1>0, <1>5 DEF FindLater, UpNextTypes, UpNexts
  <2> QED BY <1>3, <2>1, <2>2
<1>6. ASSUME Load(n) PROVE UpNextTypes'
  <2> DEFINE next == [ask EXCEPT !.at = "series",
                        !.offered = ask.offered \cup {IF ask.last \in episodes THEN ask.last ELSE NoEpisode}]
  <2>0. ask \in UpNexts /\ ask.at = "load" /\ UNCHANGED <<libraryVars, playStates>>
    BY <1>0, <1>6 DEF Load
  <2>1. upNext' = [upNext EXCEPT ![n] = next]
    BY <1>0, <1>6, <2>0 DEF Load, UpNextTypes, UpNexts
  <2>2. /\ next \in UpNexts /\ next.disturbed = ask.disturbed /\ next.user = ask.user
        /\ next.offered = ask.offered \cup {IF ask.last \in episodes THEN ask.last ELSE NoEpisode}
        /\ next.todo = ask.todo /\ next.at = "series"
    BY <2>0 DEF UpNexts, PlayStateTypeOK
  <2>3. NoEpisode \notin episodes
    BY DEF PlayStateTypeOK
  <2>4. StillUpNext(next)
    BY <1>0, <2>0, <2>2, <2>3 DEF StillUpNext
  <2> HIDE DEF next
  <2> QED BY <2>0, <2>1, <2>2, <2>4, AskMoves
<1>7. ASSUME Answer(n) PROVE UpNextTypes'
  <2> DEFINE next == [ask EXCEPT !.at = "answered"]
  <2>0. ask \in UpNexts /\ UNCHANGED <<libraryVars, playStates>>
        /\ upNext' = [upNext EXCEPT ![n] = next]
    BY <1>0, <1>7 DEF Answer
  <2>1. /\ next \in UpNexts /\ next.disturbed = ask.disturbed /\ next.user = ask.user
        /\ next.offered = ask.offered /\ next.todo = ask.todo /\ next.at = "answered"
    BY <2>0 DEF UpNexts
  <2>2. StillUpNext(next)
    BY <1>0, <2>0, <2>1 DEF StillUpNext
  <2> HIDE DEF next
  <2> QED BY <2>0, <2>1, <2>2, AskMoves
<1>8. ASSUME Return(n) PROVE UpNextTypes'
  <2>1. StillUpNext(NoUpNext) /\ UNCHANGED <<libraryVars, playStates>>
    BY <1>8 DEF Return, StillUpNext
  <2> QED BY <1>8, <2>1, AskMoves DEF Return
<1>9. UNCHANGED <<libraryVars, playStates, report, latest>>
  BY DEF FindSeries, FindHighest, FindNext, FindLater, Load, Answer, Return
<1> QED BY <1>1, <1>2, <1>4, <1>5, <1>6, <1>7, <1>8, <1>9

\* A step that changes a table disturbs every request.
LEMMA DisturbedUpNext ==
  ASSUME PlayStateTypeOK, upNext' = DisturbUpNext
  PROVE  UpNextTypes'
<1>1. \A n \in UpNext : upNext'[n] = NoUpNext \/ upNext'[n].disturbed
  BY DisturbUpNextType
<1> QED BY <1>1, DisturbUpNextType DEF UpNextTypes, StillUpNext

(***************************************************************************)
(* All steps                                                               *)
(***************************************************************************)

PlayInv == ReportInv /\ UpNextTypes

LEMMA PlayInit == PlayStateInit => PlayInv
BY DEF PlayStateInit, PlayInv, ReportInv, PlayStateTypeOK, StillFound, LastReportStands, Says,
       UpNextTypes, StillUpNext

\* A row is deleted.
LEMMA DeleteStep ==
  ASSUME PlayInv, NEW k \in Key, DeletePlayState(k)
  PROVE  PlayInv'
<1>1. PlayStateTypeOK
  BY DEF PlayInv, ReportInv
<1>2. /\ playStates' \in [Key -> PlayStates \cup {NoRow}] /\ playStates'[k] = NoRow
      /\ \A j \in Key \ {k} : playStates'[j] = playStates[j]
      /\ Rows' = Rows \ {k} /\ latest' = [latest EXCEPT ![k] = {NoRow}]
  BY <1>1 DEF DeletePlayState, PlayStateTypeOK, Rows
<1>3. report' \in [Report -> Reports \cup {NoReport}] /\ UpNextTypes'
  BY <1>1, DisturbReportsType, DisturbedUpNext DEF DeletePlayState
<1>4. ASSUME NEW r \in Report PROVE StillFound(report[r])'
  <2>1. /\ (report'[r] = NoReport) <=> (report[r] = NoReport)
        /\ report[r] # NoReport /\ report[r].key # k => report'[r] = report[r]
        /\ report[r] # NoReport /\ report[r].key = k =>
             report'[r].disturbed /\ report'[r].found # "row"
    BY <1>1, DisturbReportsType DEF DeletePlayState
  <2>2. StillFound(report[r])
    BY DEF PlayInv, ReportInv
  <2> QED BY <1>2, <2>1, <2>2 DEF StillFound
<1>5. LastReportStands'
  <2> SUFFICES ASSUME NEW j \in Key PROVE \E rep \in latest'[j] : Says(playStates'[j], rep)
    BY DEF LastReportStands, Says
  <2>1. CASE j = k
    BY <1>1, <1>2, <2>1 DEF PlayStateTypeOK, Says
  <2>2. CASE j # k
    BY <1>1, <1>2, <2>2 DEF PlayInv, ReportInv, PlayStateTypeOK, LastReportStands
  <2> QED BY <2>1, <2>2
<1>6. PlayStateTypeOK'
  BY <1>1, <1>2, <1>3 DEF DeletePlayState, libraryVars, PlayStateTypeOK, UpNextTypes
<1> QED BY <1>3, <1>4, <1>5, <1>6 DEF PlayInv, ReportInv

\* A row is looked for.
LEMMA FindStep ==
  ASSUME PlayInv, NEW r \in Report, NEW k \in Key, NEW finished \in BOOLEAN,
         NEW playtime \in Playtime, FindFirst(r, k, finished, playtime)
  PROVE  PlayInv'
<1> DEFINE rep == [key |-> k, finished |-> finished, playtime |-> playtime,
                   found |-> IF k \in Rows THEN "row" ELSE "none", disturbed |-> FALSE]
<1>1. rep \in Reports /\ StillFound(rep)
  BY DEF Reports, StillFound
<1>2. /\ report' = [report EXCEPT ![r] = rep]
      /\ UNCHANGED <<libraryVars, playStates, upNext, latest>>
  BY DEF FindFirst
<1> HIDE DEF rep
<1>3. PlayStateTypeOK'
  BY <1>1, <1>2 DEF PlayInv, ReportInv, PlayStateTypeOK, libraryVars
<1>4. Rows' = Rows
  BY <1>2 DEF Rows
<1>5. ASSUME NEW q \in Report PROVE StillFound(report[q])'
  <2>1. StillFound(report'[q])
    BY <1>1, <1>2 DEF PlayInv, ReportInv, PlayStateTypeOK
  <2> QED BY <1>4, <2>1 DEF StillFound
<1>6. LastReportStands'
  BY <1>2, <1>4 DEF PlayInv, ReportInv, LastReportStands, Says
<1>7. UpNextTypes'
  BY <1>2 DEF PlayInv, UpNextTypes, StillUpNext, Played, Rows, libraryVars
<1> QED BY <1>3, <1>5, <1>6, <1>7 DEF PlayInv, ReportInv

\* And inserted, updated, or neither.
LEMMA SaveStep ==
  ASSUME PlayInv, NEW r \in Report, SavePlayState(r)
  PROVE  PlayInv'
<1> DEFINE rep == report[r]
           k == rep.key
           said == [finished |-> rep.finished, playtime |-> rep.playtime]
<1>1. /\ PlayStateTypeOK /\ rep \in Reports /\ k \in Key /\ StillFound(rep) /\ rep # NoReport
      /\ rep.finished \in BOOLEAN /\ rep.playtime \in Playtime /\ rep.disturbed \in BOOLEAN
      /\ rep.found \in {"none", "row", "gone"}
  BY DEF SavePlayState, PlayInv, ReportInv, PlayStateTypeOK, Reports
<1>0. said \in PlayStates /\ said # NoRow
  BY <1>1 DEF PlayStates
<1>2. PICK j \in Key : j = k
  BY <1>1
<1>3. /\ report' = [DisturbReports(j, FALSE) EXCEPT ![r] = NoReport] /\ UpNextTypes'
      /\ UNCHANGED libraryVars
      /\ latest' = [latest EXCEPT ![j] = (IF rep.disturbed THEN latest[j] ELSE {}) \cup {said}]
  BY <1>1, <1>2, DisturbedUpNext DEF SavePlayState
<1>4. /\ playStates' \in [Key -> PlayStates \cup {NoRow}]
      /\ \A i \in Key \ {j} : playStates'[i] = playStates[i]
      /\ j \in Rows => playStates'[j] # NoRow
      /\ Says(playStates'[j], said) \/ (rep.disturbed /\ playStates'[j] = playStates[j])
  <2>1. CASE /\ rep.found = "none" /\ k \notin Rows
             /\ playStates' = [playStates EXCEPT ![k] =
                  [finished |-> rep.finished, playtime |-> rep.playtime]]
    <3> QED BY <1>0, <1>1, <1>2, <2>1 DEF PlayStateTypeOK, Says
  <2>2. CASE /\ rep.found = "row"
             /\ playStates' = [playStates EXCEPT ![k] =
                  Assign(playStates[k], rep.finished, rep.playtime)]
    <3>1. k \in Rows /\ playStates[k] \in PlayStates
      BY <1>1, <2>2 DEF StillFound, Rows, PlayStateTypeOK
    <3>2. /\ Assign(playStates[k], rep.finished, rep.playtime) \in PlayStates
          /\ Says(Assign(playStates[k], rep.finished, rep.playtime), said)
      BY <1>1, <3>1, AssignType
    <3> QED BY <1>1, <1>2, <2>2, <3>1, <3>2 DEF PlayStateTypeOK
  <2>3. CASE /\ rep.found = "gone" \/ (rep.found = "none" /\ k \in Rows)
             /\ UNCHANGED playStates
    <3>1. rep.disturbed
      BY <1>1, <2>3 DEF StillFound
    <3> QED BY <1>1, <1>2, <2>3, <3>1 DEF PlayStateTypeOK, Rows
  <2> QED BY <2>1, <2>2, <2>3 DEF SavePlayState
<1>5. Rows \subseteq Rows' /\ Rows' \subseteq Rows \cup {j}
  BY <1>4 DEF Rows
<1>6. report' \in [Report -> Reports \cup {NoReport}]
  BY <1>1, <1>3, DisturbReportsType
<1>7. ASSUME NEW q \in Report PROVE StillFound(report[q])'
  <2>1. CASE q = r
    BY <1>1, <1>3, <2>1, DisturbReportsType DEF StillFound
  <2>2. CASE q # r
    <3>1. report'[q] = DisturbReports(j, FALSE)[q]
      BY <1>1, <1>3, <2>2, DisturbReportsType
    <3>2. /\ (report'[q] = NoReport) <=> (report[q] = NoReport)
          /\ report[q] # NoReport /\ report[q].key # j => report'[q] = report[q]
          /\ report[q] # NoReport /\ report[q].key = j =>
               /\ report'[q].key = j /\ report'[q].disturbed
               /\ report'[q].found = "row" => report[q].found = "row"
      <4>1. LET d == DisturbReports(j, FALSE)[q]
            IN  /\ (d = NoReport) <=> (report[q] = NoReport)
                /\ report[q] # NoReport /\ report[q].key # j => d = report[q]
                /\ report[q] # NoReport /\ report[q].key = j =>
                     /\ d.key = j /\ d.disturbed
                     /\ d.found = "row" => report[q].found = "row" /\ ~FALSE
        BY <1>1, DisturbReportsType
      <4> QED BY <3>1, <4>1
    <3>3. StillFound(report[q])
      BY DEF PlayInv, ReportInv
    <3>4. CASE report[q] # NoReport /\ report[q].key = j
      BY <1>5, <3>2, <3>3, <3>4 DEF StillFound
    <3>5. CASE report[q] # NoReport /\ report[q].key # j
      BY <1>5, <3>2, <3>3, <3>5 DEF StillFound
    <3>6. CASE report[q] = NoReport
      BY <3>2, <3>6 DEF StillFound
    <3> QED BY <3>4, <3>5, <3>6
  <2> QED BY <2>1, <2>2
<1>8. LastReportStands'
  <2> SUFFICES ASSUME NEW i \in Key PROVE \E one \in latest'[i] : Says(playStates'[i], one)
    BY DEF LastReportStands, Says
  <2>0. /\ i # j => latest'[i] = latest[i]
        /\ latest'[j] = (IF rep.disturbed THEN latest[j] ELSE {}) \cup {said}
        /\ \E one \in latest[i] : Says(playStates[i], one)
    BY <1>1, <1>3 DEF PlayInv, ReportInv, PlayStateTypeOK, LastReportStands
  <2> HIDE DEF said
  <2>1. CASE i # j
    BY <1>4, <2>0, <2>1
  <2>2. CASE i = j
    BY <1>4, <2>0, <2>2
  <2> QED BY <2>1, <2>2
<1>9. PlayStateTypeOK'
  <2>1. latest' \in [Key -> SUBSET (PlayStates \cup {NoRow})]
    BY <1>0, <1>1, <1>3 DEF PlayStateTypeOK
  <2> QED BY <1>1, <1>3, <1>4, <1>6, <2>1 DEF libraryVars, PlayStateTypeOK, UpNextTypes
<1> QED BY <1>3, <1>7, <1>8, <1>9 DEF PlayInv, ReportInv

\* Episodes come and go.
LEMMA LibraryStep ==
  ASSUME PlayInv, NEW e \in Episode, AddEpisode(e) \/ RemoveEpisode(e)
  PROVE  PlayInv'
<1>1. PlayStateTypeOK
  BY DEF PlayInv, ReportInv
<1>2. /\ episodes' \subseteq Episode /\ removed' \subseteq Episode
      /\ upNext' = DisturbUpNext /\ UNCHANGED <<playStates, report, latest>>
  BY <1>1 DEF AddEpisode, RemoveEpisode, PlayStateTypeOK
<1>3. UpNextTypes'
  BY <1>1, <1>2, DisturbedUpNext
<1>4. Rows' = Rows
  BY <1>2 DEF Rows
<1> QED BY <1>1, <1>2, <1>3, <1>4
        DEF PlayInv, ReportInv, PlayStateTypeOK, StillFound, LastReportStands, Says, UpNextTypes

LEMMA PlayNext == PlayInv /\ [PlayStateNext]_playVars => PlayInv'
<1> SUFFICES ASSUME PlayInv, [PlayStateNext]_playVars PROVE PlayInv'
  OBVIOUS
<1>1. CASE UNCHANGED playVars
  <2>1. UNCHANGED <<episodes, removed, playStates, report, upNext, latest>>
    BY <1>1 DEF playVars, libraryVars
  <2>2. PlayStateTypeOK' /\ Rows' = Rows
    BY <2>1 DEF PlayInv, ReportInv, PlayStateTypeOK, Rows
  <2>3. (\A r \in Report : StillFound(report[r]))' /\ LastReportStands'
    BY <2>1, <2>2 DEF PlayInv, ReportInv, StillFound, LastReportStands, Says
  <2>4. ASSUME NEW n \in UpNext PROVE StillUpNext(upNext[n])'
    <3>1. StillUpNext(upNext[n])
      BY DEF PlayInv, UpNextTypes
    <3> QED BY <2>1, <2>2, <3>1 DEF StillUpNext, Played
  <2>5. UpNextTypes'
    BY <2>1, <2>4 DEF PlayInv, UpNextTypes
  <2> QED BY <2>2, <2>3, <2>5 DEF PlayInv, ReportInv
<1>2. ASSUME NEW n \in UpNext,
             \/ \E u \in User : FindSeries(n, u)
             \/ FindHighest(n) \/ FindNext(n) \/ FindLater(n) \/ Load(n) \/ Answer(n) \/ Return(n)
      PROVE  PlayInv'
  <2>1. UpNextTypes' /\ UNCHANGED <<libraryVars, playStates, report, latest>>
    BY <1>2, AskSteps DEF PlayInv, ReportInv
  <2>2. Rows' = Rows
    BY <2>1 DEF Rows
  <2> QED BY <2>1, <2>2 DEF libraryVars, PlayInv, ReportInv, PlayStateTypeOK, StillFound,
                            LastReportStands, Says, UpNextTypes
<1> QED BY <1>1, <1>2, DeleteStep, FindStep, SaveStep, LibraryStep DEF PlayStateNext

LEMMA PlayAlways == PlayStateSpec => []PlayInv
BY PlayInit, PlayNext, PTL DEF PlayStateSpec

\* Every reachable state of play states and of requests is well typed
\* (play_state.go).
THEOREM PlayStateTypesCorrect == PlayStateSpec => []PlayStateTypeOK
<1>1. PlayInv => PlayStateTypeOK
  BY DEF PlayInv, ReportInv
<1> QED BY PlayAlways, <1>1, PTL

\* Whatever is reported and whoever overlaps, a row says what was reported last,
\* or what a report said that another write got in the way of (SavePlayState,
\* play_state.go:113).
THEOREM LastReportStandsAlways == PlayStateSpec => []LastReportStands
<1>1. PlayInv => LastReportStands
  BY DEF PlayInv, ReportInv
<1> QED BY PlayAlways, <1>1, PTL

\* A request for what is up next fails, or offers an empty episode, only if a
\* table has changed since it began (play_state.go:67 and :83).
THEOREM UpNextFailsOnlyIfDisturbedAlways == PlayStateSpec => []UpNextFailsOnlyIfDisturbed
<1>1. PlayInv => UpNextFailsOnlyIfDisturbed
  <2> SUFFICES ASSUME PlayInv, NEW n \in UpNext, upNext[n] # NoUpNext,
                      upNext[n].at = "failed" \/ NoEpisode \in upNext[n].offered
               PROVE  upNext[n].disturbed
    BY DEF UpNextFailsOnlyIfDisturbed
  <2>1. StillUpNext(upNext[n])
    BY DEF PlayInv, UpNextTypes
  <2> QED BY <2>1 DEF StillUpNext
<1> QED BY PlayAlways, <1>1, PTL

(***************************************************************************)
(* What is offered                                                         *)
(***************************************************************************)

\* One row per series, season and number, as SeriesManager's OneRowPerKey says of
\* all but the rows that come back.
EpisodesDistinct ==
  \A e, f \in Episode :
    e.series = f.series /\ e.season = f.season /\ e.num = f.num => e = f

LEMMA EpisodeOrder ==
  ASSUME PlayStateTypeOK, EpisodesDistinct, NEW s,
         NEW e \in episodes, e.series = s, NEW f \in episodes, f.series = s
  PROVE  /\ e.season \in Nat /\ e.num \in Nat /\ f.season \in Nat /\ f.num \in Nat
         /\ e = f \/ Before(e, f) \/ Before(f, e)
         /\ Before(e, f) => ~Before(f, e) /\ e # f
<1>1. e \in Episode /\ f \in Episode
  BY DEF PlayStateTypeOK
<1> QED BY <1>1 DEF EpisodesDistinct, Before

\* Height orders episodes as Before does, if seasons do not overlap in it.
LEMMA HighestIsLast ==
  ASSUME PlayStateTypeOK, EpisodesDistinct, NEW u, NEW s, HeightsFit(s), NEW e \in Highest(u, s)
  PROVE  HighestPlayed(u, s) = {e} /\ e \in episodes /\ e.series = s
<1>1. e \in episodes /\ e.series = s /\ e \in Played(u, s)
  BY DEF Highest, Played
<1>2. ASSUME NEW f \in Played(u, s) \ {e} PROVE Before(f, e) /\ ~Before(e, f)
  <2>1. f \in episodes /\ f.series = s /\ Height(f) <= Height(e)
    BY DEF Highest, Played
  <2>2. e.season < f.season => Height(e) < Height(f)
    BY <1>1, <2>1 DEF HeightsFit
  <2>3. /\ e.season \in Nat /\ e.num \in Nat /\ f.season \in Nat /\ f.num \in Nat
        /\ Before(f, e) \/ Before(e, f)
        /\ Before(f, e) => ~Before(e, f)
    BY <1>1, <2>1, EpisodeOrder
  <2>4. ~Before(e, f)
    BY <2>1, <2>2, <2>3 DEF Height, Before
  <2> QED BY <2>3, <2>4
<1>3. e \in HighestPlayed(u, s)
  BY <1>1, <1>2 DEF HighestPlayed
<1>4. ASSUME NEW f \in HighestPlayed(u, s) PROVE f = e
  BY <1>1, <1>2, <1>4 DEF HighestPlayed
<1> QED BY <1>1, <1>3, <1>4

\* What should be offered after a finished episode: f, if what lies between has
\* the number 0; nothing, if whatever follows has.
LEMMA ExpectedNext ==
  ASSUME PlayStateTypeOK, EpisodesDistinct, NEW u, NEW s,
         NEW e, HighestPlayed(u, s) = {e}, e \in episodes, e.series = s,
         playStates[<<u, e>>].finished
  PROVE  /\ \A f \in episodes :
              /\ f.series = s /\ Before(e, f) /\ f.num > 0
              /\ \A g \in episodes : g.series = s /\ Before(e, g) /\ Before(g, f) => g.num = 0
              => Expected(u, s) = {f} /\ f \in Unwatched(u, s)
         /\ (\A f \in episodes : f.series = s /\ Before(e, f) => f.num = 0)
              => Expected(u, s) = {}
<1> DEFINE Fits(f) == f.num > 0 /\ \A g \in GetNextEpisodes(e) \cap GetPreviousEpisodes(f) : g.num = 0
<1>1. Expected(u, s) = {f \in GetNextEpisodes(e) : Fits(f)}
  BY DEF Expected
<1>2. \A f : f \in GetNextEpisodes(e) <=> f \in episodes /\ f.series = s /\ Before(e, f)
  BY DEF GetNextEpisodes
<1>3. \A f, g : f \in episodes /\ f.series = s =>
        (g \in GetPreviousEpisodes(f) <=> g \in episodes /\ g.series = s /\ Before(g, f))
  BY DEF GetPreviousEpisodes
<1>4. ASSUME NEW f \in episodes, f.series = s, Before(e, f), f.num > 0,
             \A g \in episodes : g.series = s /\ Before(e, g) /\ Before(g, f) => g.num = 0
      PROVE  Expected(u, s) = {f} /\ f \in Unwatched(u, s)
  <2>1. f \in GetNextEpisodes(e) /\ Fits(f)
    BY <1>2, <1>3, <1>4
  <2>2. ASSUME NEW h \in GetNextEpisodes(e), Fits(h) PROVE h = f
    <3>1. h \in episodes /\ h.series = s /\ Before(e, h) /\ h.num > 0
      BY <1>2, <2>2
    <3>2. h = f \/ Before(h, f) \/ Before(f, h)
      BY <1>4, <3>1, EpisodeOrder
    <3>3. h.num \in Nat /\ f.num \in Nat
      BY <1>4, <3>1, EpisodeOrder
    <3>4. ~Before(h, f)
      BY <1>4, <3>1, <3>3
    <3>5. ~Before(f, h)
      BY <1>2, <1>3, <1>4, <2>1, <2>2, <3>1, <3>3
    <3> QED BY <3>2, <3>4, <3>5
  <2>3. f \notin Played(u, s)
    <3>1. ~Before(f, e) /\ f # e
      BY <1>4, EpisodeOrder
    <3>2. e \in HighestPlayed(u, s)
      OBVIOUS
    <3> QED BY <3>1, <3>2 DEF HighestPlayed
  <2>4. f \in Unwatched(u, s)
    BY <1>4, <2>3 DEF Unwatched, Played
  <2> QED BY <1>1, <2>1, <2>2, <2>4
<1>5. ASSUME \A f \in episodes : f.series = s /\ Before(e, f) => f.num = 0
      PROVE  Expected(u, s) = {}
  BY <1>1, <1>2, <1>5
<1> HIDE DEF Fits
<1> QED BY <1>4, <1>5

\* An episode that is not finished is itself to be offered.
LEMMA ExpectedUnfinished ==
  ASSUME NEW u, NEW s, NEW e, HighestPlayed(u, s) = {e}, e \in episodes, e.series = s,
         ~playStates[<<u, e>>].finished
  PROVE  Expected(u, s) = {e} /\ e \in Unwatched(u, s)
BY DEF Expected, Unwatched

\* What a statement for an episode that follows in the season, or in later ones, says.
LEMMA ExpectedInSeason ==
  ASSUME PlayStateTypeOK, EpisodesDistinct, NEW u, NEW s,
         NEW e, HighestPlayed(u, s) = {e}, e \in episodes, e.series = s,
         playStates[<<u, e>>].finished, NEW f \in First(InSeason(e))
  PROVE  Expected(u, s) = {f} /\ f \in Unwatched(u, s) /\ f \in episodes /\ f.series = s
<1>1. /\ f \in episodes /\ f.series = s /\ f.season = e.season /\ f.num > e.num
      /\ \A g \in InSeason(e) \ {f} : Before(f, g)
  BY DEF First, InSeason
<1>2. e.num \in Nat /\ f.num \in Nat /\ e.season \in Nat /\ f.season \in Nat
  BY <1>1, EpisodeOrder
<1>3. Before(e, f) /\ f.num > 0
  BY <1>1, <1>2 DEF Before
<1>4. ASSUME NEW g \in episodes, g.series = s, Before(e, g), Before(g, f) PROVE g.num = 0
  <2>1. /\ g.num \in Nat /\ g.season \in Nat
        /\ Before(g, f) => ~Before(f, g) /\ g # f
    BY <1>1, <1>4, EpisodeOrder
  <2>2. g \in InSeason(e)
    BY <1>1, <1>2, <1>4, <2>1 DEF Before, InSeason
  <2> QED BY <1>1, <1>4, <2>1, <2>2
<1> QED BY <1>1, <1>3, <1>4, ExpectedNext

LEMMA ExpectedLater ==
  ASSUME PlayStateTypeOK, EpisodesDistinct, NEW u, NEW s,
         NEW e, HighestPlayed(u, s) = {e}, e \in episodes, e.series = s,
         playStates[<<u, e>>].finished, InSeason(e) = {}
  PROVE  /\ \A f \in First(InLaterSeasons(e)) :
              Expected(u, s) = {f} /\ f \in Unwatched(u, s) /\ f \in episodes /\ f.series = s
         /\ InLaterSeasons(e) = {} => Expected(u, s) = {}
<1>1. ASSUME NEW g \in episodes, g.series = s, Before(e, g), g.num # 0
      PROVE  g \in InLaterSeasons(e)
  <2>1. g.num \in Nat /\ g.season \in Nat /\ e.num \in Nat /\ e.season \in Nat
    BY <1>1, EpisodeOrder
  <2>2. g \notin InSeason(e)
    OBVIOUS
  <2> QED BY <1>1, <2>1, <2>2 DEF Before, InSeason, InLaterSeasons
<1>2. ASSUME NEW f \in First(InLaterSeasons(e))
      PROVE  Expected(u, s) = {f} /\ f \in Unwatched(u, s) /\ f \in episodes /\ f.series = s
  <2>1. /\ f \in episodes /\ f.series = s /\ f.season > e.season /\ f.num > 0
        /\ \A g \in InLaterSeasons(e) \ {f} : Before(f, g)
    BY <1>2 DEF First, InLaterSeasons
  <2>2. Before(e, f)
    BY <2>1, EpisodeOrder DEF Before
  <2>3. ASSUME NEW g \in episodes, g.series = s, Before(e, g), Before(g, f) PROVE g.num = 0
    <3>1. Before(g, f) => ~Before(f, g) /\ g # f
      BY <2>1, <2>3, EpisodeOrder
    <3> QED BY <1>1, <2>1, <2>3, <3>1
  <2> QED BY <2>1, <2>2, <2>3, ExpectedNext
<1>3. ASSUME InLaterSeasons(e) = {} PROVE Expected(u, s) = {}
  <2>1. \A f \in episodes : f.series = s /\ Before(e, f) => f.num = 0
    BY <1>1, <1>3
  <2> QED BY <2>1, ExpectedNext
<1> QED BY <1>2, <1>3

\* A request that is looking for what to offer of one series.
Current(ask) == ask.at \in {"next", "later", "load"}
OfferedOf(ask, s) == {e \in ask.offered : e.series = s}

\* What a request has found of that series is right so far.
RightSoFar(ask, s) ==
  /\ ask.at \in {"next", "later"} =>
       HighestPlayed(ask.user, s) = {ask.last} /\ playStates[<<ask.user, ask.last>>].finished
  /\ ask.at = "later" => InSeason(ask.last) = {}
  /\ ask.at = "load" =>
       Expected(ask.user, s) = {ask.last} /\ ask.last \in Unwatched(ask.user, s)

\* The series that it is done with have what should be offered, the others nothing.
RightUpNext(ask) ==
  ask # NoUpNext /\ ~ask.disturbed =>
    /\ ask.at = "answered" => ask.todo = {}
    /\ Current(ask) => /\ ask.last \in episodes
                       /\ ask.last.series \notin ask.todo
                       /\ HeightsFit(ask.last.series) => RightSoFar(ask, ask.last.series)
    /\ \A s \in Series : HeightsFit(s) =>
         IF s \in ask.todo \/ (Current(ask) /\ ask.last.series = s)
         THEN OfferedOf(ask, s) = {}
         ELSE /\ OfferedOf(ask, s) = Expected(ask.user, s)
              /\ OfferedOf(ask, s) \subseteq Unwatched(ask.user, s)

AllRight == \A n \in UpNext : RightUpNext(upNext[n])

LEMMA TablesStay ==
  ASSUME UNCHANGED <<libraryVars, playStates>>
  PROVE  \A ask : RightUpNext(ask) <=> (RightUpNext(ask))'
<1>1. /\ \A u, s : Played(u, s)' = Played(u, s) /\ Unwatched(u, s)' = Unwatched(u, s)
      /\ \A s : HeightsFit(s)' <=> HeightsFit(s)
      /\ \A e : InSeason(e)' = InSeason(e)
      /\ \A e : GetNextEpisodes(e)' = GetNextEpisodes(e)
      /\ \A e : GetPreviousEpisodes(e)' = GetPreviousEpisodes(e)
  BY DEF Played, Rows, Unwatched, HeightsFit, InSeason, GetNextEpisodes, GetPreviousEpisodes,
         libraryVars
<1>2. \A u, s : HighestPlayed(u, s)' = HighestPlayed(u, s)
  BY <1>1 DEF HighestPlayed
<1>3. \A u, s : Expected(u, s)' = Expected(u, s)
  <2> TAKE u, s
  <2>1. \A e : {f \in GetNextEpisodes(e) : f.num > 0 /\
                 \A g \in GetNextEpisodes(e) \cap GetPreviousEpisodes(f) : g.num = 0}'
            = {f \in GetNextEpisodes(e) : f.num > 0 /\
                 \A g \in GetNextEpisodes(e) \cap GetPreviousEpisodes(f) : g.num = 0}
    BY <1>1
  <2>2. HighestPlayed(u, s)' = HighestPlayed(u, s) /\ playStates' = playStates
    BY <1>2
  <2>3. ASSUME NEW x PROVE x \in Expected(u, s)' <=> x \in Expected(u, s)
    BY <2>1, <2>2 DEF Expected
  <2> QED BY <2>3
<1>4. \A ask, s : RightSoFar(ask, s) <=> (RightSoFar(ask, s))'
  BY <1>1, <1>2, <1>3 DEF RightSoFar
<1>5. \A ask, s : OfferedOf(ask, s)' = OfferedOf(ask, s)
  BY DEF OfferedOf
<1>6. \A ask : Current(ask)' <=> Current(ask)
  BY DEF Current
<1> TAKE ask
<1>7. (\A s \in Series : HeightsFit(s) =>
         IF s \in ask.todo \/ (Current(ask) /\ ask.last.series = s)
         THEN OfferedOf(ask, s) = {}
         ELSE /\ OfferedOf(ask, s) = Expected(ask.user, s)
              /\ OfferedOf(ask, s) \subseteq Unwatched(ask.user, s))
      <=>
      (\A s \in Series : HeightsFit(s)' =>
         IF s \in ask.todo \/ (Current(ask)' /\ ask.last.series = s)
         THEN OfferedOf(ask, s)' = {}
         ELSE /\ OfferedOf(ask, s)' = Expected(ask.user, s)'
              /\ OfferedOf(ask, s)' \subseteq Unwatched(ask.user, s)')
  BY <1>1, <1>3, <1>5, <1>6
<1>8. (Current(ask) => /\ ask.last \in episodes
                       /\ ask.last.series \notin ask.todo
                       /\ HeightsFit(ask.last.series) => RightSoFar(ask, ask.last.series))
      <=>
      (Current(ask)' => /\ ask.last \in episodes'
                        /\ ask.last.series \notin ask.todo
                        /\ HeightsFit(ask.last.series)' => RightSoFar(ask, ask.last.series)')
  BY <1>1, <1>4, <1>6 DEF libraryVars
<1> QED BY <1>7, <1>8 DEF RightUpNext

LEMMA RightMoves ==
  ASSUME UpNextTypes, AllRight, UNCHANGED <<libraryVars, playStates>>,
         NEW n \in UpNext, NEW ask, RightUpNext(ask), upNext' = [upNext EXCEPT ![n] = ask]
  PROVE  AllRight'
<1>1. ASSUME NEW m \in UpNext PROVE RightUpNext(upNext[m])'
  <2>1. PICK a : a = upNext'[m] /\ RightUpNext(a)
    BY DEF AllRight, UpNextTypes
  <2>2. (RightUpNext(a))'
    BY <2>1, TablesStay
  <2> QED BY <2>1, <2>2 DEF RightUpNext, RightSoFar, OfferedOf, Current
<1> QED BY <1>1 DEF AllRight

LEMMA FindSeriesRight ==
  ASSUME PlayStateTypeOK, UpNextTypes, AllRight, NEW n \in UpNext, NEW u \in User, FindSeries(n, u)
  PROVE  AllRight'
<1> DEFINE next == [at |-> "series", user |-> u, todo |-> {s \in Series : Played(u, s) # {}},
                    last |-> NoEpisode, offered |-> {}, disturbed |-> FALSE]
<1>1. \A s : Played(u, s) = {} => Expected(u, s) = {}
  BY DEF Expected, HighestPlayed
<1>2. RightUpNext(next)
  BY <1>1 DEF RightUpNext, Current, OfferedOf
<1>3. upNext' = [upNext EXCEPT ![n] = next] /\ UNCHANGED <<libraryVars, playStates>>
  BY DEF FindSeries
<1> HIDE DEF next
<1> QED BY <1>2, <1>3, RightMoves

LEMMA FindHighestRight ==
  ASSUME PlayStateTypeOK, UpNextTypes, AllRight, EpisodesDistinct,
         NEW n \in UpNext, FindHighest(n)
  PROVE  AllRight'
<1>0. PICK ask \in UpNexts \cup {NoUpNext} : ask = upNext[n]
  BY DEF UpNextTypes
<1>s. /\ ask \in UpNexts /\ ask # NoUpNext /\ ask.at = "series"
      /\ UNCHANGED <<libraryVars, playStates>>
  BY <1>0 DEF FindHighest
<1>r. RightUpNext(ask) /\ StillUpNext(ask)
  BY <1>0 DEF UpNextTypes, AllRight
<1>1. PICK s \in ask.todo :
        \/ /\ Played(ask.user, s) = {}
           /\ upNext' = [upNext EXCEPT ![n] = [ask EXCEPT !.at = "failed"]]
        \/ \E e \in Highest(ask.user, s) :
             upNext' = [upNext EXCEPT ![n] =
               [ask EXCEPT !.last = e, !.todo = ask.todo \ {s},
                  !.at = IF playStates[<<ask.user, e>>].finished THEN "next" ELSE "load"]]
  BY <1>0 DEF FindHighest
<1>2. CASE /\ Played(ask.user, s) = {}
           /\ upNext' = [upNext EXCEPT ![n] = [ask EXCEPT !.at = "failed"]]
  <2> DEFINE next == [ask EXCEPT !.at = "failed"]
  <2>1. ask.disturbed /\ next.disturbed = ask.disturbed
    BY <1>s, <1>r, <1>2 DEF StillUpNext, UpNexts
  <2>2. RightUpNext(next)
    BY <2>1 DEF RightUpNext
  <2>3. upNext' = [upNext EXCEPT ![n] = next]
    BY <1>2
  <2> HIDE DEF next
  <2> QED BY <1>s, <2>2, <2>3, RightMoves
<1>3. ASSUME NEW e \in Highest(ask.user, s),
             upNext' = [upNext EXCEPT ![n] =
               [ask EXCEPT !.last = e, !.todo = ask.todo \ {s},
                  !.at = IF playStates[<<ask.user, e>>].finished THEN "next" ELSE "load"]]
      PROVE  AllRight'
  <2> DEFINE next == [ask EXCEPT !.last = e, !.todo = ask.todo \ {s},
                        !.at = IF playStates[<<ask.user, e>>].finished THEN "next" ELSE "load"]
  <2>1. /\ next.disturbed = ask.disturbed /\ next.user = ask.user
        /\ next.offered = ask.offered /\ next.todo = ask.todo \ {s}
        /\ next.last = e /\ e \in episodes /\ e.series = s /\ e \in Played(ask.user, s)
        /\ next.at = IF playStates[<<ask.user, e>>].finished THEN "next" ELSE "load"
    BY <1>s DEF UpNexts, Highest, Played
  <2>2. upNext' = [upNext EXCEPT ![n] = next]
    BY <1>3
  <2> HIDE DEF next
  <2>3. s \in Series
    BY <1>s DEF UpNexts
  <2>4. RightUpNext(next)
    <3> SUFFICES ASSUME ~ask.disturbed PROVE RightUpNext(next)
      BY <2>1 DEF RightUpNext
    <3>1. \A t \in Series : HeightsFit(t) =>
            IF t \in ask.todo THEN OfferedOf(ask, t) = {}
            ELSE /\ OfferedOf(ask, t) = Expected(ask.user, t)
                 /\ OfferedOf(ask, t) \subseteq Unwatched(ask.user, t)
      BY <1>s, <1>r DEF RightUpNext, Current, UpNexts
    <3>2. \A t : OfferedOf(next, t) = OfferedOf(ask, t)
      BY <2>1 DEF OfferedOf
    <3>3. Current(next) /\ next.at # "answered"
      BY <2>1 DEF Current
    <3>4. ASSUME HeightsFit(s) PROVE RightSoFar(next, s)
      <4>1. HighestPlayed(ask.user, s) = {e}
        BY <3>4, HighestIsLast
      <4>2. CASE playStates[<<ask.user, e>>].finished
        BY <2>1, <4>1, <4>2 DEF RightSoFar
      <4>3. CASE ~playStates[<<ask.user, e>>].finished
        BY <2>1, <4>1, <4>3, ExpectedUnfinished DEF RightSoFar
      <4> QED BY <4>2, <4>3
    <3>5. \A t \in Series : HeightsFit(t) =>
            IF t \in next.todo \/ (Current(next) /\ next.last.series = t)
            THEN OfferedOf(next, t) = {}
            ELSE /\ OfferedOf(next, t) = Expected(next.user, t)
                 /\ OfferedOf(next, t) \subseteq Unwatched(next.user, t)
      BY <2>1, <3>1, <3>2, <3>3
    <3> QED BY <2>1, <3>3, <3>4, <3>5 DEF RightUpNext
  <2> QED BY <1>s, <2>2, <2>4, RightMoves
<1> QED BY <1>1, <1>2, <1>3

\* A step from one statement about a series to another.
LEMMA RightOn ==
  ASSUME UpNextTypes, AllRight, UNCHANGED <<libraryVars, playStates>>, NEW n \in UpNext,
         NEW ask \in UpNexts, ask = upNext[n], Current(ask),
         NEW at \in {"later", "load"}, NEW e, e.series = ask.last.series,
         upNext' = [upNext EXCEPT ![n] = [ask EXCEPT !.at = at, !.last = e]],
         ~ask.disturbed => e \in episodes,
         ~ask.disturbed /\ HeightsFit(e.series) =>
           /\ at = "later" => /\ HighestPlayed(ask.user, e.series) = {e} /\ InSeason(e) = {}
                              /\ playStates[<<ask.user, e>>].finished
           /\ at = "load" => Expected(ask.user, e.series) = {e} /\ e \in Unwatched(ask.user, e.series)
  PROVE  AllRight'
<1> DEFINE next == [ask EXCEPT !.at = at, !.last = e]
<1>1. /\ next.disturbed = ask.disturbed /\ next.user = ask.user /\ next.last = e
      /\ next.offered = ask.offered /\ next.todo = ask.todo /\ next.at = at
  BY DEF UpNexts
<1>2. upNext' = [upNext EXCEPT ![n] = next]
  OBVIOUS
<1> HIDE DEF next
<1>3. RightUpNext(next)
  <2> SUFFICES ASSUME ~ask.disturbed PROVE RightUpNext(next)
    BY <1>1 DEF RightUpNext
  <2>1. /\ ask.last.series \notin ask.todo
        /\ \A s \in Series : HeightsFit(s) =>
             IF s \in ask.todo \/ ask.last.series = s THEN OfferedOf(ask, s) = {}
             ELSE /\ OfferedOf(ask, s) = Expected(ask.user, s)
                  /\ OfferedOf(ask, s) \subseteq Unwatched(ask.user, s)
    BY DEF AllRight, RightUpNext, UpNexts
  <2>2. \A s : OfferedOf(next, s) = OfferedOf(ask, s)
    BY <1>1 DEF OfferedOf
  <2>3. Current(next) /\ next.at # "answered"
    BY <1>1 DEF Current
  <2>4. HeightsFit(e.series) => RightSoFar(next, e.series)
    BY <1>1 DEF RightSoFar
  <2> QED BY <1>1, <2>1, <2>2, <2>3, <2>4 DEF RightUpNext
<1> QED BY <1>2, <1>3, RightMoves

\* A request is done with a series, to which it has added the episodes in E.
LEMMA RightDone ==
  ASSUME UpNextTypes, AllRight, UNCHANGED <<libraryVars, playStates>>, NEW n \in UpNext,
         NEW ask \in UpNexts, ask = upNext[n], Current(ask),
         NEW E, NEW next,
         /\ next.disturbed = ask.disturbed /\ next.user = ask.user
         /\ next.offered = ask.offered \cup E /\ next.todo = ask.todo /\ next.at = "series",
         upNext' = [upNext EXCEPT ![n] = next],
         ~ask.disturbed =>
           /\ \A e \in E : e.series = ask.last.series
           /\ HeightsFit(ask.last.series) =>
                /\ E = Expected(ask.user, ask.last.series)
                /\ E \subseteq Unwatched(ask.user, ask.last.series)
  PROVE  AllRight'
<1>1. RightUpNext(next)
  <2> SUFFICES ASSUME ~ask.disturbed PROVE RightUpNext(next)
    BY DEF RightUpNext
  <2>1. /\ ask.last.series \notin ask.todo
        /\ \A s \in Series : HeightsFit(s) =>
             IF s \in ask.todo \/ ask.last.series = s THEN OfferedOf(ask, s) = {}
             ELSE /\ OfferedOf(ask, s) = Expected(ask.user, s)
                  /\ OfferedOf(ask, s) \subseteq Unwatched(ask.user, s)
    BY DEF AllRight, RightUpNext, UpNexts
  <2>2. \A s : OfferedOf(next, s) = OfferedOf(ask, s) \cup {e \in E : e.series = s}
    BY DEF OfferedOf
  <2>3. ~Current(next) /\ next.at # "answered"
    BY DEF Current
  <2>4. ASSUME NEW s \in Series, HeightsFit(s)
        PROVE  IF s \in next.todo THEN OfferedOf(next, s) = {}
               ELSE /\ OfferedOf(next, s) = Expected(next.user, s)
                    /\ OfferedOf(next, s) \subseteq Unwatched(next.user, s)
    <3>1. IF s \in ask.todo \/ ask.last.series = s THEN OfferedOf(ask, s) = {}
          ELSE /\ OfferedOf(ask, s) = Expected(ask.user, s)
               /\ OfferedOf(ask, s) \subseteq Unwatched(ask.user, s)
      BY <2>1, <2>4
    <3>2. CASE s = ask.last.series
      <4>0. OfferedOf(ask, s) = {}
        BY <3>1, <3>2
      <4>1. ASSUME NEW x PROVE x \in OfferedOf(next, s) <=> x \in E
        BY <2>2, <3>2, <4>0
      <4>2. E = Expected(ask.user, s) /\ E \subseteq Unwatched(ask.user, s)
        BY <2>4, <3>2
      <4>3. s \notin next.todo
        BY <2>1, <3>2
      <4>4. OfferedOf(next, s) = E
        BY <4>1, <2>2
      <4> QED BY <4>2, <4>3, <4>4
    <3>3. CASE s # ask.last.series
      <4>0. ASSUME NEW x PROVE x \in OfferedOf(next, s) <=> x \in OfferedOf(ask, s)
        BY <2>2, <3>3
      <4>1. OfferedOf(next, s) = OfferedOf(ask, s)
        BY <4>0, <2>2
      <4> QED BY <3>1, <3>3, <4>1
    <3> QED BY <3>2, <3>3
  <2> QED BY <2>3, <2>4 DEF RightUpNext
<1> QED BY <1>1, RightMoves
LEMMA FindNextRight ==
  ASSUME PlayStateTypeOK, UpNextTypes, AllRight, EpisodesDistinct,
         NEW n \in UpNext, FindNext(n)
  PROVE  AllRight'
<1>0. PICK ask \in UpNexts \cup {NoUpNext} : ask = upNext[n]
  BY DEF UpNextTypes
<1>1. /\ ask \in UpNexts /\ ask # NoUpNext /\ ask.at = "next"
      /\ UNCHANGED <<libraryVars, playStates>>
  BY <1>0 DEF FindNext
<1>2. Current(ask) /\ RightUpNext(ask)
  BY <1>0, <1>1 DEF AllRight, Current
<1>3. ~ask.disturbed => ask.last \in episodes
  BY <1>1, <1>2 DEF RightUpNext
<1>4. ~ask.disturbed /\ HeightsFit(ask.last.series) =>
        /\ HighestPlayed(ask.user, ask.last.series) = {ask.last}
        /\ playStates[<<ask.user, ask.last>>].finished
  BY <1>1, <1>2 DEF RightUpNext, RightSoFar
<1>5. CASE /\ InSeason(ask.last) = {}
           /\ upNext' = [upNext EXCEPT ![n] = [ask EXCEPT !.at = "later"]]
  <2>1. [ask EXCEPT !.at = "later"] = [ask EXCEPT !.at = "later", !.last = ask.last]
    BY <1>1 DEF UpNexts
  <2>2. upNext' = [upNext EXCEPT ![n] = [ask EXCEPT !.at = "later", !.last = ask.last]]
    BY <1>5, <2>1
  <2>3. ~ask.disturbed /\ HeightsFit(ask.last.series) =>
          /\ HighestPlayed(ask.user, ask.last.series) = {ask.last} /\ InSeason(ask.last) = {}
          /\ playStates[<<ask.user, ask.last>>].finished
    BY <1>4, <1>5
  <2> QED BY <1>0, <1>1, <1>2, <1>3, <2>2, <2>3, RightOn
<1>6. ASSUME NEW e \in First(InSeason(ask.last)),
             upNext' = [upNext EXCEPT ![n] = [ask EXCEPT !.at = "load", !.last = e]]
      PROVE  AllRight'
  <2>1. e \in episodes /\ e.series = ask.last.series
    BY DEF First, InSeason
  <2>2. ~ask.disturbed /\ HeightsFit(e.series) =>
          Expected(ask.user, e.series) = {e} /\ e \in Unwatched(ask.user, e.series)
    BY <1>3, <1>4, <2>1, ExpectedInSeason
  <2> QED BY <1>0, <1>1, <1>2, <1>6, <2>1, <2>2, RightOn
<1>7. \/ /\ InSeason(ask.last) = {}
         /\ upNext' = [upNext EXCEPT ![n] = [ask EXCEPT !.at = "later"]]
      \/ \E e \in First(InSeason(ask.last)) :
           upNext' = [upNext EXCEPT ![n] = [ask EXCEPT !.at = "load", !.last = e]]
  BY <1>0, <1>1 DEF FindNext, UpNextTypes, UpNexts
<1> QED BY <1>5, <1>6, <1>7

LEMMA FindLaterRight ==
  ASSUME PlayStateTypeOK, UpNextTypes, AllRight, EpisodesDistinct,
         NEW n \in UpNext, FindLater(n)
  PROVE  AllRight'
<1>0. PICK ask \in UpNexts \cup {NoUpNext} : ask = upNext[n]
  BY DEF UpNextTypes
<1>1. /\ ask \in UpNexts /\ ask # NoUpNext /\ ask.at = "later"
      /\ UNCHANGED <<libraryVars, playStates>>
  BY <1>0 DEF FindLater
<1>2. Current(ask) /\ RightUpNext(ask)
  BY <1>0, <1>1 DEF AllRight, Current
<1>3. ~ask.disturbed => ask.last \in episodes
  BY <1>1, <1>2 DEF RightUpNext
<1>4. ~ask.disturbed /\ HeightsFit(ask.last.series) =>
        /\ HighestPlayed(ask.user, ask.last.series) = {ask.last}
        /\ playStates[<<ask.user, ask.last>>].finished
        /\ InSeason(ask.last) = {}
  BY <1>1, <1>2 DEF RightUpNext, RightSoFar
<1>5. CASE /\ InLaterSeasons(ask.last) = {}
           /\ upNext' = [upNext EXCEPT ![n] = [ask EXCEPT !.at = "series"]]
  <2> DEFINE next == [ask EXCEPT !.at = "series"]
  <2>1. /\ next.disturbed = ask.disturbed /\ next.user = ask.user
        /\ next.offered = ask.offered \cup {} /\ next.todo = ask.todo /\ next.at = "series"
    BY <1>1 DEF UpNexts
  <2>2. upNext' = [upNext EXCEPT ![n] = next]
    BY <1>5
  <2>3. ~ask.disturbed /\ HeightsFit(ask.last.series) => Expected(ask.user, ask.last.series) = {}
    BY <1>3, <1>4, <1>5, ExpectedLater
  <2> HIDE DEF next
  <2> QED BY <1>0, <1>1, <1>2, <2>1, <2>2, <2>3, RightDone
<1>6. ASSUME NEW e \in First(InLaterSeasons(ask.last)),
             upNext' = [upNext EXCEPT ![n] = [ask EXCEPT !.at = "load", !.last = e]]
      PROVE  AllRight'
  <2>1. e \in episodes /\ e.series = ask.last.series
    BY DEF First, InLaterSeasons
  <2>2. ~ask.disturbed /\ HeightsFit(e.series) =>
          Expected(ask.user, e.series) = {e} /\ e \in Unwatched(ask.user, e.series)
    BY <1>3, <1>4, <2>1, ExpectedLater
  <2> QED BY <1>0, <1>1, <1>2, <1>6, <2>1, <2>2, RightOn
<1>7. \/ /\ InLaterSeasons(ask.last) = {}
         /\ upNext' = [upNext EXCEPT ![n] = [ask EXCEPT !.at = "series"]]
      \/ \E e \in First(InLaterSeasons(ask.last)) :
           upNext' = [upNext EXCEPT ![n] = [ask EXCEPT !.at = "load", !.last = e]]
  BY <1>0, <1>1 DEF FindLater, UpNextTypes, UpNexts
<1> QED BY <1>5, <1>6, <1>7

LEMMA LoadRight ==
  ASSUME PlayStateTypeOK, UpNextTypes, AllRight, NEW n \in UpNext, Load(n)
  PROVE  AllRight'
<1>0. PICK ask \in UpNexts \cup {NoUpNext} : ask = upNext[n]
  BY DEF UpNextTypes
<1>1. /\ ask \in UpNexts /\ ask # NoUpNext /\ ask.at = "load"
      /\ UNCHANGED <<libraryVars, playStates>>
  BY <1>0 DEF Load
<1>2. Current(ask) /\ RightUpNext(ask)
  BY <1>0, <1>1 DEF AllRight, Current
<1>3. ~ask.disturbed => ask.last \in episodes
  BY <1>1, <1>2 DEF RightUpNext
<1>4. ~ask.disturbed /\ HeightsFit(ask.last.series) =>
        /\ Expected(ask.user, ask.last.series) = {ask.last}
        /\ ask.last \in Unwatched(ask.user, ask.last.series)
  BY <1>1, <1>2 DEF RightUpNext, RightSoFar
<1> DEFINE E == {IF ask.last \in episodes THEN ask.last ELSE NoEpisode}
           next == [ask EXCEPT !.at = "series", !.offered = ask.offered \cup E]
<1>5. upNext' = [upNext EXCEPT ![n] = next]
  BY <1>0, <1>1 DEF Load, UpNextTypes, UpNexts
<1>6. /\ next.disturbed = ask.disturbed /\ next.user = ask.user
      /\ next.offered = ask.offered \cup E /\ next.todo = ask.todo /\ next.at = "series"
  BY <1>1 DEF UpNexts
<1>7. ~ask.disturbed => E = {ask.last}
  BY <1>3
<1> HIDE DEF E, next
<1>8. ~ask.disturbed =>
        /\ \A e \in E : e.series = ask.last.series
        /\ HeightsFit(ask.last.series) =>
             E = Expected(ask.user, ask.last.series) /\ E \subseteq Unwatched(ask.user, ask.last.series)
  BY <1>4, <1>7
<1> QED BY <1>0, <1>1, <1>2, <1>5, <1>6, <1>8, RightDone

LEMMA AnswerRight ==
  ASSUME PlayStateTypeOK, UpNextTypes, AllRight, NEW n \in UpNext, Answer(n) \/ Return(n)
  PROVE  AllRight'
<1>1. CASE Answer(n)
  <2>0. PICK ask \in UpNexts \cup {NoUpNext} : ask = upNext[n]
    BY DEF UpNextTypes
  <2> DEFINE next == [ask EXCEPT !.at = "answered"]
  <2>1. /\ ask \in UpNexts /\ ask # NoUpNext /\ ask.at = "series" /\ ask.todo = {}
        /\ UNCHANGED <<libraryVars, playStates>> /\ upNext' = [upNext EXCEPT ![n] = next]
    BY <1>1, <2>0 DEF Answer
  <2>2. /\ next.disturbed = ask.disturbed /\ next.user = ask.user
        /\ next.offered = ask.offered /\ next.todo = {} /\ next.at = "answered"
    BY <2>1 DEF UpNexts
  <2>3. RightUpNext(ask) /\ ~Current(ask) /\ ~Current(next)
    BY <2>0, <2>1, <2>2 DEF AllRight, Current
  <2>4. \A s : OfferedOf(next, s) = OfferedOf(ask, s)
    BY <2>2 DEF OfferedOf
  <2> HIDE DEF next
  <2>5. RightUpNext(next)
    BY <2>1, <2>2, <2>3, <2>4 DEF RightUpNext
  <2> QED BY <2>1, <2>5, RightMoves
<1>2. CASE Return(n)
  <2>1. RightUpNext(NoUpNext)
    BY DEF RightUpNext
  <2>2. upNext' = [upNext EXCEPT ![n] = NoUpNext] /\ UNCHANGED <<libraryVars, playStates>>
    BY <1>2 DEF Return
  <2> QED BY <2>1, <2>2, RightMoves
<1> QED BY <1>1, <1>2

\* A step that changes a table disturbs every request.
LEMMA DisturbedRight ==
  ASSUME PlayStateTypeOK, upNext' = DisturbUpNext
  PROVE  AllRight'
<1>1. \A n \in UpNext : upNext'[n] = NoUpNext \/ upNext'[n].disturbed
  BY DisturbUpNextType
<1> QED BY <1>1 DEF AllRight, RightUpNext

LEMMA RightNext ==
  EpisodesDistinct /\ PlayInv /\ AllRight /\ [PlayStateNext]_playVars => AllRight'
<1> SUFFICES ASSUME EpisodesDistinct, PlayInv, AllRight, [PlayStateNext]_playVars PROVE AllRight'
  OBVIOUS
<1>1. PlayStateTypeOK /\ UpNextTypes
  BY DEF PlayInv, ReportInv
<1>2. ASSUME UNCHANGED <<libraryVars, playStates, upNext>> PROVE AllRight'
  <2> SUFFICES ASSUME NEW n \in UpNext PROVE RightUpNext(upNext[n])'
    BY DEF AllRight
  <2>1. PICK a : a = upNext[n] /\ a = upNext'[n] /\ RightUpNext(a)
    BY <1>2 DEF AllRight
  <2>2. (RightUpNext(a))'
    BY <1>2, <2>1, TablesStay
  <2> QED BY <2>1, <2>2 DEF RightUpNext, RightSoFar, OfferedOf, Current
<1>3. ASSUME NEW r \in Report, NEW k \in Key, NEW f \in BOOLEAN, NEW p \in Playtime,
             FindFirst(r, k, f, p)
      PROVE  AllRight'
  BY <1>2, <1>3 DEF FindFirst
<1>4. ASSUME \/ \E k \in Key : DeletePlayState(k)
             \/ \E r \in Report : SavePlayState(r)
             \/ \E e \in Episode : AddEpisode(e) \/ RemoveEpisode(e)
      PROVE  AllRight'
  <2>1. upNext' = DisturbUpNext
    BY <1>4 DEF DeletePlayState, SavePlayState, AddEpisode, RemoveEpisode
  <2> QED BY <1>1, <2>1, DisturbedRight
<1>5. ASSUME NEW n \in UpNext, NEW u \in User, FindSeries(n, u) PROVE AllRight'
  BY <1>1, <1>5, FindSeriesRight
<1>6. ASSUME NEW n \in UpNext, FindHighest(n) PROVE AllRight'
  BY <1>1, <1>6, FindHighestRight
<1>7. ASSUME NEW n \in UpNext, FindNext(n) PROVE AllRight'
  BY <1>1, <1>7, FindNextRight
<1>8. ASSUME NEW n \in UpNext, FindLater(n) PROVE AllRight'
  BY <1>1, <1>8, FindLaterRight
<1>9. ASSUME NEW n \in UpNext, Load(n) PROVE AllRight'
  BY <1>1, <1>9, LoadRight
<1>10. ASSUME NEW n \in UpNext, Answer(n) \/ Return(n) PROVE AllRight'
  BY <1>1, <1>10, AnswerRight
<1>11. CASE UNCHANGED playVars
  BY <1>2, <1>11 DEF playVars
<1> QED BY <1>3, <1>4, <1>5, <1>6, <1>7, <1>8, <1>9, <1>10, <1>11 DEF PlayStateNext

\* A request that nobody gets in the way of answers with what should be offered
\* of every series, whatever has been played, and with nothing that is finished,
\* if there is one row per episode (UpNextEpisodes, play_state.go:48).
THEOREM UpNextFollowsTheHighestAlways ==
  EpisodesDistinct => (PlayStateSpec => []UpNextFollowsTheHighest)
<1> SUFFICES ASSUME EpisodesDistinct PROVE PlayStateSpec => []UpNextFollowsTheHighest
  OBVIOUS
<1>1. PlayStateInit => AllRight
  BY DEF PlayStateInit, AllRight, RightUpNext
<1>2. PlayInv /\ AllRight /\ [PlayStateNext]_playVars => AllRight'
  BY RightNext
<1>3. PlayInv /\ AllRight => UpNextFollowsTheHighest
  <2> SUFFICES ASSUME PlayInv, AllRight, NEW n \in UpNext, Undisturbed(n),
                      NEW s \in Series, HeightsFit(s)
               PROVE  /\ OfferedOf(upNext[n], s) = Expected(upNext[n].user, s)
                      /\ OfferedOf(upNext[n], s) \subseteq Unwatched(upNext[n].user, s)
    BY DEF UpNextFollowsTheHighest, OfferedOf
  <2>1. upNext[n].todo = {} /\ ~Current(upNext[n]) /\ RightUpNext(upNext[n])
    BY DEF AllRight, RightUpNext, Undisturbed, Current
  <2> QED BY <2>1 DEF RightUpNext, Undisturbed
<1> QED BY PlayAlways, <1>1, <1>2, <1>3, PTL DEF PlayStateSpec
=============================================================================
