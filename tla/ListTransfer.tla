---------------------------- MODULE ListTransfer ----------------------------
(***************************************************************************)
(* The imports and exports of internal/api/v1/importexport.go, for one     *)
(* user and one tracker (MyAnimeList or AniList).  A job reads tables of   *)
(* Supabase and the tracker's list one request after the other, merges     *)
(* what it read, and writes back.  The user goes on watching, bookmarking  *)
(* and editing the tracker's list meanwhile, and any request may fail.     *)
(*                                                                         *)
(* Titles, dates and page sizes are left out.  A watch row is told apart   *)
(* as one an import has made (exactly 1440 of 1440 seconds), one the       *)
(* player has finished (95% or more), or one the player has opened.        *)
(***************************************************************************)
EXTENDS Integers, FiniteSets, FiniteSetsExt

CONSTANTS
    Provider,       \* "mal" or "anilist"
    Jobs,           \* what the user asks for: "import", "export"
    Format,         \* the AniList user's scoreFormat
    Title,
    Total, Ended,   \* what the metadata says: the episodes (0: unknown), the series that ended
    Noted,          \* the total stored with a bookmark (0: none)
    Entry,          \* the ids of the tracker's list,
    TitleOf,        \* the titles they are mapped to, if any,
    EntryOf,        \* and the other way around
    Last,           \* the highest episode number there is (a bound of the model)
    Status,         \* the statuses the user and the tracker start with
    Scores,         \* the user's scores, 0 for none
    Remarks,        \* the tracker's scores, in its own unit
    First,          \* what the user enters at the tracker, for each of its ids
    StatusColumn,   \* the bookmarks table has the status column
    FavoriteLimit,  \* the rows loadUserFavorites asks for
    importExportCap, importMaxWatchRows, exportWriteCap, exportAniListBatchSize,
    maxAttempts,    \* of anilistAuthedWithRetry
    Upsets,         \* what may go wrong while a job runs,
    MaxUpsets       \* and how often something does, or the user acts (bounds of the model)

ASSUME ListTransferAssumption ==
    /\ Provider \in {"mal", "anilist"} /\ Jobs \subseteq {"import", "export"}
    /\ IsFiniteSet(Title) /\ IsFiniteSet(Entry)
    /\ Last \in Nat \ {0}
    /\ Total \in [Title -> 0 .. Last] /\ Noted \in [Title -> 0 .. Last] /\ Ended \subseteq Title
    /\ TitleOf \in [Entry -> Title \union {"unmapped"}]
    /\ EntryOf \in [Title -> Entry \union {"unmapped"}] /\ "unmapped" \notin Title \union Entry
    /\ Provider = "anilist" => EntryOf \in [Title -> Entry]
    /\ Status \subseteq {"CURRENT", "PLANNING", "COMPLETED", "PAUSED", "DROPPED", "REPEATING"}
    /\ Scores \subseteq 0 .. 10 /\ Remarks \subseteq 0 .. 100
    /\ StatusColumn \in BOOLEAN
    /\ {FavoriteLimit, importExportCap, importMaxWatchRows, exportWriteCap,
        exportAniListBatchSize, maxAttempts, MaxUpsets} \subseteq Nat

VARIABLES
    marks,          \* the bookmarks table: "absent", "unset" or the canonical status
    history,        \* watch_history
    scores,         \* episode_ratings, averaged for the title
    remote,         \* the tracker's list
    job, stage,     \* the running job, and the request it is about to make
    favorites, seenMarks, seenHistory, seenScores, list,    \* what it has read
    blind,          \* the reads that failed
    todo,           \* the titles it has yet to deal with
    rows, ratings,  \* what an import is going to insert
    pending, batch, attempt,    \* what an AniList export is going to write
    exported, failed, limited,  \* its report
    upsets, edits

tables == <<marks, history, scores>>
reads  == <<favorites, seenMarks, seenHistory, seenScores, list, blind>>
plan   == <<todo, rows, ratings, pending, batch, attempt>>
report == <<exported, failed, limited>>
vars   == <<tables, remote, job, stage, reads, plan, report, upsets, edits>>

-----------------------------------------------------------------------------
Episode  == 1 .. Last
Row      == {"none", "import", "opened", "watched"}
Finished == {"import", "watched"}
Player   == {"opened", "watched"}
NoRows   == [e \in Episode |-> "none"]
NoTitle  == "unmapped"
Canonical == {"CURRENT", "PLANNING", "COMPLETED", "PAUSED", "DROPPED", "REPEATING"}
AtMost(n, S) == kSubset(IF Cardinality(S) < n THEN Cardinality(S) ELSE n, S)

(* The two trackers' names of the statuses.                                *)
statusForMAL(s) ==
    CASE s = "COMPLETED" -> "completed"
      [] s = "PAUSED"    -> "on_hold"
      [] s = "DROPPED"   -> "dropped"
      [] s = "PLANNING"  -> "plan_to_watch"
      [] OTHER           -> "watching"

normalizeMALStatus(s) ==
    CASE s = "completed"     -> "COMPLETED"
      [] s = "on_hold"       -> "PAUSED"
      [] s = "dropped"       -> "DROPPED"
      [] s = "plan_to_watch" -> "PLANNING"
      [] OTHER               -> "CURRENT"

Tracker(s) == IF Provider = "mal" THEN statusForMAL(s) ELSE s
Normal(s)  == IF Provider = "mal" THEN normalizeMALStatus(s) ELSE s

(* anilistScoreToTen; a MyAnimeList score is one of ten already.           *)
ToTen(s) ==
    LET ten == CASE Format = "POINT_100" -> (s + 5) \div 10
                 [] Format = "POINT_5"   -> s * 2
                 [] Format = "POINT_3"   -> (20 * s + 3) \div 6
                 [] OTHER                -> s
    IN  CASE s <= 0 -> 0 [] s > 0 /\ ten < 1 -> 1 [] ten > 10 -> 10 [] OTHER -> ten

(* What AniList keeps of the scoreRaw an export sends.                     *)
Raw(ten) ==
    CASE Format = "POINT_100" -> ten * 10
      [] Format = "POINT_5"   -> (ten + 1) \div 2
      [] Format = "POINT_3"   -> 1 + (ten \div 4)
      [] OTHER                -> ten

NoStatus == ""
NoEntry  == [status |-> NoStatus, progress |-> 0, score |-> 0]
Entries == {NoEntry} \union [status : {Tracker(s) : s \in Status},
                             progress : 0 .. Last, score : Remarks]
Listed(i) == list[i] # NoEntry

ASSUME FirstAssumption == First \in [Entry -> SUBSET Entries]

-----------------------------------------------------------------------------
(* foldWatchRows.                                                          *)
MaxRow(r)      == Max({0} \union {e \in Episode : r[e] # "none"})
Watched(r)     == Max({0} \union {e \in Episode : r[e] \in Finished})
RealEpisode(r) == Max({0} \union {e \in Episode : r[e] = "watched"})
Completed(r)   == MaxRow(r) > 0 /\ r[MaxRow(r)] \in Finished

exportCompleted(r, total, ended) ==
    IF total > 0 THEN Watched(r) >= total ELSE ended /\ Completed(r)

wantExportStatus(stored, r, done) ==
    CASE stored \in Canonical                   -> stored
      [] stored \notin Canonical /\ done        -> "COMPLETED"
      [] stored \notin Canonical /\ ~done /\ MaxRow(r) > 0 -> "CURRENT"
      [] OTHER                               -> "PLANNING"

exportProgressMirrored(r, stored, there) ==
    CASE stored = "PLANNING" -> [num |-> 0, write |-> TRUE]
      [] stored # "PLANNING" /\ Watched(r) = 0 -> [num |-> there, write |-> FALSE]
      [] OTHER -> [num |-> Watched(r), write |-> TRUE]

(* exportProgress: the count to write, and whether there is one to write.  *)
exportProgress(r, stored, there) ==
    CASE stored = "PLANNING" -> [num |-> 0, write |-> TRUE]
      [] stored # "PLANNING" /\ Watched(r) = 0 -> [num |-> there, write |-> FALSE]
      [] stored # "PLANNING" /\ Watched(r) \in 1 .. there ->
             [num |-> Watched(r), write |-> TRUE]
      [] OTHER -> IF RealEpisode(r) > there THEN [num |-> RealEpisode(r), write |-> TRUE]
                  ELSE [num |-> there, write |-> FALSE]

noEvidencePlanningFix(e, want) ==
    Normal(e.status) = "CURRENT" /\ e.progress = 0 /\ want = "PLANNING"

-----------------------------------------------------------------------------
(* What an export does about a title, from the rows r, the stored status m *)
(* and the score s it has read, and the tracker's entry e.                 *)
KnownTotal(t) ==
    IF "meta" \notin blind /\ Total[t] > 0 THEN Total[t]
    ELSE IF "status" \in blind \/ ~StatusColumn THEN 0 ELSE Noted[t]

WantStatus(t) ==
    wantExportStatus(seenMarks[t], seenHistory[t],
        exportCompleted(seenHistory[t], KnownTotal(t), "meta" \notin blind /\ t \in Ended))

NoEvidenceStored(t, e) ==
    /\ e # NoEntry /\ MaxRow(seenHistory[t]) = 0
    /\ seenMarks[t] \notin Canonical /\ ~noEvidencePlanningFix(e, WantStatus(t))

(* A bare favorite is no reason to rewrite what the tracker has.           *)
NoEvidence(t, e) ==
    /\ e # NoEntry /\ MaxRow(seenHistory[t]) = 0
    /\ \/ Normal(e.status) = "COMPLETED" /\ WantStatus(t) # "COMPLETED"
       \/ seenMarks[t] \notin Canonical /\ ~noEvidencePlanningFix(e, WantStatus(t))

Pushed(t, e) == exportProgress(seenHistory[t], seenMarks[t], e.progress)

Matches(t, e) ==
    /\ e # NoEntry
    /\ \/ Normal(e.status) = WantStatus(t)
       \/ Provider = "mal" /\ WantStatus(t) = "REPEATING" /\ Normal(e.status) = "CURRENT"
    /\ Pushed(t, e).write => e.progress = Pushed(t, e).num
    /\ seenScores[t] = 0 \/ ToTen(e.score) = seenScores[t]

Skipped(t, e) == NoEvidence(t, e) \/ Matches(t, e)

WrittenUnscaled(t, e) ==
    LET p == Pushed(t, list[EntryOf[t]]) IN
    [status   |-> Tracker(WantStatus(t)),
     progress |-> IF Provider = "anilist" \/ p.write THEN p.num ELSE e.progress,
     score    |-> IF seenScores[t] = 0 THEN e.score ELSE seenScores[t]]

(* The entry after the write.  MyAnimeList is sent a count only when there *)
(* is one to write; an AniList mutation always names one.                  *)
Written(t, e) ==
    LET p == Pushed(t, list[EntryOf[t]]) IN
    [status   |-> Tracker(WantStatus(t)),
     progress |-> IF Provider = "anilist" \/ p.write THEN p.num ELSE e.progress,
     score    |-> IF seenScores[t] = 0 THEN e.score ELSE Raw(seenScores[t])]

-----------------------------------------------------------------------------
(* What an import makes of the list it has read: the best entry of a title *)
(* counts, the one with most progress first, then a completed one, then    *)
(* the one with the higher score.                                          *)
EntriesOf(t) == {i \in Entry : TitleOf[i] = t /\ Listed(i)}
Imported     == {t \in Title : EntriesOf(t) # {}}

Better(a, b) ==
    LET completed(e) == IF Normal(e.status) = "COMPLETED" THEN 1 ELSE 0 IN
    \/ a.progress > b.progress
    \/ a.progress = b.progress /\ completed(a) > completed(b)
    \/ a.progress = b.progress /\ completed(a) = completed(b) /\ a.score > b.score

Best(t) ==
    list[CHOOSE i \in EntriesOf(t) : \A j \in EntriesOf(t) : ~Better(list[j], list[i])]

Wanted(t) ==
    LET total == IF "meta" \in blind THEN 0 ELSE Total[t]
        n     == IF Normal(Best(t).status) = "COMPLETED" /\ Best(t).progress = 0 THEN total
                 ELSE Best(t).progress
    IN  IF total > 0 /\ n > total THEN total ELSE n

Fresh == IF "favorites" \in blind THEN {} ELSE Imported \ favorites

Stored(t) == IF StatusColumn THEN Normal(Best(t).status) ELSE "unset"

(* A stored status is replaced while nothing has been watched here.        *)
Backfilled ==
    {t \in Imported \ Fresh :
        /\ seenMarks[t] # Normal(Best(t).status)
        /\ seenMarks[t] \in Canonical => "history" \notin blind /\ MaxRow(seenHistory[t]) = 0}

Trimmed(r, n) ==
    [e \in Episode |-> IF e > n /\ r[e] = "import" THEN "none" ELSE r[e]]

AppendedAll(t, r) == {t} \X (1 .. Wanted(t))

Appended(t, r) == {t} \X (MaxRow(r) + 1 .. Wanted(t))

Unrated(t) == "ratings" \notin blind /\ ToTen(Best(t).score) > 0 /\ seenScores[t] = 0

-----------------------------------------------------------------------------
(* The requests of a job, in the order of the handlers.                    *)
Stages ==
    CASE job = "import" ->
           <<"list", "favorites", "insert", "meta", "history", "ratings", "status",
             "backfill", "merge", "rows", "scores", "done">>
      [] job = "export" /\ Provider = "mal" ->
           <<"favorites", "map", "status", "history", "ratings", "meta", "list",
             "write", "done">>
      [] OTHER ->
           <<"favorites", "history", "status", "ratings", "meta", "list", "diff",
             "batch", "done">>

After == Stages[1 + CHOOSE i \in DOMAIN Stages : Stages[i] = stage]

Fine          == UNCHANGED upsets
Trouble(what) == what \in Upsets /\ upsets + edits < MaxUpsets /\ upsets' = upsets + 1
Step(s)       == stage = s /\ stage' = After /\ UNCHANGED <<job, edits>>
Refused(s)    == stage = s /\ stage' = "refused" /\ UNCHANGED <<job, edits>>

Forgotten ==
    /\ job' = "none" /\ stage' = "idle"
    /\ favorites' = {} /\ seenMarks' = [t \in Title |-> "absent"]
    /\ seenHistory' = [t \in Title |-> NoRows] /\ seenScores' = [t \in Title |-> 0]
    /\ list' = [i \in Entry |-> NoEntry] /\ blind' = {}
    /\ todo' = {} /\ rows' = {} /\ ratings' = {} /\ pending' = {} /\ batch' = {}
    /\ attempt' = 0 /\ exported' = {} /\ failed' = {} /\ limited' = FALSE
    /\ upsets' = 0 /\ edits' = 0

begin(j) ==
    /\ stage = "idle"
    /\ job' = j /\ stage' = IF j = "import" THEN "list" ELSE "favorites"
    /\ UNCHANGED <<tables, remote, reads, plan, report, upsets, edits>>

answer == stage \in {"done", "refused"} /\ Forgotten /\ UNCHANGED <<tables, remote>>

(* The client goes away or the process stops: what is written stays.       *)
abandon ==
    /\ stage \notin {"idle", "done", "refused"} /\ "cut" \in Upsets /\ upsets + edits < MaxUpsets
    /\ Forgotten /\ UNCHANGED <<tables, remote>>

-----------------------------------------------------------------------------
(* The reads.  Without the tracker's list there is no import, and without  *)
(* the favorites no export; an export goes on with the pages it has got.   *)
(* Of a MyAnimeList list the first 1000 entries are read.  That there are  *)
(* more nobody is told: "rest" is in blind for the properties alone, and   *)
(* no step asks for it.                                                    *)
Got(S) == list' = [i \in Entry |-> IF i \in S THEN remote[i] ELSE NoEntry]

readList ==
    /\ \/ Step("list") /\ Got(Entry) /\ Fine /\ UNCHANGED blind
       \/ /\ Step("list") /\ job = "export" /\ Trouble("tracker")
          /\ blind' = blind \union {"list"}
          /\ \E S \in SUBSET Entry : (Provider = "anilist" => S = {}) /\ Got(S)
       \/ /\ Step("list") /\ Provider = "mal" /\ Trouble("long")
          /\ blind' = blind \union {"rest"}
          /\ \E S \in SUBSET Entry : Got(S)
       \/ /\ Refused("list") /\ job = "import" /\ Trouble("tracker")
          /\ UNCHANGED <<list, blind>>
    /\ UNCHANGED <<tables, remote, favorites, seenMarks, seenHistory, seenScores, plan, report>>

(* An export deals with the first importExportCap of them.                 *)
readFavorites ==
    LET marked == {t \in Title : marks[t] # "absent"} IN
    /\ \/ /\ Step("favorites") /\ Fine /\ UNCHANGED blind
          /\ favorites' \in AtMost(FavoriteLimit, marked)
          /\ todo' \in (IF job = "import" THEN {Imported} ELSE AtMost(importExportCap, favorites'))
          /\ limited' = (job = "export" /\ todo' # favorites')
       \/ /\ Step("favorites") /\ job = "import" /\ Trouble("supabase")
          /\ blind' = blind \union {"favorites"} /\ todo' = Imported
          /\ UNCHANGED <<favorites, limited>>
       \/ /\ Refused("favorites") /\ job = "export" /\ Trouble("supabase")
          /\ UNCHANGED <<favorites, todo, limited, blind>>
    /\ UNCHANGED <<tables, remote, seenMarks, seenHistory, seenScores, list, rows, ratings,
                   pending, batch, attempt, exported, failed>>

mapTitles ==
    /\ \/ Step("map") /\ Fine
       \/ Refused("map") /\ Trouble("anilist")
    /\ UNCHANGED <<tables, remote, reads, plan, report>>

readStatus ==
    /\ Step("status")
    /\ \/ /\ Fine /\ UNCHANGED blind
          /\ seenMarks' = IF StatusColumn THEN marks ELSE seenMarks
       \/ /\ Trouble("supabase") /\ blind' = blind \union {"status"}
          /\ UNCHANGED seenMarks
    /\ UNCHANGED <<tables, remote, favorites, seenHistory, seenScores, list, plan, report>>

readHistory ==
    /\ Step("history")
    /\ \/ seenHistory' = history /\ Fine /\ UNCHANGED blind
       \/ /\ Trouble("supabase") /\ blind' = blind \union {"history"}
          /\ UNCHANGED seenHistory
    /\ UNCHANGED <<tables, remote, favorites, seenMarks, seenScores, list, plan, report>>

readScores ==
    /\ Step("ratings")
    /\ \/ seenScores' = scores /\ Fine /\ UNCHANGED blind
       \/ /\ Trouble("supabase") /\ blind' = blind \union {"ratings"}
          /\ UNCHANGED seenScores
    /\ UNCHANGED <<tables, remote, favorites, seenMarks, seenHistory, list, plan, report>>

readMeta ==
    /\ Step("meta")
    /\ \/ Fine /\ UNCHANGED blind
       \/ Trouble("anilist") /\ blind' = blind \union {"meta"}
    /\ UNCHANGED <<tables, remote, favorites, seenMarks, seenHistory, seenScores, list, plan,
                   report>>

-----------------------------------------------------------------------------
(* The writes of an import.  A batch that fails may have been written.     *)
Marked(S) == [t \in Title |-> IF t \in S THEN Stored(t) ELSE marks[t]]

insertBookmarks ==
    /\ Step("insert")
    /\ \/ Fine /\ marks' = Marked(Fresh)
       \/ Trouble("supabase") /\ \E S \in SUBSET Fresh : marks' = Marked(S)
    /\ UNCHANGED <<history, scores, remote, reads, plan, report>>

backfill ==
    /\ Step("backfill")
    /\ IF StatusColumn
       THEN \/ Fine /\ marks' = Marked(Backfilled)
            \/ Trouble("supabase") /\ \E S \in SUBSET Backfilled : marks' = Marked(S)
       ELSE UNCHANGED <<marks, upsets>>
    /\ UNCHANGED <<history, scores, remote, reads, plan, report>>

(* The last row is looked up again after a deletion.                       *)
maxWatchEpisodeNot(t, left) == seenHistory[t]
maxWatchEpisode(t, left) == left[t]

(* Rows an earlier import has made beyond the tracker's count are deleted, *)
(* and the episodes after the last row are to be added; a deletion that is *)
(* not seen to succeed leaves the old last row.                            *)
reconcile(t) ==
    IF "history" \in blind \/ limited
    THEN UNCHANGED <<history, rows, limited, upsets>>
    ELSE
    LET left == [history EXCEPT ![t] = Trimmed(@, Wanted(t))]
        gone == left # history
        add(r) == LET more == Appended(t, r)
                      room == importMaxWatchRows - Cardinality(rows)
                  IN  /\ rows' = rows \union {x \in more : x[2] <= MaxRow(r) + room}
                      /\ limited' = (Cardinality(more) > room)
    IN  IF MaxRow(seenHistory[t]) > Wanted(t)
        THEN \/ /\ history' = left /\ Fine
                /\ add(IF gone THEN maxWatchEpisode(t, left) ELSE seenHistory[t])
             \/ /\ history' \in {history, left} /\ Trouble("supabase")
                /\ add(seenHistory[t])
        ELSE add(seenHistory[t]) /\ Fine /\ UNCHANGED history

merge ==
    /\ stage = "merge" /\ UNCHANGED <<job, edits>>
    /\ \/ \E t \in todo :
            /\ reconcile(t)
            /\ ratings' = IF Unrated(t) THEN ratings \union {t} ELSE ratings
            /\ todo' = todo \ {t} /\ UNCHANGED stage
       \/ /\ todo = {} /\ stage' = After /\ Fine
          /\ UNCHANGED <<history, rows, ratings, todo, limited>>
    /\ UNCHANGED <<marks, scores, remote, reads, pending, batch, attempt, exported, failed>>

Inserted(S) == [t \in Title |-> [e \in Episode |->
                   IF <<t, e>> \in S THEN "import" ELSE history[t][e]]]

insertWatchHistoryRows ==
    /\ Step("rows")
    /\ \/ Fine /\ history' = Inserted(rows)
       \/ /\ Trouble("supabase")
          /\ \E S \in SUBSET rows :
               /\ \A x \in S, y \in rows : x[1] = y[1] /\ y[2] < x[2] => y \in S
               /\ history' = Inserted(S)
    /\ UNCHANGED <<marks, scores, remote, reads, plan, report>>

insertEpisodeRatings ==
    LET rated(S) == [t \in Title |-> IF t \in S THEN ToTen(Best(t).score) ELSE scores[t]] IN
    /\ Step("scores")
    /\ \/ Fine /\ scores' = rated(ratings)
       \/ Trouble("supabase") /\ \E S \in SUBSET ratings : scores' = rated(S)
    /\ UNCHANGED <<marks, history, remote, reads, plan, report>>

-----------------------------------------------------------------------------
(* ExportMAL writes one title after the other, while its time lasts.       *)
Wrote(S) == [i \in Entry |-> IF \E t \in S : EntryOf[t] = i
                             THEN Written(CHOOSE t \in S : EntryOf[t] = i, remote[i])
                             ELSE remote[i]]

write ==
    /\ stage = "write" /\ UNCHANGED <<job, edits>>
    /\ \/ \E t \in todo :
            /\ todo' = todo \ {t} /\ UNCHANGED <<stage, limited>>
            /\ IF EntryOf[t] = NoTitle \/ Skipped(t, list[EntryOf[t]])
               THEN UNCHANGED <<remote, exported, failed, upsets>>
               ELSE \/ /\ Fine /\ remote' = Wrote({t}) /\ exported' = exported \union {t}
                       /\ UNCHANGED failed
                    \/ /\ Trouble("tracker") /\ remote' \in {remote, Wrote({t})}
                       /\ failed' = failed \union {t} /\ UNCHANGED exported
       \/ /\ \/ todo = {} /\ Fine
             \/ todo # {} /\ Trouble("time")
          /\ stage' = After /\ todo' = {} /\ limited' = (limited \/ todo # {})
          /\ UNCHANGED <<remote, exported, failed>>
    /\ UNCHANGED <<tables, reads, rows, ratings, pending, batch, attempt>>

(* ExportAniList first collects what differs: the titles are looked at in  *)
(* the order of the favorites until exportWriteCap of them are pending.    *)
diff ==
    /\ Step("diff") /\ Fine
    /\ \E looked \in SUBSET todo :
         /\ pending' = {t \in looked : ~Skipped(t, list[EntryOf[t]])}
         /\ Cardinality(pending') <= exportWriteCap
         /\ looked # todo => Cardinality(pending') = exportWriteCap
         /\ limited' = (limited \/ looked # todo)
    /\ todo' = {}
    /\ UNCHANGED <<tables, remote, reads, rows, ratings, batch, attempt, exported, failed>>

(* One attempt to send a batch.  An answer with GraphQL errors is a        *)
(* failure of the batch whatever it has written, and some errors are tried *)
(* again.                                                                  *)
Dropped == pending' = pending \ batch /\ batch' = {} /\ attempt' = 0

tryAgain ==
    /\ attempt + 1 < maxAttempts /\ attempt' = attempt + 1
    /\ UNCHANGED <<pending, batch, failed>>

giveUp == failed' = failed \union batch /\ Dropped

send ==
    /\ stage = "batch" /\ batch # {}
    /\ \/ /\ Fine /\ remote' = Wrote(batch)
          /\ exported' = exported \union batch /\ Dropped /\ UNCHANGED failed
       \/ /\ Trouble("tracker")
          /\ \E S \in SUBSET batch : remote' = Wrote(S)
          /\ tryAgain \/ giveUp
          /\ UNCHANGED exported
    /\ UNCHANGED <<tables, job, stage, reads, todo, rows, ratings, limited, edits>>

nextBatch ==
    /\ stage = "batch" /\ batch = {} /\ pending # {} /\ Fine
    /\ batch' \in AtMost(exportAniListBatchSize, pending)
    /\ UNCHANGED <<tables, remote, job, stage, reads, todo, rows, ratings, pending, attempt,
                   report, edits>>

(* Everything is sent; or AniList still limits the rate after the last     *)
(* attempt, or the time is over, and the rest is left to the next export.  *)
endBatches ==
    /\ stage = "batch" /\ stage' = After
    /\ \/ pending = {} /\ Fine /\ UNCHANGED limited
       \/ pending # {} /\ Trouble("time") /\ limited' = TRUE
    /\ pending' = {} /\ batch' = {} /\ attempt' = 0
    /\ UNCHANGED <<tables, remote, job, reads, todo, rows, ratings, exported, failed, edits>>

-----------------------------------------------------------------------------
(* The user, while a job runs: what happens between two jobs is in Init.   *)
Acts ==
    /\ stage \notin {"idle", "done", "refused"} /\ upsets + edits < MaxUpsets /\ edits' = edits + 1
    /\ UNCHANGED <<job, stage, reads, plan, report, upsets>>

bookmark(t, m) ==
    /\ Acts /\ marks' = [marks EXCEPT ![t] = m]
    /\ UNCHANGED <<history, scores, remote>>

play(t, e, r) ==
    /\ Acts /\ history[t][e] # "watched" /\ history[t][e] # r
    /\ history' = [history EXCEPT ![t][e] = r] /\ UNCHANGED <<marks, scores, remote>>

rate(t, s) ==
    /\ Acts /\ scores' = [scores EXCEPT ![t] = s] /\ UNCHANGED <<marks, history, remote>>

track(i, e) ==
    /\ Acts /\ remote' = [remote EXCEPT ![i] = e] /\ UNCHANGED tables

-----------------------------------------------------------------------------
Mark == {"absent", "unset"} \union (IF StatusColumn THEN Status ELSE {})

Init ==
    /\ marks \in [Title -> Mark] /\ history \in [Title -> [Episode -> Row]]
    /\ scores \in [Title -> Scores] /\ remote \in [Entry -> UNION {First[i] : i \in Entry}]
    /\ \A i \in Entry : remote[i] \in First[i]
    /\ job = "none" /\ stage = "idle"
    /\ favorites = {} /\ seenMarks = [t \in Title |-> "absent"]
    /\ seenHistory = [t \in Title |-> NoRows] /\ seenScores = [t \in Title |-> 0]
    /\ list = [i \in Entry |-> NoEntry] /\ blind = {}
    /\ todo = {} /\ rows = {} /\ ratings = {} /\ pending = {} /\ batch = {}
    /\ attempt = 0 /\ exported = {} /\ failed = {} /\ limited = FALSE
    /\ upsets = 0 /\ edits = 0

Import == readList \/ readFavorites \/ insertBookmarks \/ readMeta \/ readHistory
            \/ readScores \/ readStatus \/ backfill \/ merge \/ insertWatchHistoryRows
            \/ insertEpisodeRatings
Export == mapTitles \/ write \/ diff \/ nextBatch \/ send \/ endBatches
Work   == Import \/ Export

User == \/ \E t \in Title, m \in Mark : bookmark(t, m)
        \/ \E t \in Title, e \in Episode, r \in Player : play(t, e, r)
        \/ \E t \in Title, s \in Scores \ {0} : rate(t, s)
        \/ \E i \in Entry : \E e \in First[i] \ {NoEntry} : track(i, e)

Next == Work \/ User \/ answer \/ abandon \/ \E j \in Jobs : begin(j)

Spec == Init /\ [][Next]_vars

-----------------------------------------------------------------------------
(* An import merges: the rows of the player and the ratings it has read    *)
(* are never written over, and without having read them it writes none.    *)
LocalKept ==
    [][edits' = edits /\ job' = "import" /\ stage \in {"merge", "rows", "scores"} =>
         \A t \in Title :
            /\ scores'[t] # scores[t] => "ratings" \notin blind /\ seenScores[t] = 0
            /\ \A e \in Episode : history'[t][e] # history[t][e] =>
                 "history" \notin blind /\ seenHistory[t][e] \notin Player]_vars

(* An export raises the tracker's count only to an episode the player has  *)
(* finished: what an import made up never comes back to the tracker.       *)
RaisedByPlayer ==
    [][edits' = edits /\ stage \in {"write", "batch"} =>
         \A t \in Title, i \in Entry :
            EntryOf[t] = i /\ remote'[i].progress > remote[i].progress /\ edits = 0
               => history[t][remote'[i].progress] = "watched"]_vars

(* An export that has read the whole of the tracker's list lowers a count  *)
(* only to what is finished here, or to none for a planned title, and      *)
(* takes a title out of the completed ones only when something of it is in *)
(* the history.                                                            *)
NothingTakenAway ==
    [][edits' = edits /\ stage \in {"write", "batch"} =>
         \A t \in Title, i \in Entry :
            EntryOf[t] = i /\ edits = 0 /\ blind \intersect {"list", "rest", "history"} = {} =>
               /\ remote'[i].progress < remote[i].progress =>
                    \/ remote'[i].progress = 0 /\ marks[t] = "PLANNING"
                    \/ remote'[i].progress = Watched(history[t])
               /\ Normal(remote[i].status) = "COMPLETED"
                    /\ Normal(remote'[i].status) # "COMPLETED" => MaxRow(history[t]) > 0]_vars

(* What an export does not settle it reports: every favorite is as it is   *)
(* wanted, or counted as failed, or the export says that it stopped early, *)
(* if it has read the whole list.                                          *)
NothingSilent ==
    job = "export" /\ stage = "done" /\ edits = 0 /\ blind \intersect {"list", "rest"} = {} =>
        \A t \in favorites :
            \/ EntryOf[t] = NoTitle \/ t \in failed \/ limited
            \/ Skipped(t, remote[EntryOf[t]])

(* A stored status that an import of the same list would write over.       *)
StatusDue(t) ==
    StatusColumn /\ marks[t] # Normal(Best(t).status)
        /\ (marks[t] \in Canonical => MaxRow(history[t]) = 0)

(* After an import that met no trouble and nobody disturbed, another one   *)
(* finds a bookmark with a status for every title, no row to add or to     *)
(* take back, no rating to fill in, and no status to write over but those  *)
(* of titles whose last made-up rows this very import has taken back: it   *)
(* spared their status for the sake of rows that are gone now.             *)
ImportSettles ==
    job = "import" /\ stage = "done" /\ upsets = 0 /\ edits = 0 /\ ~limited =>
        \A t \in Imported :
            /\ marks[t] # "absent" /\ (StatusColumn => marks[t] \in Canonical)
            /\ StatusDue(t) => MaxRow(seenHistory[t]) > Wanted(t)
            /\ Trimmed(history[t], Wanted(t)) = history[t]
            /\ MaxRow(history[t]) >= Wanted(t)
            /\ ToTen(Best(t).score) > 0 => scores[t] # 0

=============================================================================
