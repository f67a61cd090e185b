------------------------- MODULE ListTransferProofs -------------------------
(***************************************************************************)
(* Proofs about ListTransfer for any number of titles, episodes and        *)
(* entries at the tracker, and any trouble and edits.                      *)
(***************************************************************************)
EXTENDS ListTransfer, FiniteSetTheorems, WellFoundedInduction, TLAPS

LEMMA Numbers ==
    /\ Last \in Nat /\ Last > 0 /\ FavoriteLimit \in Nat /\ importExportCap \in Nat
    /\ importMaxWatchRows \in Nat /\ exportWriteCap \in Nat /\ exportAniListBatchSize \in Nat
    /\ maxAttempts \in Nat /\ MaxUpsets \in Nat
BY ListTransferAssumption

LEMMA LessThan == \A x, y \in Nat : <<y, x>> \in OpToRel(<, Nat) <=> y < x
<1> SUFFICES ASSUME NEW x \in Nat, NEW y \in Nat
             PROVE  <<y, x>> \in {p \in Nat \X Nat : p[1] < p[2]} <=> y < x
  BY Zenon DEF OpToRel
<1> QED OBVIOUS

LEMMA LeastOf ==
    ASSUME NEW S \in SUBSET Nat, S # {}
    PROVE  \E x \in S : \A y \in S : x <= y
<1>1. \E x \in S : \A y \in S : ~(<<y, x>> \in OpToRel(<, Nat))
  BY NatLessThanWellFounded, WFMin, Zenon
<1>2. \E x \in S : \A y \in S : ~(y < x)
  BY <1>1, LessThan, Zenon
<1> QED BY <1>2

(* A set of numbers up to n has a greatest one.                            *)
LEMMA GreatestOf ==
    ASSUME NEW n \in Nat, NEW S \in SUBSET (0 .. n), S # {}
    PROVE  \E x \in S : \A y \in S : x >= y
<1> DEFINE T == {n - x : x \in S}
<1>1. T \in SUBSET Nat /\ T # {}
  <2>1. \A x \in S : n - x \in Nat
    OBVIOUS
  <2> QED BY <2>1
<1> HIDE DEF T
<1>2. PICK m \in T : \A y \in T : m <= y
  BY <1>1, LeastOf
<1>3. PICK x \in S : m = n - x
  BY <1>2 DEF T
<1>4. \A y \in S : n - y \in T
  BY DEF T
<1> QED BY <1>2, <1>3, <1>4

LEMMA MaxIs ==
    ASSUME NEW n \in Nat, NEW S \in SUBSET (0 .. n), S # {}
    PROVE  Max(S) \in S /\ \A x \in S : x <= Max(S)
BY GreatestOf DEF Max

(* The last episode of some kinds of rows: one of them, or 0 if there is   *)
(* none, and none comes after it.                                          *)
IsLastOf(n, r, kinds) ==
    /\ n \in 0 .. Last
    /\ n > 0 => n \in Episode /\ r[n] \in kinds
    /\ \A e \in Episode : r[e] \in kinds => e <= n

LEMMA LastOf ==
    ASSUME NEW r \in [Episode -> Row], NEW kinds
    PROVE  IsLastOf(Max({0} \union {e \in Episode : r[e] \in kinds}), r, kinds)
<1> DEFINE S == {0} \union {e \in Episode : r[e] \in kinds}
<1>1. S \in SUBSET (0 .. Last) /\ S # {}
  BY Numbers DEF Episode
<1>2. Max(S) \in S /\ \A x \in S : x <= Max(S)
  BY <1>1, MaxIs, Numbers
<1> QED BY <1>1, <1>2 DEF IsLastOf

LEMMA RowMaxima ==
    ASSUME NEW r \in [Episode -> Row]
    PROVE  /\ IsLastOf(MaxRow(r), r, Row \ {"none"})
           /\ IsLastOf(Watched(r), r, Finished) /\ IsLastOf(RealEpisode(r), r, {"watched"})
<1>1. {e \in Episode : r[e] # "none"} = {e \in Episode : r[e] \in Row \ {"none"}}
  OBVIOUS
<1>2. {e \in Episode : r[e] = "watched"} = {e \in Episode : r[e] \in {"watched"}}
  OBVIOUS
<1>3. IsLastOf(MaxRow(r), r, Row \ {"none"})
  BY <1>1, LastOf DEF MaxRow
<1>4. IsLastOf(RealEpisode(r), r, {"watched"})
  BY <1>2, LastOf DEF RealEpisode
<1>5. IsLastOf(Watched(r), r, Finished)
  BY LastOf DEF Watched
<1> QED BY <1>3, <1>4, <1>5

-----------------------------------------------------------------------------
(* The types.                                                              *)
Marking   == {"absent", "unset"} \union Canonical
Tracked   == {Tracker(s) : s \in Canonical}
EntryType == {NoEntry} \union [status : Tracked, progress : 0 .. Last, score : 0 .. 100]
Histories == [Title -> [Episode -> Row]]

ImportStages == {"list", "favorites", "insert", "meta", "history", "ratings", "status",
                 "backfill", "merge", "rows", "scores", "done", "refused"}
ExportStages ==
    IF Provider = "mal"
    THEN {"favorites", "map", "status", "history", "ratings", "meta", "list", "write",
          "done", "refused"}
    ELSE {"favorites", "history", "status", "ratings", "meta", "list", "diff", "batch",
          "done", "refused"}

StageOK ==
    \/ job = "none" /\ stage = "idle"
    \/ job = "import" /\ stage \in ImportStages
    \/ job = "export" /\ stage \in ExportStages

(* The order of the requests.                                              *)
LEMMA ImportOrder ==
    ASSUME job = "import"
    PROVE  /\ stage = "list" => After = "favorites"
           /\ stage = "favorites" => After = "insert"
           /\ stage = "insert" => After = "meta"
           /\ stage = "meta" => After = "history"
           /\ stage = "history" => After = "ratings"
           /\ stage = "ratings" => After = "status"
           /\ stage = "status" => After = "backfill"
           /\ stage = "backfill" => After = "merge"
           /\ stage = "merge" => After = "rows"
           /\ stage = "rows" => After = "scores"
           /\ stage = "scores" => After = "done"
<1> DEFINE S == <<"list", "favorites", "insert", "meta", "history", "ratings", "status",
                  "backfill", "merge", "rows", "scores", "done">>
<1>1. Stages = S /\ DOMAIN S = 1 .. 12
  BY DEF Stages
<1>2. /\ S[1] = "list" /\ S[2] = "favorites" /\ S[3] = "insert" /\ S[4] = "meta"
      /\ S[5] = "history" /\ S[6] = "ratings" /\ S[7] = "status" /\ S[8] = "backfill"
      /\ S[9] = "merge" /\ S[10] = "rows" /\ S[11] = "scores" /\ S[12] = "done"
  OBVIOUS
<1> HIDE DEF S
<1>3. \A i, j \in 1 .. 12 : S[i] = S[j] => i = j
  BY <1>2
<1>4. \A i \in 1 .. 11 : stage = S[i] => After = S[i + 1]
  BY <1>1, <1>3 DEF After
<1> QED BY <1>2, <1>4

LEMMA MalExportOrder ==
    ASSUME job = "export", Provider = "mal"
    PROVE  /\ stage = "favorites" => After = "map"
           /\ stage = "map" => After = "status"
           /\ stage = "status" => After = "history"
           /\ stage = "history" => After = "ratings"
           /\ stage = "ratings" => After = "meta"
           /\ stage = "meta" => After = "list"
           /\ stage = "list" => After = "write"
           /\ stage = "write" => After = "done"
<1> DEFINE S == <<"favorites", "map", "status", "history", "ratings", "meta", "list",
                  "write", "done">>
<1>1. Stages = S /\ DOMAIN S = 1 .. 9
  BY DEF Stages
<1>2. /\ S[1] = "favorites" /\ S[2] = "map" /\ S[3] = "status" /\ S[4] = "history"
      /\ S[5] = "ratings" /\ S[6] = "meta" /\ S[7] = "list" /\ S[8] = "write" /\ S[9] = "done"
  OBVIOUS
<1> HIDE DEF S
<1>3. \A i, j \in 1 .. 9 : S[i] = S[j] => i = j
  BY <1>2
<1>4. \A i \in 1 .. 8 : stage = S[i] => After = S[i + 1]
  BY <1>1, <1>3 DEF After
<1> QED BY <1>2, <1>4

LEMMA AnilistExportOrder ==
    ASSUME job = "export", Provider = "anilist"
    PROVE  /\ stage = "favorites" => After = "history"
           /\ stage = "history" => After = "status"
           /\ stage = "status" => After = "ratings"
           /\ stage = "ratings" => After = "meta"
           /\ stage = "meta" => After = "list"
           /\ stage = "list" => After = "diff"
           /\ stage = "diff" => After = "batch"
           /\ stage = "batch" => After = "done"
<1> DEFINE S == <<"favorites", "history", "status", "ratings", "meta", "list", "diff",
                  "batch", "done">>
<1>1. Stages = S /\ DOMAIN S = 1 .. 9
  BY DEF Stages
<1>2. /\ S[1] = "favorites" /\ S[2] = "history" /\ S[3] = "status" /\ S[4] = "ratings"
      /\ S[5] = "meta" /\ S[6] = "list" /\ S[7] = "diff" /\ S[8] = "batch" /\ S[9] = "done"
  OBVIOUS
<1> HIDE DEF S
<1>3. \A i, j \in 1 .. 9 : S[i] = S[j] => i = j
  BY <1>2
<1>4. \A i \in 1 .. 8 : stage = S[i] => After = S[i + 1]
  BY <1>1, <1>3 DEF After
<1> QED BY <1>2, <1>4

(* The names of a status at the trackers, and back.                        *)
LEMMA Names ==
    /\ \A s \in Canonical : Tracker(s) \in Tracked /\ Normal(Tracker(s)) \in Canonical
    /\ \A e \in EntryType : e # NoEntry => e.status \in Tracked /\ Normal(e.status) \in Canonical
    /\ NoEntry.progress = 0 /\ NoEntry.score = 0
    /\ "COMPLETED" \in Canonical /\ Normal(Tracker("COMPLETED")) = "COMPLETED"
<1>1. \A s \in Canonical : Tracker(s) \in Tracked /\ Normal(Tracker(s)) \in Canonical
  <2>1. \A s \in Canonical : Normal(Tracker(s)) \in Canonical
    BY DEF Tracker, Normal, statusForMAL, normalizeMALStatus, Canonical
  <2> QED BY <2>1 DEF Tracked
<1>2. \A e \in EntryType : e # NoEntry => e.status \in Tracked /\ Normal(e.status) \in Canonical
  BY <1>1 DEF EntryType, Tracked
<1>3. NoEntry.progress = 0 /\ NoEntry.score = 0
  BY DEF NoEntry
<1>4. "COMPLETED" \in Canonical /\ Normal(Tracker("COMPLETED")) = "COMPLETED"
  BY DEF Tracker, Normal, statusForMAL, normalizeMALStatus, Canonical
<1> QED BY <1>1, <1>2, <1>3, <1>4

LEMMA NoStatusIs ==
    /\ NoStatus \notin {"completed", "COMPLETED"} /\ Normal(NoStatus) # "COMPLETED"
    /\ \A s \in Tracked : s # NoStatus
<1>1. \A s \in {"completed", "on_hold", "dropped", "plan_to_watch", "watching"} \union Canonical :
        NoStatus # s
  BY Zenon DEF NoStatus, Canonical
<1>2. Tracked \subseteq {"completed", "on_hold", "dropped", "plan_to_watch", "watching"} \union Canonical
  BY DEF Tracked, Tracker, statusForMAL
<1>3. NoStatus \notin {"completed", "COMPLETED"}
  BY <1>1 DEF Canonical
<1>4. Normal(NoStatus) # "COMPLETED"
  BY <1>3 DEF Normal, normalizeMALStatus
<1> QED BY <1>1, <1>2, <1>3, <1>4

LEMMA EntryNumbers ==
    ASSUME NEW e \in EntryType
    PROVE  e.progress \in 0 .. Last /\ e.score \in 0 .. 100
BY Names, Numbers DEF EntryType

LEMMA ScoresConvert ==
    /\ \A s \in 0 .. 100 : ToTen(s) \in 0 .. 10
    /\ \A s \in 0 .. 10 : Raw(s) \in 0 .. 100
<1>1. \A s \in 0 .. 100 : ToTen(s) \in 0 .. 10
  BY DEF ToTen
<1>2. \A s \in 0 .. 10 : Raw(s) \in 0 .. 100
  BY DEF Raw
<1> QED BY <1>1, <1>2

(* The entry of a title that counts is one of them, and none is better.    *)
LEMMA BestIs ==
    ASSUME list \in [Entry -> EntryType], NEW t \in Imported
    PROVE  \E i \in EntriesOf(t) : Best(t) = list[i] /\ \A j \in EntriesOf(t) : ~Better(list[j], list[i])
<1> DEFINE E == EntriesOf(t)
           done(e) == IF Normal(e.status) = "COMPLETED" THEN 1 ELSE 0
<1>1. E # {} /\ \A i \in E : /\ i \in Entry /\ list[i] \in EntryType /\ done(list[i]) \in 0 .. 1
                             /\ list[i].progress \in 0 .. Last /\ list[i].score \in 0 .. 100
  BY EntryNumbers DEF Imported, EntriesOf
<1> HIDE DEF E, done
<1>2. PICK p \in E : \A j \in E : list[p].progress >= list[j].progress
  <2> DEFINE S == {list[i].progress : i \in E}
  <2>1. S \in SUBSET (0 .. Last) /\ S # {}
    BY <1>1
  <2>2. PICK m \in S : \A x \in S : m >= x
    BY <2>1, GreatestOf, Numbers
  <2> QED BY <2>2
<1> DEFINE P == {i \in E : list[i].progress = list[p].progress}
<1>3. PICK q \in P : \A j \in P : done(list[q]) >= done(list[j])
  <2> DEFINE S == {done(list[i]) : i \in P}
  <2>1. S \in SUBSET (0 .. 1) /\ S # {}
    BY <1>1
  <2>2. PICK m \in S : \A x \in S : m >= x
    BY <2>1, GreatestOf
  <2> QED BY <2>2
<1> DEFINE Q == {i \in P : done(list[i]) = done(list[q])}
<1>4. PICK b \in Q : \A j \in Q : list[b].score >= list[j].score
  <2> DEFINE S == {list[i].score : i \in Q}
  <2>1. S \in SUBSET (0 .. 100) /\ S # {}
    BY <1>1
  <2>2. PICK m \in S : \A x \in S : m >= x
    BY <2>1, GreatestOf
  <2> QED BY <2>2
<1>5. \A j \in E : ~Better(list[j], list[b])
  <2> SUFFICES ASSUME NEW j \in E, Better(list[j], list[b]) PROVE FALSE
    OBVIOUS
  <2>1. b \in E /\ list[b].progress = list[p].progress /\ done(list[b]) = done(list[q])
    OBVIOUS
  <2>2. \/ list[j].progress > list[b].progress
        \/ list[j].progress = list[b].progress /\ done(list[j]) > done(list[b])
        \/ /\ list[j].progress = list[b].progress /\ done(list[j]) = done(list[b])
           /\ list[j].score > list[b].score
    BY DEF Better, done
  <2>3. list[j].progress = list[p].progress
    BY <1>1, <1>2, <2>1, <2>2
  <2>4. done(list[j]) = done(list[q])
    BY <1>1, <1>3, <2>1, <2>2, <2>3
  <2>5. list[b].score >= list[j].score
    BY <1>4, <2>3, <2>4
  <2>6. /\ list[j].progress = list[b].progress /\ done(list[j]) = done(list[b])
        /\ list[j].progress \in Int /\ done(list[b]) \in Int
        /\ list[j].score \in Int /\ list[b].score \in Int
    BY <1>1, <2>1, <2>3, <2>4, Numbers
  <2> QED BY <2>2, <2>5, <2>6
<1>6. \E i \in EntriesOf(t) : \A j \in EntriesOf(t) : ~Better(list[j], list[i])
  BY <1>5 DEF E
<1> QED BY <1>6 DEF Best

LEMMA BestType ==
    ASSUME list \in [Entry -> EntryType], NEW t \in Imported
    PROVE  /\ t \in Title /\ Normal(Best(t).status) \in Canonical
           /\ Best(t).progress \in 0 .. Last /\ ToTen(Best(t).score) \in 0 .. 10
           /\ Wanted(t) \in 0 .. Last
<1>1. PICK i \in EntriesOf(t) : Best(t) = list[i]
  BY BestIs
<1>2. list[i] \in EntryType /\ list[i] # NoEntry
  BY <1>1 DEF EntriesOf, Listed
<1>3. /\ t \in Title /\ Normal(Best(t).status) \in Canonical
      /\ Best(t).progress \in 0 .. Last /\ ToTen(Best(t).score) \in 0 .. 10
  BY <1>1, <1>2, Names, EntryNumbers, ScoresConvert DEF Imported
<1>4. Total[t] \in 0 .. Last
  BY <1>3, ListTransferAssumption
<1>5. Wanted(t) \in 0 .. Last
  BY <1>3, <1>4, Numbers DEF Wanted
<1> QED BY <1>3, <1>5

-----------------------------------------------------------------------------
(* The type invariant.                                                     *)
TablesOK ==
    /\ marks \in [Title -> Marking] /\ history \in Histories
    /\ scores \in [Title -> 0 .. 10] /\ remote \in [Entry -> EntryType]

ReadsOK ==
    /\ favorites \subseteq Title /\ seenMarks \in [Title -> Marking]
    /\ seenHistory \in Histories /\ seenScores \in [Title -> 0 .. 10]
    /\ list \in [Entry -> EntryType]

PlanOK ==
    /\ todo \subseteq Title /\ rows \subseteq Title \X Episode /\ ratings \subseteq Title
    /\ pending \subseteq Title /\ batch \subseteq pending
    /\ job = "import" => todo \subseteq Imported /\ ratings \subseteq Imported
    /\ stage = "list" /\ job = "import" => todo = {} /\ ratings = {} /\ rows = {}
    /\ stage # "batch" => pending = {}

(* Between two jobs nothing is remembered.                                 *)
Clean ==
    /\ favorites = {} /\ seenMarks = [t \in Title |-> "absent"]
    /\ seenHistory = [t \in Title |-> NoRows] /\ seenScores = [t \in Title |-> 0]
    /\ list = [i \in Entry |-> NoEntry] /\ blind = {}
    /\ todo = {} /\ rows = {} /\ ratings = {} /\ pending = {} /\ batch = {}
    /\ attempt = 0 /\ exported = {} /\ failed = {} /\ limited = FALSE
    /\ upsets = 0 /\ edits = 0

CleanOK == stage = "idle" => Clean

CountsOK == upsets \in Nat /\ edits \in Nat /\ limited \in BOOLEAN

TypeInv == TablesOK /\ ReadsOK /\ PlanOK /\ CountsOK /\ StageOK /\ CleanOK

(* What an export wants of a title and writes to its entry is well typed.  *)
LEMMA WantedStatus ==
    ASSUME NEW t
    PROVE  WantStatus(t) \in Canonical
BY DEF WantStatus, wantExportStatus, Canonical

LEMMA PushedType ==
    ASSUME ReadsOK, NEW t \in Title, NEW e \in EntryType
    PROVE  Pushed(t, e).num \in 0 .. Last /\ Pushed(t, e).write \in BOOLEAN
<1>1. seenHistory[t] \in [Episode -> Row]
  BY DEF ReadsOK, Histories
<1>2. Watched(seenHistory[t]) \in 0 .. Last /\ RealEpisode(seenHistory[t]) \in 0 .. Last
  BY <1>1, RowMaxima DEF IsLastOf
<1>3. e.progress \in 0 .. Last
  BY EntryNumbers
<1> QED BY <1>2, <1>3, Numbers DEF Pushed, exportProgress

LEMMA WrittenType ==
    ASSUME ReadsOK, NEW t \in Title, EntryOf[t] \in Entry, NEW e \in EntryType
    PROVE  Written(t, e) \in EntryType
<1>1. list[EntryOf[t]] \in EntryType /\ seenScores[t] \in 0 .. 10
  BY DEF ReadsOK
<1>2. Tracker(WantStatus(t)) \in Tracked
  BY WantedStatus, Names
<1> DEFINE p == Pushed(t, list[EntryOf[t]])
           n == IF Provider = "anilist" \/ p.write THEN p.num ELSE e.progress
           s == IF seenScores[t] = 0 THEN e.score ELSE Raw(seenScores[t])
<1>3. n \in 0 .. Last
  BY <1>1, PushedType, EntryNumbers
<1>4. s \in 0 .. 100
  BY <1>1, ScoresConvert, EntryNumbers
<1>5. Written(t, e) = [status |-> Tracker(WantStatus(t)), progress |-> n, score |-> s]
  BY Zenon DEF Written
<1> HIDE DEF n, s
<1> QED BY <1>2, <1>3, <1>4, <1>5 DEF EntryType

(* A write changes the entries of the titles that are written, each as one *)
(* of them has it.                                                         *)
LEMMA WroteIs ==
    ASSUME remote \in [Entry -> EntryType], NEW S \in SUBSET Title, NEW i \in Entry
    PROVE  /\ Wrote(S) \in [Entry -> {Wrote(S)[j] : j \in Entry}]
           /\ \/ /\ \A t \in S : EntryOf[t] # i
                 /\ Wrote(S)[i] = remote[i]
              \/ \E t \in S : EntryOf[t] = i /\ Wrote(S)[i] = Written(t, remote[i])
<1>1. Wrote(S)[i] = IF \E t \in S : EntryOf[t] = i
                    THEN Written(CHOOSE t \in S : EntryOf[t] = i, remote[i]) ELSE remote[i]
  BY DEF Wrote
<1>2. Wrote(S) \in [Entry -> {Wrote(S)[j] : j \in Entry}]
  BY DEF Wrote
<1>3. CASE \E t \in S : EntryOf[t] = i
  <2> DEFINE c == CHOOSE t \in S : EntryOf[t] = i
  <2>1. c \in S /\ EntryOf[c] = i
    BY <1>3
  <2>2. Wrote(S)[i] = Written(c, remote[i])
    BY <1>1, <1>3
  <2> QED BY <1>2, <2>1, <2>2
<1>4. CASE \A t \in S : EntryOf[t] # i
  BY <1>1, <1>2, <1>4
<1> QED BY <1>3, <1>4

LEMMA WroteType ==
    ASSUME ReadsOK, remote \in [Entry -> EntryType], NEW S \in SUBSET Title
    PROVE  Wrote(S) \in [Entry -> EntryType]
<1>1. \A i \in Entry : Wrote(S)[i] \in EntryType
  <2> TAKE i \in Entry
  <2>1. CASE Wrote(S)[i] = remote[i]
    BY <2>1
  <2>2. CASE \E t \in S : EntryOf[t] = i /\ Wrote(S)[i] = Written(t, remote[i])
    BY <2>2, WrittenType
  <2> QED BY <2>1, <2>2, WroteIs
<1>2. Wrote(S) = [i \in Entry |-> Wrote(S)[i]]
  BY DEF Wrote
<1> QED BY <1>1, <1>2

(* What an import stores and takes away.                                   *)
LEMMA StoredType ==
    ASSUME ReadsOK, TablesOK, NEW S \in SUBSET Imported
    PROVE  Marked(S) \in [Title -> Marking]
<1>1. \A t \in Imported : Stored(t) \in Marking
  BY BestType DEF Stored, Marking, ReadsOK
<1> QED BY <1>1 DEF Marked, TablesOK

LEMMA TrimmedType ==
    ASSUME NEW r \in [Episode -> Row], NEW n
    PROVE  Trimmed(r, n) \in [Episode -> Row]
BY DEF Trimmed, Row

(* What the user may enter is well typed.                                  *)
LEMMA EnteredType ==
    /\ Entries \subseteq EntryType /\ \A i \in Entry : First[i] \subseteq EntryType
    /\ Mark \subseteq Marking /\ Scores \subseteq 0 .. 10
<1>1. Status \subseteq Canonical /\ Remarks \subseteq 0 .. 100 /\ Scores \subseteq 0 .. 10
  BY ListTransferAssumption DEF Canonical
<1>2. Entries \subseteq EntryType
  BY <1>1 DEF Entries, EntryType, Tracked
<1>3. \A i \in Entry : First[i] \subseteq EntryType
  BY <1>2, FirstAssumption
<1>4. Mark \subseteq Marking
  BY <1>1 DEF Mark, Marking
<1> QED BY <1>1, <1>2, <1>3, <1>4

LEMMA InitTypes == Init => TypeInv
<1> SUFFICES ASSUME Init PROVE TypeInv
  OBVIOUS
<1>1. TablesOK
  <2>1. marks \in [Title -> Marking] /\ scores \in [Title -> 0 .. 10]
    BY EnteredType DEF Init
  <2>2. remote \in [Entry -> EntryType]
    BY EnteredType DEF Init
  <2> QED BY <2>1, <2>2 DEF Init, TablesOK, Histories
<1>2. ReadsOK
  BY Numbers DEF Init, ReadsOK, Marking, Histories, NoRows, Row, EntryType
<1>3. PlanOK /\ CountsOK /\ StageOK /\ CleanOK
  BY DEF Init, PlanOK, CountsOK, StageOK, CleanOK, Clean
<1> QED BY <1>1, <1>2, <1>3 DEF TypeInv

(* The stages follow one another.                                          *)
LEMMA StagesKept == StageOK /\ [Next]_vars => StageOK'
<1> SUFFICES ASSUME StageOK, [Next]_vars PROVE StageOK'
  OBVIOUS
<1>0. Provider \in {"mal", "anilist"} /\ Jobs \subseteq {"import", "export"}
  BY ListTransferAssumption
<1>1. ASSUME NEW s, Step(s) \/ Refused(s), s \notin {"idle", "done", "refused"} PROVE StageOK'
  <2>1. stage = s /\ job' = job
    BY <1>1 DEF Step, Refused
  <2>2. CASE Refused(s)
    BY <1>1, <2>1, <2>2 DEF Refused, StageOK, ImportStages, ExportStages
  <2>3. CASE Step(s) /\ job = "import"
    <3>1. stage \in ImportStages
      BY <2>3 DEF StageOK
    <3>2. stage' \in ImportStages
      BY <1>1, <2>1, <2>3, <3>1, ImportOrder DEF Step, ImportStages
    <3> QED BY <2>1, <2>3, <3>2 DEF StageOK
  <2>4. CASE Step(s) /\ job = "export" /\ Provider = "mal"
    <3>1. stage \in ExportStages
      BY <2>4 DEF StageOK
    <3>2. stage' \in ExportStages
      BY <1>1, <2>1, <2>4, <3>1, MalExportOrder DEF Step, ExportStages
    <3> QED BY <2>1, <2>4, <3>2 DEF StageOK
  <2>5. CASE Step(s) /\ job = "export" /\ Provider = "anilist"
    <3>1. stage \in ExportStages
      BY <2>5 DEF StageOK
    <3>2. stage' \in ExportStages
      BY <1>1, <2>1, <2>5, <3>1, AnilistExportOrder DEF Step, ExportStages
    <3> QED BY <2>1, <2>5, <3>2 DEF StageOK
  <2> QED BY <1>0, <1>1, <2>1, <2>2, <2>3, <2>4, <2>5 DEF StageOK
<1>2. ASSUME NEW s \in {"merge", "write", "batch"}, stage = s, stage' = After, job' = job
      PROVE  StageOK'
  <2>1. CASE s = "merge"
    BY <1>2, <2>1, ImportOrder DEF StageOK, ImportStages, ExportStages
  <2>2. CASE s = "write"
    <3>1. job = "export" /\ Provider = "mal"
      BY <1>0, <1>2, <2>2 DEF StageOK, ImportStages, ExportStages
    <3> QED BY <1>2, <2>2, <3>1, MalExportOrder DEF StageOK, ExportStages
  <2>3. CASE s = "batch"
    <3>1. job = "export" /\ Provider = "anilist"
      BY <1>0, <1>2, <2>3 DEF StageOK, ImportStages, ExportStages
    <3> QED BY <1>2, <2>3, <3>1, AnilistExportOrder DEF StageOK, ExportStages
  <2> QED BY <2>1, <2>2, <2>3
<1>3. CASE Import \/ mapTitles \/ diff
  <2>1. CASE merge
    BY <1>2, <2>1 DEF merge, StageOK
  <2>2. CASE ~merge
    <3>1. \E s : (Step(s) \/ Refused(s)) /\ s \notin {"idle", "done", "refused"}
      BY <1>3, <2>2 DEF Import, readList, readFavorites, insertBookmarks, readMeta, readHistory,
         readScores, readStatus, backfill, insertWatchHistoryRows, insertEpisodeRatings,
         mapTitles, diff
    <3> QED BY <1>1, <3>1
  <2> QED BY <2>1, <2>2
<1>4. CASE write \/ nextBatch \/ send \/ endBatches
  <2>1. \/ job' = job /\ stage' = stage
        \/ job' = job /\ stage' = After /\ stage \in {"write", "batch"}
    BY <1>4 DEF write, nextBatch, send, endBatches
  <2> QED BY <1>2, <2>1 DEF StageOK
<1>5. CASE answer \/ abandon
  BY <1>5 DEF answer, abandon, Forgotten, StageOK
<1>6. CASE \E j \in Jobs : begin(j)
  <2>1. PICK j \in {"import", "export"} : begin(j)
    BY <1>0, <1>6
  <2>2. job' = j /\ stage' = IF j = "import" THEN "list" ELSE "favorites"
    BY <2>1 DEF begin
  <2> QED BY <1>0, <2>2 DEF StageOK, ImportStages, ExportStages
<1>7. CASE User \/ UNCHANGED vars
  BY <1>7 DEF User, bookmark, play, rate, track, Acts, vars, StageOK
<1> QED BY <1>3, <1>4, <1>5, <1>6, <1>7 DEF Next, Work, Export

(* Reconciling a title leaves well-typed rows and plans.                   *)
LEMMA ReconcileType ==
    ASSUME TypeInv, NEW t \in Imported, reconcile(t)
    PROVE  /\ history' \in Histories
           /\ rows \subseteq rows' /\ rows' \subseteq rows \union ({t} \X Episode)
           /\ limited' \in BOOLEAN
<1> DEFINE left == [history EXCEPT ![t] = Trimmed(@, Wanted(t))]
           more(r) == Appended(t, r)
           room == importMaxWatchRows - Cardinality(rows)
           add(r) == /\ rows' = rows \union {x \in more(r) : x[2] <= MaxRow(r) + room}
                     /\ limited' = (Cardinality(more(r)) > room)
<1>1. t \in Title /\ Wanted(t) \in 0 .. Last
  BY BestType DEF TypeInv, ReadsOK
<1>2. history \in Histories /\ seenHistory \in Histories
  BY DEF TypeInv, TablesOK, ReadsOK
<1>3. left \in Histories
  BY <1>1, <1>2, TrimmedType DEF Histories
<1>4. seenHistory[t] \in [Episode -> Row] /\ maxWatchEpisode(t, left) \in [Episode -> Row]
  BY <1>1, <1>2, <1>3 DEF Histories, maxWatchEpisode
<1>5. ASSUME NEW r \in [Episode -> Row] PROVE more(r) \subseteq {t} \X Episode
  <2>1. MaxRow(r) \in 0 .. Last
    BY <1>5, RowMaxima DEF IsLastOf
  <2> QED BY <1>1, <2>1, Numbers DEF Appended, Episode
<1>6. ASSUME NEW r \in [Episode -> Row], add(r)
      PROVE  /\ rows \subseteq rows' /\ rows' \subseteq rows \union ({t} \X Episode)
             /\ limited' \in BOOLEAN
  <2>1. rows \subseteq rows' /\ rows' \subseteq rows \union ({t} \X Episode)
    BY <1>5, <1>6
  <2>2. limited' \in BOOLEAN
    BY <1>6
  <2> QED BY <2>1, <2>2
<1> HIDE DEF left, more, room
<1>7. CASE "history" \in blind \/ limited
  BY <1>2, <1>7 DEF reconcile, TypeInv, CountsOK
<1>8. CASE ~("history" \in blind \/ limited)
  <2>1. history' \in {history, left}
    BY <1>8, Zenon DEF reconcile, left
  <2>2. add(seenHistory[t]) \/ add(maxWatchEpisode(t, left))
    <3>1. CASE left # history
      BY <1>8, <3>1, Zenon DEF reconcile, left, more, room
    <3>2. CASE left = history
      BY <1>8, <3>2, Zenon DEF reconcile, left, more, room
    <3> QED BY <3>1, <3>2
  <2> QED BY <1>2, <1>3, <1>4, <1>6, <2>1, <2>2
<1> QED BY <1>7, <1>8

(* The numbers of what went wrong and of the user's acts.                  *)
LEMMA CountsKept == TypeInv /\ [Next]_vars => CountsOK'
<1> SUFFICES ASSUME TypeInv, [Next]_vars PROVE CountsOK'
  OBVIOUS
<1>1. upsets \in Nat /\ edits \in Nat /\ limited \in BOOLEAN
  BY DEF TypeInv, CountsOK
<1>2. edits' \in Nat
  <2>1. CASE Work
    <3>1. edits' = edits
      BY <2>1 DEF Work, Import, Export, readList, readFavorites, insertBookmarks, readMeta,
         readHistory, readScores, readStatus, backfill, merge, insertWatchHistoryRows,
         insertEpisodeRatings, mapTitles, write, diff, nextBatch, send, endBatches, Step, Refused
    <3> QED BY <1>1, <3>1
  <2>2. CASE User
    BY <1>1, <2>2 DEF User, bookmark, play, rate, track, Acts
  <2>3. CASE answer \/ abandon \/ (\E j \in Jobs : begin(j)) \/ UNCHANGED vars
    BY <1>1, <2>3 DEF answer, abandon, Forgotten, begin, vars
  <2> QED BY <2>1, <2>2, <2>3 DEF Next
<1>3. upsets' \in Nat
  <2>1. CASE Fine \/ \E what : Trouble(what)
    BY <1>1, <2>1 DEF Fine, Trouble
  <2>2. CASE User \/ (\E j \in Jobs : begin(j)) \/ UNCHANGED vars
    BY <1>1, <2>2 DEF User, bookmark, play, rate, track, Acts, begin, vars
  <2>3. CASE answer \/ abandon
    BY <2>3 DEF answer, abandon, Forgotten
  <2>4. CASE Work
    <3>1. upsets' = upsets \/ Fine \/ \E what : Trouble(what)
      BY <2>4, Zenon DEF Work, Import, Export, readList, readFavorites, insertBookmarks, readMeta,
         readHistory, readScores, readStatus, backfill, merge, reconcile, insertWatchHistoryRows,
         insertEpisodeRatings, mapTitles, write, diff, nextBatch, send, endBatches, Fine
    <3> QED BY <1>1, <2>1, <3>1
  <2> QED BY <2>2, <2>3, <2>4 DEF Next
<1>4. limited' \in BOOLEAN
  <2>1. CASE Import
    <3>1. CASE readFavorites
      BY <1>1, <3>1 DEF readFavorites
    <3>2. CASE merge
      <4>1. CASE \E t \in todo : reconcile(t)
        <5>1. job = "import"
          BY <3>2 DEF merge, TypeInv, StageOK, ExportStages
        <5> QED BY <4>1, <5>1, ReconcileType DEF TypeInv, PlanOK
      <4>2. CASE limited' = limited
        BY <1>1, <4>2
      <4> QED BY <3>2, <4>1, <4>2 DEF merge
    <3>3. CASE ~readFavorites /\ ~merge
      BY <1>1, <2>1, <3>3 DEF Import, readList, insertBookmarks, readMeta,
         readHistory, readScores, readStatus, backfill, insertWatchHistoryRows,
         insertEpisodeRatings, report
    <3> QED BY <3>1, <3>2, <3>3
  <2>2. CASE Export
    BY <1>1, <2>2 DEF Export, mapTitles, write, diff, nextBatch, send, endBatches, report
  <2>3. CASE User \/ answer \/ abandon \/ (\E j \in Jobs : begin(j)) \/ UNCHANGED vars
    BY <1>1, <2>3 DEF User, bookmark, play, rate, track, Acts, answer, abandon, Forgotten, begin,
       vars, report
  <2> QED BY <2>1, <2>2, <2>3 DEF Next, Work
<1> QED BY <1>2, <1>3, <1>4 DEF CountsOK

LEMMA TablesKept == TypeInv /\ [Next]_vars => TablesOK'
<1> SUFFICES ASSUME TypeInv, [Next]_vars PROVE TablesOK'
  OBVIOUS
<1>1. TablesOK /\ ReadsOK /\ PlanOK /\ StageOK
  BY DEF TypeInv
<1>2. ASSUME UNCHANGED <<tables, remote>> PROVE TablesOK'
  BY <1>1, <1>2 DEF tables, TablesOK
<1>3. CASE readList \/ readFavorites \/ readMeta \/ readHistory \/ readScores \/ readStatus
             \/ mapTitles \/ diff \/ nextBatch \/ endBatches \/ answer \/ abandon
             \/ (\E j \in Jobs : begin(j)) \/ UNCHANGED vars
  BY <1>2, <1>3 DEF readList, readFavorites, readMeta, readHistory, readScores, readStatus,
     mapTitles, diff, nextBatch, endBatches, answer, abandon, begin, vars
<1>4. CASE insertBookmarks \/ backfill
  <2>1. Fresh \subseteq Imported /\ Backfilled \subseteq Imported
    BY DEF Fresh, Backfilled
  <2>2. marks' = marks \/ \E S \in SUBSET Imported : marks' = Marked(S)
    BY <1>4, <2>1 DEF insertBookmarks, backfill
  <2>3. marks' \in [Title -> Marking]
    BY <1>1, <2>2, StoredType DEF TablesOK
  <2> QED BY <1>1, <1>4, <2>3 DEF insertBookmarks, backfill, TablesOK
<1>5. CASE merge
  <2>1. job = "import"
    BY <1>1, <1>5 DEF merge, StageOK, ExportStages
  <2>2. history' \in Histories
    <3>1. CASE \E t \in todo : reconcile(t)
      BY <1>1, <2>1, <3>1, ReconcileType DEF PlanOK
    <3>2. CASE history' = history
      BY <1>1, <3>2 DEF TablesOK
    <3> QED BY <1>5, <3>1, <3>2 DEF merge
  <2> QED BY <1>1, <1>5, <2>2 DEF merge, TablesOK
<1>6. CASE insertWatchHistoryRows
  <2>1. PICK S : history' = Inserted(S)
    BY <1>6 DEF insertWatchHistoryRows
  <2>2. history' \in Histories
    BY <1>1, <2>1 DEF Inserted, TablesOK, Histories, Row
  <2> QED BY <1>1, <1>6, <2>2 DEF insertWatchHistoryRows, TablesOK
<1>7. CASE insertEpisodeRatings
  <2>1. job = "import"
    BY <1>1, <1>7 DEF insertEpisodeRatings, Step, StageOK, ExportStages
  <2>2. PICK S \in SUBSET ratings :
          scores' = [t \in Title |-> IF t \in S THEN ToTen(Best(t).score) ELSE scores[t]]
    BY <1>7 DEF insertEpisodeRatings
  <2>3. \A t \in S : ToTen(Best(t).score) \in 0 .. 10
    BY <1>1, <2>1, <2>2, BestType DEF PlanOK, ReadsOK
  <2>4. scores' \in [Title -> 0 .. 10]
    BY <1>1, <2>2, <2>3 DEF TablesOK
  <2> QED BY <1>1, <1>7, <2>4 DEF insertEpisodeRatings, TablesOK
<1>8. CASE write \/ send
  <2>1. remote' = remote \/ \E S \in SUBSET Title : remote' = Wrote(S)
    <3>1. CASE write
      BY <1>1, <3>1 DEF write, PlanOK
    <3>2. CASE send
      BY <1>1, <3>2 DEF send, PlanOK
    <3> QED BY <1>8, <3>1, <3>2
  <2>2. remote' \in [Entry -> EntryType]
    BY <1>1, <2>1, WroteType DEF TablesOK
  <2> QED BY <1>1, <1>8, <2>2 DEF write, send, tables, TablesOK
<1>9. CASE User
  <2>1. CASE \E t \in Title, m \in Mark : bookmark(t, m)
    BY <1>1, <2>1, EnteredType DEF bookmark, TablesOK
  <2>2. CASE \E t \in Title, e \in Episode, r \in Player : play(t, e, r)
    BY <1>1, <2>2 DEF play, TablesOK, Histories, Player, Row
  <2>3. CASE \E t \in Title, s \in Scores \ {0} : rate(t, s)
    BY <1>1, <2>3, EnteredType DEF rate, TablesOK
  <2>4. CASE \E i \in Entry : \E e \in First[i] \ {NoEntry} : track(i, e)
    BY <1>1, <2>4, EnteredType DEF track, tables, TablesOK
  <2> QED BY <1>9, <2>1, <2>2, <2>3, <2>4 DEF User
<1> QED BY <1>3, <1>4, <1>5, <1>6, <1>7, <1>8, <1>9 DEF Next, Work, Import, Export

LEMMA ReadsKept == TypeInv /\ [Next]_vars => ReadsOK'
<1> SUFFICES ASSUME TypeInv, [Next]_vars PROVE ReadsOK'
  OBVIOUS
<1>1. TablesOK /\ ReadsOK /\ PlanOK /\ StageOK
  BY DEF TypeInv
<1>2. ASSUME UNCHANGED reads PROVE ReadsOK'
  BY <1>1, <1>2 DEF reads, ReadsOK
<1>3. CASE insertBookmarks \/ backfill \/ merge \/ insertWatchHistoryRows
             \/ insertEpisodeRatings \/ Export \/ User \/ (\E j \in Jobs : begin(j))
             \/ UNCHANGED vars
  BY <1>2, <1>3 DEF insertBookmarks, backfill, merge, insertWatchHistoryRows, insertEpisodeRatings,
     Export, mapTitles, write, diff, nextBatch, send, endBatches, User, bookmark, play, rate,
     track, Acts, begin, vars
<1>4. CASE readList
  <2>1. \A S : [i \in Entry |-> IF i \in S THEN remote[i] ELSE NoEntry] \in [Entry -> EntryType]
    BY <1>1 DEF TablesOK, EntryType
  <2>2. list' = list \/ \E S : Got(S)
    BY <1>4 DEF readList
  <2>3. list' \in [Entry -> EntryType]
    BY <1>1, <2>1, <2>2 DEF ReadsOK, Got
  <2> QED BY <1>1, <1>4, <2>3 DEF readList, ReadsOK
<1>5. CASE readFavorites
  <2>1. favorites' \subseteq Title
    BY <1>1, <1>5 DEF readFavorites, AtMost, kSubset, ReadsOK
  <2> QED BY <1>1, <1>5, <2>1 DEF readFavorites, ReadsOK
<1>6. CASE readMeta \/ readHistory \/ readScores \/ readStatus
  BY <1>1, <1>6 DEF readMeta, readHistory, readScores, readStatus, ReadsOK, TablesOK
<1>7. CASE answer \/ abandon
  BY <1>7, Numbers DEF answer, abandon, Forgotten, ReadsOK, Marking, Histories, NoRows, Row,
     EntryType
<1> QED BY <1>3, <1>4, <1>5, <1>6, <1>7 DEF Next, Work, Import

LEMMA CleanKept == TypeInv /\ [Next]_vars => CleanOK'
<1> SUFFICES ASSUME TypeInv, [Next]_vars, stage' = "idle" PROVE Clean'
  BY DEF CleanOK
<1>0. StageOK /\ CleanOK /\ job' = "none"
  BY StagesKept DEF TypeInv, StageOK, ImportStages, ExportStages
<1>1. CASE UNCHANGED vars
  BY <1>0, <1>1 DEF vars, reads, plan, report, CleanOK, Clean
<1>2. CASE answer \/ abandon
  BY <1>2 DEF answer, abandon, Forgotten, Clean
<1>3. CASE User \/ \E j \in Jobs : begin(j)
  BY <1>3 DEF User, bookmark, play, rate, track, Acts, begin
<1>4. CASE Work
  <2>1. job' = job /\ stage # "idle"
    BY <1>4 DEF Work, Import, Export, readList, readFavorites, insertBookmarks, readMeta,
         readHistory, readScores, readStatus, backfill, merge, insertWatchHistoryRows,
         insertEpisodeRatings, mapTitles, write, diff, nextBatch, send, endBatches, Step, Refused
  <2> QED BY <1>0, <2>1 DEF StageOK
<1> QED BY <1>1, <1>2, <1>3, <1>4 DEF Next

LEMMA PlanKept == TypeInv /\ [Next]_vars => PlanOK'
<1> SUFFICES ASSUME TypeInv, [Next]_vars PROVE PlanOK'
  OBVIOUS
<1>1. ReadsOK /\ PlanOK /\ StageOK /\ CleanOK
  BY DEF TypeInv
<1>2. ASSUME list' = list PROVE Imported' = Imported
  BY <1>2 DEF Imported, EntriesOf, Listed
<1>3. ASSUME NEW s, Step(s) \/ Refused(s), s \notin {"idle", "done", "refused"}
      PROVE  stage' # "list" \/ job' # "import"
  <2>1. CASE job = "import"
    BY <1>1, <1>3, <2>1, ImportOrder DEF Step, Refused, StageOK, ImportStages
  <2> QED BY <1>3, <2>1 DEF Step, Refused
<1>4. CASE readFavorites
  <2>1. /\ Imported' = Imported /\ (stage' # "list" \/ job' # "import") /\ job' = job
        /\ pending' = {} /\ batch' = {}
    BY <1>1, <1>2, <1>3, <1>4 DEF readFavorites, Step, Refused, PlanOK
  <2>2. \/ todo' = todo
        \/ job = "import" /\ todo' = Imported
        \/ job # "import" /\ todo' \subseteq favorites' /\ favorites' \subseteq Title
    BY <1>1, <1>4 DEF readFavorites, AtMost, kSubset, StageOK, Step, Refused
  <2>3. todo' \subseteq Title /\ (job = "import" => todo' \subseteq Imported)
    BY <1>1, <2>2 DEF PlanOK, Imported
  <2> QED BY <1>1, <1>4, <2>1, <2>3 DEF readFavorites, PlanOK
<1>5. CASE readList
  <2>1. CASE job = "import"
    BY <1>1, <1>3, <1>5, <2>1 DEF readList, plan, PlanOK, Step, Refused
  <2>2. CASE job # "import"
    BY <1>1, <1>5, <2>2 DEF readList, plan, PlanOK, Step, Refused
  <2> QED BY <2>1, <2>2
<1>6. CASE merge
  <2>1. job = "import" /\ job' = job /\ Imported' = Imported /\ stage = "merge"
    BY <1>1, <1>2, <1>6 DEF merge, reads, StageOK, ExportStages
  <2>2. stage' # "list"
    BY <1>6, <2>1, ImportOrder DEF merge
  <2>3. rows' \subseteq Title \X Episode
    <3>1. CASE \E t \in todo : reconcile(t)
      BY <1>1, <2>1, <3>1, ReconcileType DEF PlanOK
    <3>2. CASE rows' = rows
      BY <1>1, <3>2 DEF PlanOK
    <3> QED BY <1>6, <3>1, <3>2 DEF merge
  <2>4. todo' \subseteq todo /\ ratings' \subseteq ratings \union todo
    BY <1>6 DEF merge
  <2> QED BY <1>1, <1>6, <2>1, <2>2, <2>3, <2>4 DEF merge, PlanOK
<1>7. CASE insertBookmarks \/ readMeta \/ readHistory \/ readScores \/ readStatus \/ backfill
             \/ insertWatchHistoryRows \/ insertEpisodeRatings \/ mapTitles
  <2>1. \E s : (Step(s) \/ Refused(s)) /\ s \notin {"idle", "done", "refused", "batch"}
    BY <1>7 DEF insertBookmarks, readMeta, readHistory, readScores, readStatus, backfill,
       insertWatchHistoryRows, insertEpisodeRatings, mapTitles
  <2>2. UNCHANGED plan /\ list' = list
    BY <1>7 DEF insertBookmarks, readMeta, readHistory, readScores, readStatus, backfill,
       insertWatchHistoryRows, insertEpisodeRatings, mapTitles, reads
  <2> QED BY <1>1, <1>2, <1>3, <2>1, <2>2 DEF plan, PlanOK, Step, Refused
<1>8. CASE write \/ diff \/ nextBatch \/ send \/ endBatches
  <2>1. job = "export" /\ job' = "export"
    BY <1>1, <1>8 DEF write, diff, nextBatch, send, endBatches, Step, StageOK, ImportStages
  <2>2. /\ todo' \subseteq todo /\ rows' = rows /\ ratings' = ratings
        /\ pending' \subseteq pending \union todo /\ batch' \subseteq pending'
        /\ stage' # "batch" => pending' = {}
    <3>1. CASE write
      BY <1>1, <3>1 DEF write, PlanOK
    <3>2. CASE diff
      <4>1. Provider = "anilist" /\ stage = "diff"
        BY <1>1, <2>1, <3>2, ListTransferAssumption DEF diff, Step, StageOK, ExportStages
      <4>2. stage' = "batch"
        BY <2>1, <3>2, <4>1, AnilistExportOrder DEF diff, Step
      <4> QED BY <1>1, <3>2, <4>1, <4>2 DEF diff, PlanOK
    <3>3. CASE nextBatch
      BY <1>1, <3>3 DEF nextBatch, report, AtMost, kSubset, PlanOK
    <3>4. CASE send
      BY <1>1, <3>4 DEF send, Dropped, tryAgain, giveUp, PlanOK
    <3>5. CASE endBatches
      BY <1>1, <3>5 DEF endBatches, PlanOK
    <3> QED BY <1>8, <3>1, <3>2, <3>3, <3>4, <3>5
  <2> QED BY <1>1, <2>1, <2>2 DEF PlanOK
<1>9. CASE User \/ UNCHANGED vars
  <2>1. UNCHANGED <<reads, plan, job, stage>>
    BY <1>9 DEF User, bookmark, play, rate, track, Acts, vars
  <2> QED BY <1>1, <1>2, <2>1 DEF reads, plan, PlanOK
<1>10. CASE answer \/ abandon
  BY <1>10 DEF answer, abandon, Forgotten, PlanOK
<1>11. CASE \E j \in Jobs : begin(j)
  BY <1>1, <1>11 DEF begin, reads, plan, CleanOK, Clean, PlanOK
<1> QED BY <1>4, <1>5, <1>6, <1>7, <1>8, <1>9, <1>10, <1>11 DEF Next, Work, Import, Export

(* What the tables, the reads, the plan and the report hold is of the      *)
(* kind the handlers expect, and the requests come in their order, in      *)
(* every state of every job.                                               *)
THEOREM TypesKept == Spec => []TypeInv
<1>1. TypeInv /\ [Next]_vars => TypeInv'
  BY TablesKept, ReadsKept, PlanKept, CountsKept, StagesKept, CleanKept DEF TypeInv
<1> QED BY InitTypes, <1>1, PTL DEF Spec

-----------------------------------------------------------------------------
(* What an import is going to write.  The rows it has decided on are of    *)
(* titles it is through with, and none was the player's when it looked;    *)
(* the titles it is going to rate had no rating; and a row that was the    *)
(* player's when it looked is still the player's.                          *)
SeenOK ==
    \A t \in Title, e \in Episode :
        seenHistory[t][e] \in Player => history[t][e] \in Player

RowsOK ==
    \A x \in rows :
        x[1] \notin todo /\ seenHistory[x[1]][x[2]] \notin Player /\ "history" \notin blind

RatingsOK == \A t \in ratings : seenScores[t] = 0 /\ "ratings" \notin blind

PlannedOK ==
    rows # {} \/ ratings # {} =>
        job = "import" /\ stage \in {"merge", "rows", "scores", "done"}

LocalInv == SeenOK /\ RowsOK /\ RatingsOK /\ PlannedOK

(* What reconciling a title does to the table and to the plan.             *)
LEMMA Reconciled ==
    ASSUME TypeInv, NEW t \in Imported, reconcile(t)
    PROVE  /\ \A u \in Title \ {t} : history'[u] = history[u]
           /\ history'[t] # history[t] => "history" \notin blind
           /\ \/ history'[t] = history[t]
              \/ history'[t] = Trimmed(history[t], Wanted(t))
           /\ rows' # rows => "history" \notin blind
           /\ \A x \in rows' : \/ x \in rows \/ x \in Appended(t, seenHistory[t])
                              \/ x \in Appended(t, Trimmed(history[t], Wanted(t)))
<1> DEFINE trimmed == Trimmed(history[t], Wanted(t))
           left == [history EXCEPT ![t] = Trimmed(@, Wanted(t))]
           more(r) == Appended(t, r)
           room == importMaxWatchRows - Cardinality(rows)
           add(r) == /\ rows' = rows \union {x \in more(r) : x[2] <= MaxRow(r) + room}
                     /\ limited' = (Cardinality(more(r)) > room)
<1>1. t \in Title /\ history \in Histories
  BY DEF Imported, TypeInv, TablesOK
<1>2. left[t] = trimmed /\ (\A u \in Title \ {t} : left[u] = history[u])
  BY <1>1 DEF Histories
<1>3. maxWatchEpisode(t, left) = trimmed
  BY <1>2 DEF maxWatchEpisode
<1>4. CASE "history" \in blind \/ limited
  BY <1>4 DEF reconcile
<1>5. CASE ~("history" \in blind \/ limited)
  <2> HIDE DEF left, trimmed, more, room
  <2>1. history' = history \/ history' = left
    BY <1>5, Zenon DEF reconcile, left
  <2>2. add(seenHistory[t]) \/ add(maxWatchEpisode(t, left))
    <3>1. CASE left # history
      BY <1>5, <3>1, Zenon DEF reconcile, left, more, room
    <3>2. CASE left = history
      BY <1>5, <3>2, Zenon DEF reconcile, left, more, room
    <3> QED BY <3>1, <3>2
  <2>3. \A x \in rows' : x \in rows \/ x \in more(seenHistory[t]) \/ x \in more(trimmed)
    BY <1>3, <2>2
  <2>4. /\ \A u \in Title \ {t} : history'[u] = history[u]
        /\ history'[t] = history[t] \/ history'[t] = trimmed
    BY <1>2, <2>1
  <2> QED BY <1>5, <2>3, <2>4 DEF more, trimmed
<1> QED BY <1>4, <1>5

(* A row that is left after the trimming was there before.                 *)
LEMMA TrimmedIs ==
    ASSUME NEW r \in [Episode -> Row], NEW n, NEW e \in Episode
    PROVE  /\ Trimmed(r, n)[e] \in {r[e], "none"}
           /\ Trimmed(r, n)[e] # r[e] => r[e] = "import"
BY DEF Trimmed

(* The rows that are added come after the last one.                        *)
LEMMA AppendedIs ==
    ASSUME TypeInv, NEW t \in Imported, NEW r \in [Episode -> Row], NEW x \in Appended(t, r)
    PROVE  x[1] = t /\ x[2] \in Episode /\ r[x[2]] = "none"
<1>1. IsLastOf(MaxRow(r), r, Row \ {"none"}) /\ MaxRow(r) \in 0 .. Last
  BY RowMaxima DEF IsLastOf
<1>2. Wanted(t) \in 0 .. Last
  BY BestType DEF TypeInv, ReadsOK
<1>3. x[1] = t /\ x[2] \in MaxRow(r) + 1 .. Wanted(t)
  BY DEF Appended
<1>4. x[2] \in Episode /\ x[2] > MaxRow(r)
  BY <1>1, <1>2, <1>3, Numbers DEF Episode
<1>5. r[x[2]] \notin Row \ {"none"}
  <2>1. r[x[2]] \in Row \ {"none"} => x[2] <= MaxRow(r)
    BY <1>1, <1>4, Zenon DEF IsLastOf
  <2>2. x[2] \in Int /\ MaxRow(r) \in Int
    BY <1>1, <1>4, Numbers DEF Episode
  <2> HIDE DEF MaxRow
  <2> QED BY <1>4, <2>1, <2>2
<1>6. r[x[2]] \in Row
  BY <1>4
<1> QED BY <1>3, <1>4, <1>5, <1>6

LEMMA LocalStep == TypeInv /\ TypeInv' /\ LocalInv /\ [Next]_vars => LocalInv'
<1> SUFFICES ASSUME TypeInv, TypeInv', LocalInv, [Next]_vars PROVE LocalInv'
  OBVIOUS
<1>1. /\ history \in Histories /\ seenHistory \in Histories /\ history' \in Histories
      /\ rows \subseteq Title \X Episode /\ ratings \subseteq Title
  BY DEF TypeInv, TablesOK, ReadsOK, PlanOK
<1>2. /\ StageOK /\ SeenOK /\ RowsOK /\ RatingsOK /\ PlannedOK
      /\ job = "import" => todo \subseteq Imported
  BY DEF TypeInv, LocalInv, PlanOK
(* The steps that leave the history and what was read of it alone.         *)
<1>3. ASSUME UNCHANGED <<history, seenHistory, rows, ratings>>,
             rows # {} \/ ratings # {} =>
                /\ todo' \subseteq todo /\ blind' = blind /\ seenScores' = seenScores
                /\ job' = job /\ stage' \in {"merge", "rows", "scores", "done"}
      PROVE  LocalInv'
  BY <1>1, <1>2, <1>3 DEF LocalInv, SeenOK, RowsOK, RatingsOK, PlannedOK
<1>4. ASSUME rows = {}, ratings = {}, rows' = {}, ratings' = {},
             history' = history,
             seenHistory' = seenHistory \/ seenHistory' = history
                \/ seenHistory' = [t \in Title |-> NoRows]
      PROVE  LocalInv'
  <2>1. SeenOK'
    <3> SUFFICES ASSUME NEW t \in Title, NEW e \in Episode, seenHistory'[t][e] \in Player
                 PROVE  history[t][e] \in Player
      BY <1>4 DEF SeenOK
    <3>1. CASE seenHistory' = seenHistory
      BY <1>2, <3>1 DEF SeenOK
    <3>2. CASE seenHistory' = history
      BY <3>2
    <3>3. CASE seenHistory' = [u \in Title |-> NoRows]
      BY <3>3 DEF NoRows, Player
    <3> QED BY <1>4, <3>1, <3>2, <3>3
  <2> QED BY <1>4, <2>1 DEF LocalInv, RowsOK, RatingsOK, PlannedOK
<1>5. CASE readList \/ readFavorites \/ insertBookmarks \/ readMeta \/ readScores \/ readStatus
             \/ backfill \/ mapTitles
  <2>1. stage \notin {"merge", "rows", "scores", "done"} /\ UNCHANGED <<history, seenHistory, rows, ratings>>
    BY <1>5 DEF readList, readFavorites, insertBookmarks, readMeta, readScores, readStatus,
       backfill, mapTitles, Step, Refused, tables, reads, plan
  <2> QED BY <1>2, <1>3, <2>1 DEF PlannedOK
<1>6. CASE readHistory
  BY <1>2, <1>4, <1>6 DEF readHistory, Step, tables, plan, PlannedOK
<1>7. CASE merge
  <2>1. job = "import" /\ job' = job /\ stage = "merge" /\ UNCHANGED reads
    BY <1>2, <1>7 DEF merge, StageOK, ExportStages
  <2>2. CASE todo = {} /\ stage' = After /\ UNCHANGED <<history, rows, ratings, todo>>
    BY <1>3, <2>1, <2>2, ImportOrder DEF reads
  <2>3. CASE \E t \in todo :
               /\ reconcile(t) /\ todo' = todo \ {t} /\ stage' = stage
               /\ ratings' = IF Unrated(t) THEN ratings \union {t} ELSE ratings
    <3>1. PICK t \in todo :
               /\ reconcile(t) /\ todo' = todo \ {t} /\ stage' = stage
               /\ ratings' = IF Unrated(t) THEN ratings \union {t} ELSE ratings
      BY <2>3
    <3>2. t \in Imported /\ t \in Title
      BY <1>2, <2>1, <3>1 DEF Imported
    <3>3. /\ \A u \in Title \ {t} : history'[u] = history[u]
          /\ history'[t] = history[t] \/ history'[t] = Trimmed(history[t], Wanted(t))
          /\ rows' # rows => "history" \notin blind
          /\ \A x \in rows' : \/ x \in rows \/ x \in Appended(t, seenHistory[t])
                             \/ x \in Appended(t, Trimmed(history[t], Wanted(t)))
      BY <3>1, <3>2, Reconciled
    <3>4. /\ history[t] \in [Episode -> Row] /\ seenHistory[t] \in [Episode -> Row]
          /\ Trimmed(history[t], Wanted(t)) \in [Episode -> Row]
      BY <1>1, <3>2, TrimmedType DEF Histories
    <3>5. SeenOK'
      <4> SUFFICES ASSUME NEW u \in Title, NEW e \in Episode, seenHistory[u][e] \in Player
                   PROVE  history'[u][e] \in Player
        BY <2>1 DEF SeenOK, reads
      <4>1. history[u][e] \in Player
        BY <1>2 DEF SeenOK
      <4>2. CASE history'[u] = history[u]
        BY <4>1, <4>2
      <4>3. CASE u = t /\ history'[t] = Trimmed(history[t], Wanted(t))
        BY <3>4, <4>1, <4>3, TrimmedIs DEF Player
      <4> QED BY <3>3, <4>2, <4>3
    <3>6. RowsOK'
      <4> SUFFICES ASSUME NEW x \in rows'
                   PROVE  /\ x[1] \notin todo' /\ seenHistory[x[1]][x[2]] \notin Player
                          /\ "history" \notin blind
        BY <2>1 DEF RowsOK, reads
      <4>1. CASE x \in rows
        <5>1. /\ x[1] \notin todo /\ seenHistory[x[1]][x[2]] \notin Player
              /\ "history" \notin blind
          BY <1>2, <4>1 DEF RowsOK
        <5> QED BY <3>1, <5>1
      <4>2. CASE x \notin rows /\ x \in Appended(t, seenHistory[t])
        <5>1. x[1] = t /\ seenHistory[t][x[2]] = "none"
          BY <3>2, <3>4, <4>2, AppendedIs
        <5> QED BY <3>1, <3>3, <4>2, <5>1 DEF Player
      <4>3. CASE x \notin rows /\ x \in Appended(t, Trimmed(history[t], Wanted(t)))
        <5>1. x[1] = t /\ x[2] \in Episode /\ Trimmed(history[t], Wanted(t))[x[2]] = "none"
          BY <3>2, <3>4, <4>3, AppendedIs
        <5>2. history[t][x[2]] \in {"none", "import"}
          BY <3>4, <5>1, TrimmedIs
        <5>3. seenHistory[t][x[2]] \notin Player
          BY <1>2, <3>2, <5>1, <5>2 DEF SeenOK, Player
        <5> QED BY <3>1, <3>3, <4>3, <5>1, <5>3
      <4> QED BY <3>3, <4>1, <4>2, <4>3
    <3>7. RatingsOK'
      BY <1>2, <2>1, <3>1 DEF RatingsOK, Unrated, reads
    <3>8. PlannedOK'
      BY <2>1, <3>1 DEF PlannedOK
    <3> QED BY <3>5, <3>6, <3>7, <3>8 DEF LocalInv
  <2> QED BY <1>7, <2>2, <2>3 DEF merge
<1>8. CASE insertWatchHistoryRows
  <2>1. PICK S \in SUBSET rows : history' = Inserted(S)
    BY <1>8 DEF insertWatchHistoryRows
  <2>2. /\ UNCHANGED <<seenHistory, seenScores, blind, rows, ratings, todo, job>>
        /\ stage = "rows" /\ stage' = After
    BY <1>8 DEF insertWatchHistoryRows, reads, plan, Step
  <2>3. stage' = "scores"
    BY <1>2, <2>2, ImportOrder DEF StageOK, ExportStages
  <2>4. SeenOK'
    <3> SUFFICES ASSUME NEW t \in Title, NEW e \in Episode, seenHistory[t][e] \in Player
                 PROVE  history'[t][e] \in Player
      BY <2>2 DEF SeenOK
    <3>1. CASE <<t, e>> \in S
      BY <1>2, <3>1 DEF RowsOK
    <3>2. CASE <<t, e>> \notin S
      BY <1>2, <2>1, <3>2 DEF Inserted, SeenOK
    <3> QED BY <3>1, <3>2
  <2> QED BY <1>2, <2>2, <2>3, <2>4 DEF LocalInv, RowsOK, RatingsOK, PlannedOK
<1>9. CASE insertEpisodeRatings
  <2>1. /\ UNCHANGED <<history, seenHistory, seenScores, blind, rows, ratings, todo, job>>
        /\ stage = "scores" /\ stage' = After
    BY <1>9 DEF insertEpisodeRatings, reads, plan, Step
  <2>2. stage' = "done"
    BY <1>2, <2>1, ImportOrder DEF StageOK, ExportStages
  <2> QED BY <1>3, <2>1, <2>2
<1>10. CASE write \/ diff \/ nextBatch \/ send \/ endBatches
  <2>1. job = "export"
    BY <1>2, <1>10 DEF write, diff, nextBatch, send, endBatches, Step, StageOK, ImportStages
  <2>2. UNCHANGED <<history, seenHistory, rows, ratings>>
    BY <1>10 DEF write, diff, nextBatch, send, endBatches, tables, reads
  <2> QED BY <1>2, <1>3, <2>1, <2>2 DEF PlannedOK
<1>11. CASE User \/ UNCHANGED vars
  <2>1. UNCHANGED <<reads, plan, job, stage>>
    BY <1>11 DEF User, bookmark, play, rate, track, Acts, vars
  <2>2. SeenOK'
    <3> SUFFICES ASSUME NEW t \in Title, NEW e \in Episode, seenHistory[t][e] \in Player
                 PROVE  history'[t][e] \in Player
      BY <2>1 DEF SeenOK, reads
    <3>1. history[t][e] \in Player
      BY <1>2 DEF SeenOK
    <3>2. CASE \E u \in Title, f \in Episode, r \in Player : play(u, f, r)
      BY <1>1, <3>1, <3>2 DEF play, Histories
    <3>3. CASE history' = history
      BY <3>1, <3>3
    <3> QED BY <1>11, <3>2, <3>3 DEF User, bookmark, rate, track, vars, tables
  <2> QED BY <1>2, <2>1, <2>2 DEF reads, plan, LocalInv, RowsOK, RatingsOK, PlannedOK
<1>12. CASE answer \/ abandon
  <2>1. history' = history /\ seenHistory' = [t \in Title |-> NoRows] /\ rows' = {} /\ ratings' = {}
    BY <1>12 DEF answer, abandon, Forgotten, tables
  <2> QED BY <2>1 DEF LocalInv, SeenOK, NoRows, Player, RowsOK, RatingsOK, PlannedOK
<1>13. CASE \E j \in Jobs : begin(j)
  <2>1. UNCHANGED <<tables, reads, plan>> /\ rows = {} /\ ratings = {}
    BY <1>13 DEF begin, TypeInv, CleanOK, Clean
  <2> QED BY <1>3, <2>1 DEF tables, reads, plan
<1> QED BY <1>5, <1>6, <1>7, <1>8, <1>9, <1>10, <1>11, <1>12, <1>13 DEF Next, Work, Import, Export

(* An import merges: the rows of the player and the ratings it has read    *)
(* are never written over, and without having read them it writes none.    *)
THEOREM ImportOnlyAdds == Spec => LocalKept
<1> DEFINE Kept == edits' = edits /\ job' = "import" /\ stage \in {"merge", "rows", "scores"} =>
             \A t \in Title :
                /\ scores'[t] # scores[t] => "ratings" \notin blind /\ seenScores[t] = 0
                /\ \A e \in Episode : history'[t][e] # history[t][e] =>
                     "history" \notin blind /\ seenHistory[t][e] \notin Player
<1>1. Init => LocalInv
  BY DEF Init, LocalInv, SeenOK, RowsOK, RatingsOK, PlannedOK, NoRows, Player
<1>2. TypeInv /\ LocalInv /\ [Next]_vars => Kept
  <2> SUFFICES ASSUME TypeInv, LocalInv, [Next]_vars, edits' = edits, job' = "import",
                      stage \in {"merge", "rows", "scores"}, NEW t \in Title, NEW e \in Episode
               PROVE  /\ scores'[t] # scores[t] => "ratings" \notin blind /\ seenScores[t] = 0
                      /\ history'[t][e] # history[t][e] =>
                           "history" \notin blind /\ seenHistory[t][e] \notin Player
    <3> Last \in Episode
      BY Numbers DEF Episode
    <3> QED OBVIOUS
  <2>1. history \in Histories /\ scores \in [Title -> 0 .. 10] /\ edits \in Nat /\ StageOK
    BY DEF TypeInv, TablesOK, CountsOK
  <2>2. CASE merge
    <3>1. scores' = scores
      BY <2>2 DEF merge
    <3>2. CASE \E u \in todo : reconcile(u)
      <4>1. PICK u \in todo : reconcile(u)
        BY <3>2
      <4>2. u \in Imported
        BY <2>1, <2>2, <4>1 DEF merge, StageOK, ExportStages, TypeInv, PlanOK
      <4>3. /\ t # u => history'[t] = history[t]
            /\ history'[u] # history[u] => "history" \notin blind
            /\ history'[u] = history[u] \/ history'[u] = Trimmed(history[u], Wanted(u))
        BY <4>1, <4>2, Reconciled
      <4>4. history'[t][e] # history[t][e] =>
              u = t /\ "history" \notin blind /\ history[t][e] = "import"
        BY <2>1, <4>3, TrimmedIs DEF Histories
      <4> QED BY <3>1, <4>4 DEF LocalInv, SeenOK, Player
    <3>3. CASE history' = history
      BY <3>1, <3>3
    <3> QED BY <2>2, <3>2, <3>3 DEF merge
  <2>3. CASE insertWatchHistoryRows
    <3>1. PICK S \in SUBSET rows : history' = Inserted(S)
      BY <2>3 DEF insertWatchHistoryRows
    <3>2. history'[t][e] # history[t][e] => <<t, e>> \in rows
      BY <2>1, <3>1 DEF Inserted
    <3> QED BY <2>3, <3>2 DEF insertWatchHistoryRows, LocalInv, RowsOK, Player
  <2>4. CASE insertEpisodeRatings
    <3>1. PICK S \in SUBSET ratings :
            scores' = [u \in Title |-> IF u \in S THEN ToTen(Best(u).score) ELSE scores[u]]
      BY <2>4 DEF insertEpisodeRatings
    <3>2. scores'[t] # scores[t] => t \in ratings
      BY <2>1, <3>1
    <3> QED BY <2>4, <3>2 DEF insertEpisodeRatings, LocalInv, RatingsOK
  <2>5. CASE User
    BY <2>1, <2>5 DEF User, bookmark, play, rate, track, Acts
  <2>6. CASE readList \/ readFavorites \/ insertBookmarks \/ readMeta \/ readHistory \/ readScores
               \/ readStatus \/ backfill \/ Export \/ answer \/ abandon
               \/ (\E j \in Jobs : begin(j)) \/ UNCHANGED vars
    <3>1. UNCHANGED tables \/ UNCHANGED <<history, scores>>
      BY <2>6 DEF readList, readFavorites, insertBookmarks, readMeta, readHistory, readScores,
         readStatus, backfill, Export, mapTitles, write, diff, nextBatch, send, endBatches,
         answer, abandon, begin, vars
    <3> QED BY <3>1 DEF tables
  <2> QED BY <2>2, <2>3, <2>4, <2>5, <2>6 DEF Next, Work, Import
<1>3. TypeInv /\ LocalInv /\ [Next]_vars => [Kept]_vars
  BY <1>2
<1>4. Spec => []TypeInv /\ []LocalInv
  BY <1>1, TypesKept, LocalStep, PTL DEF Spec
<1> QED BY <1>3, <1>4, PTL DEF Spec, LocalKept

-----------------------------------------------------------------------------
(* Exports.  No two titles are mapped to the same entry at the tracker.    *)
OneTitleEach ==
    \A t, u \in Title : EntryOf[t] = EntryOf[u] /\ EntryOf[t] # NoTitle => t = u

Unread == [t \in Title |-> NoRows]

PastHistory ==
    IF Provider = "mal" THEN {"ratings", "meta", "list", "write", "done"}
    ELSE {"status", "ratings", "meta", "list", "diff", "batch", "done"}

(* The entry of a title is as the export has read it, or one attempt to    *)
(* send it has had its effect.                                             *)
Unwritten(t) ==
    \/ remote[EntryOf[t]] = list[EntryOf[t]]
    \/ list[EntryOf[t]] = NoEntry /\ blind \intersect {"list", "rest"} # {}

Touched(t) ==
    /\ remote[EntryOf[t]].progress = Pushed(t, list[EntryOf[t]]).num
    /\ remote[EntryOf[t]].status = Tracker(WantStatus(t))

(* An undisturbed export works from what the tables hold, and what it has  *)
(* still to write is as it believes.                                       *)
HistoryRead ==
    /\ seenHistory = Unread \/ seenHistory = history
    /\ stage \in PastHistory /\ "history" \notin blind => seenHistory = history

MarksRead == seenMarks = [t \in Title |-> "absent"] \/ seenMarks = marks

BeliefOK ==
    /\ stage \in {"write", "diff"} => \A t \in todo : EntryOf[t] # NoTitle => Unwritten(t)
    /\ stage = "batch" => \A t \in pending : Unwritten(t) \/ Touched(t)
    /\ stage = "batch" => \A t \in pending : ~Skipped(t, list[EntryOf[t]])

ExportInv == job = "export" /\ edits = 0 => HistoryRead /\ MarksRead /\ BeliefOK

(* Every favorite is yet to be dealt with, or unknown to the tracker, or   *)
(* reported, or as it is wanted.                                           *)
Accounted(t) ==
    \/ t \in todo \/ limited
    \/ /\ stage \in {"write", "diff", "batch", "done"}
       /\ \/ t \in pending \/ t \in failed \/ EntryOf[t] = NoTitle
          \/ Skipped(t, remote[EntryOf[t]])

SilentInv ==
    job = "export" /\ edits = 0 /\ blind \intersect {"list", "rest"} = {} =>
        \A t \in favorites : Accounted(t)

LEMMA EntryIs ==
    ASSUME NEW t \in Title
    PROVE  /\ EntryOf[t] # NoTitle => EntryOf[t] \in Entry
           /\ Provider = "anilist" => EntryOf[t] \in Entry /\ EntryOf[t] # NoTitle
BY ListTransferAssumption DEF NoTitle

(* What an export thinks of a title depends on what it has read alone.     *)
LEMMA SameWish ==
    ASSUME UNCHANGED <<seenMarks, seenHistory, seenScores, list, blind>>
    PROVE  /\ \A t : WantStatus(t)' = WantStatus(t)
           /\ \A t, e : Skipped(t, e)' <=> Skipped(t, e)
           /\ \A t, e : Pushed(t, e)' = Pushed(t, e)
<1>1. \A t : WantStatus(t)' = WantStatus(t)
  BY DEF WantStatus, KnownTotal
<1>2. \A t, e : Pushed(t, e)' = Pushed(t, e)
  BY DEF Pushed
<1>3. \A t, e : Skipped(t, e)' <=> Skipped(t, e)
  <2>1. \A t, e : NoEvidence(t, e)' <=> NoEvidence(t, e)
    BY <1>1 DEF NoEvidence
  <2>2. \A t, e : Matches(t, e)' <=> Matches(t, e)
    BY <1>1, <1>2 DEF Matches
  <2> QED BY <2>1, <2>2 DEF Skipped
<1> QED BY <1>1, <1>2, <1>3

(* A running export changes none of the user's tables.                     *)
LEMMA ExportLeavesTables ==
    ASSUME StageOK, job = "export", Work
    PROVE  UNCHANGED tables /\ job' = "export" /\ edits' = edits
<1>1. CASE readList \/ readFavorites \/ readMeta \/ readHistory \/ readScores \/ readStatus
             \/ mapTitles \/ diff
  BY <1>1 DEF readList, readFavorites, readMeta, readHistory, readScores, readStatus, mapTitles,
     diff, Step, Refused
<1>2. CASE write \/ nextBatch \/ send \/ endBatches
  BY <1>2 DEF write, nextBatch, send, endBatches
<1>3. CASE insertBookmarks \/ backfill \/ merge \/ insertWatchHistoryRows \/ insertEpisodeRatings
  BY <1>3 DEF insertBookmarks, backfill, merge, insertWatchHistoryRows, insertEpisodeRatings,
     Step, StageOK, ExportStages
<1> QED BY <1>1, <1>2, <1>3 DEF Work, Import, Export

(* Sending the entries of some titles leaves those of the others alone,    *)
(* and has its effect on theirs.                                           *)
LEMMA WroteBelief ==
    ASSUME TypeInv, OneTitleEach, NEW S \in SUBSET Title, NEW t \in Title, EntryOf[t] \in Entry
    PROVE  /\ t \notin S => Wrote(S)[EntryOf[t]] = remote[EntryOf[t]]
           /\ t \in S => Wrote(S)[EntryOf[t]] = Written(t, remote[EntryOf[t]])
<1>1. EntryOf[t] # NoTitle
  BY ListTransferAssumption DEF NoTitle
<1>2. \A u \in S : EntryOf[u] = EntryOf[t] => u = t
  BY <1>1 DEF OneTitleEach
<1> QED BY <1>2, WroteIs DEF TypeInv, TablesOK

LEMMA WrittenParts ==
    ASSUME NEW t, NEW e
    PROVE  /\ Written(t, e).status = Tracker(WantStatus(t))
           /\ Written(t, e).progress =
                IF Provider = "anilist" \/ Pushed(t, list[EntryOf[t]]).write
                THEN Pushed(t, list[EntryOf[t]]).num ELSE e.progress
           /\ Written(t, e).score =
                IF seenScores[t] = 0 THEN e.score ELSE Raw(seenScores[t])
BY Zenon DEF Written

LEMMA HistoryReadStep ==
    ASSUME TypeInv, job = "export", Work, HistoryRead PROVE HistoryRead'
<1>1. history' = history /\ StageOK /\ job' = "export"
  BY ExportLeavesTables DEF TypeInv, tables
<1>2. CASE readHistory
  BY <1>1, <1>2 DEF readHistory, HistoryRead, Unread
<1>3. CASE ~readHistory
  <2>1. seenHistory' = seenHistory /\ blind \subseteq blind'
    BY <1>1, <1>3 DEF Work, Import, Export, readList, readFavorites, insertBookmarks, readMeta,
       readScores, readStatus, backfill, merge, insertWatchHistoryRows,
       insertEpisodeRatings, mapTitles, write, diff, nextBatch, send, endBatches, reads, Step,
       StageOK, ExportStages
  <2>2. stage' \in PastHistory => stage \in PastHistory
    <3>1. \/ stage' = stage \/ stage' = "refused"
          \/ stage' = After /\ stage # "history" /\ stage \notin {"done", "refused"}
      BY <1>1, <1>3 DEF Work, Import, Export, readList, readFavorites, insertBookmarks, readMeta,
         readScores, readStatus, backfill, merge, insertWatchHistoryRows,
         insertEpisodeRatings, mapTitles, write, diff, nextBatch, send, endBatches, Step, Refused
    <3>2. CASE Provider = "mal"
      BY <1>1, <3>1, <3>2, MalExportOrder DEF PastHistory, StageOK, ExportStages
    <3>3. CASE Provider = "anilist"
      BY <1>1, <3>1, <3>3, AnilistExportOrder DEF PastHistory, StageOK, ExportStages
    <3> QED BY <3>2, <3>3, ListTransferAssumption
  <2> QED BY <1>1, <2>1, <2>2 DEF HistoryRead, Unread
<1> QED BY <1>2, <1>3

LEMMA MarksReadStep ==
    ASSUME TypeInv, job = "export", Work, MarksRead PROVE MarksRead'
<1>1. marks' = marks /\ StageOK
  BY ExportLeavesTables DEF TypeInv, tables
<1>2. CASE readStatus
  BY <1>1, <1>2 DEF readStatus, MarksRead
<1>3. CASE ~readStatus
  <2>1. seenMarks' = seenMarks
    BY <1>1, <1>3 DEF Work, Import, Export, readList, readFavorites, insertBookmarks, readMeta,
       readScores, readHistory, backfill, merge, insertWatchHistoryRows,
       insertEpisodeRatings, mapTitles, write, diff, nextBatch, send, endBatches, reads
  <2> QED BY <1>1, <2>1 DEF MarksRead
<1> QED BY <1>2, <1>3

LEMMA BeliefStep ==
    ASSUME TypeInv, OneTitleEach, job = "export", Work, BeliefOK PROVE BeliefOK'
<1>1. /\ job' = "export" /\ StageOK /\ PlanOK /\ remote \in [Entry -> EntryType]
      /\ Provider \in {"mal", "anilist"}
  BY ExportLeavesTables, ListTransferAssumption DEF TypeInv, TablesOK
<1>2. CASE stage' \notin {"write", "diff", "batch"}
  BY <1>2 DEF BeliefOK
<1>3. CASE stage \notin {"list", "write", "diff", "batch"}
  <2>1. \/ stage' = stage \/ stage' = "refused"
        \/ stage' = After /\ stage \notin {"done", "refused"}
    BY <1>1, <1>3 DEF Work, Import, Export, readList, readFavorites, insertBookmarks, readMeta,
       readScores, readStatus, readHistory, backfill, merge, insertWatchHistoryRows,
       insertEpisodeRatings, mapTitles, write, diff, nextBatch, send, endBatches, Step, Refused
  <2>2. CASE Provider = "mal"
    BY <1>1, <1>2, <1>3, <2>1, <2>2, MalExportOrder DEF StageOK, ExportStages
  <2>3. CASE Provider = "anilist"
    BY <1>1, <1>2, <1>3, <2>1, <2>3, AnilistExportOrder DEF StageOK, ExportStages
  <2> QED BY <1>1, <2>2, <2>3
<1>4. CASE readList /\ stage' \in {"write", "diff", "batch"}
  <2>1. stage = "list" /\ stage' = After
    BY <1>4 DEF readList, Step, Refused
  <2>2. stage' # "batch"
    BY <1>1, <2>1, MalExportOrder, AnilistExportOrder
  <2>3. todo' = todo /\ todo \subseteq Title /\ remote' = remote
    BY <1>1, <1>4 DEF readList, plan, PlanOK
  <2>4. \A t \in Title : EntryOf[t] # NoTitle => Unwritten(t)'
    <3> SUFFICES ASSUME NEW t \in Title, EntryOf[t] # NoTitle PROVE Unwritten(t)'
      OBVIOUS
    <3>1. EntryOf[t] \in Entry
      BY EntryIs
    <3>2. CASE Got(Entry)
      BY <2>3, <3>1, <3>2 DEF Got, Unwritten
    <3>3. CASE blind' \intersect {"list", "rest"} # {} /\ \E S \in SUBSET Entry : Got(S)
      BY <2>3, <3>1, <3>3 DEF Got, Unwritten
    <3> QED BY <1>1, <1>4, <2>1, <3>2, <3>3 DEF readList, Step, Refused
  <2> QED BY <2>2, <2>3, <2>4 DEF BeliefOK
<1>5. CASE write
  <2>1. /\ UNCHANGED reads /\ stage = "write" /\ todo' \subseteq todo /\ todo \subseteq Title
        /\ \/ stage' = stage
           \/ stage' = After /\ todo' = {}
    BY <1>1, <1>5 DEF write, PlanOK
  <2>2. stage' # "batch"
    BY <1>1, <2>1, MalExportOrder DEF StageOK, ExportStages
  <2>3. ASSUME NEW t \in todo', EntryOf[t] # NoTitle PROVE Unwritten(t)'
    <3>1. PICK u \in todo : todo' = todo \ {u} /\ remote' \in {remote, Wrote({u})}
      BY <1>5, <2>1, <2>3 DEF write
    <3>2. t \in todo /\ t \notin {u} /\ u \in Title /\ t \in Title /\ EntryOf[t] \in Entry
      BY <2>1, <2>3, <3>1, EntryIs
    <3>3. remote'[EntryOf[t]] = remote[EntryOf[t]]
      BY <3>1, <3>2, WroteBelief
    <3> QED BY <2>1, <2>3, <3>2, <3>3 DEF BeliefOK, Unwritten, reads
  <2> QED BY <2>2, <2>3 DEF BeliefOK, Unwritten
<1>6. CASE diff
  <2>1. /\ UNCHANGED <<reads, remote>> /\ stage = "diff" /\ stage' = After /\ todo' = {}
        /\ todo \subseteq Title
    BY <1>1, <1>6 DEF diff, Step, PlanOK
  <2>2. Provider = "anilist"
    BY <1>1, <2>1 DEF StageOK, ExportStages
  <2>3. \A t \in pending' : t \in todo /\ ~Skipped(t, list[EntryOf[t]])
    BY <1>6 DEF diff
  <2>4. \A t \in pending' : Unwritten(t) /\ ~Skipped(t, list[EntryOf[t]])
    BY <2>1, <2>2, <2>3, EntryIs DEF BeliefOK
  <2> QED BY <2>1, <2>4, SameWish DEF BeliefOK, Unwritten, reads
<1>7. CASE nextBatch \/ send \/ endBatches
  <2>1. UNCHANGED reads /\ stage = "batch" /\ Provider = "anilist"
    BY <1>1, <1>7 DEF nextBatch, send, endBatches, StageOK, ExportStages
  <2>2. CASE endBatches
    BY <1>1, <2>1, <2>2, AnilistExportOrder DEF endBatches, BeliefOK
  <2>3. CASE nextBatch \/ send
    <3>1. /\ stage' = "batch" /\ pending' \subseteq pending /\ pending \subseteq Title
          /\ \E S \in SUBSET pending : remote' = remote \/ remote' = Wrote(S)
      BY <1>1, <2>1, <2>3 DEF nextBatch, send, Dropped, tryAgain, giveUp, PlanOK
    <3>2. PICK S \in SUBSET Title : remote' = remote \/ remote' = Wrote(S)
      BY <3>1
    <3>3. ASSUME NEW t \in pending PROVE Unwritten(t)' \/ Touched(t)'
      <4>1. EntryOf[t] \in Entry /\ t \in Title
        BY <2>1, <3>1, <3>3, EntryIs
      <4>2. CASE remote'[EntryOf[t]] = remote[EntryOf[t]]
        BY <2>1, <4>2, SameWish DEF BeliefOK, Unwritten, Touched, reads
      <4>3. CASE remote'[EntryOf[t]] = Written(t, remote[EntryOf[t]])
        <5>1. Touched(t)'
          BY <2>1, <4>3, SameWish, WrittenParts DEF Touched, reads
        <5> QED BY <5>1
      <4> QED BY <3>2, <4>1, <4>2, <4>3, WroteBelief
    <3>4. \A t \in pending : ~Skipped(t, list[EntryOf[t]])'
      BY <2>1, SameWish DEF BeliefOK, reads
    <3> QED BY <3>1, <3>3, <3>4 DEF BeliefOK
  <2> QED BY <1>7, <2>2, <2>3
<1>8. stage = "list" => readList
  BY DEF Work, Import, Export, readFavorites, insertBookmarks, readMeta,
     readScores, readStatus, readHistory, backfill, merge, insertWatchHistoryRows,
     insertEpisodeRatings, mapTitles, write, diff, nextBatch, send, endBatches, Step, Refused
<1>9. stage \in {"write", "diff", "batch"} => write \/ diff \/ nextBatch \/ send \/ endBatches
  BY DEF Work, Import, Export, readList, readFavorites, insertBookmarks, readMeta,
     readScores, readStatus, readHistory, backfill, merge, insertWatchHistoryRows,
     insertEpisodeRatings, mapTitles, Step, Refused
<1> QED BY <1>2, <1>3, <1>4, <1>5, <1>6, <1>7, <1>8, <1>9

LEMMA ExportStep ==
    OneTitleEach => (TypeInv /\ ExportInv /\ [Next]_vars => ExportInv')
<1> SUFFICES ASSUME OneTitleEach, TypeInv, ExportInv, [Next]_vars, job' = "export", edits' = 0
             PROVE  HistoryRead' /\ MarksRead' /\ BeliefOK'
  BY DEF ExportInv
<1>1. edits \in Nat /\ StageOK
  BY DEF TypeInv, CountsOK
<1>2. CASE Work
  <2>1. job = "export" /\ edits = 0
    <3>1. job' = job /\ edits' = edits
      BY <1>2 DEF Work, Import, Export, readList, readFavorites, insertBookmarks, readMeta,
         readScores, readStatus, readHistory, backfill, merge, insertWatchHistoryRows,
         insertEpisodeRatings, mapTitles, write, diff, nextBatch, send, endBatches, Step, Refused
    <3> QED BY <3>1
  <2> QED BY <1>2, <2>1, HistoryReadStep, MarksReadStep, BeliefStep DEF ExportInv
<1>3. CASE User
  BY <1>1, <1>3 DEF User, bookmark, play, rate, track, Acts
<1>4. CASE answer \/ abandon
  BY <1>4 DEF answer, abandon, Forgotten
<1>5. CASE \E j \in Jobs : begin(j)
  BY <1>5 DEF begin, reads, TypeInv, CleanOK, Clean, HistoryRead, Unread, MarksRead, BeliefOK,
     PastHistory
<1>6. CASE UNCHANGED vars
  <2>1. UNCHANGED <<tables, reads, plan, job, stage, remote, edits>>
    BY <1>6 DEF vars
  <2> QED BY <2>1, SameWish DEF tables, reads, plan, ExportInv, HistoryRead, MarksRead, BeliefOK,
          Unwritten, Touched
<1> QED BY <1>2, <1>3, <1>4, <1>5, <1>6 DEF Next

(* What a step of an undisturbed export does to the entry of a title.      *)
LEMMA OneWrite ==
    ASSUME OneTitleEach, TypeInv, ExportInv, [Next]_vars, edits' = edits, edits = 0,
           stage \in {"write", "batch"}, NEW t \in Title, NEW i \in Entry, EntryOf[t] = i,
           remote'[i] # remote[i]
    PROVE  /\ job = "export" /\ HistoryRead /\ MarksRead /\ stage \in PastHistory
           /\ remote'[i] = Written(t, remote[i]) /\ ~Skipped(t, list[i])
           /\ Unwritten(t) \/ Touched(t)
<1>1. StageOK /\ PlanOK /\ edits \in Nat /\ Provider \in {"mal", "anilist"}
  BY ListTransferAssumption DEF TypeInv, CountsOK
<1>2. job = "export" /\ HistoryRead /\ MarksRead /\ BeliefOK
  BY <1>1 DEF StageOK, ImportStages, ExportInv
<1>3. stage \in PastHistory
  BY <1>1, <1>2 DEF StageOK, ExportStages, PastHistory
<1>4. write \/ send
  BY <1>1 DEF Next, Work, Import, Export, readList, readFavorites, insertBookmarks, readMeta,
     readScores, readStatus, readHistory, backfill, merge, insertWatchHistoryRows,
     insertEpisodeRatings, mapTitles, diff, nextBatch, endBatches, Step, Refused, User, bookmark,
     play, rate, track, Acts, answer, abandon, begin, vars
<1>5. EntryOf[t] \in Entry /\ EntryOf[t] # NoTitle
  BY ListTransferAssumption DEF NoTitle
<1>6. CASE write
  <2>1. \E u \in todo : ~Skipped(u, list[EntryOf[u]]) /\ remote' \in {remote, Wrote({u})}
    BY <1>6 DEF write
  <2>2. PICK u \in todo : ~Skipped(u, list[EntryOf[u]]) /\ remote' \in {remote, Wrote({u})}
    BY <2>1
  <2>3. u = t
    BY <1>1, <1>5, <2>2, WroteBelief DEF PlanOK
  <2>4. remote'[i] = Written(t, remote[i])
    BY <1>5, <2>2, <2>3, WroteBelief
  <2>5. Unwritten(t)
    BY <1>2, <1>5, <1>6, <2>2, <2>3 DEF write, BeliefOK
  <2> QED BY <1>2, <1>3, <2>2, <2>3, <2>4, <2>5
<1>7. CASE send
  <2>1. PICK S \in SUBSET batch : remote' = Wrote(S)
    BY <1>7 DEF send
  <2>2. S \subseteq pending /\ S \in SUBSET Title
    BY <1>1, <2>1 DEF PlanOK
  <2>3. t \in S
    BY <1>5, <2>1, <2>2, WroteBelief
  <2>4. remote'[i] = Written(t, remote[i])
    BY <1>5, <2>1, <2>2, <2>3, WroteBelief
  <2>5. ~Skipped(t, list[i]) /\ (Unwritten(t) \/ Touched(t))
    BY <1>2, <1>7, <2>2, <2>3 DEF send, BeliefOK
  <2> QED BY <1>2, <1>3, <2>4, <2>5
<1> QED BY <1>4, <1>6, <1>7

(* The count an export pushes: what is stored as planned is not begun, and *)
(* what is watched counts as far as the tracker's count; beyond that only  *)
(* what the player has finished.                                           *)
LEMMA PushedIs ==
    ASSUME TypeInv, NEW t \in Title, NEW e \in EntryType
    PROVE  LET p == Pushed(t, e)
               r == seenHistory[t]
           IN  /\ \/ p.num = e.progress
                  \/ p.num = 0 /\ seenMarks[t] = "PLANNING"
                  \/ p.num = Watched(r) /\ p.num < e.progress
                  \/ p.num > e.progress /\ r[p.num] = "watched"
               /\ ~p.write => p.num = e.progress
<1>1. seenHistory[t] \in [Episode -> Row]
  BY DEF TypeInv, ReadsOK, Histories
<1>2. IsLastOf(RealEpisode(seenHistory[t]), seenHistory[t], {"watched"})
  BY <1>1, RowMaxima
<1>3. RealEpisode(seenHistory[t]) > e.progress =>
        seenHistory[t][RealEpisode(seenHistory[t])] = "watched"
  BY <1>2, EntryNumbers, Numbers DEF IsLastOf
<1>4. Watched(seenHistory[t]) \in 0 .. Last /\ e.progress \in 0 .. Last
  BY <1>1, RowMaxima, EntryNumbers DEF IsLastOf
<1> HIDE DEF Watched, RealEpisode
<1>5. \/ Pushed(t, e) = [num |-> 0, write |-> TRUE] /\ seenMarks[t] = "PLANNING"
      \/ Pushed(t, e) = [num |-> e.progress, write |-> FALSE]
      \/ /\ Pushed(t, e) = [num |-> Watched(seenHistory[t]), write |-> TRUE]
         /\ Watched(seenHistory[t]) \in 1 .. e.progress
      \/ /\ Pushed(t, e) = [num |-> RealEpisode(seenHistory[t]), write |-> TRUE]
         /\ RealEpisode(seenHistory[t]) > e.progress
  BY DEF Pushed, exportProgress
<1> QED BY <1>3, <1>4, <1>5, Numbers

(* An export raises the tracker's count only to an episode the player has  *)
(* finished: what an import made up never comes back to the tracker.       *)
THEOREM OnlyTheWatchedRaises == OneTitleEach => (Spec => RaisedByPlayer)
<1> DEFINE Raised ==
             edits' = edits /\ stage \in {"write", "batch"} =>
                 \A t \in Title, i \in Entry :
                    EntryOf[t] = i /\ remote'[i].progress > remote[i].progress /\ edits = 0
                       => history[t][remote'[i].progress] = "watched"
<1> SUFFICES ASSUME OneTitleEach PROVE Spec => RaisedByPlayer
  OBVIOUS
<1>1. Init => ExportInv
  BY DEF Init, ExportInv
<1>2. TypeInv /\ ExportInv /\ [Next]_vars => ExportInv'
  BY ExportStep
<1>3. TypeInv /\ ExportInv /\ [Next]_vars => Raised
  <2> SUFFICES ASSUME TypeInv, ExportInv, [Next]_vars, edits' = edits,
                      stage \in {"write", "batch"}, NEW t \in Title, NEW i \in Entry,
                      EntryOf[t] = i, remote'[i].progress > remote[i].progress, edits = 0
               PROVE  history[t][remote'[i].progress] = "watched"
    OBVIOUS
  <2> DEFINE p == Pushed(t, list[i])
  <2>1. remote[i] \in EntryType /\ list[i] \in EntryType
    BY DEF TypeInv, TablesOK, ReadsOK
  <2>2. remote[i].progress \in 0 .. Last /\ list[i].progress \in 0 .. Last
    BY <2>1, EntryNumbers
  <2>3. remote'[i] # remote[i]
    BY <2>2, Numbers
  <2>4. /\ HistoryRead /\ remote'[i] = Written(t, remote[i])
        /\ Unwritten(t) \/ Touched(t)
    BY <2>3, OneWrite
  <2>5. remote'[i].progress \in {p.num, remote[i].progress}
    BY <2>4, WrittenParts
  <2>6. remote'[i].progress = p.num /\ p.num > remote[i].progress
    BY <2>2, <2>5, Numbers
  <2>7. list[i].progress <= remote[i].progress
    <3>1. CASE Unwritten(t)
      BY <2>2, <3>1, Names, Numbers DEF Unwritten
    <3>2. CASE Touched(t)
      BY <2>2, <2>6, <3>2, Numbers DEF Touched
    <3> QED BY <2>4, <3>1, <3>2
  <2>8. p.num \in 0 .. Last
    BY <2>1, PushedType DEF TypeInv
  <2>9. p.num > list[i].progress /\ p.num # 0
    BY <2>2, <2>6, <2>7, <2>8, Numbers
  <2>10. seenHistory[t][p.num] = "watched" /\ p.num \in Episode
    <3>1. p.num # list[i].progress /\ ~(p.num < list[i].progress)
      BY <2>2, <2>8, <2>9, Numbers
    <3>2. seenHistory[t][p.num] = "watched"
      BY <2>1, <2>9, <3>1, PushedIs
    <3> QED BY <2>8, <2>9, <3>2, Numbers DEF Episode
  <2>11. seenHistory = history
    BY <2>4, <2>10 DEF HistoryRead, Unread, NoRows
  <2> QED BY <2>6, <2>10, <2>11
<1>4. TypeInv /\ ExportInv /\ [Next]_vars => [Raised]_vars
  BY <1>3
<1>5. Spec => []TypeInv /\ []ExportInv
  BY <1>1, <1>2, TypesKept, PTL DEF Spec
<1> QED BY <1>4, <1>5, PTL DEF Spec, RaisedByPlayer

(* An export that has read the whole of the tracker's list and the history *)
(* lowers a count only to what is finished here, or to none for a planned  *)
(* title, and takes a title out of the completed ones only when something  *)
(* of it is in the history.                                                *)
THEOREM NothingLost == OneTitleEach => (Spec => NothingTakenAway)
<1> DEFINE Kept ==
             edits' = edits /\ stage \in {"write", "batch"} =>
                 \A t \in Title, i \in Entry :
                    EntryOf[t] = i /\ edits = 0
                      /\ blind \intersect {"list", "rest", "history"} = {} =>
                       /\ remote'[i].progress < remote[i].progress =>
                            \/ remote'[i].progress = 0 /\ marks[t] = "PLANNING"
                            \/ remote'[i].progress = Watched(history[t])
                       /\ Normal(remote[i].status) = "COMPLETED"
                            /\ Normal(remote'[i].status) # "COMPLETED" => MaxRow(history[t]) > 0
<1> SUFFICES ASSUME OneTitleEach PROVE Spec => NothingTakenAway
  OBVIOUS
<1>1. Init => ExportInv
  BY DEF Init, ExportInv
<1>2. TypeInv /\ ExportInv /\ [Next]_vars => ExportInv'
  BY ExportStep
<1>3. TypeInv /\ ExportInv /\ [Next]_vars => Kept
  <2> SUFFICES ASSUME TypeInv, ExportInv, [Next]_vars, edits' = edits,
                      stage \in {"write", "batch"}, NEW t \in Title, NEW i \in Entry,
                      EntryOf[t] = i, edits = 0, blind \intersect {"list", "rest"} = {},
                      "history" \notin blind,
                      remote'[i] # remote[i]
               PROVE  /\ remote'[i].progress < remote[i].progress =>
                            \/ remote'[i].progress = 0 /\ marks[t] = "PLANNING"
                            \/ remote'[i].progress = Watched(history[t])
                      /\ Normal(remote[i].status) = "COMPLETED"
                            /\ Normal(remote'[i].status) # "COMPLETED" => MaxRow(history[t]) > 0
    <3>1. ASSUME TypeInv, NEW j \in Entry PROVE remote[j].progress \in Int
      BY <3>1, EntryNumbers, Numbers DEF TypeInv, TablesOK
    <3> QED BY <3>1
  <2> DEFINE p == Pushed(t, list[i])
  <2>1. remote[i] \in EntryType /\ list[i] \in EntryType
    BY DEF TypeInv, TablesOK, ReadsOK
  <2>2. remote[i].progress \in 0 .. Last /\ list[i].progress \in 0 .. Last
    BY <2>1, EntryNumbers
  <2>3. /\ HistoryRead /\ MarksRead /\ stage \in PastHistory
        /\ remote'[i] = Written(t, remote[i]) /\ ~Skipped(t, list[i])
        /\ Unwritten(t) \/ Touched(t)
    BY OneWrite
  <2>4. seenHistory = history
    BY <2>3 DEF HistoryRead
  <2>5. ASSUME remote'[i].progress < remote[i].progress
        PROVE  \/ remote'[i].progress = 0 /\ marks[t] = "PLANNING"
               \/ remote'[i].progress = Watched(history[t])
    <3>1. remote'[i].progress = p.num /\ p.num < remote[i].progress
      <4>1. remote'[i].progress \in {p.num, remote[i].progress}
        BY <2>3, WrittenParts
      <4> QED BY <2>2, <2>5, <4>1, Numbers
    <3>2. remote[i] = list[i]
      <4>1. p.num \in Int /\ remote[i].progress # p.num
        BY <2>1, <2>2, <3>1, PushedType, Numbers DEF TypeInv
      <4> QED BY <2>3, <4>1 DEF Unwritten, Touched
    <3>3. \/ p.num = 0 /\ seenMarks[t] = "PLANNING"
          \/ p.num = Watched(seenHistory[t])
      <4>1. p.num \in Int /\ list[i].progress \in Int
        BY <2>1, <2>2, PushedType, Numbers DEF TypeInv
      <4>2. p.num # list[i].progress /\ ~(p.num > list[i].progress)
        BY <3>1, <3>2, <4>1
      <4> QED BY <2>1, <4>2, PushedIs
    <3>4. seenMarks[t] = "PLANNING" => marks[t] = "PLANNING"
      BY <2>3 DEF MarksRead
    <3> QED BY <2>4, <3>1, <3>3, <3>4
  <2>6. ASSUME Normal(remote[i].status) = "COMPLETED", Normal(remote'[i].status) # "COMPLETED"
        PROVE  MaxRow(history[t]) > 0
    <3>1. remote'[i].status = Tracker(WantStatus(t))
      BY <2>3, WrittenParts
    <3>2. remote[i] = list[i]
      BY <2>3, <2>6, <3>1 DEF Unwritten, Touched
    <3>3. WantStatus(t) # "COMPLETED"
      BY <2>6, <3>1, Names
    <3>4. remote[i] # NoEntry
      BY <2>6, NoStatusIs DEF NoEntry
    <3>5. MaxRow(seenHistory[t]) # 0
      BY <2>3, <2>6, <3>2, <3>3, <3>4, Zenon DEF Skipped, NoEvidence
    <3>6. MaxRow(history[t]) \in 0 .. Last
      BY RowMaxima DEF TypeInv, TablesOK, Histories, IsLastOf
    <3> HIDE DEF MaxRow
    <3> QED BY <2>4, <3>5, <3>6, Numbers
  <2> QED BY <2>5, <2>6
<1>4. TypeInv /\ ExportInv /\ [Next]_vars => [Kept]_vars
  BY <1>3
<1>5. Spec => []TypeInv /\ []ExportInv
  BY <1>1, <1>2, TypesKept, PTL DEF Spec
<1> QED BY <1>4, <1>5, PTL DEF Spec, NothingTakenAway

-----------------------------------------------------------------------------
(* A score keeps its value on the way to AniList and back, unless AniList  *)
(* keeps it in five or in three steps.                                     *)
LEMMA ScoresReturn ==
    ASSUME Format \notin {"POINT_5", "POINT_3"}
    PROVE  \A s \in 1 .. 10 : ToTen(Raw(s)) = s
BY DEF ToTen, Raw

(* What has been written needs no writing any more.                        *)
LEMMA WrittenSettles ==
    ASSUME TypeInv, Format \notin {"POINT_5", "POINT_3"}, NEW t \in Title, EntryOf[t] \in Entry,
           NEW e \in EntryType, Provider = "anilist" \/ e = list[EntryOf[t]]
    PROVE  Skipped(t, Written(t, e))
<1> DEFINE w == Written(t, e)
           l == list[EntryOf[t]]
           r == seenHistory[t]
           p == Pushed(t, l)
           q == Pushed(t, w)
<1>1. /\ r \in [Episode -> Row] /\ l \in EntryType /\ ReadsOK
      /\ seenScores[t] \in 0 .. 10 /\ Provider \in {"mal", "anilist"}
  BY ListTransferAssumption DEF TypeInv, ReadsOK, Histories
<1>2. w \in EntryType /\ w.status = Tracker(WantStatus(t)) /\ WantStatus(t) \in Canonical
  BY <1>1, WrittenType, WrittenParts, WantedStatus
<1>3. w # NoEntry
  BY <1>2, Names, NoStatusIs DEF NoEntry
<1>4. \/ Normal(w.status) = WantStatus(t)
      \/ Provider = "mal" /\ WantStatus(t) = "REPEATING" /\ Normal(w.status) = "CURRENT"
  BY <1>1, <1>2 DEF Canonical, Tracker, Normal, statusForMAL, normalizeMALStatus
<1>5. seenScores[t] = 0 \/ ToTen(w.score) = seenScores[t]
  BY <1>1, WrittenParts, ScoresReturn
<1>6. w.progress = p.num
  <2>1. ~p.write => p.num = l.progress
    BY <1>1, PushedIs
  <2> QED BY <2>1, WrittenParts
<1>7. q.write => w.progress = q.num
  <2> DEFINE W == Watched(r)
             R == RealEpisode(r)
  <2>1. W \in Int /\ R \in Int /\ l.progress \in Int /\ W >= 0
    BY <1>1, RowMaxima, EntryNumbers, Numbers DEF IsLastOf
  <2>2. R <= W
    <3>1. IsLastOf(W, r, Finished) /\ IsLastOf(R, r, {"watched"})
      BY <1>1, RowMaxima
    <3>2. R > 0 => R \in Episode /\ r[R] \in Finished
      BY <3>1 DEF IsLastOf, Finished
    <3> HIDE DEF W, R
    <3> QED BY <2>1, <3>1, <3>2 DEF IsLastOf
  <2>3. /\ p = exportProgress(r, seenMarks[t], l.progress)
        /\ q = exportProgress(r, seenMarks[t], p.num)
    BY <1>6 DEF Pushed
  <2> HIDE DEF p, q, w, l
  <2>4. \/ p.num = 0 /\ seenMarks[t] = "PLANNING"
        \/ W = 0 /\ seenMarks[t] # "PLANNING"
        \/ p.num = W /\ W > 0 /\ seenMarks[t] # "PLANNING"
        \/ p.num = R /\ W > R /\ W > 0 /\ seenMarks[t] # "PLANNING"
        \/ p.num = l.progress /\ W > l.progress /\ R <= l.progress /\ seenMarks[t] # "PLANNING"
    BY <2>1, <2>2, <2>3 DEF exportProgress
  <2> QED BY <1>6, <2>1, <2>3, <2>4 DEF exportProgress
<1>8. Matches(t, w)
  BY <1>3, <1>4, <1>5, <1>7, Zenon DEF Matches
<1> QED BY <1>8 DEF Skipped

LateStages == {"write", "diff", "batch", "done"}

LEMMA SilentStep ==
    OneTitleEach /\ Format \notin {"POINT_5", "POINT_3"} =>
        (TypeInv /\ ExportInv /\ SilentInv /\ [Next]_vars => SilentInv')
<1> SUFFICES ASSUME OneTitleEach, Format \notin {"POINT_5", "POINT_3"}, TypeInv, ExportInv,
                    SilentInv, [Next]_vars, job' = "export", edits' = 0,
                    blind' \intersect {"list", "rest"} = {}, NEW t \in favorites'
             PROVE  Accounted(t)'
  BY DEF SilentInv
<1>1. /\ edits \in Nat /\ StageOK /\ ReadsOK /\ PlanOK /\ CleanOK
      /\ remote \in [Entry -> EntryType] /\ Provider \in {"mal", "anilist"}
  BY ListTransferAssumption DEF TypeInv, CountsOK, TablesOK
<1>2. CASE User
  BY <1>1, <1>2 DEF User, bookmark, play, rate, track, Acts
<1>3. CASE answer \/ abandon
  BY <1>3 DEF answer, abandon, Forgotten
<1>4. CASE \E j \in Jobs : begin(j)
  BY <1>1, <1>4 DEF begin, reads, CleanOK, Clean
<1>5. CASE UNCHANGED vars
  <2>1. UNCHANGED <<tables, reads, plan, report, job, stage, remote, edits>>
    BY <1>5 DEF vars
  <2> QED BY <2>1, SameWish DEF reads, plan, report, SilentInv, Accounted
<1>6. CASE Work
  <2>1. job = "export" /\ edits = 0 /\ blind \subseteq blind'
    <3>1. job' = job /\ edits' = edits /\ blind \subseteq blind'
      BY <1>6 DEF Work, Import, Export, readList, readFavorites, insertBookmarks, readMeta,
         readScores, readStatus, readHistory, backfill, merge, insertWatchHistoryRows,
         insertEpisodeRatings, mapTitles, write, diff, nextBatch, send, endBatches, Step,
         Refused, reads
    <3> QED BY <3>1
  <2>2. blind \intersect {"list", "rest"} = {} /\ BeliefOK
    BY <2>1 DEF ExportInv
  <2>3. ASSUME t \in favorites PROVE Accounted(t) /\ t \in Title
    BY <1>1, <2>1, <2>2, <2>3 DEF SilentInv, ReadsOK
  <2>4. CASE readFavorites
    <3>1. CASE UNCHANGED <<favorites, todo, limited>>
      <4>1. t \in todo \/ limited
        BY <2>3, <2>4, <3>1 DEF readFavorites, Step, Refused, Accounted
      <4> QED BY <3>1, <4>1 DEF Accounted
    <3>2. CASE Step("favorites") /\ limited' = (todo' # favorites')
      BY <3>2 DEF Accounted
    <3> QED BY <2>1, <2>4, <3>1, <3>2 DEF readFavorites, Refused
  <2>5. CASE readList \/ readMeta \/ readScores \/ readStatus \/ readHistory \/ mapTitles
    <3>1. favorites' = favorites /\ UNCHANGED <<todo, limited>> /\ stage \notin LateStages
      BY <2>5 DEF readList, readMeta, readScores, readStatus, readHistory, mapTitles, reads, plan,
         report, Step, Refused, LateStages
    <3> QED BY <2>3, <3>1 DEF Accounted, LateStages
  <2>6. CASE write
    <3>1. /\ UNCHANGED reads /\ stage = "write" /\ pending = {} /\ Accounted(t) /\ t \in Title
          /\ Provider = "mal"
      BY <1>1, <2>1, <2>3, <2>6 DEF write, reads, PlanOK, StageOK, ExportStages
    <3>2. CASE \E u \in todo : todo' = todo \ {u} /\ UNCHANGED <<stage, limited>>
      <4>1. PICK u \in todo :
              /\ todo' = todo \ {u} /\ UNCHANGED <<stage, limited>>
              /\ IF EntryOf[u] = NoTitle \/ Skipped(u, list[EntryOf[u]])
                 THEN UNCHANGED <<remote, failed>>
                 ELSE \/ remote' = Wrote({u}) /\ failed' = failed
                      \/ remote' \in {remote, Wrote({u})} /\ failed' = failed \union {u}
        <5>1. todo # {} => todo' # todo
          BY <3>2
        <5>2. stage' # After
          BY <2>1, <3>1, <3>2, MalExportOrder
        <5> QED BY <2>6, <3>2, <5>2 DEF write
      <4>2. CASE t = u
        <5>1. CASE EntryOf[u] = NoTitle
          BY <3>1, <4>1, <4>2, <5>1 DEF Accounted
        <5>2. CASE EntryOf[u] # NoTitle /\ Skipped(u, list[EntryOf[u]])
          <6>1. remote' = remote /\ remote[EntryOf[u]] = list[EntryOf[u]]
            BY <2>2, <3>1, <4>1, <5>2 DEF BeliefOK, Unwritten
          <6> QED BY <3>1, <4>1, <4>2, <5>2, <6>1, SameWish DEF Accounted, reads
        <5>3. CASE EntryOf[u] # NoTitle /\ remote' = Wrote({u}) /\ ~Skipped(u, list[EntryOf[u]])
          <6>1. EntryOf[u] \in Entry /\ u \in Title
            BY <3>1, <4>2, <5>3, EntryIs
          <6>2. remote[EntryOf[u]] = list[EntryOf[u]] /\ remote[EntryOf[u]] \in EntryType
            BY <1>1, <2>2, <3>1, <4>1, <5>3, <6>1 DEF BeliefOK, Unwritten
          <6>3. remote'[EntryOf[u]] = Written(u, remote[EntryOf[u]])
            BY <5>3, <6>1, WroteBelief
          <6>4. Skipped(u, remote'[EntryOf[u]])
            BY <6>1, <6>2, <6>3, WrittenSettles
          <6>5. Skipped(u, remote[EntryOf[u]])'
            BY <3>1, <6>4, SameWish DEF reads
          <6> QED BY <3>1, <4>1, <4>2, <6>5 DEF Accounted
        <5>4. CASE u \in failed'
          BY <3>1, <4>1, <4>2, <5>4 DEF Accounted
        <5> QED BY <4>1, <5>1, <5>2, <5>3, <5>4
      <4>3. CASE t # u
        <5>1. failed \subseteq failed'
          BY <4>1
        <5>2. EntryOf[t] # NoTitle => remote'[EntryOf[t]] = remote[EntryOf[t]]
          BY <1>1, <3>1, <4>1, <4>3, EntryIs, WroteBelief DEF PlanOK
        <5>3. Skipped(t, remote[EntryOf[t]]) /\ EntryOf[t] # NoTitle =>
                Skipped(t, remote[EntryOf[t]])'
          BY <3>1, <5>2, SameWish DEF reads
        <5> QED BY <3>1, <4>1, <4>3, <5>1, <5>3 DEF Accounted
      <4> QED BY <4>2, <4>3
    <3>3. CASE /\ stage' = After /\ UNCHANGED <<remote, failed>>
               /\ limited' = (limited \/ todo # {})
      BY <2>1, <3>1, <3>3, MalExportOrder, SameWish DEF Accounted, reads
    <3> QED BY <2>6, <3>2, <3>3 DEF write
  <2>7. CASE diff
    <3>1. /\ UNCHANGED <<reads, remote, failed>> /\ stage = "diff" /\ stage' = After
          /\ Accounted(t) /\ t \in Title /\ pending = {}
      BY <1>1, <2>1, <2>3, <2>7 DEF diff, Step, reads, PlanOK
    <3>2. Provider = "anilist" /\ EntryOf[t] \in Entry
      BY <1>1, <2>1, <3>1, EntryIs DEF StageOK, ExportStages
    <3>3. stage' = "batch"
      BY <2>1, <3>1, <3>2, AnilistExportOrder
    <3>4. PICK looked \in SUBSET todo :
            /\ pending' = {u \in looked : ~Skipped(u, list[EntryOf[u]])}
            /\ limited' = (limited \/ looked # todo)
      BY <2>7 DEF diff
    <3>5. CASE t \in todo /\ looked = todo
      <4>1. remote[EntryOf[t]] = list[EntryOf[t]]
        BY <2>2, <3>1, <3>2, <3>5, EntryIs DEF BeliefOK, Unwritten
      <4>2. Skipped(t, list[EntryOf[t]]) => Skipped(t, remote[EntryOf[t]])'
        BY <3>1, <4>1, SameWish DEF reads
      <4> QED BY <3>3, <3>4, <3>5, <4>2 DEF Accounted
    <3>6. CASE t \notin todo
      <4>1. Skipped(t, remote[EntryOf[t]]) => Skipped(t, remote[EntryOf[t]])'
        BY <3>1, SameWish DEF reads
      <4> QED BY <3>1, <3>3, <3>4, <3>6, <4>1 DEF Accounted
    <3>7. CASE looked # todo
      BY <3>4, <3>7 DEF Accounted
    <3> QED BY <3>5, <3>6, <3>7
  <2>8. CASE nextBatch \/ send \/ endBatches
    <3>1. /\ UNCHANGED reads /\ stage = "batch" /\ Accounted(t) /\ t \in Title /\ todo' = todo
      BY <1>1, <2>1, <2>3, <2>8 DEF nextBatch, send, endBatches, reads
    <3>2. Provider = "anilist" /\ EntryOf[t] \in Entry
      BY <1>1, <2>1, <3>1, EntryIs DEF StageOK, ExportStages
    <3>3. stage' \in {"batch", "done"}
      BY <2>1, <2>8, <3>1, <3>2, AnilistExportOrder DEF nextBatch, send, endBatches
    <3>4. CASE nextBatch
      BY <3>1, <3>3, <3>4, SameWish DEF nextBatch, report, reads, Accounted
    <3>5. CASE endBatches
      BY <3>1, <3>3, <3>5, SameWish DEF endBatches, reads, Accounted
    <3>6. CASE send
      <4>1. batch \subseteq pending /\ pending \subseteq Title /\ limited' = limited
        BY <1>1, <3>6 DEF send, PlanOK
      <4>2. CASE t \notin batch
        <5>1. \E S \in SUBSET batch : remote' = Wrote(S)
          BY <3>6 DEF send
        <5>2. remote'[EntryOf[t]] = remote[EntryOf[t]]
          BY <3>1, <3>2, <4>1, <4>2, <5>1, WroteBelief
        <5>3. failed \subseteq failed' /\ (t \in pending => t \in pending')
          BY <3>6, <4>2 DEF send, Dropped, tryAgain, giveUp
        <5>4. Skipped(t, remote[EntryOf[t]]) => Skipped(t, remote[EntryOf[t]])'
          BY <3>1, <5>2, SameWish DEF reads
        <5> QED BY <3>1, <3>3, <4>1, <5>3, <5>4 DEF Accounted
      <4>3. CASE t \in batch /\ remote' = Wrote(batch)
        <5>1. remote'[EntryOf[t]] = Written(t, remote[EntryOf[t]])
          BY <3>1, <3>2, <4>1, <4>3, WroteBelief
        <5>2. Skipped(t, remote'[EntryOf[t]])
          BY <1>1, <3>1, <3>2, <5>1, WrittenSettles
        <5>3. Skipped(t, remote[EntryOf[t]])'
          BY <3>1, <5>2, SameWish DEF reads
        <5> QED BY <3>3, <5>3 DEF Accounted
      <4>4. CASE t \in batch /\ (tryAgain \/ giveUp)
        BY <3>3, <4>1, <4>4 DEF tryAgain, giveUp, Accounted
      <4> QED BY <3>6, <4>2, <4>3, <4>4 DEF send
    <3> QED BY <2>8, <3>4, <3>5, <3>6
  <2>9. CASE insertBookmarks \/ backfill \/ merge \/ insertWatchHistoryRows \/ insertEpisodeRatings
    BY <1>1, <2>1, <2>9 DEF insertBookmarks, backfill, merge, insertWatchHistoryRows,
       insertEpisodeRatings, Step, StageOK, ExportStages
  <2> QED BY <1>6, <2>4, <2>5, <2>6, <2>7, <2>8, <2>9 DEF Work, Import, Export
<1> QED BY <1>2, <1>3, <1>4, <1>5, <1>6 DEF Next

(* When the writing is over, or the rows are inserted, every title has     *)
(* been dealt with.                                                        *)
DoneOK == stage \in {"rows", "scores", "batch", "done"} => todo = {}

LEMMA DoneStep == TypeInv /\ DoneOK /\ [Next]_vars => DoneOK'
<1> SUFFICES ASSUME TypeInv, DoneOK, [Next]_vars, stage' \in {"rows", "scores", "batch", "done"}
             PROVE  todo' = {}
  BY DEF DoneOK
<1>1. StageOK /\ Provider \in {"mal", "anilist"}
  BY ListTransferAssumption DEF TypeInv
<1>2. CASE User \/ UNCHANGED vars
  BY <1>2 DEF User, bookmark, play, rate, track, Acts, vars, plan, DoneOK
<1>3. CASE answer \/ abandon
  BY <1>3 DEF answer, abandon, Forgotten
<1>4. CASE \E j \in Jobs : begin(j)
  BY <1>4 DEF begin
<1>5. CASE readList \/ readFavorites \/ insertBookmarks \/ readMeta \/ readScores \/ readStatus
             \/ readHistory \/ backfill \/ mapTitles
  <2>1. /\ stage \in {"list", "favorites", "insert", "meta", "ratings", "status", "history",
                      "backfill", "map"}
        /\ stage' \in {After, "refused"}
    BY <1>5 DEF readList, readFavorites, insertBookmarks, readMeta, readScores, readStatus,
       readHistory, backfill, mapTitles, Step, Refused
  <2>2. stage' \notin {"rows", "scores", "batch", "done"}
    BY <1>1, <2>1, ImportOrder, MalExportOrder, AnilistExportOrder DEF StageOK, ImportStages,
       ExportStages
  <2> QED BY <2>2
<1>6. CASE insertWatchHistoryRows \/ insertEpisodeRatings
  BY <1>6 DEF insertWatchHistoryRows, insertEpisodeRatings, Step, plan, DoneOK
<1>7. CASE merge
  BY <1>7 DEF merge, DoneOK
<1>8. CASE write \/ diff
  BY <1>8 DEF write, diff
<1>9. CASE nextBatch \/ send \/ endBatches
  BY <1>9 DEF nextBatch, send, endBatches, DoneOK
<1> QED BY <1>2, <1>3, <1>4, <1>5, <1>6, <1>7, <1>8, <1>9 DEF Next, Work, Import, Export

(* What an export does not settle it reports: every favorite is as it is   *)
(* wanted, or counted as failed, or the export says that it stopped early. *)
THEOREM ExportAccounts ==
    OneTitleEach /\ Format \notin {"POINT_5", "POINT_3"} => (Spec => []NothingSilent)
<1> SUFFICES ASSUME OneTitleEach /\ Format \notin {"POINT_5", "POINT_3"}
             PROVE  Spec => []NothingSilent
  OBVIOUS
<1>1. Init => ExportInv /\ SilentInv /\ DoneOK
  BY DEF Init, ExportInv, SilentInv, DoneOK
<1>2. TypeInv /\ ExportInv /\ [Next]_vars => ExportInv'
  BY ExportStep
<1>3. TypeInv /\ ExportInv /\ SilentInv /\ [Next]_vars => SilentInv'
  BY SilentStep
<1>4. TypeInv /\ DoneOK /\ SilentInv => NothingSilent
  BY DEF TypeInv, PlanOK, DoneOK, SilentInv, Accounted, NothingSilent
<1> QED BY <1>1, <1>2, <1>3, <1>4, TypesKept, DoneStep, PTL DEF Spec

-----------------------------------------------------------------------------
(* An import that meets no trouble and that nobody disturbs works from     *)
(* what the tables hold, and is through with a title when no row of an     *)
(* import is beyond the tracker's count, every missing one is in the plan, *)
(* and it is rated or going to be.                                         *)
ReadsHold ==
    /\ blind = {}
    /\ stage = "insert" => \A t \in favorites : marks[t] # "absent"
    /\ stage \in {"insert", "meta", "history", "ratings", "status", "backfill"} =>
          todo = Imported
    /\ stage \in {"ratings", "status", "backfill"} => seenHistory = history
    /\ stage = "merge" => \A t \in todo : seenHistory[t] = history[t]
    /\ stage \in {"status", "backfill", "merge", "rows", "scores"} => seenScores = scores
    /\ stage = "backfill" /\ StatusColumn => seenMarks = marks

MarksSettle ==
    /\ stage \in {"meta", "history", "ratings", "status", "backfill", "merge", "rows",
                  "scores", "done"} =>
          \A t \in Imported :
              /\ marks[t] # "absent"
              /\ StatusColumn /\ t \in Fresh => marks[t] = Normal(Best(t).status)
    /\ stage \in {"merge", "rows", "scores", "done"} /\ StatusColumn =>
          \A t \in Imported :
              \/ marks[t] = Normal(Best(t).status)
              \/ marks[t] \in Canonical /\ MaxRow(seenHistory[t]) # 0

RowsSettle ==
    /\ \A x \in rows : x[1] \in Imported /\ x[2] <= Wanted(x[1])
    /\ stage \in {"merge", "rows"} /\ ~limited =>
          \A t \in Imported \ todo : /\ Appended(t, history[t]) \subseteq rows
                                     /\ Trimmed(history[t], Wanted(t)) = history[t]
    /\ stage \in {"scores", "done"} /\ ~limited =>
          \A t \in Imported : /\ Trimmed(history[t], Wanted(t)) = history[t]
                              /\ MaxRow(history[t]) >= Wanted(t)

RatingsSettle ==
    /\ stage \in {"merge", "rows", "scores"} =>
          \A t \in Imported \ todo :
              ToTen(Best(t).score) > 0 => t \in ratings \/ seenScores[t] # 0
    /\ stage = "done" => \A t \in Imported : ToTen(Best(t).score) > 0 => scores[t] # 0

SettleInv ==
    job = "import" /\ upsets = 0 /\ edits = 0 =>
        ReadsHold /\ MarksSettle /\ RowsSettle /\ RatingsSettle

LEMMA RowBelowMax ==
    ASSUME NEW r \in [Episode -> Row], NEW e \in Episode, r[e] # "none"
    PROVE  e <= MaxRow(r)
<1>1. r[e] \in Row \ {"none"}
  OBVIOUS
<1> QED BY <1>1, RowMaxima, Zenon DEF IsLastOf

(* There are as many rows to add as episodes after the last row.           *)
LEMMA AppendedCount ==
    ASSUME TypeInv, NEW t \in Imported, NEW r \in [Episode -> Row]
    PROVE  /\ Cardinality(Appended(t, r)) \in Nat
           /\ MaxRow(r) < Wanted(t) => Cardinality(Appended(t, r)) = Wanted(t) - MaxRow(r)
<1> DEFINE a == MaxRow(r) + 1
           b == Wanted(t)
<1>1. MaxRow(r) \in Nat /\ b \in Nat
  BY RowMaxima, BestType, Numbers DEF IsLastOf, TypeInv, ReadsOK
<1> HIDE DEF b
<1>2. a \in Int /\ b \in Int
  BY <1>1
<1> HIDE DEF a
<1>3. IsFiniteSet(a .. b) /\ Cardinality(a .. b) = IF a > b THEN 0 ELSE b - a + 1
  BY <1>2, FS_Interval
<1>4. IsFiniteSet({t}) /\ Cardinality({t}) = 1
  BY FS_Singleton
<1>5. Cardinality({t} \X (a .. b)) = Cardinality({t}) * Cardinality(a .. b)
  BY <1>3, <1>4, FS_Product
<1>6. Cardinality({t} \X (a .. b)) = IF a > b THEN 0 ELSE b - a + 1
  BY <1>2, <1>3, <1>4, <1>5
<1>7. Appended(t, r) = {t} \X (a .. b)
  BY DEF Appended, a, b
<1>8. (IF a > b THEN 0 ELSE b - a + 1) \in Nat
  BY <1>2
<1>9. MaxRow(r) < b => (IF a > b THEN 0 ELSE b - a + 1) = b - MaxRow(r)
  BY <1>1 DEF a
<1> QED BY <1>6, <1>7, <1>8, <1>9 DEF b

LEMMA RowsCount ==
    ASSUME TypeInv
    PROVE  Cardinality(rows) \in Nat
<1>1. IsFiniteSet(Episode) /\ IsFiniteSet(Title)
  BY FS_Interval, Numbers, ListTransferAssumption DEF Episode
<1>2. IsFiniteSet(Title \X Episode)
  BY <1>1, FS_Product
<1> QED BY <1>2, FS_Subset, FS_CardinalityType DEF TypeInv, PlanOK

(* Reconciling without trouble leaves no imported row beyond the tracker's *)
(* count, and plans every missing one unless it reports the limit.         *)
LEMMA ReconcileSettles ==
    ASSUME TypeInv, NEW t \in Imported, reconcile(t), \A what : ~Trouble(what),
           "history" \notin blind, ~limited, seenHistory[t] = history[t]
    PROVE  /\ history' \in Histories /\ Trimmed(history'[t], Wanted(t)) = history'[t]
           /\ ~limited' => Appended(t, history'[t]) \subseteq rows'
<1> DEFINE W == Wanted(t)
           trimmed == Trimmed(history[t], W)
           left == [history EXCEPT ![t] = Trimmed(@, Wanted(t))]
           more(r) == Appended(t, r)
           room == importMaxWatchRows - Cardinality(rows)
           add(r) == /\ rows' = rows \union {x \in more(r) : x[2] <= MaxRow(r) + room}
                     /\ limited' = (Cardinality(more(r)) > room)
<1>1. /\ t \in Title /\ W \in 0 .. Last /\ history \in Histories /\ history' \in Histories
      /\ history[t] \in [Episode -> Row]
  BY BestType, ReconcileType DEF TypeInv, TablesOK, ReadsOK, Imported, Histories
<1>2. left[t] = trimmed /\ left \in Histories
  BY <1>1, TrimmedType DEF Histories
<1>3. maxWatchEpisode(t, left) = trimmed
  BY <1>2 DEF maxWatchEpisode
<1>4. trimmed \in [Episode -> Row] /\ Trimmed(trimmed, W) = trimmed
  BY <1>1, TrimmedType DEF Trimmed
<1>5. MaxRow(history[t]) \in Int /\ W \in Int
  BY <1>1, RowMaxima, Numbers DEF IsLastOf
<1>6. ~(MaxRow(history[t]) > W) => Trimmed(history[t], W) = history[t]
  <2> SUFFICES ASSUME ~(MaxRow(history[t]) > W), NEW e \in Episode, e > W,
                      history[t][e] = "import"
               PROVE  FALSE
    BY <1>1 DEF Trimmed
  <2>1. e <= MaxRow(history[t])
    BY <1>1, RowBelowMax
  <2> HIDE DEF W, MaxRow
  <2> QED BY <1>5, <2>1, Numbers DEF Episode
<1>7. Trimmed(history'[t], W) = history'[t] /\ add(history'[t])
  <2> HIDE DEF W, left, trimmed, more, room
  <2>1. CASE MaxRow(seenHistory[t]) > Wanted(t)
    <3>1. history' = left
      BY <2>1, Zenon DEF reconcile, left
    <3>2. CASE left # history
      <4>1. add(maxWatchEpisode(t, left))
        BY <2>1, <3>2, Zenon DEF reconcile, left, more, room
      <4> QED BY <1>2, <1>3, <1>4, <3>1, <4>1
    <3>3. CASE left = history
      <4>1. add(seenHistory[t])
        BY <2>1, <3>3, Zenon DEF reconcile, left, more, room
      <4>2. seenHistory[t] = trimmed
        BY <1>2, <3>3
      <4> QED BY <1>2, <1>4, <3>1, <4>1, <4>2
    <3> QED BY <3>2, <3>3
  <2>2. CASE ~(MaxRow(seenHistory[t]) > Wanted(t))
    <3>1. history' = history /\ add(seenHistory[t])
      BY <2>2, Zenon DEF reconcile, left, more, room
    <3>2. Trimmed(history[t], W) = history[t]
      BY <1>6, <2>2 DEF W
    <3> QED BY <3>1, <3>2
  <2> QED BY <2>1, <2>2
<1>8. ASSUME ~limited', NEW x \in more(history'[t]) PROVE x \in rows'
  <2> DEFINE r == history'[t]
  <2>1. r \in [Episode -> Row]
    BY <1>1 DEF Histories
  <2>2. /\ Cardinality(more(r)) \in Nat /\ MaxRow(r) \in Int
        /\ MaxRow(r) < W => Cardinality(more(r)) = W - MaxRow(r)
    BY <2>1, AppendedCount, RowMaxima, Numbers DEF IsLastOf
  <2>3. room \in Int
    BY RowsCount, Numbers
  <2>4. Cardinality(more(r)) <= room
    <3> HIDE DEF more, room, r
    <3>1. ~(Cardinality(more(r)) > room)
      BY <1>7, <1>8, Zenon DEF r
    <3> QED BY <2>2, <2>3, <3>1
  <2>5. x[2] \in MaxRow(r) + 1 .. W
    BY <1>8 DEF Appended
  <2> HIDE DEF r, more, room, W, MaxRow
  <2>6. x[2] <= MaxRow(r) + room
    BY <1>5, <2>2, <2>3, <2>4, <2>5
  <2> QED BY <1>7, <1>8, <2>6 DEF r
<1> QED BY <1>1, <1>7, <1>8

(* What an import makes of the tracker's list depends on what it has read. *)
LEMMA SameEntries ==
    ASSUME UNCHANGED <<list, blind>>
    PROVE  /\ Imported' = Imported /\ \A t : Best(t)' = Best(t) /\ Wanted(t)' = Wanted(t)
           /\ favorites' = favorites => Fresh' = Fresh
<1>1. Imported' = Imported /\ \A t : Best(t)' = Best(t)
  BY DEF Imported, Best, EntriesOf, Listed
<1>2. \A t : Wanted(t)' = Wanted(t)
  BY <1>1 DEF Wanted
<1>3. favorites' = favorites => Fresh' = Fresh
  BY <1>1 DEF Fresh
<1> QED BY <1>1, <1>2, <1>3

(* What is settled about the bookmarks stays so to the end.                *)
LEMMA SameMarks ==
    ASSUME MarksSettle, UNCHANGED <<marks, favorites, seenHistory, list, blind>>,
           stage' = stage \/ stage \in {"merge", "rows", "scores", "done"}
    PROVE  MarksSettle'
<1>1. Imported' = Imported /\ Fresh' = Fresh /\ \A t : Best(t)' = Best(t)
  BY SameEntries
<1>2. \A t : MaxRow(seenHistory[t])' = MaxRow(seenHistory[t])
  BY DEF MaxRow
<1>3. CASE stage \in {"merge", "rows", "scores", "done"}
  <2> HIDE DEF MaxRow
  <2> QED BY <1>1, <1>2, <1>3 DEF MarksSettle
<1>4. CASE stage' = stage
  <2> HIDE DEF MaxRow
  <2> QED BY <1>1, <1>2, <1>4 DEF MarksSettle
<1> QED BY <1>3, <1>4

(* The insertion completes the rows of a title.                            *)
LEMMA InsertedSettles ==
    ASSUME TypeInv, NEW t \in Imported, Trimmed(history[t], Wanted(t)) = history[t],
           Appended(t, history[t]) \subseteq rows,
           \A x \in rows : x[1] = t => x[2] <= Wanted(t)
    PROVE  /\ Trimmed(Inserted(rows)[t], Wanted(t)) = Inserted(rows)[t]
           /\ MaxRow(Inserted(rows)[t]) >= Wanted(t)
<1> DEFINE r == history[t]
           s == Inserted(rows)[t]
           W == Wanted(t)
<1>1. t \in Title /\ W \in 0 .. Last /\ r \in [Episode -> Row]
  BY BestType DEF TypeInv, TablesOK, ReadsOK, Imported, Histories
<1>2. s = [e \in Episode |-> IF <<t, e>> \in rows THEN "import" ELSE r[e]]
  BY <1>1 DEF Inserted
<1>3. s \in [Episode -> Row] /\ \A e \in Episode : s[e] = "none" => r[e] = "none"
  BY <1>1, <1>2 DEF Row
<1>4. MaxRow(r) \in 0 .. Last /\ MaxRow(s) \in 0 .. Last
  BY <1>1, <1>3, RowMaxima DEF IsLastOf
<1>5. Trimmed(s, W) = s
  <2> SUFFICES ASSUME NEW e \in Episode, e > W, s[e] = "import" PROVE FALSE
    BY <1>3 DEF Trimmed
  <2>1. <<t, e>> \notin rows
    <3>1. ~(e <= W)
      BY <1>1, Numbers DEF Episode
    <3> QED BY <3>1
  <2>2. r[e] = "import"
    BY <1>2, <2>1
  <2>3. Trimmed(r, W)[e] = "none"
    BY <2>2 DEF Trimmed
  <2> QED BY <2>2, <2>3
<1>6. MaxRow(s) >= W
  <2>1. CASE W = 0
    BY <1>4, <2>1, Numbers
  <2>2. CASE W > 0 /\ MaxRow(r) >= W
    <3>1. MaxRow(r) \in Episode /\ r[MaxRow(r)] # "none"
      BY <1>1, <1>4, <2>2, RowMaxima, Numbers DEF IsLastOf
    <3>2. MaxRow(r) <= MaxRow(s)
      BY <1>3, <3>1, RowBelowMax
    <3> HIDE DEF W, r, s, MaxRow
    <3> QED BY <1>1, <1>4, <2>2, <3>2, Numbers
  <2>3. CASE W > 0 /\ MaxRow(r) < W
    <3>1. W \in Episode
      BY <1>1, <2>3, Numbers DEF Episode
    <3>2. W \in MaxRow(r) + 1 .. W
      BY <1>1, <1>4, <2>3, Numbers
    <3>3. <<t, W>> \in rows
      BY <3>2 DEF Appended
    <3>4. s[W] = "import"
      BY <1>2, <3>1, <3>3
    <3>5. W <= MaxRow(s)
      BY <1>3, <3>1, <3>4, RowBelowMax
    <3> HIDE DEF W, s, MaxRow
    <3> QED BY <1>1, <1>4, <3>5, Numbers
  <2> QED BY <1>1, <1>4, <2>1, <2>2, <2>3, Numbers
<1> QED BY <1>5, <1>6

(* What bookmarking and backfilling leave in the table.                    *)
LEMMA StoredIs ==
    ASSUME ReadsOK, NEW t \in Imported
    PROVE  /\ Stored(t) # "absent"
           /\ StatusColumn => Stored(t) = Normal(Best(t).status)
           /\ t \in Title /\ Normal(Best(t).status) \in Canonical
<1>1. Normal(Best(t).status) \in Canonical /\ t \in Title
  BY BestType DEF ReadsOK
<1> QED BY <1>1 DEF Stored, Canonical

LEMMA InsertSettles ==
    ASSUME TypeInv, blind = {}, \A t \in favorites : marks[t] # "absent", NEW t \in Imported
    PROVE  /\ Marked(Fresh)[t] # "absent"
           /\ StatusColumn /\ t \in Fresh => Marked(Fresh)[t] = Normal(Best(t).status)
<1>1. t \in Title /\ ReadsOK
  BY DEF Imported, TypeInv
<1>2. CASE t \in Fresh
  BY <1>1, <1>2, StoredIs DEF Marked
<1>3. CASE t \notin Fresh
  BY <1>1, <1>3 DEF Marked, Fresh
<1> QED BY <1>2, <1>3

LEMMA BackfillSettles ==
    ASSUME TypeInv, StatusColumn, seenMarks = marks, "history" \notin blind,
           NEW t \in Imported, t \in Fresh => marks[t] = Normal(Best(t).status)
    PROVE  \/ Marked(Backfilled)[t] = Normal(Best(t).status)
           \/ Marked(Backfilled)[t] \in Canonical /\ MaxRow(seenHistory[t]) # 0
<1>1. t \in Title /\ ReadsOK
  BY DEF Imported, TypeInv
<1>2. CASE t \in Backfilled
  BY <1>1, <1>2, StoredIs DEF Marked
<1>3. CASE t \in Fresh /\ t \notin Backfilled
  BY <1>1, <1>3 DEF Marked
<1>4. CASE t \notin Fresh /\ t \notin Backfilled
  <2>1. ~(/\ seenMarks[t] # Normal(Best(t).status)
          /\ seenMarks[t] \in Canonical => "history" \notin blind /\ MaxRow(seenHistory[t]) = 0)
    BY <1>4, Zenon DEF Backfilled
  <2>2. Marked(Backfilled)[t] = marks[t]
    BY <1>1, <1>4 DEF Marked
  <2> QED BY <2>1, <2>2, Zenon
<1> QED BY <1>2, <1>3, <1>4

LEMMA SettleStep == TypeInv /\ LocalInv /\ DoneOK /\ SettleInv /\ [Next]_vars => SettleInv'
<1> SUFFICES ASSUME TypeInv, LocalInv, DoneOK, SettleInv, [Next]_vars,
                    job' = "import", upsets' = 0, edits' = 0
             PROVE  ReadsHold' /\ MarksSettle' /\ RowsSettle' /\ RatingsSettle'
  BY DEF SettleInv
<1>1. upsets \in Nat /\ edits \in Nat /\ StageOK /\ CleanOK /\ ReadsOK /\ PlanOK
  BY DEF TypeInv, CountsOK
<1>2. CASE User
  BY <1>1, <1>2 DEF User, bookmark, play, rate, track, Acts
<1>3. CASE answer \/ abandon
  BY <1>3 DEF answer, abandon, Forgotten
<1>4. CASE \E j \in Jobs : begin(j)
  <2>1. stage' = "list" /\ blind' = {} /\ rows' = {}
    BY <1>1, <1>4 DEF begin, reads, plan, CleanOK, Clean
  <2> QED BY <2>1 DEF ReadsHold, MarksSettle, RowsSettle, RatingsSettle
<1>5. CASE UNCHANGED vars
  <2>1. UNCHANGED <<tables, reads, plan, report, job, stage, upsets, edits>>
    BY <1>5 DEF vars
  <2>2. UNCHANGED <<marks, history, scores, list, blind, favorites, seenMarks, seenHistory,
                    seenScores, todo, rows, ratings, limited, stage>>
    BY <2>1 DEF tables, reads, plan, report
  <2>3. ReadsHold /\ MarksSettle /\ RowsSettle /\ RatingsSettle
    BY <2>1 DEF SettleInv
  <2>4. ReadsHold' /\ MarksSettle'
    BY <2>2, <2>3, SameEntries, SameMarks DEF ReadsHold
  <2>5. RowsSettle'
    BY <2>2, <2>3, SameEntries DEF RowsSettle, Appended
  <2>6. RatingsSettle'
    BY <2>2, <2>3, SameEntries DEF RatingsSettle
  <2> QED BY <2>4, <2>5, <2>6
<1>6. CASE Work
  <2>1. \A what : ~Trouble(what)
    BY <1>1 DEF Trouble
  <2>2. job = "import" /\ edits = 0
    BY <1>6 DEF Work, Import, Export, readList, readFavorites, insertBookmarks, readMeta,
       readScores, readStatus, readHistory, backfill, merge, insertWatchHistoryRows,
       insertEpisodeRatings, mapTitles, write, diff, nextBatch, send, endBatches, Step, Refused
  <2>3. upsets = 0
    BY <1>6, <2>1, Zenon DEF Work, Import, Export, readList, readFavorites, insertBookmarks,
       readMeta, readScores, readStatus, readHistory, backfill, merge, reconcile,
       insertWatchHistoryRows, insertEpisodeRatings, mapTitles, write, diff, nextBatch, send,
       endBatches, Fine
  <2>4. ReadsHold /\ MarksSettle /\ RowsSettle /\ RatingsSettle /\ blind = {}
    BY <2>2, <2>3 DEF SettleInv, ReadsHold
  <2>5. stage \in ImportStages
    BY <1>1, <2>2 DEF StageOK
  <2>6. CASE readList
    <3>1. stage = "list" /\ stage' = "favorites" /\ blind' = {} /\ rows' = rows
      BY <2>1, <2>2, <2>4, <2>6, ImportOrder DEF readList, Step, plan
    <3>2. rows = {}
      BY <3>1 DEF LocalInv, PlannedOK
    <3> QED BY <3>1, <3>2 DEF ReadsHold, MarksSettle, RowsSettle, RatingsSettle
  <2>7. CASE readFavorites
    <3>1. /\ stage = "favorites" /\ stage' = "insert" /\ blind' = {} /\ rows' = rows
          /\ todo' = Imported /\ favorites' \subseteq {t \in Title : marks[t] # "absent"}
          /\ marks' = marks /\ list' = list
      BY <2>1, <2>2, <2>4, <2>7, ImportOrder DEF readFavorites, Step, tables, AtMost, kSubset
    <3>2. rows = {}
      BY <3>1 DEF LocalInv, PlannedOK
    <3>3. Imported' = Imported
      BY <2>4, <3>1, SameEntries
    <3> QED BY <3>1, <3>2, <3>3 DEF ReadsHold, MarksSettle, RowsSettle, RatingsSettle
  <2>8. CASE insertBookmarks
    <3>1. /\ stage = "insert" /\ stage' = "meta" /\ marks' = Marked(Fresh)
          /\ UNCHANGED <<history, scores, reads, plan>>
      BY <2>1, <2>2, <2>8, ImportOrder DEF insertBookmarks, Step
    <3>2. \A t \in Imported : /\ marks'[t] # "absent"
                              /\ StatusColumn /\ t \in Fresh => marks'[t] = Normal(Best(t).status)
      BY <2>4, <3>1, InsertSettles DEF ReadsHold
    <3>3. rows = {}
      BY <3>1 DEF LocalInv, PlannedOK
    <3> QED BY <2>4, <3>1, <3>2, <3>3, SameEntries
            DEF ReadsHold, MarksSettle, RowsSettle, RatingsSettle, reads, plan
  <2>9. CASE readMeta \/ readHistory \/ readScores \/ readStatus
    <3>1. /\ UNCHANGED <<tables, favorites, list, blind, plan>> /\ stage' = After
          /\ stage \in {"meta", "history", "ratings", "status"}
          /\ stage # "history" => seenHistory' = seenHistory
          /\ stage # "ratings" => seenScores' = seenScores
          /\ stage = "history" => seenHistory' = history
          /\ stage = "ratings" => seenScores' = scores
          /\ stage = "status" /\ StatusColumn => seenMarks' = marks
      BY <2>1, <2>9 DEF readMeta, readHistory, readScores, readStatus, Step
    <3>2. \/ stage = "meta" /\ stage' = "history"
          \/ stage = "history" /\ stage' = "ratings"
          \/ stage = "ratings" /\ stage' = "status"
          \/ stage = "status" /\ stage' = "backfill"
      BY <2>2, <3>1, ImportOrder
    <3>3. rows = {} /\ Imported' = Imported /\ Fresh' = Fresh
      BY <3>1, SameEntries DEF LocalInv, PlannedOK
    <3>4. ReadsHold'
      BY <2>4, <3>1, <3>2, <3>3 DEF ReadsHold, tables, plan
    <3>5. MarksSettle'
      BY <2>4, <3>1, <3>2, <3>3, SameEntries DEF MarksSettle, tables
    <3> QED BY <3>1, <3>2, <3>3, <3>4, <3>5 DEF RowsSettle, RatingsSettle, plan
  <2>10. CASE backfill
    <3>1. /\ stage = "backfill" /\ stage' = "merge" /\ UNCHANGED <<history, scores, reads, plan>>
          /\ StatusColumn => marks' = Marked(Backfilled)
          /\ ~StatusColumn => marks' = marks
      BY <2>1, <2>2, <2>10, ImportOrder DEF backfill, Step
    <3>2. rows = {} /\ Imported' = Imported /\ Fresh' = Fresh /\ todo' = Imported
      BY <2>4, <3>1, SameEntries DEF LocalInv, PlannedOK, reads, plan, ReadsHold
    <3>3. \A t \in Imported : /\ marks'[t] # "absent"
                              /\ StatusColumn => \/ marks'[t] = Normal(Best(t).status)
                                                 \/ marks'[t] \in Canonical /\ MaxRow(seenHistory[t]) # 0
                              /\ StatusColumn /\ t \in Fresh => marks'[t] = Normal(Best(t).status)
      <4>1. CASE StatusColumn
        <5>1. \A t \in Imported :
                 \/ marks'[t] = Normal(Best(t).status)
                 \/ marks'[t] \in Canonical /\ MaxRow(seenHistory[t]) # 0
          BY <2>4, <3>1, <4>1, BackfillSettles DEF ReadsHold, MarksSettle
        <5>2. \A t \in Imported : Normal(Best(t).status) \in Canonical
          BY <1>1, StoredIs
        <5>3. \A t \in Imported : t \in Fresh => marks'[t] = Normal(Best(t).status)
          <6> SUFFICES ASSUME NEW t \in Imported, t \in Fresh
                       PROVE  Marked(Backfilled)[t] = Normal(Best(t).status)
            BY <3>1, <4>1
          <6>1. marks[t] = Normal(Best(t).status) /\ t \notin Backfilled /\ t \in Title
            BY <2>4, <3>1, <4>1 DEF MarksSettle, Backfilled, Imported
          <6> QED BY <6>1 DEF Marked
        <5> QED BY <5>1, <5>2, <5>3 DEF Canonical
      <4>2. CASE ~StatusColumn
        BY <2>4, <3>1, <4>2 DEF MarksSettle
      <4> QED BY <4>1, <4>2
    <3>4. ReadsHold'
      BY <2>4, <3>1, <3>2 DEF ReadsHold, reads
    <3>5. MarksSettle'
      <4>1. /\ \A t : MaxRow(seenHistory[t])' = MaxRow(seenHistory[t])
            /\ \A t : Best(t)' = Best(t)
        BY <3>1, SameEntries DEF MaxRow, reads
      <4> HIDE DEF MaxRow
      <4> QED BY <3>1, <3>2, <3>3, <4>1 DEF MarksSettle
    <3> QED BY <3>1, <3>2, <3>4, <3>5 DEF RowsSettle, RatingsSettle, plan
  <2>11. CASE merge /\ \E t \in todo : reconcile(t) /\ todo' = todo \ {t}
    <3>1. PICK t \in todo :
            /\ reconcile(t) /\ todo' = todo \ {t} /\ stage' = stage
            /\ ratings' = IF Unrated(t) THEN ratings \union {t} ELSE ratings
      <4>1. todo' # todo
        BY <2>11
      <4>2. stage' # After
        BY <2>2, <2>11, <4>1, ImportOrder DEF merge
      <4> QED BY <2>11, <4>2 DEF merge
    <3>2. /\ stage = "merge" /\ t \in Imported /\ seenHistory[t] = history[t]
          /\ UNCHANGED <<marks, scores, favorites, seenMarks, seenHistory, seenScores, list, blind>>
      BY <1>1, <2>2, <2>4, <2>11 DEF merge, PlanOK, ReadsHold, reads
    <3>3. Imported' = Imported /\ Fresh' = Fresh /\ \A u : Best(u)' = Best(u) /\ Wanted(u)' = Wanted(u)
      BY <3>2, SameEntries
    <3>4. /\ \A u \in Title \ {t} : history'[u] = history[u]
          /\ \A x \in rows' : \/ x \in rows \/ x \in Appended(t, seenHistory[t])
                             \/ x \in Appended(t, Trimmed(history[t], Wanted(t)))
          /\ rows \subseteq rows'
      BY <3>1, <3>2, Reconciled, ReconcileType
    <3>5. limited => UNCHANGED <<history, rows, limited>>
      BY <3>1 DEF reconcile
    <3>6. ~limited =>
            /\ history' \in Histories /\ Trimmed(history'[t], Wanted(t)) = history'[t]
            /\ ~limited' => Appended(t, history'[t]) \subseteq rows'
      BY <2>1, <2>4, <3>1, <3>2, ReconcileSettles
    <3>7. \A u \in todo' : seenHistory'[u] = history'[u]
      BY <1>1, <2>4, <3>1, <3>2, <3>4 DEF ReadsHold, PlanOK
    <3>8. ReadsHold'
      BY <2>4, <3>1, <3>2, <3>7 DEF ReadsHold
    <3>9. MarksSettle'
      BY <2>4, <3>1, <3>2, SameMarks
    <3>10. RowsSettle'
      <4>1. \A x \in rows' : x[1] \in Imported /\ x[2] <= Wanted(x[1])
        <5>1. ASSUME NEW r, NEW x \in Appended(t, r) PROVE x[1] = t /\ x[2] <= Wanted(x[1])
          <6> HIDE DEF MaxRow
          <6>1. x[1] = t /\ x[2] \in MaxRow(r) + 1 .. Wanted(t)
            BY <5>1 DEF Appended
          <6> QED BY <6>1
        <5>2. \A x \in rows : x[1] \in Imported /\ x[2] <= Wanted(x[1])
          BY <2>4 DEF RowsSettle
        <5> QED BY <3>2, <3>4, <5>1, <5>2
      <4>2. ASSUME ~limited', NEW u \in Imported, u \notin todo'
            PROVE  /\ Appended(u, history'[u]) \subseteq rows'
                   /\ Trimmed(history'[u], Wanted(u)) = history'[u]
        <5>1. ~limited
          BY <3>5, <4>2
        <5>2. CASE u = t
          BY <3>6, <4>2, <5>1, <5>2
        <5>3. CASE u # t
          <6>1. u \in Imported \ todo /\ u \in Title
            BY <3>1, <4>2, <5>3 DEF Imported
          <6>2. Appended(u, history[u]) \subseteq rows /\ Trimmed(history[u], Wanted(u)) = history[u]
            BY <2>4, <3>2, <5>1, <6>1 DEF RowsSettle
          <6> QED BY <3>4, <5>3, <6>1, <6>2
        <5> QED BY <5>2, <5>3
      <4>3. \A u : Appended(u, history[u])' = Appended(u, history'[u])
        BY <3>3 DEF Appended
      <4> QED BY <3>1, <3>2, <3>3, <4>1, <4>2, <4>3 DEF RowsSettle
    <3>11. RatingsSettle'
      <4>1. ASSUME NEW u \in Imported, u \notin todo', ToTen(Best(u).score) > 0
            PROVE  u \in ratings' \/ seenScores[u] # 0
        <5>1. CASE u = t
          BY <2>4, <3>1, <4>1, <5>1 DEF Unrated
        <5>2. CASE u # t
          BY <2>4, <3>1, <3>2, <4>1, <5>2 DEF RatingsSettle
        <5> QED BY <5>1, <5>2
      <4> QED BY <3>1, <3>2, <3>3, <4>1 DEF RatingsSettle
    <3> QED BY <3>8, <3>9, <3>10, <3>11
  <2>12. CASE merge /\ ~\E t \in todo : reconcile(t) /\ todo' = todo \ {t}
    <3>1. /\ stage = "merge" /\ stage' = "rows" /\ todo = {} /\ todo' = {}
          /\ UNCHANGED <<history, seenHistory, rows, ratings, limited>>
          /\ UNCHANGED <<marks, scores, favorites, seenMarks, seenScores, list, blind>>
      BY <2>2, <2>12, ImportOrder DEF merge, reads
    <3>2. /\ Imported' = Imported /\ Fresh' = Fresh
          /\ \A u : Best(u)' = Best(u) /\ Wanted(u)' = Wanted(u)
      BY <3>1, SameEntries
    <3>3. \A u : Appended(u, history[u])' = Appended(u, history[u])
      BY <3>1, <3>2 DEF Appended
    <3>4. ReadsHold' /\ MarksSettle'
      BY <2>4, <3>1, <3>2, SameMarks DEF ReadsHold
    <3>5. RowsSettle'
      BY <2>4, <3>1, <3>2, <3>3 DEF RowsSettle
    <3>6. RatingsSettle'
      BY <2>4, <3>1, <3>2 DEF RatingsSettle
    <3> QED BY <3>4, <3>5, <3>6
  <2>13. CASE insertWatchHistoryRows
    <3>1. /\ stage = "rows" /\ stage' = "scores" /\ history' = Inserted(rows)
          /\ UNCHANGED <<marks, scores, reads, plan, limited>>
      BY <2>1, <2>2, <2>13, ImportOrder DEF insertWatchHistoryRows, Step, report
    <3>2. /\ Imported' = Imported /\ Fresh' = Fresh /\ todo = {} /\ rows' = rows
          /\ \A u : Best(u)' = Best(u) /\ Wanted(u)' = Wanted(u)
      BY <3>1, SameEntries DEF reads, plan, DoneOK
    <3>3. ReadsHold' /\ MarksSettle'
      BY <2>4, <3>1, <3>2, SameMarks DEF ReadsHold, reads
    <3>4. ASSUME ~limited, NEW t \in Imported
          PROVE  /\ Trimmed(Inserted(rows)[t], Wanted(t)) = Inserted(rows)[t]
                 /\ MaxRow(Inserted(rows)[t]) >= Wanted(t)
      <4>1. /\ Appended(t, history[t]) \subseteq rows
            /\ Trimmed(history[t], Wanted(t)) = history[t]
        BY <2>4, <3>1, <3>2, <3>4 DEF RowsSettle
      <4>2. \A x \in rows : x[1] = t => x[2] <= Wanted(t)
        BY <2>4 DEF RowsSettle
      <4> QED BY <4>1, <4>2, InsertedSettles
    <3>5. RowsSettle'
      <4>1. \A x \in rows : x[1] \in Imported /\ x[2] <= Wanted(x[1])
        BY <2>4 DEF RowsSettle
      <4>2. \A t \in Imported : MaxRow(history[t])' = MaxRow(Inserted(rows)[t])
        BY <3>1 DEF MaxRow
      <4> QED BY <3>1, <3>2, <3>4, <4>1, <4>2 DEF RowsSettle
    <3>6. RatingsSettle'
      BY <2>4, <3>1, <3>2 DEF RatingsSettle, reads, plan
    <3> QED BY <3>3, <3>5, <3>6
  <2>14. CASE insertEpisodeRatings
    <3>1. /\ stage = "scores" /\ stage' = "done"
          /\ UNCHANGED <<marks, history, reads, plan, limited>>
          /\ scores' = [t \in Title |-> IF t \in ratings THEN ToTen(Best(t).score) ELSE scores[t]]
      BY <2>1, <2>2, <2>14, ImportOrder DEF insertEpisodeRatings, Step, report
    <3>2. /\ Imported' = Imported /\ Fresh' = Fresh /\ todo = {} /\ rows' = rows
          /\ \A u : Best(u)' = Best(u) /\ Wanted(u)' = Wanted(u)
      BY <3>1, SameEntries DEF reads, plan, DoneOK
    <3>3. ReadsHold' /\ MarksSettle'
      BY <2>4, <3>1, <3>2, SameMarks DEF ReadsHold, reads
    <3>4. RowsSettle'
      BY <2>4, <3>1, <3>2 DEF RowsSettle
    <3>5. \A t \in Imported : ToTen(Best(t).score) > 0 => scores'[t] # 0
      <4> SUFFICES ASSUME NEW t \in Imported, ToTen(Best(t).score) > 0 PROVE scores'[t] # 0
        OBVIOUS
      <4>1. t \in Title /\ ToTen(Best(t).score) \in Int
        BY <1>1, BestType, Numbers DEF ReadsOK
      <4>2. t \in ratings \/ scores[t] # 0
        BY <2>4, <3>1, <3>2 DEF RatingsSettle, ReadsHold
      <4> QED BY <3>1, <4>1, <4>2
    <3>6. RatingsSettle'
      BY <3>1, <3>2, <3>5 DEF RatingsSettle
    <3> QED BY <3>3, <3>4, <3>6
  <2>15. CASE Export
    BY <2>5, <2>15 DEF Export, mapTitles, write, diff, nextBatch, send, endBatches, Step, Refused,
       ImportStages
  <2> QED BY <1>6, <2>6, <2>7, <2>8, <2>9, <2>10, <2>11, <2>12, <2>13, <2>14, <2>15
          DEF Work, Import
<1> QED BY <1>2, <1>3, <1>4, <1>5, <1>6 DEF Next

(* After an import that met no trouble and nobody disturbed, another one   *)
(* finds a bookmark with a status for every title, no row to add or to     *)
(* take back, no rating to fill in, and no status to write over but those  *)
(* of titles whose last made-up rows this very import has taken back.      *)
THEOREM ImportsSettle == Spec => []ImportSettles
<1>1. Init => LocalInv /\ DoneOK /\ SettleInv
  BY DEF Init, LocalInv, SeenOK, RowsOK, RatingsOK, PlannedOK, NoRows, Player, DoneOK, SettleInv
<1>2. TypeInv /\ SettleInv => ImportSettles
  <2> SUFFICES ASSUME TypeInv, SettleInv, job = "import", stage = "done", upsets = 0, edits = 0,
                      ~limited, NEW t \in Imported
               PROVE  /\ marks[t] # "absent" /\ (StatusColumn => marks[t] \in Canonical)
                      /\ StatusDue(t) => MaxRow(seenHistory[t]) > Wanted(t)
                      /\ Trimmed(history[t], Wanted(t)) = history[t]
                      /\ MaxRow(history[t]) >= Wanted(t)
                      /\ ToTen(Best(t).score) > 0 => scores[t] # 0
    BY DEF ImportSettles
  <2>1. MarksSettle /\ RowsSettle /\ RatingsSettle
    BY DEF SettleInv
  <2>2. /\ t \in Title /\ Wanted(t) \in 0 .. Last /\ Normal(Best(t).status) \in Canonical
        /\ seenHistory[t] \in [Episode -> Row]
    BY BestType DEF TypeInv, ReadsOK, Imported, Histories
  <2>3. /\ Trimmed(history[t], Wanted(t)) = history[t] /\ MaxRow(history[t]) >= Wanted(t)
        /\ ToTen(Best(t).score) > 0 => scores[t] # 0
    BY <2>1 DEF RowsSettle, RatingsSettle
  <2>4. /\ marks[t] # "absent"
        /\ StatusColumn => \/ marks[t] = Normal(Best(t).status)
                           \/ marks[t] \in Canonical /\ MaxRow(seenHistory[t]) # 0
    BY <2>1 DEF MarksSettle
  <2>5. MaxRow(seenHistory[t]) \in 0 .. Last
    BY <2>2, RowMaxima DEF IsLastOf
  <2>6. StatusDue(t) => MaxRow(history[t]) = 0 /\ MaxRow(seenHistory[t]) # 0
    BY <2>4 DEF StatusDue
  <2> HIDE DEF MaxRow
  <2> QED BY <2>2, <2>3, <2>4, <2>5, <2>6, Numbers
<1> QED BY <1>1, <1>2, TypesKept, LocalStep, DoneStep, SettleStep, PTL DEF Spec

=============================================================================
