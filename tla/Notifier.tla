------------------------------ MODULE Notifier ------------------------------
(***************************************************************************)
(* The notification pipeline of internal/api/v1/notify.go.  One background *)
(* goroutine keeps a book of the bookmarked shows, with a check for each   *)
(* episode that airs, and probes the providers when a check is due; users  *)
(* who press play trigger announcements beside it.  Both write to the      *)
(* notifications table of Supabase, which outlives the process.            *)
(*                                                                         *)
(* Times are kept relative to now: how long until a check is due, and how  *)
(* long until it is given up.  A tick is long for the goroutine, which     *)
(* looks up every show of a small book and probes what is due within it.   *)
(* The table is modelled for one user.                                     *)
(***************************************************************************)
EXTENDS Integers, FiniteSets

CONSTANTS
    Show,
    Episodes,       \* of each show
    Period,         \* ticks from one episode's airtime to the next
    FirstDelay,     \* notifierFirstCheckDelay
    Retry,          \* notifierRetryDelay
    GiveUp,         \* notifierGiveUpAfter
    Window,         \* scheduleAiringWindow
    SeenWindow,     \* the 48 hours of the transition detection
    Retention,      \* notifierSentRetention
    Missing,        \* shows that are gone from AniList: their look-up fails
    Upsets,         \* what may go wrong in a run,
    MaxUpsets,      \* and how often (a bound of the model)
    MaxRows         \* how many rows of an episode are told apart (likewise)

ASSUME NotifierAssumption ==
    /\ IsFiniteSet(Show) /\ Missing \subseteq Show
    /\ {Episodes, Period, FirstDelay, Retry, GiveUp, Window, SeenWindow, Retention}
         \subseteq Nat \ {0}
    /\ Retry <= FirstDelay /\ FirstDelay <= GiveUp /\ Window <= GiveUp /\ Period > 1
    /\ MaxUpsets \in Nat /\ MaxRows \in Nat \ {0}
    /\ Upsets \subseteq {"restart", "supabase", "anilist", "providers", "bookmarks"}

VARIABLES
    aired,          \* the latest episode of a show that has aired
    airsIn,         \* ticks until the next one does
    listed,         \* the episode AniList names as next; it may lag behind
    ended,          \* the shows AniList calls FINISHED
    playable,       \* the episodes some provider carries
    marked,         \* the shows the user has bookmarked
    rows,           \* how often the user has been told of an episode
    book,           \* the shows in the airing book,
    status,         \* showBook.status,
    seenNext,       \* lastSeenNext,
    seenAge,        \* how long ago lastSeenAt is,
    checks,         \* and their checks
    refreshed,      \* <<s, t>>: both have been looked up, s no later than t
    due,            \* the checks a sweep has yet to probe
    lookups,        \* how many shows have been looked up in this tick
    sent,           \* how long ago a key was entered in sent, Never if it is not there
    onDemand, scheduled,    \* the stage of a running sendEpisodeNotifications
    upsets          \* how often something has gone wrong

worldVars == <<aired, airsIn, listed, ended, playable, marked>>
bookVars  == <<book, status, seenNext, seenAge, checks, refreshed>>
loopVars  == <<due, lookups>>
sendVars  == <<sent, onDemand, scheduled>>
vars == <<worldVars, rows, bookVars, loopVars, sendVars, upsets>>

-----------------------------------------------------------------------------
Key      == Show \X (1 .. Episodes)
Never    == -1
Larger(a, b)  == IF a > b THEN a ELSE b
Smaller(a, b) == IF a < b THEN a ELSE b
NoStatus == ""
NoCheck  == [state |-> "none", wait |-> 0, left |-> 0]

upset(what) == what \in Upsets /\ upsets < MaxUpsets /\ upsets' = upsets + 1

-----------------------------------------------------------------------------
(* AniList, the providers and the user.                                    *)
notice(s) ==
    /\ listed[s] <= aired[s]
    /\ listed' = [listed EXCEPT ![s] = aired[s] + 1]
    /\ UNCHANGED <<aired, airsIn, ended, playable, marked, rows, bookVars, loopVars,
                   sendVars, upsets>>

finish(s) ==
    /\ listed[s] > Episodes /\ s \notin ended
    /\ ended' = ended \union {s}
    /\ UNCHANGED <<aired, airsIn, listed, playable, marked, rows, bookVars, loopVars,
                   sendVars, upsets>>

publish(k) ==
    /\ k[2] <= aired[k[1]] /\ k \notin playable
    /\ playable' = playable \union {k}
    /\ UNCHANGED <<aired, airsIn, listed, ended, marked, rows, bookVars, loopVars,
                   sendVars, upsets>>

bookmark(s) ==
    /\ upset("bookmarks")
    /\ marked' = IF s \in marked THEN marked \ {s} ELSE marked \union {s}
    /\ UNCHANGED <<aired, airsIn, listed, ended, playable, rows, bookVars, loopVars, sendVars>>

-----------------------------------------------------------------------------
(* refreshBookmarks: new bookmarks join, removed ones go with their checks. *)
fresh(B, old, new) == [s \in Show |-> IF s \in B THEN old[s] ELSE new]

reconcile(B) ==
    LET kept == book \intersect B IN
    /\ book'      = B
    /\ status'    = fresh(kept, status, NoStatus)
    /\ seenNext'  = fresh(kept, seenNext, 0)
    /\ seenAge'   = fresh(kept, seenAge, 0)
    /\ checks'    = [k \in Key |-> IF k[1] \in kept THEN checks[k] ELSE NoCheck]
    /\ refreshed' = refreshed \intersect (kept \X kept)

(* A load that fails or finds nothing new changes nothing.                 *)
refreshBookmarks ==
    /\ due = {} /\ book # marked
    /\ reconcile(marked)
    /\ UNCHANGED <<worldVars, rows, loopVars, sendVars, upsets>>

(* addCheck for an airtime a ticks from now, to an episode's check c.      *)
Added(c, a) ==
    IF a + Window < 0 THEN c
    ELSE IF c = NoCheck
         THEN [state |-> "pending", wait |-> Larger(a + FirstDelay, 0), left |-> a + GiveUp]
    ELSE IF a > -Window THEN [c EXCEPT !.left = a + GiveUp]
    ELSE c

TooOld(c) == c.left + Window < 0

(* The checks of show s when AniList names episode next, which airs in a   *)
(* ticks: the upcoming episode, those that aired since the last look, and  *)
(* the clean-up.                                                           *)
Passed(s, next) ==
    IF seenNext[s] > 0 /\ seenAge[s] <= SeenWindow THEN seenNext[s] .. next - 1 ELSE {}

ScheduledSlot(s, next, a) ==
    [k \in Key |-> IF k[1] # s THEN checks[k]
                   ELSE IF k[2] = next THEN Added(checks[k], Larger(a, 0)) ELSE NoCheck]

Scheduled(s, next, a) ==
    [k \in Key |->
        LET c == IF k[1] = s /\ k[2] = next THEN Added(checks[k], Larger(a, 0))
                 ELSE IF k[1] = s /\ k[2] \in Passed(s, next)
                 THEN Added(checks[k], -seenAge[s])
                 ELSE checks[k]
        IN IF k[1] = s /\ c # NoCheck /\ TooOld(c) THEN NoCheck ELSE c]

(* refreshOneAiring: scheduleStaleAfter is added to now, not taken from    *)
(* it, so every show is stale and the one looked up the longest ago goes   *)
(* first, before it those never looked up and those whose look-up failed.  *)
LookedUp == {s \in Show : <<s, s>> \in refreshed}

Stalest ==
    IF book = LookedUp THEN {s \in book : \A t \in book : <<s, t>> \in refreshed}
    ELSE book \ LookedUp

Unstamped(s) == {p \in refreshed : s # p[1] /\ s # p[2]}
Stamped(s)   == Unstamped(s) \union {<<t, s>> : t \in LookedUp \union {s}}

NextAirsIn(s) == IF listed[s] > aired[s] THEN airsIn[s] ELSE 0

refreshOneAiring(s) ==
    /\ due = {} /\ book # {} /\ lookups < Cardinality(Show)
    /\ s \in Stalest
    /\ lookups' = lookups + 1
    /\ \/ /\ s \notin Missing
          /\ refreshed' = Stamped(s)
          /\ status' = [status EXCEPT ![s] = IF s \in ended THEN "FINISHED" ELSE "RELEASING"]
          /\ IF s \in ended \/ listed[s] > Episodes
             THEN UNCHANGED <<seenNext, seenAge, checks>>
             ELSE /\ checks'   = Scheduled(s, listed[s], NextAirsIn(s))
                  /\ seenNext' = [seenNext EXCEPT ![s] = listed[s]]
                  /\ seenAge'  = [seenAge EXCEPT ![s] = 0]
          /\ UNCHANGED upsets
       \/ /\ IF s \in Missing THEN UNCHANGED upsets ELSE upset("anilist")
          /\ refreshed' = Unstamped(s)
          /\ UNCHANGED <<status, seenNext, seenAge, checks>>
    /\ UNCHANGED <<worldVars, rows, book, due, sendVars>>

(* sweepDueChecks: every due check of an airing show is put off by a retry *)
(* and probed in turn.  A sweep that finds none changes nothing.           *)
Due == {k \in Key : /\ status[k[1]] = "RELEASING"
                    /\ checks[k].state = "pending" /\ checks[k].wait = 0}

sweepDueChecks ==
    /\ due = {} /\ Due # {}
    /\ due' = Due
    /\ checks' = [k \in Key |-> IF k \in Due THEN [checks[k] EXCEPT !.wait = Retry]
                                ELSE checks[k]]
    /\ UNCHANGED <<worldVars, rows, book, status, seenNext, seenAge, refreshed,
                   lookups, sendVars, upsets>>

(* One due check: past its time it is dead; a source found announces it.   *)
ExpiredNever(c) == FALSE

Expired(c) == c.left < 0

probe(k) ==
    /\ k \in due
    /\ due' = due \ {k}
    /\ \/ /\ Expired(checks[k])
          /\ checks' = [checks EXCEPT ![k].state = "dead"]
          /\ UNCHANGED <<scheduled, upsets>>
       \/ /\ ~Expired(checks[k]) /\ k \in playable
          /\ checks' = [checks EXCEPT ![k].state = "notified"]
          /\ scheduled' = [scheduled EXCEPT ![k] = "ask"]
          /\ UNCHANGED upsets
       \/ /\ ~Expired(checks[k])
          /\ IF k \in playable THEN upset("providers") ELSE UNCHANGED upsets
          /\ UNCHANGED <<checks, scheduled>>
    /\ UNCHANGED <<worldVars, rows, book, status, seenNext, seenAge, refreshed,
                   lookups, sent, onDemand>>

-----------------------------------------------------------------------------
(* notifyEpisode: an episode resolved for a user, and no announcement of   *)
(* it is remembered.                                                       *)
Remembered(k) == sent[k] # Never

notifyEpisode(k) ==
    /\ k \in playable /\ ~Remembered(k)
    /\ sent' = [sent EXCEPT ![k] = 0]
    /\ onDemand' = [onDemand EXCEPT ![k] = "ask"]
    /\ UNCHANGED <<worldVars, rows, bookVars, loopVars, scheduled, upsets>>

(* episodeIsFresh, asked of AniList.                                       *)
episodeIsFresh(k) ==
    LET s == k[1] IN
    /\ s \notin ended
    /\ k[2] = listed[s] - 1 \/ (k[2] = listed[s] /\ listed[s] <= Episodes)

(* sendEpisodeNotifications, first its reads: the gate, who has bookmarked *)
(* the show, and who has been told already.                                *)
ToTellAll(k) == k[1] \in marked

ToTell(k) == k[1] \in marked /\ rows[k] = 0

askOnDemand(k) ==
    /\ onDemand[k] = "ask"
    /\ onDemand' = [onDemand EXCEPT ![k] =
                      IF episodeIsFresh(k) /\ ToTell(k) THEN "insert" ELSE "none"]
    /\ UNCHANGED <<worldVars, rows, bookVars, loopVars, sent, scheduled, upsets>>

askScheduled(k) ==
    /\ scheduled[k] = "ask"
    /\ scheduled' = [scheduled EXCEPT ![k] =
                      IF k[1] \notin ended /\ ToTell(k) THEN "insert" ELSE "none"]
    /\ UNCHANGED <<worldVars, rows, bookVars, loopVars, sent, onDemand, upsets>>

(* Then the insert.                                                        *)
insertOnDemand(k) ==
    /\ onDemand[k] = "insert"
    /\ rows' = [rows EXCEPT ![k] = Smaller(@ + 1, MaxRows)]
    /\ onDemand' = [onDemand EXCEPT ![k] = "none"]
    /\ UNCHANGED <<worldVars, bookVars, loopVars, sent, scheduled, upsets>>

insertScheduled(k) ==
    /\ scheduled[k] = "insert"
    /\ rows' = [rows EXCEPT ![k] = Smaller(@ + 1, MaxRows)]
    /\ scheduled' = [scheduled EXCEPT ![k] = "none"]
    /\ UNCHANGED <<worldVars, bookVars, loopVars, sent, onDemand, upsets>>

(* Any of their requests fails, the insert possibly after it was done: a   *)
(* later play may try again, the scheduler does not.                       *)
failed == \E what \in {"supabase", "anilist"} : upset(what)

lost(k, stage) ==
    \/ UNCHANGED rows
    \/ stage = "insert" /\ rows' = [rows EXCEPT ![k] = Smaller(@ + 1, MaxRows)]

failOnDemand(k) ==
    /\ onDemand[k] # "none" /\ failed /\ lost(k, onDemand[k])
    /\ onDemand' = [onDemand EXCEPT ![k] = "none"]
    /\ sent' = [sent EXCEPT ![k] = Never]
    /\ UNCHANGED <<worldVars, bookVars, loopVars, scheduled>>

failScheduled(k) ==
    /\ scheduled[k] # "none" /\ failed /\ lost(k, scheduled[k])
    /\ scheduled' = [scheduled EXCEPT ![k] = "none"]
    /\ UNCHANGED <<worldVars, bookVars, loopVars, sent, onDemand>>

-----------------------------------------------------------------------------
(* The process dies and starts again, with an empty memory and, if it      *)
(* succeeds, a first load of the bookmarks.                                *)
Unknown  == [s \in Show |-> 0]
NoChecks == [k \in Key |-> NoCheck]
NoSends  == [k \in Key |-> "none"]
NotSent  == [k \in Key |-> Never]

restart ==
    /\ upset("restart")
    /\ book' \in {marked} \union (IF "supabase" \in Upsets THEN {{}} ELSE {})
    /\ status' = [s \in Show |-> NoStatus] /\ seenNext' = Unknown /\ seenAge' = Unknown
    /\ checks' = NoChecks /\ refreshed' = {}
    /\ due' = {} /\ lookups' = 0
    /\ sent' = NotSent /\ onDemand' = NoSends /\ scheduled' = NoSends
    /\ UNCHANGED <<worldVars, rows>>

(* Time passes once the goroutine and the announcements, whose contexts    *)
(* end in 30 seconds, have done their work of this tick.                   *)
Rested ==
    /\ due = {} /\ Due = {}
    /\ book = {} \/ lookups = Cardinality(Show)
    /\ \A k \in Key : onDemand[k] = "none" /\ scheduled[k] = "none"

airs(s) == aired[s] < Episodes /\ airsIn[s] = 1

(* AniList has yet to move on from the last episode, and the next one airs *)
(* within a tick.  That late it is only when something is wrong with it.   *)
late(s) == aired[s] < Episodes /\ listed[s] <= aired[s] /\ airsIn[s] <= 2

Older(c) == IF c = NoCheck THEN c
            ELSE [c EXCEPT !.wait = Larger(@ - 1, 0), !.left = Larger(@ - 1, -Window - 1)]

(* A key past its retention is as good as absent.                          *)
KeptOneMore(age) == IF age = Never \/ age >= Retention THEN Never ELSE age + 1

Kept(age) == IF age = Never \/ age + 1 >= Retention THEN Never ELSE age + 1

tick ==
    /\ Rested
    /\ IF \E s \in Show : late(s) THEN upset("anilist") ELSE UNCHANGED upsets
    /\ aired'  = [s \in Show |-> IF airs(s) THEN aired[s] + 1 ELSE aired[s]]
    /\ airsIn' = [s \in Show |-> IF airs(s) THEN Period ELSE Larger(airsIn[s] - 1, 0)]
    /\ seenAge' = [s \in Show |-> IF seenNext[s] = 0 THEN 0
                                  ELSE Smaller(seenAge[s] + 1, SeenWindow + 1)]
    /\ checks' = [k \in Key |-> Older(checks[k])]
    /\ sent' = [k \in Key |-> Kept(sent[k])]
    /\ lookups' = 0
    /\ UNCHANGED <<listed, ended, playable, marked, rows, book, status, seenNext,
                   refreshed, due, onDemand, scheduled>>

-----------------------------------------------------------------------------
Init ==
    /\ aired = [s \in Show |-> 0] /\ airsIn = [s \in Show |-> Period]
    /\ listed = [s \in Show |-> 1] /\ ended = {} /\ playable = {} /\ marked = Show
    /\ rows = [k \in Key |-> 0]
    /\ book = marked /\ status = [s \in Show |-> NoStatus]
    /\ seenNext = Unknown /\ seenAge = Unknown
    /\ checks = NoChecks /\ refreshed = {}
    /\ due = {} /\ lookups = 0
    /\ sent = NotSent /\ onDemand = NoSends /\ scheduled = NoSends
    /\ upsets = 0

Loop ==
    \/ refreshBookmarks \/ sweepDueChecks
    \/ \E s \in Show : refreshOneAiring(s)
    \/ \E k \in Key : probe(k)

Send(k) ==
    \/ askOnDemand(k) \/ insertOnDemand(k) \/ failOnDemand(k)
    \/ askScheduled(k) \/ insertScheduled(k) \/ failScheduled(k)

Next ==
    \/ Loop
    \/ \E k \in Key : Send(k) \/ notifyEpisode(k) \/ publish(k)
    \/ \E s \in Show : notice(s) \/ finish(s) \/ bookmark(s)
    \/ restart
    \/ tick

(* The process runs and its clock goes on.                                 *)
Fairness == WF_vars(Loop \/ tick \/ \E k \in Key : Send(k))

Spec == Init /\ [][Next]_vars /\ Fairness

-----------------------------------------------------------------------------
TypeOK ==
    /\ aired \in [Show -> 0 .. Episodes] /\ airsIn \in [Show -> 0 .. Period]
    /\ listed \in [Show -> 1 .. Episodes + 1]
    /\ ended \subseteq Show /\ playable \subseteq Key /\ marked \subseteq Show
    /\ rows \in [Key -> 0 .. MaxRows]
    /\ book \subseteq Show /\ status \in [Show -> {NoStatus, "RELEASING", "FINISHED"}]
    /\ seenNext \in [Show -> 0 .. Episodes] /\ seenAge \in [Show -> 0 .. SeenWindow + 1]
    /\ checks \in [Key -> [state : {"none", "pending", "notified", "dead"},
                           wait : 0 .. Period + FirstDelay,
                           left : -Window - 1 .. Period + GiveUp]]
    /\ refreshed \subseteq book \X book /\ due \subseteq {k \in Key : checks[k].state = "pending"}
    /\ lookups \in 0 .. Cardinality(Show)
    /\ sent \in [Key -> Never .. Retention - 1]
    /\ onDemand \in [Key -> {"none", "ask", "insert"}]
    /\ \A k \in Key : onDemand[k] # "none" => Remembered(k)
    /\ scheduled \in [Key -> {"none", "ask", "insert"}]
    /\ upsets \in 0 .. MaxUpsets

(* Two announcements of an episode may read before either inserts, one for *)
(* a play and one of the scheduler, so a user can be told twice.  Never    *)
(* more often, whatever fails, is retried after an insert that was done,   *)
(* is forgotten by a restart or is played again when its key has expired.  *)
AtMostTwice == \A k \in Key : rows[k] <= 2

(* As long as nothing goes wrong, an episode that has just aired and of    *)
(* which the user has not been told is being pursued, whether AniList      *)
(* moves on at once or only just before the next one airs: its check       *)
(* lives, is not late and is probed within a retry of its first time, or   *)
(* its announcement is under way.                                          *)
(* (Of the last episode only if AniList does not call the show FINISHED    *)
(* first; the airtime may be taken for the last look before it, a tick     *)
(* early.)                                                                 *)
NotLast == {k \in Key : k[2] < Episodes}

SinceAired(k) == Period - airsIn[k[1]]

JustAired(k) == k[2] = aired[k[1]] /\ SinceAired(k) + 1 < GiveUp

Pursued(k) ==
    \/ /\ checks[k].state = "pending" /\ ~Expired(checks[k])
       /\ checks[k].wait <= Larger(FirstDelay - SinceAired(k), Retry)
    \/ scheduled[k] # "none"

AiredPursued ==
    upsets = 0 => \A k \in NotLast : JustAired(k) /\ rows[k] = 0 => Pursued(k)

(* Whatever goes wrong, and however often AniList moves the airtime or     *)
(* restarts lose the book, the probing of an airing show's check ends with *)
(* its give-up time: one more probe finds it expired, a retry later or, if *)
(* look-ups failed for so long that its airtime was taken for the last one *)
(* before it, when its first probe is due.                                 *)
ProbingEnds ==
    \A k \in Key :
        checks[k].state = "pending" /\ status[k[1]] = "RELEASING"
            => checks[k].left >= -FirstDelay

=============================================================================
