---------------------------- MODULE AnilistClient ----------------------------
(***************************************************************************)
(* The AniList client of internal/api/v1: every catalog, notifier and sync *)
(* query goes through do, which asks the circuit breaker, joins a request  *)
(* for the same query that is in flight, looks in the response cache, and  *)
(* otherwise fetches with retries.  A failed fetch falls back to the       *)
(* cached response of any age; the janitor is what bounds that age.        *)
(*                                                                         *)
(* There is no clock: what the code compares with time.Now is kept as an   *)
(* age, and an age or a count stops growing once it is past everything it  *)
(* is compared with.                                                       *)
(***************************************************************************)
EXTENDS Integers, FiniteSets

CONSTANTS
    Call,               \* concurrent calls of do
    Query,              \* cache keys: a query with its variables
    NoCall, NoQuery,    \* no request in flight or waited on, no call made
    FreshTTL,           \* cacheTTL
    CacheTTL,           \* anilistCacheTTL
    JanitorPeriod,      \* the ticker of NewHandlers' janitor
    MaxEntries,         \* anilistCacheMaxEntries
    MaxRetries,         \* maxRetries
    FailureThreshold,   \* of the circuit breaker
    SuccessThreshold,
    Timeout,            \* how long an open circuit refuses
    Burst,              \* the token bucket's capacity
    LocalMirror         \* localMirror: the endpoint is the self-hosted bridge

ASSUME AnilistAssumption ==
    /\ {FreshTTL, CacheTTL, JanitorPeriod, FailureThreshold,
        SuccessThreshold, Timeout, Burst} \subseteq Nat \ {0}
    /\ {MaxEntries, MaxRetries} \subseteq Nat /\ LocalMirror \in BOOLEAN
    /\ FreshTTL <= CacheTTL
    /\ NoCall \notin Call /\ NoQuery \notin Query

VARIABLES
    circuit,        \* state: closed, open or halfOpen
    failures, successes,
    sinceFailure,   \* the age of lastFailure
    cache,          \* the age of each cached response, Never if there is none
    cut,            \* the keys whose cached body was cut off while it was read
    inflight,       \* anilistInflight: the call whose channel is registered
    tokens,         \* the token bucket
    untilSweep,     \* when the janitor's ticker fires
    sweep,          \* the janitor's pass: the keys evictStale has yet to visit
    doomed,         \* and the keys it has found too old and is deleting
    up,             \* does AniList answer
    pc, query, attempt,
    on,             \* the call whose channel a call waits on
    gone            \* the client has left: the call's context is done

circuitVars == <<circuit, failures, successes, sinceFailure>>
cacheVars   == <<cache, cut>>
janitorVars == <<untilSweep, sweep, doomed>>
callVars    == <<pc, query, attempt, on, gone>>
vars == <<circuitVars, cacheVars, inflight, tokens, janitorVars, up, callVars>>

-----------------------------------------------------------------------------
Never        == -1
MaxAge       == CacheTTL + JanitorPeriod + 1
AtMost(n, m) == IF n > m THEN m ELSE n
Cached       == {q \in Query : cache[q] # Never}
PC == {"idle", "look", "wait", "check", "register", "pace", "sent", "backoff", "leave"}

(* The stages of a call between its registration and the deferred clean-up. *)
Fetching     == {"pace", "sent", "backoff", "leave"}

goto(c, stage) == pc' = [pc EXCEPT ![c] = stage]

-----------------------------------------------------------------------------
(* The circuit breaker.                                                    *)
Allowed == circuit # "open" \/ sinceFailure > Timeout

allow ==
    /\ circuit' = IF circuit = "open" THEN "halfOpen" ELSE circuit
    /\ UNCHANGED <<failures, successes, sinceFailure>>

ClosesNever(n) == FALSE

Closes(n) == circuit = "halfOpen" /\ n >= SuccessThreshold

recordSuccess ==
    LET n == successes + 1 IN
    /\ failures'  = 0
    /\ circuit'   = IF Closes(n) THEN "closed" ELSE circuit
    /\ successes' = IF Closes(n) THEN 0 ELSE AtMost(n, SuccessThreshold)
    /\ UNCHANGED sinceFailure

recordFailure ==
    LET n == failures + 1 IN
    /\ failures' = AtMost(n, FailureThreshold)
    /\ successes' = 0 /\ sinceFailure' = 0
    /\ circuit' = IF n >= FailureThreshold THEN "open" ELSE circuit

-----------------------------------------------------------------------------
(* do, from its first line.  A call that an open circuit refuses returns   *)
(* the cached response of any age, or an error, and changes nothing.       *)
do(c, q) ==
    /\ pc[c] = "idle" /\ Allowed
    /\ allow
    /\ query' = [query EXCEPT ![c] = q]
    /\ goto(c, "look")
    /\ UNCHANGED <<cacheVars, inflight, tokens, janitorVars, up, attempt, on, gone>>

(* The call returns, and its caller may call again.                        *)
return(c) ==
    /\ query'   = [query EXCEPT ![c] = NoQuery]
    /\ attempt' = [attempt EXCEPT ![c] = 0]
    /\ gone'    = [gone EXCEPT ![c] = FALSE]

(* anilistInflight.Load: wait on the channel of a request in flight.       *)
look(c) ==
    /\ pc[c] = "look"
    /\ on' = [on EXCEPT ![c] = inflight[query[c]]]
    /\ goto(c, IF inflight[query[c]] # NoCall THEN "wait" ELSE "check")
    /\ UNCHANGED <<circuitVars, cacheVars, inflight, tokens, janitorVars, up,
                   query, attempt, gone>>

(* The waiter's client leaves before the channel is closed.                *)
giveUp(c) ==
    /\ pc[c] = "wait" /\ gone[c]
    /\ goto(c, "idle") /\ return(c)
    /\ on' = [on EXCEPT ![c] = NoCall]
    /\ UNCHANGED <<circuitVars, cacheVars, inflight, tokens, janitorVars, up>>

(* cache.Load: a response within its fresh life is the answer.             *)
IsFresh(q) == cache[q] # Never /\ cache[q] < FreshTTL

check(c) ==
    /\ pc[c] = "check"
    /\ \/ IsFresh(query[c]) /\ goto(c, "idle") /\ return(c)
       \/ /\ ~IsFresh(query[c]) /\ goto(c, "register")
          /\ UNCHANGED <<query, attempt, gone>>
    /\ UNCHANGED <<circuitVars, cacheVars, inflight, tokens, janitorVars, up, on>>

(* anilistInflight.Store, whatever is registered by now.                   *)
register(c) ==
    /\ pc[c] = "register"
    /\ inflight' = [inflight EXCEPT ![query[c]] = c]
    /\ goto(c, "pace")
    /\ UNCHANGED <<circuitVars, cacheVars, tokens, janitorVars, up,
                   query, attempt, on, gone>>

(* limiter.wait: once per call, its retries are not paced; the self-hosted *)
(* bridge is not paced at all.                                             *)
HasToken == tokens > 0

pace(c) ==
    /\ pc[c] = "pace"
    /\ \/ LocalMirror /\ goto(c, "sent") /\ UNCHANGED tokens
       \/ ~LocalMirror /\ HasToken /\ tokens' = tokens - 1 /\ goto(c, "sent")
       \/ ~LocalMirror /\ ~HasToken /\ gone[c] /\ goto(c, "leave") /\ UNCHANGED tokens
    /\ UNCHANGED <<circuitVars, cacheVars, inflight, janitorVars, up,
                   query, attempt, on, gone>>

(* AniList answers 200: the circuit hears of it, then the cache is filled. *)
(* The error of io.ReadAll is dropped, so a body cut off by the connection *)
(* or by the client's leaving passes for the whole one.                    *)
Broken(c) == ~up \/ gone[c]

succeeded(c) ==
    /\ pc[c] = "sent"
    /\ recordSuccess
    /\ cache'  = [cache EXCEPT ![query[c]] = 0]
    /\ \/ ~Broken(c) /\ cut' = cut \ {query[c]}
       \/ Broken(c) /\ cut' = cut \union {query[c]}
    /\ goto(c, "leave")
    /\ UNCHANGED <<inflight, tokens, janitorVars, up, query, attempt, on, gone>>

(* No answer, or 429: retried after a wait while attempts are left.  A     *)
(* client that has left fails the request too.                             *)
retried(c) ==
    /\ pc[c] = "sent" /\ Broken(c) /\ attempt[c] < MaxRetries
    /\ goto(c, "backoff")
    /\ UNCHANGED <<circuitVars, cacheVars, inflight, tokens, janitorVars, up,
                   query, attempt, on, gone>>

(* The same on the last attempt, or any other status on any attempt: the   *)
(* circuit hears of it, and the stale response is the answer if any is     *)
(* left.                                                                   *)
failed(c) ==
    /\ pc[c] = "sent"
    /\ ~up \/ (gone[c] /\ attempt[c] = MaxRetries)
    /\ recordFailure
    /\ goto(c, "leave")
    /\ UNCHANGED <<cacheVars, inflight, tokens, janitorVars, up, query, attempt, on, gone>>

(* The wait before the next attempt ends, or the client's context does: a  *)
(* select, whose timer cannot be the first if the client has left already. *)
backoff(c) ==
    /\ pc[c] = "backoff"
    /\ \/ ~gone[c] /\ attempt' = [attempt EXCEPT ![c] = @ + 1] /\ goto(c, "sent")
       \/ gone[c] /\ goto(c, "leave") /\ UNCHANGED attempt
    /\ UNCHANGED <<circuitVars, cacheVars, inflight, tokens, janitorVars, up,
                   query, on, gone>>

(* The deferred clean-up: whatever is registered for the query goes, and   *)
(* the call's own channel is closed.                                       *)
releasedIfRegistered(c) ==
    IF inflight[query[c]] = c THEN {w \in Call : pc[w] = "wait" /\ on[w] = c} ELSE {}

releasedOnSuccess(c) ==
    IF IsFresh(query[c]) THEN {w \in Call : pc[w] = "wait" /\ on[w] = c} ELSE {}

released(c) == {w \in Call : pc[w] = "wait" /\ on[w] = c}

leave(c) ==
    /\ pc[c] = "leave"
    /\ inflight' = [inflight EXCEPT ![query[c]] = NoCall]
    /\ pc' = [w \in Call |-> IF w = c THEN "idle"
                             ELSE IF w \in released(c) THEN "check" ELSE pc[w]]
    /\ on' = [w \in Call |-> IF w \in released(c) THEN NoCall ELSE on[w]]
    /\ return(c)
    /\ UNCHANGED <<circuitVars, cacheVars, tokens, janitorVars, up>>

(* The client disconnects.                                                 *)
disconnect(c) ==
    /\ pc[c] # "idle" /\ ~gone[c]
    /\ gone' = [gone EXCEPT ![c] = TRUE]
    /\ UNCHANGED <<circuitVars, cacheVars, inflight, tokens, janitorVars, up,
                   pc, query, attempt, on>>

-----------------------------------------------------------------------------
(* The janitor: when its ticker fires, evictStale visits every key and     *)
(* deletes by key what it found too old, even if it has been replaced      *)
(* since; evictOldest then finds and deletes the oldest above the maximum. *)
TooOldTwice(q) == cache[q] > CacheTTL + CacheTTL

TooOld(q) == cache[q] > CacheTTL

evictStale(q) ==
    /\ q \in sweep /\ doomed = {}
    /\ sweep' = sweep \ {q}
    /\ doomed' = IF TooOld(q) THEN {q} ELSE {}
    /\ UNCHANGED <<circuitVars, cacheVars, inflight, tokens, untilSweep, up, callVars>>

(* sort.Slice is not stable: which of two entries of one age goes is open. *)
Oldest(D) ==
    /\ \A p \in D, q \in Cached \ D : cache[p] >= cache[q]
    /\ Cardinality(Cached \ D) = AtMost(Cardinality(Cached), MaxEntries)

evictOldest ==
    /\ untilSweep = 0 /\ sweep = {} /\ doomed = {}
    /\ \E D \in SUBSET Cached : Oldest(D) /\ doomed' = D
    /\ untilSweep' = JanitorPeriod
    /\ UNCHANGED <<circuitVars, cacheVars, inflight, tokens, sweep, up, callVars>>

delete(q) ==
    /\ q \in doomed
    /\ cache'  = [cache EXCEPT ![q] = Never]
    /\ cut'    = cut \ {q}
    /\ doomed' = doomed \ {q}
    /\ UNCHANGED <<circuitVars, inflight, tokens, untilSweep, sweep, up, callVars>>

-----------------------------------------------------------------------------
(* AniList goes down or comes back.                                        *)
flip ==
    /\ up' = ~up
    /\ UNCHANGED <<circuitVars, cacheVars, inflight, tokens, janitorVars, callVars>>

(* Time passes.  The janitor's pass takes no time.                         *)
tick ==
    /\ untilSweep > 0 /\ doomed = {}
    /\ cache' = [q \in Query |-> IF cache[q] = Never THEN Never
                                 ELSE AtMost(cache[q] + 1, MaxAge)]
    /\ sinceFailure' = AtMost(sinceFailure + 1, Timeout + 1)
    /\ tokens' = AtMost(tokens + 1, Burst)
    /\ untilSweep' = untilSweep - 1
    /\ sweep' = IF untilSweep' = 0 THEN Query ELSE {}
    /\ UNCHANGED <<circuit, failures, successes, cut, inflight, doomed, up, callVars>>

-----------------------------------------------------------------------------
Init ==
    /\ circuit = "closed" /\ failures = 0 /\ successes = 0
    /\ sinceFailure = Timeout + 1
    /\ cache = [q \in Query |-> Never] /\ cut = {}
    /\ inflight = [q \in Query |-> NoCall]
    /\ tokens = Burst
    /\ untilSweep = JanitorPeriod /\ sweep = {} /\ doomed = {}
    /\ up \in BOOLEAN
    /\ pc = [c \in Call |-> "idle"] /\ query = [c \in Call |-> NoQuery]
    /\ attempt = [c \in Call |-> 0] /\ on = [c \in Call |-> NoCall]
    /\ gone = [c \in Call |-> FALSE]

(* What a call does once it is called, without its client.                 *)
Step(c) ==
    \/ look(c) \/ giveUp(c) \/ check(c) \/ register(c) \/ pace(c)
    \/ succeeded(c) \/ retried(c) \/ failed(c) \/ backoff(c)
    \/ leave(c)

Janitor == evictOldest \/ \E q \in Query : evictStale(q) \/ delete(q)

Calls == \E c \in Call, q \in Query : do(c, q)

Next ==
    \/ Calls
    \/ \E c \in Call : Step(c) \/ disconnect(c)
    \/ Janitor
    \/ flip
    \/ tick

(* The scheduler runs every goroutine, the HTTP client's timeout ends      *)
(* every request, and time passes; clients and AniList promise nothing.    *)
Fairness ==
    /\ \A c \in Call : WF_vars(Step(c))
    /\ WF_vars(Janitor) /\ WF_vars(tick)

Spec == Init /\ [][Next]_vars /\ Fairness

-----------------------------------------------------------------------------
TypeOK ==
    /\ circuit \in {"closed", "open", "halfOpen"}
    /\ failures \in 0 .. FailureThreshold
    /\ successes \in 0 .. SuccessThreshold
    /\ sinceFailure \in 0 .. Timeout + 1
    /\ cache \in [Query -> Never .. MaxAge] /\ cut \subseteq Cached
    /\ inflight \in [Query -> Call \union {NoCall}]
    /\ tokens \in 0 .. Burst
    /\ untilSweep \in 0 .. JanitorPeriod
    /\ sweep \subseteq Query /\ doomed \subseteq Query
    /\ up \in BOOLEAN
    /\ pc \in [Call -> PC] /\ query \in [Call -> Query \union {NoQuery}]
    /\ attempt \in [Call -> 0 .. MaxRetries]
    /\ on \in [Call -> Call \union {NoCall}]
    /\ gone \in [Call -> BOOLEAN]

(* A call waits only on a request for its own query that is still running  *)
(* and will close the channel, however registrations overwrite and remove  *)
(* one another; and what is registered is running.                         *)
WaitersFollowFetch ==
    /\ \A c \in Call : pc[c] = "wait" =>
         on[c] \in {d \in Call : pc[d] \in Fetching /\ query[d] = query[c]}
    /\ \A q \in Query : inflight[q] # NoCall =>
         inflight[q] \in {d \in Call : pc[d] \in Fetching /\ query[d] = q}

(* staleCache checks no age, but however long AniList is down it finds     *)
(* nothing older than anilistCacheTTL and one period of the janitor.       *)
StaleBounded == \A q \in Query : cache[q] <= CacheTTL + JanitorPeriod

(* Once no new call is made every call returns, the ones queued for a      *)
(* token, in a back-off or behind another call included.  (While new calls *)
(* come, the bucket lets them overtake a queued one for ever.)             *)
CallsDrain ==
    <>[][~Calls]_vars => \A c \in Call : pc[c] # "idle" ~> pc[c] = "idle"

(* If AniList stays up, no client leaves early, and calls are made, the    *)
(* circuit closes for good: no count that outages left behind keeps it     *)
(* open or half-open.                                                      *)
CircuitRecovers ==
    <>[](up /\ \A c \in Call : ~gone[c]) /\ WF_vars(Calls)
        => <>[](circuit = "closed")
=============================================================================
