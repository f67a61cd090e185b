-------------------------------- MODULE Jwks --------------------------------
(***************************************************************************)
(* The JWKS key cache of internal/auth: GetKey answers from the cached key *)
(* set, refreshes it when it is stale or lacks the key, and otherwise      *)
(* waits for the refresh in flight.  The HTTP fetch runs while j.mu is     *)
(* held; everything else a caller does under the lock is one step.         *)
(***************************************************************************)
EXTENDS Integers

CONSTANTS
    Caller,         \* concurrent GetKey calls
    Kid,            \* key ids
    Nobody,         \* the lock is free
    Background,     \* the detached refresh goroutine, as a holder of the lock
    TTL,            \* j.ttl
    MinInterval,    \* jwksRefreshMinInterval
    FetchTimeout,   \* the HTTP client's timeout
    MaxTime         \* bound: the last tick explored

ASSUME JwksAssumption ==
    /\ Kid # {}
    /\ {TTL, MinInterval, FetchTimeout} \subseteq Nat \ {0}
    /\ MaxTime \in Nat
    /\ FetchTimeout < MinInterval /\ FetchTimeout < TTL
    /\ Nobody \notin Caller /\ Background \notin Caller /\ Nobody # Background

VARIABLES
    now,            \* the wall clock
    keys,           \* j.keys: the ids of the cached key set
    expires,        \* j.expires
    lastAttempt,    \* j.lastAttempt
    refreshing,     \* j.refreshing
    holder,         \* who holds j.mu across an HTTP fetch
    background,     \* how far the detached goroutine has come
    at,             \* where each call stands
    kid,            \* the key id each call asks for
    attempted,      \* its local of that name
    result,         \* what it returned
    published,      \* the key set Supabase publishes
    asked,          \* the set published when the running fetch began
    publishedSince, \* history: since when each id has been published
    lastFailure     \* history: when a refresh last failed

keyVars == <<keys, expires, lastAttempt, refreshing>>
getVars  == <<at, kid, attempted, result>>
worldVars == <<published, publishedSince>>
jwksVars == <<now, keyVars, holder, background, getVars, worldVars, asked, lastFailure>>

-----------------------------------------------------------------------------
AnyKid     == CHOOSE k \in Kid : TRUE
NotExpired == now < expires
Fresh      == NotExpired /\ keys # {}

AllowOneLate == now - lastAttempt > MinInterval

Allow      == now - lastAttempt >= MinInterval

(* The call returns.                                                       *)
returns(c, what) ==
    /\ at' = [at EXCEPT ![c] = "done"]
    /\ result' = [result EXCEPT ![c] = what]
    /\ UNCHANGED <<kid, attempted>>

GetKey(c, k) ==
    /\ at[c] = "idle"
    /\ at' = [at EXCEPT ![c] = "loop"]
    /\ kid' = [kid EXCEPT ![c] = k]
    /\ UNCHANGED <<now, keyVars, holder, background, attempted, result, worldVars,
                   asked, lastFailure>>

(* One iteration of GetKey's loop, under the lock.                         *)
Locked(c) == at[c] = "loop" /\ holder = Nobody

Miss(c) == ~(kid[c] \in keys /\ NotExpired)

hit(c) ==
    /\ Locked(c) /\ ~Miss(c)
    /\ returns(c, "key")
    /\ UNCHANGED <<now, keyVars, holder, background, worldVars, asked, lastFailure>>

(* Fresh keys without this one: the first caller past the cooldown starts  *)
(* the detached refresh and waits for it.                                  *)
MayRefresh(c) == Fresh /\ ~refreshing /\ ~attempted[c] /\ Allow

startBackground(c) ==
    /\ Locked(c) /\ Miss(c) /\ MayRefresh(c)
    /\ attempted' = [attempted EXCEPT ![c] = TRUE]
    /\ lastAttempt' = now /\ refreshing' = TRUE /\ background' = "begin"
    /\ at' = [at EXCEPT ![c] = "wait"]
    /\ UNCHANGED <<now, keys, expires, holder, kid, result, worldVars, asked, lastFailure>>

awaitRefresh(c) ==
    /\ Locked(c) /\ Miss(c) /\ refreshing
    /\ at' = [at EXCEPT ![c] = "wait"]
    /\ UNCHANGED <<now, keyVars, holder, background, kid, attempted, result,
                   worldVars, asked, lastFailure>>

(* The id is unknown: this call has seen a refresh of its own end without  *)
(* it, or there was an attempt within the cooldown.                        *)
unknown(c) ==
    /\ Locked(c) /\ Miss(c) /\ ~refreshing
    /\ IF Fresh THEN attempted[c] \/ ~Allow ELSE attempted[c]
    /\ returns(c, "unknown")
    /\ UNCHANGED <<now, keyVars, holder, background, worldVars, asked, lastFailure>>

(* Stale or no keys and nobody refreshing: this call fetches, holding the  *)
(* lock.  This path does not look at the cooldown.                         *)
MayFetchBeside(c) == ~Fresh /\ ~attempted[c]

MayFetch(c) == ~Fresh /\ ~refreshing /\ ~attempted[c]

startFetch(c) ==
    /\ Locked(c) /\ Miss(c) /\ MayFetch(c)
    /\ attempted' = [attempted EXCEPT ![c] = TRUE]
    /\ lastAttempt' = now /\ refreshing' = TRUE
    /\ holder' = c /\ asked' = published
    /\ at' = [at EXCEPT ![c] = "fetch"]
    /\ UNCHANGED <<now, keys, expires, background, kid, result, worldVars, lastFailure>>

(* doRefreshLocked: a fetch that yields keys replaces the set; any other   *)
(* outcome leaves set and expiry alone.                                    *)
NewExpiry == now + TTL

installed(S) ==
    keys' = S /\ expires' = NewExpiry /\ UNCHANGED lastFailure

fetchFailed == lastFailure' = now /\ UNCHANGED <<keys, expires>>

Responses == {asked, published}

(* cond.Broadcast.                                                         *)
wokenNone(p) == p

woken(p) == [c \in Caller |-> IF p[c] = "wait" THEN "loop" ELSE p[c]]

(* The caller's own fetch ends and it returns without giving up the lock:  *)
(* the key, or the previous set's key when the fetch failed.               *)
endFetch(c) ==
    /\ at[c] = "fetch"
    /\ \/ \E S \in Responses :
            /\ installed(S)
            /\ result' = [result EXCEPT ![c] = IF kid[c] \in S THEN "key" ELSE "unknown"]
       \/ /\ fetchFailed
          /\ result' = [result EXCEPT ![c] = IF kid[c] \in keys THEN "key" ELSE "error"]
    /\ refreshing' = FALSE /\ holder' = Nobody /\ asked' = {}
    /\ at' = woken([at EXCEPT ![c] = "done"])
    /\ UNCHANGED <<now, lastAttempt, background, kid, attempted, worldVars>>

(* The detached goroutine: doRefresh takes the lock for the fetch, and a   *)
(* second time to clear the flag and wake the waiters.                     *)
backgroundFetch ==
    /\ background = "begin" /\ holder = Nobody
    /\ background' = "fetch" /\ holder' = Background /\ asked' = published
    /\ UNCHANGED <<now, keyVars, getVars, worldVars, lastFailure>>

backgroundFetched ==
    /\ background = "fetch"
    /\ background' = "end" /\ holder' = Nobody
    /\ fetchFailed \/ \E S \in Responses : installed(S)
    /\ asked' = {}
    /\ UNCHANGED <<now, lastAttempt, refreshing, getVars, worldVars>>

backgroundEnd ==
    /\ background = "end" /\ holder = Nobody
    /\ background' = "off" /\ refreshing' = FALSE
    /\ at' = woken(at)
    /\ UNCHANGED <<now, keys, expires, lastAttempt, holder, kid, attempted, result,
                   worldVars, asked, lastFailure>>

(* The verifier takes the result.                                          *)
verified(c) ==
    /\ at[c] = "done"
    /\ at' = [at EXCEPT ![c] = "idle"]
    /\ result' = [result EXCEPT ![c] = "none"]
    /\ kid' = [kid EXCEPT ![c] = AnyKid]
    /\ attempted' = [attempted EXCEPT ![c] = FALSE]
    /\ UNCHANGED <<now, keyVars, holder, background, worldVars, asked, lastFailure>>

(* Supabase rotates its keys.                                              *)
rotate(S) ==
    /\ published' = S
    /\ publishedSince' = [k \in Kid |-> IF k \in S \ published THEN now
                                        ELSE IF k \in S THEN publishedSince[k] ELSE 0]
    /\ UNCHANGED <<now, keyVars, holder, background, getVars, asked, lastFailure>>

(* Time passes.  A refresh is over within the client's timeout, and a      *)
(* caller that can take the lock does so before the clock moves on.        *)
jwksTick ==
    /\ now < MaxTime
    /\ refreshing => now < lastAttempt + FetchTimeout
    /\ \A c \in Caller : at[c] # "done" /\ ~Locked(c)
    /\ now' = now + 1
    /\ UNCHANGED <<keyVars, holder, background, getVars, worldVars, asked, lastFailure>>

JwksInit ==
    /\ now = 0
    /\ keys = {} /\ expires = 0 /\ lastAttempt = -MinInterval /\ refreshing = FALSE
    /\ holder = Nobody /\ background = "off"
    /\ at = [c \in Caller |-> "idle"]
    /\ kid = [c \in Caller |-> AnyKid] /\ attempted = [c \in Caller |-> FALSE]
    /\ result = [c \in Caller |-> "none"]
    /\ published \in SUBSET Kid \ {{}} /\ asked = {}
    /\ publishedSince = [k \in Kid |-> 0]
    /\ lastFailure = -1

GetKeyStep(c) ==
    \/ hit(c) \/ startBackground(c) \/ awaitRefresh(c) \/ unknown(c)
    \/ startFetch(c) \/ endFetch(c)

BackgroundStep == backgroundFetch \/ backgroundFetched \/ backgroundEnd

JwksNext ==
    \/ \E c \in Caller : (\E k \in Kid : GetKey(c, k)) \/ GetKeyStep(c) \/ verified(c)
    \/ BackgroundStep
    \/ \E S \in SUBSET Kid \ {published, {}} : rotate(S)
    \/ jwksTick

(* Go's mutex hands itself to the caller that has waited longest once one  *)
(* starves, and every fetch ends at the latest with its timeout.           *)
JwksFairness ==
    /\ \A c \in Caller : SF_jwksVars(GetKeyStep(c))
    /\ SF_jwksVars(BackgroundStep)

JwksSpec == JwksInit /\ [][JwksNext]_jwksVars /\ JwksFairness

-----------------------------------------------------------------------------
(* Type invariant: among others, the clock readings kept are past ones and *)
(* no key set is good for longer than its life.                            *)
JwksTypeOK ==
    /\ now \in Nat /\ expires \in 0 .. now + TTL
    /\ lastAttempt \in -MinInterval .. now /\ lastFailure \in -1 .. now
    /\ keys \in SUBSET Kid /\ published \in SUBSET Kid /\ asked \in SUBSET Kid
    /\ refreshing \in BOOLEAN
    /\ holder \in Caller \cup {Nobody, Background}
    /\ background \in {"off", "begin", "fetch", "end"}
    /\ at \in [Caller -> {"idle", "loop", "wait", "fetch", "done"}]
    /\ kid \in [Caller -> Kid]
    /\ attempted \in [Caller -> BOOLEAN]
    /\ result \in [Caller -> {"none", "key", "unknown", "error"}]
    /\ publishedSince \in [Kid -> 0 .. now]

(* One refresh at a time, whether a caller's own or the detached one, and  *)
(* no lost wakeup: a call waits on the condition only while the goroutine  *)
(* that will broadcast is on its way (GetKey, doRefresh).                  *)
OneRefresh ==
    /\ refreshing <=> background # "off" \/ \E c \in Caller : at[c] = "fetch"
    /\ \A c \in Caller : at[c] = "fetch" => holder = c /\ background = "off"
    /\ background = "fetch" <=> holder = Background
    /\ \A c \in Caller : at[c] = "wait" => background # "off"

(* The cooldown hides no rotation: a key id that has been published for a  *)
(* whole cooldown is not refused as unknown, unless a refresh has failed   *)
(* since it was published.                                                 *)
RotationVisible ==
    \A c \in Caller :
        /\ result[c] = "unknown"
        /\ kid[c] \in published
        /\ publishedSince[kid[c]] + MinInterval <= now
        => lastFailure >= publishedSince[kid[c]]

(* Every GetKey call returns, however many share or repeat the refresh.    *)
GetKeyReturns == \A c \in Caller : at[c] = "loop" ~> at[c] = "done"

=============================================================================
