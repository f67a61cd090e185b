---------------------------- MODULE LoaderCache ----------------------------
(***************************************************************************)
(* cached() of internal/tmdb/resolver.go: the loader cache every remote    *)
(* answer of the resolver goes through, step by step as its callers        *)
(* interleave.  responseCache and inFlight are concurrent maps: one call   *)
(* of theirs is one step, and nothing holds between two.  A load is known  *)
(* by the time its answer was read.                                        *)
(***************************************************************************)
EXTENDS Integers, FiniteSets

CONSTANTS
    Caller, Key,
    TTL,                \* MappingTTL, SeasonTTL, EpisodeTTL, by key in the code
    FreshTTL,           \* seasonFreshTTL
    MaxEntries,         \* maxResponseCacheEntries
    Horizon             \* the last time considered (bound of the model)

ASSUME LoaderCacheAssumption ==
    /\ {TTL, FreshTTL} \subseteq Nat \ {0}
    /\ MaxEntries \in Nat /\ Horizon \in Nat
    /\ "none" \notin Caller /\ Key # {}

VARIABLES
    clock,
    responseCache,      \* by key: a cacheEntry or Absent
    inFlight,           \* by key: whose channel is registered
    pc, key, since, value, on, doomed,     \* by caller: where in the call it is, and its locals
    loaded              \* the answers stored that still count (a history variable)

locals == <<pc, key, since, value, on, doomed>>
vars   == <<clock, responseCache, inFlight, locals, loaded>>

None     == "none"
AnyKey   == CHOOSE k \in Key : TRUE
Time     == 0 .. Horizon
NoAnswer == Horizon + 1
Absent   == [value |-> NoAnswer, expiresAt |-> 0]
Stored   == {k \in Key : responseCache[k] # Absent}

Go(c, place)        == pc' = [pc EXCEPT ![c] = place]
Answer(c, v)        == value' = [value EXCEPT ![c] = v]
Keeps(k, v, ttl)    ==
    /\ responseCache' = [responseCache EXCEPT ![k] = [value |-> v, expiresAt |-> clock + ttl]]
    /\ loaded' = [loaded EXCEPT ![k] = @ \union {[value |-> v, until |-> clock + ttl]}]

Init ==
    /\ clock = 0
    /\ responseCache = [k \in Key |-> Absent]
    /\ inFlight = [k \in Key |-> None]
    /\ pc = [c \in Caller |-> "idle"]
    /\ key = [c \in Caller |-> AnyKey]
    /\ since = [c \in Caller |-> 0]
    /\ value = [c \in Caller |-> NoAnswer]
    /\ on = [c \in Caller |-> None]
    /\ doomed = [c \in Caller |-> {}]
    /\ loaded = [k \in Key |-> {}]

-----------------------------------------------------------------------------
cached(c, k) ==
    /\ pc[c] = "idle" /\ Go(c, "look")
    /\ key' = [key EXCEPT ![c] = k]
    /\ since' = [since EXCEPT ![c] = clock]
    /\ UNCHANGED <<clock, responseCache, inFlight, value, on, doomed, loaded>>

lookAtAnyAge(c) ==                              \* mutant
    LET e == responseCache[key[c]] IN
    /\ pc[c] = "look"
    /\ \/ e # Absent /\ Answer(c, e.value) /\ Go(c, "return")
       \/ e = Absent /\ Go(c, "join") /\ UNCHANGED value
    /\ UNCHANGED <<clock, responseCache, inFlight, key, since, on, doomed, loaded>>

look(c) ==
    LET e == responseCache[key[c]] IN
    /\ pc[c] = "look"
    /\ \/ e.expiresAt > since[c] /\ Answer(c, e.value) /\ Go(c, "return")
       \/ e # Absent /\ e.expiresAt <= since[c] /\ Go(c, "drop") /\ UNCHANGED value
       \/ e = Absent /\ Go(c, "join") /\ UNCHANGED value
    /\ UNCHANGED <<clock, responseCache, inFlight, key, since, on, doomed, loaded>>

(* Whatever is stored by now is deleted.                                   *)
drop(c) ==
    /\ pc[c] = "drop" /\ Go(c, "join")
    /\ responseCache' = [responseCache EXCEPT ![key[c]] = Absent]
    /\ UNCHANGED <<clock, inFlight, key, since, value, on, doomed, loaded>>

join(c) ==
    LET leader == inFlight[key[c]] IN
    /\ pc[c] = "join"
    /\ \/ /\ leader = None /\ Go(c, "load")
          /\ inFlight' = [inFlight EXCEPT ![key[c]] = c]
          /\ UNCHANGED on
       \/ /\ leader # None /\ Go(c, "wait")
          /\ on' = [on EXCEPT ![c] = leader]
          /\ UNCHANGED inFlight
    /\ UNCHANGED <<clock, responseCache, key, since, value, doomed, loaded>>

(* The loader reads the remote answer, or fails.                           *)
load(c) ==
    /\ pc[c] = "load"
    /\ \/ Answer(c, clock) /\ Go(c, "store")
       \/ Go(c, "leave") /\ UNCHANGED value
    /\ UNCHANGED <<clock, responseCache, inFlight, key, since, on, doomed, loaded>>

store(c) ==
    /\ pc[c] = "store" /\ Go(c, "scan")
    /\ Keeps(key[c], value[c], TTL)
    /\ UNCHANGED <<clock, inFlight, key, since, value, on, doomed>>

(* evictResponseCacheIfNeeded: what has expired, and the earliest-expiring *)
(* beyond the cap, are chosen in one scan and deleted after it (by key,    *)
(* and here together).                                                     *)
Expired == {k \in Stored : responseCache[k].expiresAt <= clock}
Excess(gone) ==
    LET live == Stored \ Expired IN
    /\ gone \subseteq live
    /\ Cardinality(live \ gone) = IF Cardinality(live) > MaxEntries THEN MaxEntries ELSE Cardinality(live)
    /\ \A x \in gone, y \in live \ gone : responseCache[x].expiresAt <= responseCache[y].expiresAt

scan(c) ==
    /\ pc[c] = "scan" /\ Go(c, "trim")
    /\ \E gone \in SUBSET Key : Excess(gone) /\ doomed' = [doomed EXCEPT ![c] = Expired \union gone]
    /\ UNCHANGED <<clock, responseCache, inFlight, key, since, value, on, loaded>>

trim(c) ==
    /\ pc[c] = "trim" /\ Go(c, "leave")
    /\ responseCache' = [k \in Key |-> IF k \in doomed[c] THEN Absent ELSE responseCache[k]]
    /\ doomed' = [doomed EXCEPT ![c] = {}]
    /\ UNCHANGED <<clock, inFlight, key, since, value, on, loaded>>

(* The deferred end of a load: the key is free before the waiters wake.    *)
leaveOnSuccess(c) ==                            \* mutant
    /\ pc[c] = "leave" /\ Go(c, "close")
    /\ IF value[c] = NoAnswer THEN UNCHANGED inFlight ELSE inFlight' = [inFlight EXCEPT ![key[c]] = None]
    /\ UNCHANGED <<clock, responseCache, key, since, value, on, doomed, loaded>>

leave(c) ==
    /\ pc[c] = "leave" /\ Go(c, "close")
    /\ inFlight' = [inFlight EXCEPT ![key[c]] = None]
    /\ UNCHANGED <<clock, responseCache, key, since, value, on, doomed, loaded>>

WaitingForAnswer(c) ==                          \* mutant
    {x \in Caller : pc[x] = "wait" /\ on[x] = c /\ value[c] # NoAnswer}

Waiting(c) == {x \in Caller : pc[x] = "wait" /\ on[x] = c}

close(c) ==
    /\ pc[c] = "close"
    /\ pc' = [x \in Caller |-> IF x = c THEN "return" ELSE IF x \in Waiting(c) THEN "recheck" ELSE pc[x]]
    /\ on' = [x \in Caller |-> IF x \in Waiting(c) THEN None ELSE on[x]]
    /\ UNCHANGED <<clock, responseCache, inFlight, key, since, value, doomed, loaded>>

recheck(c) ==
    LET e == responseCache[key[c]] IN
    /\ pc[c] = "recheck" /\ Go(c, "return")
    /\ IF e.expiresAt > clock THEN Answer(c, e.value) ELSE UNCHANGED value
    /\ UNCHANGED <<clock, responseCache, inFlight, key, since, on, doomed, loaded>>

(* fetchTmdbSeasonFresh: a season that lacks an episode is read past the   *)
(* cache, and kept for a short time.                                       *)
refetch(c) ==
    /\ pc[c] = "return" /\ value[c] # NoAnswer
    /\ Answer(c, clock) /\ Go(c, "keep")
    /\ UNCHANGED <<clock, responseCache, inFlight, key, since, on, doomed, loaded>>

keep(c) ==
    /\ pc[c] = "keep" /\ Go(c, "return2")
    /\ Keeps(key[c], value[c], FreshTTL)
    /\ UNCHANGED <<clock, inFlight, key, since, value, on, doomed>>

return(c) ==
    /\ pc[c] \in {"return", "return2"} /\ Go(c, "idle")
    /\ Answer(c, NoAnswer)
    /\ since' = [since EXCEPT ![c] = 0] /\ key' = [key EXCEPT ![c] = AnyKey]
    /\ UNCHANGED <<clock, responseCache, inFlight, on, doomed, loaded>>

Asking == {c \in Caller : pc[c] \in {"look", "drop", "join"}}

tick ==
    /\ clock < Horizon /\ clock' = clock + 1
    /\ loaded' = [k \in Key |->
          {a \in loaded[k] : a.until > clock' \/ \E c \in Asking : a.until > since[c]}]
    /\ UNCHANGED <<responseCache, inFlight, locals>>

step(c) ==
    \/ look(c) \/ drop(c) \/ join(c) \/ load(c) \/ store(c) \/ scan(c) \/ trim(c)
    \/ leave(c) \/ close(c) \/ recheck(c) \/ keep(c) \/ return(c)

Next ==
    \/ \E c \in Caller, k \in Key : cached(c, k)
    \/ \E c \in Caller : step(c) \/ refetch(c)
    \/ tick

(* Every goroutine is scheduled, and a load ends: its request has a        *)
(* timeout.                                                                *)
Fairness == \A c \in Caller : WF_vars(step(c))

Spec == Init /\ [][Next]_vars /\ Fairness

-----------------------------------------------------------------------------
TypeOK ==
    /\ clock \in Time
    /\ responseCache \in [Key -> {Absent} \union [value : Time, expiresAt : Nat \ {0}]]
    /\ inFlight \in [Key -> Caller \union {None}]
    /\ pc \in [Caller -> {"idle", "look", "drop", "join", "load", "store", "scan", "trim", "leave",
                          "close", "wait", "recheck", "return", "keep", "return2"}]
    /\ key \in [Caller -> Key] /\ since \in [Caller -> Time]
    /\ value \in [Caller -> Time \union {NoAnswer}]
    /\ on \in [Caller -> Caller \union {None}] /\ doomed \in [Caller -> SUBSET Key]
    /\ loaded \in [Key -> SUBSET [value : Time, until : Nat]]

(* Whoever waits, waits for a load that is under way: its key is taken, or *)
(* its channel is about to be closed.                                      *)
Leading == {"load", "store", "scan", "trim", "leave"}
Registered ==
    /\ \A k \in Key, c \in Caller : inFlight[k] = c <=> pc[c] \in Leading /\ key[c] = k
    /\ \A c \in Caller : pc[c] = "wait" =>
          on[c] \in Caller /\ key[on[c]] = key[c] /\ pc[on[c]] \in Leading \union {"close"}

Consistent == TypeOK /\ Registered

(* Every call comes to its end, whatever the others do.                    *)
Answered == \A c \in Caller : pc[c] # "idle" ~> pc[c] = "idle"

(* What the callers of SharedLoads see of a call; the clock and what has   *)
(* been loaded are the same.                                               *)
Stage(c) ==
    CASE pc[c] = "idle" -> "idle"
      [] c \in Asking -> "asked"
      [] pc[c] \in Leading -> "loading"
      [] pc[c] = "wait" -> "waiting"
      [] pc[c] = "recheck" -> "woken"
      [] OTHER -> IF value[c] = NoAnswer THEN "failed" ELSE "answered"

call ==
    [c \in Caller |->
        [stage |-> Stage(c), key |-> key[c], since |-> since[c],
         value |-> IF pc[c] = "store" THEN NoAnswer ELSE value[c]]]

Promise == INSTANCE SharedLoads WITH clock <- clock, loaded <- loaded, call <- call

(* cached() is the promise of SharedLoads kept.                             *)
KeepsPromise == Promise!Spec
=============================================================================
