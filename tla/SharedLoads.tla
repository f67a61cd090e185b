---------------------------- MODULE SharedLoads ----------------------------
(***************************************************************************)
(* What a cache of remote answers promises to its callers, who ask in      *)
(* parallel: a key is loaded by one of them at a time and the others wait  *)
(* for it; an answer is one that was loaded and still counted when the     *)
(* call began, or was read under the call; a call fails only when its own  *)
(* load has failed, or after it has waited for another's.  LoaderCache     *)
(* shows that cached() in internal/tmdb/resolver.go keeps this promise.    *)
(***************************************************************************)
EXTENDS Naturals

CONSTANTS Caller, Key, TTL, FreshTTL, Horizon

VARIABLES
    clock,      \* the time, which is also what a load finds
    loaded,     \* by key: the answers loaded so far, and until when each counts
    call        \* by caller: the call it is in

absVars == <<clock, loaded, call>>

Time     == 0 .. Horizon
NoAnswer == Horizon + 1

Idle  == [stage |-> "idle", key |-> CHOOSE k \in Key : TRUE, since |-> 0, value |-> NoAnswer]

Init ==
    /\ clock = 0
    /\ loaded = [k \in Key |-> {}]
    /\ call = [c \in Caller |-> Idle]

Move(c, stage, value) ==
    call' = [call EXCEPT ![c].stage = stage, ![c].value = value]

Ask(c, k) ==
    /\ call[c].stage = "idle"
    /\ call' = [call EXCEPT ![c] = [stage |-> "asked", key |-> k, since |-> clock, value |-> NoAnswer]]
    /\ UNCHANGED <<clock, loaded>>

(* A caller that waits is told whether the answer it waited for counts by  *)
(* the clock of that moment; the others by that of their asking.           *)
Share(c) ==
    /\ call[c].stage \in {"asked", "woken"}
    /\ \E a \in loaded[call[c].key] :
          /\ a.until > (IF call[c].stage = "asked" THEN call[c].since ELSE clock)
          /\ Move(c, "answered", a.value)
    /\ UNCHANGED <<clock, loaded>>

Loads(k) == {c \in Caller : call[c].stage = "loading" /\ call[c].key = k}

StartLoad(c) ==
    /\ call[c].stage = "asked" /\ Loads(call[c].key) = {}
    /\ Move(c, "loading", NoAnswer)
    /\ UNCHANGED <<clock, loaded>>

Learn(c, v) ==
    /\ call[c].stage = "loading" /\ call[c].since <= v /\ v <= clock
    /\ loaded' = [loaded EXCEPT ![call[c].key] = @ \union {[value |-> v, until |-> clock + TTL]}]
    /\ Move(c, "loading", v)
    /\ UNCHANGED clock

EndLoad(c) ==
    /\ call[c].stage = "loading"
    /\ Move(c, IF call[c].value = NoAnswer THEN "failed" ELSE "answered", call[c].value)
    /\ UNCHANGED <<clock, loaded>>

Wait(c) ==
    /\ call[c].stage = "asked" /\ Loads(call[c].key) # {}
    /\ Move(c, "waiting", NoAnswer)
    /\ UNCHANGED <<clock, loaded>>

(* The end of a load wakes those who wait for it.                          *)
Wake(S) ==
    /\ \A c \in S : call[c].stage = "waiting"
    /\ call' = [c \in Caller |-> IF c \in S THEN [call[c] EXCEPT !.stage = "woken"] ELSE call[c]]
    /\ UNCHANGED <<clock, loaded>>

GiveUp(c) ==
    /\ call[c].stage = "woken"
    /\ Move(c, "failed", NoAnswer)
    /\ UNCHANGED <<clock, loaded>>

(* Who has an answer may look past it; what it finds may be kept shortly.  *)
Refetch(c, v) ==
    /\ call[c].stage = "answered" /\ call[c].since <= v /\ v <= clock
    /\ Move(c, "answered", v)
    /\ UNCHANGED <<clock, loaded>>

Keep(c) ==
    /\ call[c].stage = "answered"
    /\ loaded' = [loaded EXCEPT ![call[c].key] =
                     @ \union {[value |-> call[c].value, until |-> clock + FreshTTL]}]
    /\ UNCHANGED <<clock, call>>

Return(c) ==
    /\ call[c].stage \in {"answered", "failed"}
    /\ call' = [call EXCEPT ![c] = Idle]
    /\ UNCHANGED <<clock, loaded>>

(* What counts for nobody any more is forgotten.                           *)
Counts(a) == a.until > clock' \/ \E c \in Caller : call[c].stage = "asked" /\ a.until > call[c].since

Tick ==
    /\ clock < Horizon /\ clock' = clock + 1
    /\ loaded' = [k \in Key |-> {a \in loaded[k] : Counts(a)}]
    /\ UNCHANGED call

Next ==
    \/ \E c \in Caller, k \in Key : Ask(c, k)
    \/ \E c \in Caller :
          \/ Share(c) \/ StartLoad(c) \/ EndLoad(c) \/ Wait(c) \/ GiveUp(c)
          \/ Keep(c) \/ Return(c)
          \/ \E v \in Time : Learn(c, v) \/ Refetch(c, v)
    \/ \E S \in SUBSET Caller : Wake(S)
    \/ Tick

Spec == Init /\ [][Next]_absVars
=============================================================================
