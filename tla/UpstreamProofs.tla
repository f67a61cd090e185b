--------------------------- MODULE UpstreamProofs ---------------------------
(***************************************************************************)
(* Proofs about the two caches that stand between the program and an       *)
(* upstream of its own: the JWKS cache, for any number of calls and key    *)
(* ids and any lifetimes, and the AniList client, for any number of        *)
(* concurrent calls and queries and any lifetimes, limits and thresholds.  *)
(***************************************************************************)
EXTENDS Jwks, AnilistClient, TLAPS

-----------------------------------------------------------------------------
(* The JWKS cache.                                                         *)
LEMMA JwksTypeInit == JwksInit => JwksTypeOK
<1> SUFFICES ASSUME JwksInit PROVE JwksTypeOK
  OBVIOUS
<1>1. AnyKid \in Kid /\ MinInterval \in Nat /\ TTL \in Nat
  BY JwksAssumption DEF AnyKid
<1>2. /\ 0 \in 0 .. now + TTL /\ -MinInterval \in -MinInterval .. now
      /\ -1 \in -1 .. now /\ 0 \in 0 .. now
  BY <1>1 DEF JwksInit
<1> QED BY <1>1, <1>2 DEF JwksInit, JwksTypeOK

(* A step that lets no time pass and assigns values of the right types.    *)
LEMMA TypeSameTime ==
    ASSUME JwksTypeOK, now' = now,
           expires' \in 0 .. now + TTL, lastAttempt' \in -MinInterval .. now,
           lastFailure' \in -1 .. now,
           keys' \in SUBSET Kid, published' \in SUBSET Kid, asked' \in SUBSET Kid,
           refreshing' \in BOOLEAN, holder' \in Caller \cup {Nobody, Background},
           background' \in {"off", "begin", "fetch", "end"},
           at' \in [Caller -> {"idle", "loop", "wait", "fetch", "done"}],
           kid' \in [Caller -> Kid], attempted' \in [Caller -> BOOLEAN],
           result' \in [Caller -> {"none", "key", "unknown", "error"}],
           publishedSince' \in [Kid -> 0 .. now]
    PROVE  JwksTypeOK'
BY DEF JwksTypeOK

LEMMA JwksTypeStep == JwksTypeOK /\ [JwksNext]_jwksVars => JwksTypeOK'
<1> SUFFICES ASSUME JwksTypeOK, [JwksNext]_jwksVars PROVE JwksTypeOK'
  OBVIOUS
<1> USE JwksAssumption
<1>0. /\ now \in Nat /\ now \in -MinInterval .. now /\ now \in -1 .. now
      /\ NewExpiry \in 0 .. now + TTL /\ AnyKid \in Kid
  BY DEF JwksTypeOK, NewExpiry, AnyKid
<1>1. ASSUME NEW c \in Caller, NEW what \in {"key", "unknown"}, returns(c, what),
             UNCHANGED <<now, keyVars, holder, background, worldVars, asked, lastFailure>>
      PROVE  JwksTypeOK'
  BY <1>1, TypeSameTime DEF returns, JwksTypeOK, keyVars, worldVars
<1>2. ASSUME NEW c \in Caller, NEW k \in Kid, GetKey(c, k)
      PROVE  JwksTypeOK'
  BY <1>2, TypeSameTime DEF GetKey, JwksTypeOK, keyVars, worldVars
<1>3. ASSUME NEW c \in Caller, hit(c) \/ unknown(c)
      PROVE  JwksTypeOK'
  BY <1>1, <1>3 DEF hit, unknown
<1>4. ASSUME NEW c \in Caller, startBackground(c)
      PROVE  JwksTypeOK'
  BY <1>0, <1>4, TypeSameTime DEF startBackground, JwksTypeOK, worldVars
<1>5. ASSUME NEW c \in Caller, awaitRefresh(c)
      PROVE  JwksTypeOK'
  BY <1>5, TypeSameTime DEF awaitRefresh, JwksTypeOK, keyVars, worldVars
<1>6. ASSUME NEW c \in Caller, startFetch(c)
      PROVE  JwksTypeOK'
  BY <1>0, <1>6, TypeSameTime DEF startFetch, JwksTypeOK, worldVars
<1>7. \A p \in [Caller -> {"idle", "loop", "wait", "fetch", "done"}] :
          woken(p) \in [Caller -> {"idle", "loop", "wait", "fetch", "done"}]
  BY DEF woken
<1>8. ASSUME fetchFailed \/ \E S \in Responses : installed(S), now' = now
      PROVE  /\ keys' \in SUBSET Kid /\ expires' \in 0 .. now + TTL
             /\ lastFailure' \in -1 .. now
  BY <1>0, <1>8 DEF fetchFailed, installed, Responses, JwksTypeOK
<1>9. ASSUME NEW c \in Caller, endFetch(c)
      PROVE  JwksTypeOK'
  <2>1. fetchFailed \/ \E S \in Responses : installed(S)
    BY <1>9 DEF endFetch
  <2>2. result' \in [Caller -> {"none", "key", "unknown", "error"}]
    BY <1>9 DEF endFetch, JwksTypeOK
  <2>3. at' \in [Caller -> {"idle", "loop", "wait", "fetch", "done"}]
    <3>1. [at EXCEPT ![c] = "done"] \in [Caller -> {"idle", "loop", "wait", "fetch", "done"}]
      BY DEF JwksTypeOK
    <3> QED BY <1>7, <1>9, <3>1 DEF endFetch
  <2> QED BY <1>8, <1>9, <2>1, <2>2, <2>3, TypeSameTime DEF endFetch, JwksTypeOK, worldVars
<1>10. CASE backgroundFetch
  BY <1>10, TypeSameTime DEF backgroundFetch, JwksTypeOK, keyVars, getVars, worldVars
<1>11. CASE backgroundFetched
  BY <1>8, <1>11, TypeSameTime DEF backgroundFetched, JwksTypeOK, getVars, worldVars
<1>12. CASE backgroundEnd
  BY <1>7, <1>12, TypeSameTime DEF backgroundEnd, JwksTypeOK, worldVars
<1>13. ASSUME NEW c \in Caller, verified(c)
       PROVE  JwksTypeOK'
  BY <1>0, <1>13, TypeSameTime DEF verified, JwksTypeOK, keyVars, worldVars
<1>14. ASSUME NEW S \in SUBSET Kid, rotate(S)
       PROVE  JwksTypeOK'
  BY <1>0, <1>14, TypeSameTime DEF rotate, JwksTypeOK, keyVars, getVars
<1>15. CASE jwksTick
  BY <1>15 DEF jwksTick, JwksTypeOK, keyVars, getVars, worldVars
<1>16. CASE UNCHANGED jwksVars
  BY <1>16 DEF JwksTypeOK, jwksVars, keyVars, getVars, worldVars
<1> QED BY <1>2, <1>3, <1>4, <1>5, <1>6, <1>9, <1>10, <1>11, <1>12, <1>13, <1>14, <1>15, <1>16
        DEF JwksNext, GetKeyStep, BackgroundStep

(* Types, past clock readings, and no key set outliving its life.          *)
THEOREM JwksTypeCorrect == JwksSpec => []JwksTypeOK
<1> QED BY JwksTypeInit, JwksTypeStep, PTL DEF JwksSpec

-----------------------------------------------------------------------------
LEMMA RefreshInit == JwksInit => OneRefresh
BY JwksAssumption DEF JwksInit, OneRefresh

(* woken leaves no call waiting and moves no other call.                   *)
LEMMA WokenFacts ==
    ASSUME NEW p, NEW c \in Caller
    PROVE  woken(p)[c] # "wait" /\ (woken(p)[c] = "fetch" <=> p[c] = "fetch")
BY DEF woken

LEMMA RefreshStep == JwksTypeOK /\ OneRefresh /\ [JwksNext]_jwksVars => OneRefresh'
<1> SUFFICES ASSUME JwksTypeOK, OneRefresh, [JwksNext]_jwksVars PROVE OneRefresh'
  OBVIOUS
<1> USE JwksAssumption
<1>0. /\ at \in [Caller -> {"idle", "loop", "wait", "fetch", "done"}]
      /\ refreshing \in BOOLEAN /\ holder \in Caller \cup {Nobody, Background}
  BY DEF JwksTypeOK
(* Steps of a call that neither start nor end a refresh.                   *)
<1>1. ASSUME NEW c \in Caller, NEW to \in {"idle", "loop", "done"}, at[c] # "fetch",
             at' = [at EXCEPT ![c] = to], UNCHANGED <<refreshing, holder, background>>
      PROVE  OneRefresh'
  BY <1>0, <1>1 DEF OneRefresh
<1>2. ASSUME NEW c \in Caller, NEW k \in Kid, GetKey(c, k)
      PROVE  OneRefresh'
  BY <1>1, <1>2 DEF GetKey, keyVars
<1>3. ASSUME NEW c \in Caller, hit(c) \/ unknown(c) \/ verified(c)
      PROVE  OneRefresh'
  BY <1>1, <1>3 DEF hit, unknown, verified, returns, Locked, keyVars
<1>4. ASSUME NEW c \in Caller, startBackground(c)
      PROVE  OneRefresh'
  <2>1. /\ ~refreshing /\ holder = Nobody /\ holder' = holder
        /\ refreshing' = TRUE /\ background' = "begin" /\ at' = [at EXCEPT ![c] = "wait"]
    BY <1>4 DEF startBackground, Locked, MayRefresh
  <2>2. background = "off" /\ \A d \in Caller : at[d] # "fetch"
    BY <2>1 DEF OneRefresh
  <2> QED BY <1>0, <2>1, <2>2 DEF OneRefresh
<1>5. ASSUME NEW c \in Caller, awaitRefresh(c)
      PROVE  OneRefresh'
  BY <1>0, <1>5 DEF awaitRefresh, OneRefresh, Locked, keyVars
<1>6. ASSUME NEW c \in Caller, startFetch(c)
      PROVE  OneRefresh'
  BY <1>0, <1>6 DEF startFetch, OneRefresh, Locked, MayFetch
<1>7. ASSUME NEW c \in Caller, endFetch(c)
      PROVE  OneRefresh'
  <2>1. /\ at[c] = "fetch" /\ holder = c /\ background = "off" /\ background' = "off"
        /\ refreshing' = FALSE /\ holder' = Nobody /\ at' = woken([at EXCEPT ![c] = "done"])
    BY <1>7 DEF endFetch, OneRefresh
  <2>2. \A d \in Caller : d # c => at[d] # "fetch"
    BY <2>1 DEF OneRefresh
  <2>3. \A d \in Caller : at'[d] # "fetch" /\ at'[d] # "wait"
    <3> DEFINE ended == [at EXCEPT ![c] = "done"]
    <3>1. \A d \in Caller : ended[d] # "fetch"
      BY <1>0, <2>2
    <3>2. \A d \in Caller : woken(ended)[d] # "wait" /\ woken(ended)[d] # "fetch"
      BY <3>1, WokenFacts
    <3> QED BY <2>1, <3>2
  <2>4. ~refreshing' /\ holder' # Background /\ background' # "fetch" /\ ~(background' # "off")
    BY <2>1
  <2> QED BY <2>3, <2>4 DEF OneRefresh
<1>8. CASE backgroundFetch
  BY <1>0, <1>8 DEF backgroundFetch, OneRefresh, keyVars, getVars
<1>9. CASE backgroundFetched
  BY <1>0, <1>9 DEF backgroundFetched, OneRefresh, getVars
<1>10. CASE backgroundEnd
  <2>1. \A d \in Caller : at'[d] # "wait" /\ (at'[d] = "fetch" <=> at[d] = "fetch")
    BY <1>10, WokenFacts DEF backgroundEnd
  <2> QED BY <1>0, <1>10, <2>1 DEF backgroundEnd, OneRefresh
<1>11. ASSUME UNCHANGED <<refreshing, holder, background, at>>
       PROVE  OneRefresh'
  BY <1>11 DEF OneRefresh
<1>12. ASSUME NEW S, rotate(S)
       PROVE  OneRefresh'
  BY <1>11, <1>12 DEF rotate, keyVars, getVars
<1>13. CASE jwksTick \/ UNCHANGED jwksVars
  BY <1>11, <1>13 DEF jwksTick, jwksVars, keyVars, getVars
<1> QED BY <1>2, <1>3, <1>4, <1>5, <1>6, <1>7, <1>8, <1>9, <1>10, <1>12, <1>13
        DEF JwksNext, GetKeyStep, BackgroundStep

(* One refresh at a time and no lost wakeup.                               *)
THEOREM SingleRefresh == JwksSpec => []OneRefresh
<1> QED BY JwksTypeInit, JwksTypeStep, RefreshInit, RefreshStep, PTL DEF JwksSpec

-----------------------------------------------------------------------------
(* The ids that were published before the last attempt to refresh: what a  *)
(* fetch of that attempt reads contains them.                              *)
ContainsOld(S) == \A k \in published : publishedSince[k] < lastAttempt => k \in S

(* The last attempt is over, and it has failed or left a key set that is   *)
(* still good and has those ids.                                           *)
Refreshed == lastFailure >= lastAttempt \/ (expires >= lastAttempt + TTL /\ ContainsOld(keys))

(* Why RotationVisible holds: a call that looks at the keys after a        *)
(* refresh does so within the client's timeout of it, and time does not    *)
(* pass while a call has a result in hand.                                 *)
RotationInv ==
    /\ RotationVisible
    /\ \A c \in Caller : /\ result[c] # "none" => at[c] = "done"
                         /\ holder = c => at[c] = "fetch"
                         /\ at[c] = "fetch" => ContainsOld(asked)
                         /\ at[c] = "idle" => ~attempted[c]
                         /\ at[c] = "loop" /\ attempted[c] => now <= lastAttempt + FetchTimeout
    /\ refreshing => now <= lastAttempt + FetchTimeout
    /\ background = "fetch" => ContainsOld(asked)
    /\ background = "end" \/ ~refreshing => Refreshed

LEMMA RotationInit == JwksInit => RotationInv
BY JwksAssumption DEF JwksInit, RotationInv, RotationVisible, Refreshed

(* What has been published for a whole cooldown, while the last attempt is *)
(* no older than the client's timeout, was published before that attempt.  *)
LEMMA LongPublished ==
    ASSUME JwksTypeOK, NEW k \in published, now <= lastAttempt + FetchTimeout,
           publishedSince[k] + MinInterval <= now
    PROVE  publishedSince[k] < lastAttempt
<1>1. /\ now \in Int /\ lastAttempt \in Int /\ publishedSince[k] \in Int
      /\ MinInterval \in Int /\ FetchTimeout \in Int /\ FetchTimeout < MinInterval
  BY JwksAssumption DEF JwksTypeOK
<1> QED BY <1>1

(* A call that answers "unknown" breaks no promise: the id was there to be *)
(* read at the last attempt, which would have found it or has failed.      *)
LEMMA UnknownJustified ==
    ASSUME JwksTypeOK, RotationInv, NEW c \in Caller, unknown(c), kid[c] \in published,
           publishedSince[kid[c]] + MinInterval <= now
    PROVE  lastFailure >= publishedSince[kid[c]]
<1> DEFINE k == kid[c]
<1>0. /\ now \in Int /\ lastAttempt \in Int /\ publishedSince[k] \in Int /\ lastFailure \in Int
      /\ expires \in Int /\ {TTL, MinInterval, FetchTimeout} \subseteq Int
      /\ FetchTimeout < MinInterval /\ FetchTimeout < TTL
  BY JwksAssumption DEF JwksTypeOK
<1>1. /\ at[c] = "loop" /\ ~refreshing /\ ~(k \in keys /\ now < expires)
      /\ IF Fresh THEN attempted[c] \/ ~Allow ELSE attempted[c]
  BY DEF unknown, Locked, Miss, NotExpired
<1>2. publishedSince[k] < lastAttempt
  <2>1. CASE attempted[c]
    BY <1>1, <2>1, LongPublished DEF RotationInv
  <2>2. CASE ~attempted[c]
    <3>1. now - lastAttempt < MinInterval
      BY <1>0, <1>1, <2>2 DEF Allow
    <3> QED BY <1>0, <3>1
  <2> QED BY <2>1, <2>2
<1>3. CASE lastFailure >= lastAttempt
  BY <1>0, <1>2, <1>3
<1>4. CASE expires >= lastAttempt + TTL /\ k \in keys
  <2>1. ~(now < expires)
    BY <1>1, <1>4
  <2>2. attempted[c]
    BY <1>1, <2>1 DEF Fresh, NotExpired
  <2>3. now <= lastAttempt + FetchTimeout
    BY <1>1, <2>2 DEF RotationInv
  <2> QED BY <1>0, <1>4, <2>1, <2>3
<1> QED BY <1>1, <1>2, <1>3, <1>4 DEF RotationInv, Refreshed, ContainsOld

(* What a refresh leaves behind, whether it failed or not.                 *)
LEMMA RefreshLeaves ==
    ASSUME JwksTypeOK, RotationInv, ContainsOld(asked),
           fetchFailed \/ \E S \in Responses : installed(S),
           UNCHANGED <<now, lastAttempt, worldVars>>
    PROVE  Refreshed' /\ lastFailure' >= lastFailure
<1>0. /\ now \in Int /\ lastAttempt \in -MinInterval .. now /\ lastFailure \in -1 .. now
      /\ TTL \in Nat /\ MinInterval \in Nat
  BY JwksAssumption DEF JwksTypeOK
<1>1. ContainsOld(published)
  BY DEF ContainsOld
<1>2. CASE fetchFailed
  BY <1>0, <1>2 DEF fetchFailed, Refreshed
<1>3. ASSUME NEW S \in Responses, installed(S)
      PROVE  Refreshed' /\ lastFailure' >= lastFailure
  <2>1. ContainsOld(S)
    BY <1>1 DEF Responses
  <2>2. keys' = S /\ expires' = now + TTL /\ lastFailure' = lastFailure
    BY <1>3 DEF installed, NewExpiry
  <2>3. ContainsOld(keys)'
    BY <2>1, <2>2 DEF ContainsOld, worldVars
  <2>4. expires' >= lastAttempt' + TTL
    BY <1>0, <2>2
  <2> QED BY <1>0, <2>2, <2>3, <2>4 DEF Refreshed
<1> QED BY <1>2, <1>3

LEMMA RotationStep == JwksTypeOK /\ OneRefresh /\ RotationInv /\ [JwksNext]_jwksVars => RotationInv'
<1> SUFFICES ASSUME JwksTypeOK, OneRefresh, RotationInv, [JwksNext]_jwksVars PROVE RotationInv'
  OBVIOUS
<1> USE JwksAssumption
<1>0. /\ at \in [Caller -> {"idle", "loop", "wait", "fetch", "done"}]
      /\ result \in [Caller -> {"none", "key", "unknown", "error"}]
      /\ attempted \in [Caller -> BOOLEAN] /\ kid \in [Caller -> Kid]
      /\ now \in Int /\ lastAttempt \in Int /\ lastFailure \in Int /\ FetchTimeout \in Nat
      /\ refreshing \in BOOLEAN /\ holder \in Caller \cup {Nobody, Background}
      /\ publishedSince \in [Kid -> 0 .. now]
  BY DEF JwksTypeOK
(* Nothing but the calls' own state changes: each call has to be seen to.  *)
<1>1. ASSUME NEW c \in Caller, NEW to \in {"idle", "loop", "wait", "done"},
             at[c] # "fetch", at' = [at EXCEPT ![c] = to],
             \A d \in Caller : d # c => UNCHANGED <<result[d], attempted[d], kid[d]>>,
             result'[c] # "none" => to = "done",
             to = "idle" => ~attempted'[c],
             to = "loop" /\ attempted'[c] => now <= lastAttempt + FetchTimeout,
             result'[c] = "unknown" /\ kid'[c] \in published
                /\ publishedSince[kid'[c]] + MinInterval <= now
                   => lastFailure >= publishedSince[kid'[c]],
             UNCHANGED <<now, keyVars, holder, background, worldVars, asked, lastFailure>>
      PROVE  RotationInv'
  <2>1. ContainsOld(asked)' = ContainsOld(asked) /\ Refreshed' = Refreshed
    BY <1>1 DEF ContainsOld, Refreshed, keyVars, worldVars
  <2>2. \A d \in Caller : holder = d => d # c
    BY <1>1 DEF RotationInv
  <2> QED BY <1>0, <1>1, <2>1, <2>2 DEF RotationInv, RotationVisible, keyVars, worldVars
<1>2. ASSUME NEW c \in Caller, NEW k \in Kid, GetKey(c, k)
      PROVE  RotationInv'
  BY <1>0, <1>1, <1>2 DEF GetKey, RotationInv
<1>3. ASSUME NEW c \in Caller, hit(c)
      PROVE  RotationInv'
  BY <1>0, <1>1, <1>3 DEF hit, returns, Locked
<1>4. ASSUME NEW c \in Caller, unknown(c)
      PROVE  RotationInv'
  BY <1>0, <1>1, <1>4, UnknownJustified DEF unknown, returns, Locked
<1>5. ASSUME NEW c \in Caller, awaitRefresh(c)
      PROVE  RotationInv'
  BY <1>0, <1>1, <1>5 DEF awaitRefresh, Locked, RotationInv
<1>6. ASSUME NEW c \in Caller, verified(c)
      PROVE  RotationInv'
  BY <1>0, <1>1, <1>6 DEF verified, RotationInv
(* A refresh begins: of the last attempt nothing is left to be shown.      *)
<1>7. ASSUME NEW c \in Caller, startBackground(c)
      PROVE  RotationInv'
  <2>1. /\ at[c] = "loop" /\ at' = [at EXCEPT ![c] = "wait"] /\ background = "off"
        /\ holder = Nobody /\ lastAttempt' = now /\ refreshing' = TRUE /\ background' = "begin"
        /\ \A d \in Caller : d # c => attempted'[d] = attempted[d]
        /\ UNCHANGED <<now, holder, kid, result, published, publishedSince, asked, lastFailure>>
    BY <1>0, <1>7 DEF startBackground, Locked, MayRefresh, OneRefresh, worldVars
  <2>2. \A d \in Caller : at'[d] # "fetch"
    BY <1>0, <1>7, <2>1 DEF OneRefresh, startBackground, MayRefresh
  <2> QED BY <1>0, <2>1, <2>2 DEF RotationInv, RotationVisible
<1>8. ASSUME NEW c \in Caller, startFetch(c)
      PROVE  RotationInv'
  <2>1. /\ at[c] = "loop" /\ at' = [at EXCEPT ![c] = "fetch"] /\ ~refreshing
        /\ lastAttempt' = now /\ refreshing' = TRUE /\ holder' = c /\ asked' = published
        /\ \A d \in Caller : d # c => attempted'[d] = attempted[d]
        /\ UNCHANGED <<now, background, kid, result, published, publishedSince, lastFailure>>
    BY <1>0, <1>8 DEF startFetch, Locked, MayFetch, worldVars
  <2>2. background = "off" /\ \A d \in Caller : at[d] # "fetch"
    BY <2>1 DEF OneRefresh
  <2>3. ContainsOld(asked)'
    BY <2>1 DEF ContainsOld
  <2> QED BY <1>0, <2>1, <2>2, <2>3 DEF RotationInv, RotationVisible
<1>9. \A p \in [Caller -> {"idle", "loop", "wait", "fetch", "done"}] : \A d \in Caller :
          woken(p)[d] = IF p[d] = "wait" THEN "loop" ELSE p[d]
  BY DEF woken
<1>10. ASSUME NEW c \in Caller, endFetch(c)
       PROVE  RotationInv'
  <2>1. /\ at[c] = "fetch" /\ refreshing /\ holder = c /\ background = "off"
        /\ \A d \in Caller : d # c => at[d] # "fetch"
    BY <1>10 DEF endFetch, OneRefresh
  <2>2. /\ fetchFailed \/ \E S \in Responses : installed(S)
        /\ refreshing' = FALSE /\ holder' = Nobody /\ at' = woken([at EXCEPT ![c] = "done"])
        /\ UNCHANGED <<now, lastAttempt, background, kid, attempted, worldVars>>
        /\ \E what : result' = [result EXCEPT ![c] = what]
    BY <1>10 DEF endFetch
  <2>2a. \A d \in Caller : d # c => result'[d] = result[d]
    BY <1>0, <2>2
  <2>3. Refreshed' /\ lastFailure' >= lastFailure /\ ContainsOld(asked)
    BY <2>1, <2>2, RefreshLeaves DEF RotationInv
  <2>4. /\ at'[c] = "done"
        /\ \A d \in Caller : d # c => at'[d] = IF at[d] = "wait" THEN "loop" ELSE at[d]
    <3> DEFINE ended == [at EXCEPT ![c] = "done"]
    <3>1. ended \in [Caller -> {"idle", "loop", "wait", "fetch", "done"}]
      BY <1>0
    <3>2. \A d \in Caller : at'[d] = IF ended[d] = "wait" THEN "loop" ELSE ended[d]
      BY <1>9, <2>2, <3>1
    <3> QED BY <1>0, <3>2
(* The caller's own verdict: its id was among those the fetch has read.    *)
  <2>5. ASSUME kid[c] \in published, publishedSince[kid[c]] + MinInterval <= now
        PROVE  result'[c] # "unknown"
    <3>1. publishedSince[kid[c]] < lastAttempt
      BY <2>1, <2>5, LongPublished DEF RotationInv
    <3>2. \A S \in Responses : kid[c] \in S
      BY <2>3, <2>5, <3>1 DEF ContainsOld, Responses
    <3> QED BY <1>0, <1>10, <3>2 DEF endFetch
  <2>6. now <= lastAttempt + FetchTimeout
    BY <2>1 DEF RotationInv
  <2>7. RotationVisible'
    <3> SUFFICES ASSUME NEW d \in Caller, result'[d] = "unknown", kid[d] \in published,
                        publishedSince[kid[d]] + MinInterval <= now
                 PROVE  lastFailure' >= publishedSince[kid[d]]
      BY <2>2 DEF RotationVisible, worldVars
    <3>1. d # c
      BY <2>5
    <3>2. lastFailure >= publishedSince[kid[d]]
      BY <2>2, <2>2a, <3>1 DEF RotationInv, RotationVisible
    <3>3. lastFailure' \in Int
      BY <1>0, <2>2 DEF fetchFailed, installed
    <3> QED BY <1>0, <2>3, <3>2, <3>3
  <2>8. \A d \in Caller : d # c /\ result'[d] # "none" => at'[d] = "done"
    BY <2>4, <2>2a DEF RotationInv
  <2> QED BY <1>0, <2>1, <2>2, <2>3, <2>4, <2>6, <2>7, <2>8 DEF RotationInv
<1>11. CASE backgroundFetch
  <2>1. /\ background = "begin" /\ background' = "fetch" /\ holder' = Background
        /\ asked' = published /\ refreshing
        /\ UNCHANGED <<now, keyVars, getVars, worldVars, lastFailure>>
    BY <1>11 DEF backgroundFetch, OneRefresh
  <2>2. ContainsOld(asked)'
    BY <2>1 DEF ContainsOld, worldVars
  <2> QED BY <1>0, <2>1, <2>2 DEF RotationInv, RotationVisible, keyVars, getVars, worldVars
<1>12. CASE backgroundFetched
  <2>1. /\ background = "fetch" /\ background' = "end" /\ holder' = Nobody
        /\ fetchFailed \/ \E S \in Responses : installed(S)
        /\ UNCHANGED <<now, lastAttempt, refreshing, getVars, worldVars>>
    BY <1>12 DEF backgroundFetched
  <2>2. Refreshed' /\ lastFailure' >= lastFailure
    BY <2>1, RefreshLeaves DEF RotationInv
  <2>3. \A d \in Caller : at[d] # "fetch"
    BY <2>1 DEF OneRefresh
  <2>4. RotationVisible'
    <3>1. lastFailure' \in Int
      BY <1>0, <2>1 DEF fetchFailed, installed
    <3> QED BY <1>0, <2>1, <2>2, <3>1 DEF RotationInv, RotationVisible, getVars, worldVars
  <2> QED BY <1>0, <2>1, <2>2, <2>3, <2>4 DEF RotationInv, getVars, worldVars
<1>13. CASE backgroundEnd
  <2>1. /\ background = "end" /\ background' = "off" /\ holder = Nobody /\ refreshing /\ refreshing' = FALSE
        /\ \A d \in Caller : at'[d] = IF at[d] = "wait" THEN "loop" ELSE at[d]
        /\ UNCHANGED <<now, keys, expires, lastAttempt, holder, kid, attempted, result,
                       worldVars, asked, lastFailure>>
    BY <1>0, <1>9, <1>13 DEF backgroundEnd, OneRefresh
  <2>2. Refreshed' = Refreshed /\ ContainsOld(asked)' = ContainsOld(asked)
    BY <2>1 DEF Refreshed, ContainsOld, worldVars
  <2> QED BY <1>0, <2>1, <2>2 DEF RotationInv, RotationVisible, worldVars
(* An id is published now, or has been for as long as before.              *)
<1>14. ASSUME NEW S \in SUBSET Kid, rotate(S)
       PROVE  RotationInv'
  <2>1. /\ UNCHANGED <<now, keyVars, holder, background, getVars, asked, lastFailure>>
        /\ \A k \in published' : \/ k \in published /\ publishedSince'[k] = publishedSince[k]
                                 \/ publishedSince'[k] = now
    BY <1>14 DEF rotate
  <2>2. lastAttempt <= now
    BY DEF JwksTypeOK
  <2>3. \A T : ContainsOld(T) => \A k \in published' : publishedSince'[k] < lastAttempt => k \in T
    BY <1>0, <2>1, <2>2 DEF ContainsOld
  <2>4. (ContainsOld(asked) => ContainsOld(asked)') /\ (Refreshed => Refreshed')
    BY <2>1, <2>3 DEF ContainsOld, Refreshed, keyVars
  <2>5. MinInterval \in Nat \ {0}
    OBVIOUS
  <2> QED BY <1>0, <2>1, <2>4, <2>5 DEF RotationInv, RotationVisible, keyVars, getVars
<1>15. CASE jwksTick
  <2>1. /\ now' = now + 1 /\ (refreshing => now < lastAttempt + FetchTimeout)
        /\ \A c \in Caller : at[c] # "done" /\ ~Locked(c)
        /\ UNCHANGED <<keyVars, holder, background, getVars, worldVars, asked, lastFailure>>
    BY <1>15 DEF jwksTick
  <2>2. ContainsOld(asked)' = ContainsOld(asked) /\ Refreshed' = Refreshed
    BY <2>1 DEF ContainsOld, Refreshed, keyVars, worldVars
  <2>3. \A c \in Caller : result[c] = "none"
    BY <2>1 DEF RotationInv
  <2>4. ASSUME NEW c \in Caller, at[c] = "loop"
        PROVE  refreshing
    <3>1. holder # Nobody
      BY <2>1, <2>4 DEF Locked
    <3> QED BY <1>0, <3>1 DEF OneRefresh, RotationInv
  <2>5. refreshing => now' <= lastAttempt + FetchTimeout
    BY <1>0, <2>1
  <2> QED BY <2>1, <2>2, <2>3, <2>4, <2>5 DEF RotationInv, RotationVisible, keyVars, getVars
<1>16. CASE UNCHANGED jwksVars
  BY <1>16 DEF jwksVars, keyVars, getVars, worldVars, RotationInv, RotationVisible, ContainsOld, Refreshed
<1> QED BY <1>2, <1>3, <1>4, <1>5, <1>6, <1>7, <1>8, <1>10, <1>11, <1>12, <1>13, <1>14, <1>15, <1>16
        DEF JwksNext, GetKeyStep, BackgroundStep

(* The cooldown of a minute hides no key rotation for longer than itself.  *)
THEOREM RotationSeen == JwksSpec => []RotationVisible
<1>1. RotationInv => RotationVisible
  BY DEF RotationInv
<1> QED BY <1>1, JwksTypeInit, JwksTypeStep, RefreshInit, RefreshStep, RotationInit, RotationStep, PTL DEF JwksSpec

-----------------------------------------------------------------------------
(* The AniList client.                                                     *)
(* A call that runs has a query, and waits only while attempts are left.   *)
Asking ==
    \A c \in Call : /\ pc[c] # "idle" => query[c] \in Query
                    /\ pc[c] = "backoff" => attempt[c] < MaxRetries

TypeInv == TypeOK /\ Asking

(* The type invariant in three parts, as the actions change them.          *)
CircuitOK ==
    /\ circuit \in {"closed", "open", "halfOpen"}
    /\ failures \in 0 .. FailureThreshold /\ successes \in 0 .. SuccessThreshold
    /\ sinceFailure \in 0 .. Timeout + 1

CacheOK ==
    /\ cache \in [Query -> Never .. MaxAge] /\ cut \subseteq Cached
    /\ untilSweep \in 0 .. JanitorPeriod
    /\ sweep \subseteq Query /\ doomed \subseteq Query

CallsOK ==
    /\ inflight \in [Query -> Call \union {NoCall}]
    /\ tokens \in 0 .. Burst /\ up \in BOOLEAN
    /\ pc \in [Call -> PC] /\ query \in [Call -> Query \union {NoQuery}]
    /\ attempt \in [Call -> 0 .. MaxRetries]
    /\ on \in [Call -> Call \union {NoCall}]
    /\ gone \in [Call -> BOOLEAN]
    /\ Asking

LEMMA TypeParts == TypeInv <=> CircuitOK /\ CacheOK /\ CallsOK
BY DEF TypeInv, TypeOK, CircuitOK, CacheOK, CallsOK

LEMMA Bounds ==
    /\ FreshTTL \in Nat \ {0} /\ CacheTTL \in Nat \ {0} /\ JanitorPeriod \in Nat \ {0}
    /\ FailureThreshold \in Nat \ {0} /\ SuccessThreshold \in Nat \ {0}
    /\ Timeout \in Nat \ {0} /\ Burst \in Nat \ {0}
    /\ MaxEntries \in Nat /\ MaxRetries \in Nat
    /\ MaxAge \in Nat /\ Never = -1 /\ MaxAge = CacheTTL + JanitorPeriod + 1
BY AnilistAssumption DEF MaxAge, Never

-----------------------------------------------------------------------------
LEMMA TypeInit == Init => TypeInv
<1> SUFFICES ASSUME Init PROVE CircuitOK /\ CacheOK /\ CallsOK
  BY TypeParts
<1>1. CircuitOK
  BY Bounds DEF Init, CircuitOK
<1>2. CacheOK
  BY Bounds DEF Init, CacheOK, Cached
<1>3. CallsOK
  BY Bounds DEF Init, CallsOK, Asking, PC
<1> QED BY <1>1, <1>2, <1>3

(* The breaker's three operations keep its counts in range.                *)
LEMMA CircuitStep ==
    ASSUME CircuitOK, allow \/ recordSuccess \/ recordFailure
    PROVE  CircuitOK'
<1>1. CASE allow
  BY <1>1 DEF allow, CircuitOK
<1>2. CASE recordSuccess
  BY <1>2, Bounds DEF recordSuccess, CircuitOK, AtMost
<1>3. CASE recordFailure
  BY <1>3, Bounds DEF recordFailure, CircuitOK, AtMost
<1> QED BY <1>1, <1>2, <1>3

(* A call that returns leaves nothing of itself behind.                    *)
LEMMA Returns ==
    ASSUME CallsOK, NEW c \in Call, return(c)
    PROVE  /\ query' \in [Call -> Query \union {NoQuery}]
           /\ attempt' \in [Call -> 0 .. MaxRetries]
           /\ gone' \in [Call -> BOOLEAN]
           /\ goto(c, "idle") => pc' \in [Call -> PC] /\ Asking'
<1>1. 0 \in 0 .. MaxRetries
  BY Bounds
<1> QED BY <1>1 DEF return, goto, CallsOK, Asking, PC

(* The stages from a call's first line to the sending of its request.      *)
LEMMA AskTypes ==
    ASSUME CallsOK, NEW c \in Call,
           \/ \E q \in Query : do(c, q)
           \/ look(c) \/ giveUp(c) \/ check(c) \/ register(c) \/ pace(c)
    PROVE  CallsOK'
<1>1. CASE \E q \in Query : do(c, q)
  BY <1>1 DEF do, goto, CallsOK, Asking, PC
<1>2. CASE look(c)
  <2>1. query[c] \in Query /\ inflight[query[c]] \in Call \union {NoCall}
    BY <1>2 DEF look, CallsOK, Asking
  <2>2. on' \in [Call -> Call \union {NoCall}]
    BY <1>2, <2>1 DEF look, CallsOK
  <2>3. pc' \in [Call -> PC]
    BY <1>2 DEF look, goto, CallsOK, PC
  <2>4. Asking'
    BY <1>2, <2>1 DEF look, goto, CallsOK, Asking
  <2> QED BY <1>2, <2>2, <2>3, <2>4 DEF look, CallsOK
<1>3. ASSUME goto(c, "idle"), return(c),
             on' \in [Call -> Call \union {NoCall}],
             UNCHANGED <<inflight, tokens, up>>
      PROVE  CallsOK'
  BY <1>3, Returns DEF CallsOK
<1>4. CASE giveUp(c) \/ check(c)
  <2>1. CASE giveUp(c)
    BY <1>3, <2>1 DEF giveUp, CallsOK
  <2>2. CASE check(c) /\ IsFresh(query[c]) /\ goto(c, "idle") /\ return(c)
    BY <1>3, <2>2 DEF check, CallsOK
  <2>3. CASE check(c) /\ goto(c, "register") /\ UNCHANGED <<query, attempt, gone>>
    BY <2>3 DEF check, goto, CallsOK, Asking, PC
  <2> QED BY <1>4, <2>1, <2>2, <2>3 DEF check
<1>5. CASE register(c)
  BY <1>5 DEF register, goto, CallsOK, Asking, PC
<1>6. CASE pace(c)
  BY <1>6, Bounds DEF pace, HasToken, goto, CallsOK, Asking, PC
<1> QED BY <1>1, <1>2, <1>4, <1>5, <1>6

(* The stages from the request to the call's return.                       *)
LEMMA AnswerTypes ==
    ASSUME CallsOK, NEW c \in Call,
           \/ succeeded(c) \/ retried(c) \/ failed(c) \/ backoff(c)
           \/ leave(c) \/ disconnect(c)
    PROVE  CallsOK'
<1>1. CASE succeeded(c) \/ retried(c) \/ failed(c)
  BY <1>1 DEF succeeded, retried, failed, goto, CallsOK, Asking, PC, janitorVars
<1>2. CASE backoff(c)
  BY <1>2, Bounds DEF backoff, goto, CallsOK, Asking, PC
<1>3. CASE leave(c)
  <2>1. inflight' \in [Query -> Call \union {NoCall}] /\ on' \in [Call -> Call \union {NoCall}]
    BY <1>3 DEF leave, CallsOK
  <2>2. pc' \in [Call -> PC]
    BY <1>3 DEF leave, CallsOK, PC
  <2>3. Asking'
    BY <1>3 DEF leave, released, return, CallsOK, Asking
  <2> QED BY <1>3, <2>1, <2>2, <2>3, Returns DEF leave, CallsOK
<1>4. CASE disconnect(c)
  BY <1>4 DEF disconnect, CallsOK, Asking
<1> QED BY <1>1, <1>2, <1>3, <1>4

(* The janitor's steps, a stored response and time keep the cache's types. *)
LEMMA StoreTypes ==
    ASSUME CacheOK, CallsOK, NEW c \in Call, succeeded(c)
    PROVE  CacheOK'
<1>1. query[c] \in Query
  BY DEF succeeded, CallsOK, Asking
<1>2. cache' \in [Query -> Never .. MaxAge] /\ cut' \subseteq Cached'
  BY <1>1, Bounds DEF succeeded, CacheOK, Cached
<1> QED BY <1>2 DEF succeeded, CacheOK, janitorVars

LEMMA JanitorTypes ==
    ASSUME CacheOK, Janitor PROVE CacheOK'
<1>1. ASSUME NEW q \in Query, evictStale(q) PROVE CacheOK'
  BY <1>1 DEF evictStale, CacheOK, Cached, cacheVars
<1>2. ASSUME NEW q \in Query, delete(q) PROVE CacheOK'
  BY <1>2, Bounds DEF delete, CacheOK, Cached
<1>3. CASE evictOldest
  BY <1>3, Bounds DEF evictOldest, CacheOK, Cached, cacheVars
<1> QED BY <1>1, <1>2, <1>3 DEF Janitor

LEMMA TickTypes ==
    ASSUME CacheOK, CircuitOK, CallsOK, tick
    PROVE  CacheOK' /\ CircuitOK' /\ CallsOK'
<1>1. cache' \in [Query -> Never .. MaxAge] /\ cut' \subseteq Cached'
  BY Bounds DEF tick, CacheOK, Cached, AtMost
<1>2. CacheOK'
  BY <1>1, Bounds DEF tick, CacheOK
<1>3. CircuitOK'
  BY Bounds DEF tick, CircuitOK, AtMost
<1>4. CallsOK'
  BY Bounds DEF tick, CallsOK, Asking, callVars, AtMost
<1> QED BY <1>2, <1>3, <1>4

LEMMA TypeStep == TypeInv /\ [Next]_vars => TypeInv'
<1> SUFFICES ASSUME CircuitOK, CacheOK, CallsOK, [Next]_vars
             PROVE  CircuitOK' /\ CacheOK' /\ CallsOK'
  BY TypeParts DEF TypeInv, TypeOK, CircuitOK, CacheOK, CallsOK
<1>1. ASSUME NEW c \in Call, NEW q \in Query, do(c, q)
      PROVE  CircuitOK' /\ CacheOK' /\ CallsOK'
  <2>1. CircuitOK'
    BY <1>1, CircuitStep DEF do
  <2>2. CacheOK'
    BY <1>1 DEF do, CacheOK, Cached, cacheVars, janitorVars
  <2>3. CallsOK'
    BY <1>1, AskTypes
  <2> QED BY <2>1, <2>2, <2>3
<1>2. ASSUME NEW c \in Call,
             look(c) \/ giveUp(c) \/ check(c) \/ register(c) \/ pace(c)
                \/ retried(c) \/ backoff(c) \/ leave(c) \/ disconnect(c)
      PROVE  CircuitOK' /\ CacheOK' /\ CallsOK'
  <2>1. UNCHANGED <<circuitVars, cacheVars, janitorVars>>
    BY <1>2 DEF look, giveUp, check, register, pace, retried, backoff, leave, disconnect
  <2>2. CircuitOK' /\ CacheOK'
    BY <2>1 DEF CircuitOK, CacheOK, Cached, circuitVars, cacheVars, janitorVars
  <2>3. CallsOK'
    BY <1>2, AskTypes, AnswerTypes
  <2> QED BY <2>2, <2>3
<1>3. ASSUME NEW c \in Call, succeeded(c)
      PROVE  CircuitOK' /\ CacheOK' /\ CallsOK'
  BY <1>3, CircuitStep, StoreTypes, AnswerTypes DEF succeeded
<1>4. ASSUME NEW c \in Call, failed(c)
      PROVE  CircuitOK' /\ CacheOK' /\ CallsOK'
  <2>1. CacheOK'
    BY <1>4 DEF failed, CacheOK, Cached, cacheVars, janitorVars
  <2> QED BY <1>4, <2>1, CircuitStep, AnswerTypes DEF failed
<1>5. ASSUME Janitor
      PROVE  CircuitOK' /\ CacheOK' /\ CallsOK'
  <2>1. UNCHANGED <<circuitVars, inflight, tokens, up, callVars>>
    BY <1>5 DEF Janitor, evictStale, evictOldest, delete
  <2>2. CircuitOK' /\ CallsOK'
    BY <2>1 DEF CircuitOK, CallsOK, Asking, circuitVars, callVars
  <2> QED BY <1>5, <2>2, JanitorTypes
<1>6. CASE flip
  BY <1>6 DEF flip, CircuitOK, CacheOK, CallsOK, Asking, Cached, circuitVars,
              cacheVars, janitorVars, callVars
<1>7. CASE tick
  BY <1>7, TickTypes
<1>8. CASE UNCHANGED vars
  BY <1>8 DEF vars, CircuitOK, CacheOK, CallsOK, Asking, Cached, circuitVars,
              cacheVars, janitorVars, callVars
<1> QED
  BY <1>1, <1>2, <1>3, <1>4, <1>5, <1>6, <1>7, <1>8 DEF Next, Calls, Step

LEMMA TypeAlways == Spec => []TypeInv
BY TypeInit, TypeStep, PTL DEF Spec

(* The type invariant of the AniList client: its counts, ages and stages   *)
(* stay in range, and only cached responses are marked as cut off.         *)
THEOREM TypeCorrect == Spec => []TypeOK
<1>1. TypeInv => TypeOK
  BY DEF TypeInv
<1> QED BY <1>1, TypeAlways, PTL

-----------------------------------------------------------------------------
(* Who waits, and what is registered, refers to a call that is fetching.   *)
LEMMA FollowStep == TypeInv /\ WaitersFollowFetch /\ [Next]_vars => WaitersFollowFetch'
<1> SUFFICES ASSUME CallsOK, WaitersFollowFetch, [Next]_vars PROVE WaitersFollowFetch'
  BY TypeParts
<1> USE DEF CallsOK, WaitersFollowFetch, Fetching
<1>1. ASSUME NEW c \in Call, NEW q \in Query, do(c, q) PROVE WaitersFollowFetch'
  BY <1>1 DEF do, goto
<1>2. ASSUME NEW c \in Call, look(c) PROVE WaitersFollowFetch'
  <2>1. query[c] \in Query
    BY <1>2 DEF look, Asking
  <2> QED BY <1>2, <2>1 DEF look, goto
<1>3. ASSUME NEW c \in Call, giveUp(c) \/ check(c) PROVE WaitersFollowFetch'
  BY <1>3 DEF giveUp, check, return, goto
<1>4. ASSUME NEW c \in Call, register(c) PROVE WaitersFollowFetch'
  BY <1>4 DEF register, goto
<1>5. ASSUME NEW c \in Call, pace(c) \/ backoff(c) PROVE WaitersFollowFetch'
  BY <1>5 DEF pace, backoff, goto
<1>6. ASSUME NEW c \in Call, succeeded(c) \/ retried(c) \/ failed(c)
      PROVE WaitersFollowFetch'
  BY <1>6 DEF succeeded, retried, failed, goto
<1>7. ASSUME NEW c \in Call, leave(c) PROVE WaitersFollowFetch'
  <2>1. query[c] \in Query
    BY <1>7 DEF leave, Asking
  <2>2. ASSUME NEW w \in Call, pc'[w] = "wait"
        PROVE  on'[w] \in Call /\ pc'[on'[w]] \in Fetching /\ query'[on'[w]] = query'[w]
    BY <1>7, <2>2 DEF leave, released, return
  <2>3. ASSUME NEW q \in Query, inflight'[q] # NoCall
        PROVE  inflight'[q] \in Call /\ pc'[inflight'[q]] \in Fetching /\ query'[inflight'[q]] = q
    BY <1>7, <2>1, <2>3 DEF leave, released, return
  <2> QED BY <2>2, <2>3
<1>8. ASSUME NEW c \in Call, disconnect(c) PROVE WaitersFollowFetch'
  BY <1>8 DEF disconnect
<1>9. CASE Janitor \/ flip \/ tick \/ UNCHANGED vars
  <2>1. UNCHANGED <<inflight, callVars>>
    BY <1>9 DEF Janitor, evictStale, evictOldest, delete, flip, tick, vars
  <2> QED BY <2>1 DEF callVars
<1> QED
  BY <1>1, <1>2, <1>3, <1>4, <1>5, <1>6, <1>7, <1>8, <1>9 DEF Next, Calls, Step

(* Every waiter is behind a running request for its own query, for any     *)
(* number of calls that register over one another.                         *)
THEOREM WaitersFollow == Spec => []WaitersFollowFetch
<1>1. Init => WaitersFollowFetch
  BY DEF Init, WaitersFollowFetch
<1> QED BY <1>1, TypeAlways, FollowStep, PTL DEF Spec

-----------------------------------------------------------------------------
(* The janitor's next sweep comes before any entry is too old, and what it *)
(* has visited and kept is within anilistCacheTTL.                         *)
Swept ==
    /\ sweep # {} => untilSweep = 0
    /\ \A q \in Query :
         /\ cache[q] + untilSweep <= CacheTTL + JanitorPeriod
         /\ untilSweep = 0 /\ q \notin sweep \union doomed => cache[q] <= CacheTTL

LEMMA SweptStep == TypeInv /\ Swept /\ [Next]_vars => Swept'
<1> SUFFICES ASSUME CacheOK, CallsOK, Swept, [Next]_vars PROVE Swept'
  BY TypeParts
<1> USE Bounds
<1>0. /\ untilSweep \in Nat /\ untilSweep <= JanitorPeriod
      /\ \A q \in Query : cache[q] \in Int
  BY DEF CacheOK
<1>1. ASSUME NEW c \in Call, succeeded(c) PROVE Swept'
  BY <1>0, <1>1 DEF succeeded, Swept, CacheOK, CallsOK, Asking, janitorVars
<1>2. ASSUME NEW q \in Query, evictStale(q) PROVE Swept'
  BY <1>0, <1>2 DEF evictStale, TooOld, Swept, CacheOK, cacheVars
<1>3. ASSUME NEW q \in Query, delete(q) PROVE Swept'
  BY <1>0, <1>3 DEF delete, Swept, CacheOK
<1>4. CASE evictOldest
  BY <1>0, <1>4 DEF evictOldest, Swept, cacheVars
<1>5. CASE tick
  BY <1>0, <1>5 DEF tick, Swept, CacheOK, AtMost
<1>6. CASE UNCHANGED <<cacheVars, janitorVars>>
  BY <1>6 DEF Swept, cacheVars, janitorVars
<1>7. ASSUME NEW c \in Call, \/ \E q \in Query : do(c, q)
                             \/ Step(c) /\ ~succeeded(c)
                             \/ disconnect(c)
      PROVE  UNCHANGED <<cacheVars, janitorVars>>
  BY <1>7 DEF do, Step, look, giveUp, check, register, pace, retried, failed,
              backoff, leave, disconnect
<1>8. flip \/ UNCHANGED vars => UNCHANGED <<cacheVars, janitorVars>>
  BY DEF flip, vars
<1> QED
  BY <1>1, <1>2, <1>3, <1>4, <1>5, <1>6, <1>7, <1>8 DEF Next, Calls, Janitor

(* For any lifetimes and any outage, the stale fallback finds nothing      *)
(* older than anilistCacheTTL and one period of the janitor.               *)
THEOREM StaleAnswersBounded == Spec => []StaleBounded
<1>1. Init => Swept
  BY Bounds DEF Init, Swept
<1>2. TypeInv /\ Swept => StaleBounded
  BY Bounds DEF TypeInv, TypeOK, Swept, StaleBounded
<1> QED BY <1>1, <1>2, TypeAlways, SweptStep, PTL DEF Spec
=============================================================================
