------------------------- MODULE LoaderCacheProofs -------------------------
(***************************************************************************)
(* Proofs about the loader cache of the resolver, for any callers, keys,   *)
(* lifetimes and capacity: whoever waits, waits for a load under way, and  *)
(* cached() keeps the promise of SharedLoads.                              *)
(***************************************************************************)
EXTENDS LoaderCache, TLAPS

-----------------------------------------------------------------------------
(* The inductive invariant: who has an answer by where they are in the     *)
(* call,                                                                   *)
ValuesRight ==
    \A c \in Caller :
        /\ since[c] <= clock
        /\ pc[c] \in {"idle", "look", "drop", "join", "load", "wait", "recheck"} => value[c] = NoAnswer
        /\ pc[c] \in {"store", "scan", "trim", "keep", "return2"} =>
              since[c] <= value[c] /\ value[c] <= clock
        /\ pc[c] = "idle" => key[c] = AnyKey /\ since[c] = 0

(* and an entry of the cache is an answer that counts, or one that counts  *)
(* for none of those who may still take it.                                *)
Counted(e, k) ==
    \/ [value |-> e.value, until |-> e.expiresAt] \in loaded[k]
    \/ e.expiresAt <= clock /\ \A c \in Asking : e.expiresAt <= since[c]

EntriesCount == \A k \in Key : responseCache[k] # Absent => Counted(responseCache[k], k)

IInv == TypeOK /\ Registered /\ ValuesRight /\ EntriesCount

(* Every step keeps the types.                                             *)
LEMMA TypeStep == IInv /\ [Next]_vars => TypeOK'
<1> SUFFICES ASSUME IInv, [Next]_vars PROVE TypeOK'
  OBVIOUS
<1> USE LoaderCacheAssumption DEF IInv, TypeOK, Time, NoAnswer
<1>1. ASSUME NEW c \in Caller, NEW k \in Key, cached(c, k)
      PROVE  TypeOK'
  BY <1>1 DEF cached, Go, Absent, None, AnyKey, ValuesRight, Asking
<1>2. ASSUME NEW c \in Caller, look(c)
      PROVE  TypeOK'
  BY <1>2 DEF look, Go, Answer, Absent, None, AnyKey, ValuesRight, Asking
<1>3. ASSUME NEW c \in Caller, drop(c)
      PROVE  TypeOK'
  BY <1>3 DEF drop, Go, Absent, None, AnyKey, ValuesRight, Asking
<1>4. ASSUME NEW c \in Caller, join(c)
      PROVE  TypeOK'
  BY <1>4 DEF join, Go, Absent, None, AnyKey, ValuesRight, Asking
<1>5. ASSUME NEW c \in Caller, load(c)
      PROVE  TypeOK'
  BY <1>5 DEF load, Go, Answer, Absent, None, AnyKey, ValuesRight, Asking
<1>6. ASSUME NEW c \in Caller, store(c)
      PROVE  TypeOK'
  BY <1>6 DEF store, Go, Keeps, Absent, None, AnyKey, ValuesRight, Asking
<1>7. ASSUME NEW c \in Caller, scan(c)
      PROVE  TypeOK'
  BY <1>7 DEF scan, Go, Expired, Stored, Excess, Absent, None, AnyKey, ValuesRight, Asking
<1>8. ASSUME NEW c \in Caller, trim(c)
      PROVE  TypeOK'
  BY <1>8 DEF trim, Go, Absent, None, AnyKey, ValuesRight, Asking
<1>9. ASSUME NEW c \in Caller, leave(c)
      PROVE  TypeOK'
  BY <1>9 DEF leave, Go, Absent, None, AnyKey, ValuesRight, Asking
<1>10. ASSUME NEW c \in Caller, close(c)
      PROVE  TypeOK'
  BY <1>10 DEF close, Waiting, Absent, None, AnyKey, ValuesRight, Asking
<1>11. ASSUME NEW c \in Caller, recheck(c)
      PROVE  TypeOK'
  BY <1>11 DEF recheck, Go, Answer, Absent, None, AnyKey, ValuesRight, Asking
<1>12. ASSUME NEW c \in Caller, refetch(c)
      PROVE  TypeOK'
  BY <1>12 DEF refetch, Go, Answer, Absent, None, AnyKey, ValuesRight, Asking
<1>13. ASSUME NEW c \in Caller, keep(c)
      PROVE  TypeOK'
  BY <1>13 DEF keep, Go, Keeps, Absent, None, AnyKey, ValuesRight, Asking
<1>14. ASSUME NEW c \in Caller, return(c)
      PROVE  TypeOK'
  BY <1>14 DEF return, Go, Answer, Absent, None, AnyKey, ValuesRight, Asking
<1>15. CASE tick
  BY <1>15 DEF tick, locals, Absent, None, AnyKey, ValuesRight, Asking
<1>16. CASE UNCHANGED vars
  BY <1>16 DEF vars, locals, Absent, None, AnyKey, ValuesRight, Asking
<1> QED BY <1>1, <1>2, <1>3, <1>4, <1>5, <1>6, <1>7, <1>8, <1>9, <1>10, <1>11, <1>12, <1>13, <1>14, <1>15, <1>16 DEF Next, step

(* Every step keeps who is registered, and who waits for whom.             *)
LEMMA RegisteredStep == IInv /\ [Next]_vars => Registered'
<1> SUFFICES ASSUME IInv, [Next]_vars PROVE Registered'
  OBVIOUS
<1> USE LoaderCacheAssumption DEF IInv, TypeOK
<1>1. ASSUME NEW c \in Caller, NEW k \in Key, cached(c, k)
      PROVE  Registered'
  BY <1>1 DEF cached, Go, Registered, Leading, None
<1>2. ASSUME NEW c \in Caller, look(c)
      PROVE  Registered'
  BY <1>2 DEF look, Go, Answer, Registered, Leading, None
<1>3. ASSUME NEW c \in Caller, drop(c)
      PROVE  Registered'
  BY <1>3 DEF drop, Go, Registered, Leading, None
<1>4. ASSUME NEW c \in Caller, join(c)
      PROVE  Registered'
  BY <1>4 DEF join, Go, Registered, Leading, None
<1>5. ASSUME NEW c \in Caller, load(c)
      PROVE  Registered'
  BY <1>5 DEF load, Go, Answer, Registered, Leading, None
<1>6. ASSUME NEW c \in Caller, store(c)
      PROVE  Registered'
  BY <1>6 DEF store, Go, Keeps, Registered, Leading, None
<1>7. ASSUME NEW c \in Caller, scan(c)
      PROVE  Registered'
  BY <1>7 DEF scan, Go, Expired, Stored, Excess, Registered, Leading, None
<1>8. ASSUME NEW c \in Caller, trim(c)
      PROVE  Registered'
  BY <1>8 DEF trim, Go, Registered, Leading, None
<1>9. ASSUME NEW c \in Caller, leave(c)
      PROVE  Registered'
  BY <1>9 DEF leave, Go, Registered, Leading, None
<1>10. ASSUME NEW c \in Caller, close(c)
      PROVE  Registered'
  BY <1>10 DEF close, Waiting, Registered, Leading, None
<1>11. ASSUME NEW c \in Caller, recheck(c)
      PROVE  Registered'
  BY <1>11 DEF recheck, Go, Answer, Registered, Leading, None
<1>12. ASSUME NEW c \in Caller, refetch(c)
      PROVE  Registered'
  BY <1>12 DEF refetch, Go, Answer, Registered, Leading, None
<1>13. ASSUME NEW c \in Caller, keep(c)
      PROVE  Registered'
  BY <1>13 DEF keep, Go, Keeps, Registered, Leading, None
<1>14. ASSUME NEW c \in Caller, return(c)
      PROVE  Registered'
  BY <1>14 DEF return, Go, Answer, Registered, Leading, None
<1>15. CASE tick
  BY <1>15 DEF tick, locals, Registered, Leading, None
<1>16. CASE UNCHANGED vars
  BY <1>16 DEF vars, locals, Registered, Leading, None
<1> QED BY <1>1, <1>2, <1>3, <1>4, <1>5, <1>6, <1>7, <1>8, <1>9, <1>10, <1>11, <1>12, <1>13, <1>14, <1>15, <1>16 DEF Next, step

(* Every step keeps what is known of the answers.                          *)
LEMMA ValuesStep == IInv /\ [Next]_vars => ValuesRight'
<1> SUFFICES ASSUME IInv, [Next]_vars PROVE ValuesRight'
  OBVIOUS
<1> USE LoaderCacheAssumption DEF IInv, TypeOK, Time, NoAnswer
<1>1. ASSUME NEW c \in Caller, NEW k \in Key, cached(c, k)
      PROVE  ValuesRight'
  BY <1>1 DEF cached, Go, ValuesRight, Absent, AnyKey
<1>2. ASSUME NEW c \in Caller, look(c)
      PROVE  ValuesRight'
  BY <1>2 DEF look, Go, Answer, ValuesRight, Absent, AnyKey
<1>3. ASSUME NEW c \in Caller, drop(c)
      PROVE  ValuesRight'
  BY <1>3 DEF drop, Go, ValuesRight, Absent, AnyKey
<1>4. ASSUME NEW c \in Caller, join(c)
      PROVE  ValuesRight'
  BY <1>4 DEF join, Go, ValuesRight, Absent, AnyKey
<1>5. ASSUME NEW c \in Caller, load(c)
      PROVE  ValuesRight'
  BY <1>5 DEF load, Go, Answer, ValuesRight, Absent, AnyKey
<1>6. ASSUME NEW c \in Caller, store(c)
      PROVE  ValuesRight'
  BY <1>6 DEF store, Go, Keeps, ValuesRight, Absent, AnyKey
<1>7. ASSUME NEW c \in Caller, scan(c)
      PROVE  ValuesRight'
  BY <1>7 DEF scan, Go, Expired, Stored, Excess, ValuesRight, Absent, AnyKey
<1>8. ASSUME NEW c \in Caller, trim(c)
      PROVE  ValuesRight'
  BY <1>8 DEF trim, Go, ValuesRight, Absent, AnyKey
<1>9. ASSUME NEW c \in Caller, leave(c)
      PROVE  ValuesRight'
  BY <1>9 DEF leave, Go, ValuesRight, Absent, AnyKey
<1>10. ASSUME NEW c \in Caller, close(c)
      PROVE  ValuesRight'
  BY <1>10 DEF close, Waiting, ValuesRight, Absent, AnyKey
<1>11. ASSUME NEW c \in Caller, recheck(c)
      PROVE  ValuesRight'
  BY <1>11 DEF recheck, Go, Answer, ValuesRight, Absent, AnyKey
<1>12. ASSUME NEW c \in Caller, refetch(c)
      PROVE  ValuesRight'
  BY <1>12 DEF refetch, Go, Answer, ValuesRight, Absent, AnyKey
<1>13. ASSUME NEW c \in Caller, keep(c)
      PROVE  ValuesRight'
  BY <1>13 DEF keep, Go, Keeps, ValuesRight, Absent, AnyKey
<1>14. ASSUME NEW c \in Caller, return(c)
      PROVE  ValuesRight'
  BY <1>14 DEF return, Go, Answer, ValuesRight, Absent, AnyKey
<1>15. CASE tick
  BY <1>15 DEF tick, locals, ValuesRight, Absent, AnyKey
<1>16. CASE UNCHANGED vars
  BY <1>16 DEF vars, locals, ValuesRight, Absent, AnyKey
<1> QED BY <1>1, <1>2, <1>3, <1>4, <1>5, <1>6, <1>7, <1>8, <1>9, <1>10, <1>11, <1>12, <1>13, <1>14, <1>15, <1>16 DEF Next, step

(* Every step keeps what is known of the entries.                          *)
LEMMA EntriesStep == IInv /\ [Next]_vars => EntriesCount'
<1> SUFFICES ASSUME IInv, [Next]_vars PROVE EntriesCount'
  OBVIOUS
<1> USE LoaderCacheAssumption DEF IInv, TypeOK, Time, NoAnswer
<1>1. ASSUME NEW c \in Caller, NEW k \in Key, cached(c, k)
      PROVE  EntriesCount'
  BY <1>1 DEF cached, Go, ValuesRight, EntriesCount, Counted, Asking, Absent
<1>2. ASSUME NEW c \in Caller, look(c)
      PROVE  EntriesCount'
  BY <1>2 DEF look, Go, Answer, ValuesRight, EntriesCount, Counted, Asking, Absent
<1>3. ASSUME NEW c \in Caller, drop(c)
      PROVE  EntriesCount'
  BY <1>3 DEF drop, Go, ValuesRight, EntriesCount, Counted, Asking, Absent
<1>4. ASSUME NEW c \in Caller, join(c)
      PROVE  EntriesCount'
  BY <1>4 DEF join, Go, ValuesRight, EntriesCount, Counted, Asking, Absent
<1>5. ASSUME NEW c \in Caller, load(c)
      PROVE  EntriesCount'
  BY <1>5 DEF load, Go, Answer, ValuesRight, EntriesCount, Counted, Asking, Absent
<1>6. ASSUME NEW c \in Caller, store(c)
      PROVE  EntriesCount'
  BY <1>6 DEF store, Go, Keeps, ValuesRight, EntriesCount, Counted, Asking, Absent
<1>7. ASSUME NEW c \in Caller, scan(c)
      PROVE  EntriesCount'
  BY <1>7 DEF scan, Go, Expired, Stored, Excess, ValuesRight, EntriesCount, Counted, Asking, Absent
<1>8. ASSUME NEW c \in Caller, trim(c)
      PROVE  EntriesCount'
  BY <1>8 DEF trim, Go, ValuesRight, EntriesCount, Counted, Asking, Absent
<1>9. ASSUME NEW c \in Caller, leave(c)
      PROVE  EntriesCount'
  BY <1>9 DEF leave, Go, ValuesRight, EntriesCount, Counted, Asking, Absent
<1>10. ASSUME NEW c \in Caller, close(c)
      PROVE  EntriesCount'
  BY <1>10 DEF close, Waiting, ValuesRight, EntriesCount, Counted, Asking, Absent
<1>11. ASSUME NEW c \in Caller, recheck(c)
      PROVE  EntriesCount'
  BY <1>11 DEF recheck, Go, Answer, ValuesRight, EntriesCount, Counted, Asking, Absent
<1>12. ASSUME NEW c \in Caller, refetch(c)
      PROVE  EntriesCount'
  BY <1>12 DEF refetch, Go, Answer, ValuesRight, EntriesCount, Counted, Asking, Absent
<1>13. ASSUME NEW c \in Caller, keep(c)
      PROVE  EntriesCount'
  BY <1>13 DEF keep, Go, Keeps, ValuesRight, EntriesCount, Counted, Asking, Absent
<1>14. ASSUME NEW c \in Caller, return(c)
      PROVE  EntriesCount'
  BY <1>14 DEF return, Go, Answer, ValuesRight, EntriesCount, Counted, Asking, Absent
<1>15. CASE tick
  BY <1>15 DEF tick, locals, ValuesRight, EntriesCount, Counted, Asking, Absent
<1>16. CASE UNCHANGED vars
  BY <1>16 DEF vars, locals, ValuesRight, EntriesCount, Counted, Asking, Absent
<1> QED BY <1>1, <1>2, <1>3, <1>4, <1>5, <1>6, <1>7, <1>8, <1>9, <1>10, <1>11, <1>12, <1>13, <1>14, <1>15, <1>16 DEF Next, step

(* The invariant holds when the process starts.                            *)
LEMMA InvariantInit == Init => IInv
<1> SUFFICES ASSUME Init PROVE IInv
  OBVIOUS
<1> USE LoaderCacheAssumption DEF Init
<1>1. AnyKey \in Key
  BY DEF AnyKey
<1>2. TypeOK
  BY <1>1 DEF TypeOK, Time, NoAnswer, None, Absent
<1>3. Registered
  BY DEF Registered, Leading, None
<1> QED BY <1>2, <1>3 DEF IInv, ValuesRight, EntriesCount, NoAnswer

(* The invariant is inductive.                                             *)
LEMMA Invariant == Spec => []IInv
<1>1. IInv /\ [Next]_vars => IInv'
  BY TypeStep, RegisteredStep, ValuesStep, EntriesStep DEF IInv
<1> QED BY <1>1, InvariantInit, PTL DEF Spec

(* Whoever waits, waits for a load that is under way: nobody is left       *)
(* behind by a leader that has gone.                                       *)
THEOREM WaitersAreLed == Spec => []Consistent
<1>1. IInv => Consistent
  BY DEF IInv, Consistent
<1> QED BY <1>1, Invariant, PTL

-----------------------------------------------------------------------------
(* The refinement.  What the callers of SharedLoads see of one call;       *)
LEMMA SeenOf ==
    ASSUME NEW c \in Caller
    PROVE  /\ call[c].stage = Stage(c) /\ call[c].key = key[c] /\ call[c].since = since[c]
           /\ call[c].value = IF pc[c] = "store" THEN NoAnswer ELSE value[c]
           /\ call[c] = [stage |-> Stage(c), key |-> key[c], since |-> since[c],
                          value |-> IF pc[c] = "store" THEN NoAnswer ELSE value[c]]
BY DEF call

(* and where each stage is in the code.                                    *)
LEMMA Stages ==
    ASSUME NEW c \in Caller
    PROVE  /\ pc[c] = "idle" => Stage(c) = "idle"
           /\ pc[c] \in {"look", "drop", "join"} => Stage(c) = "asked"
           /\ pc[c] \in Leading => Stage(c) = "loading"
           /\ pc[c] = "wait" => Stage(c) = "waiting"
           /\ pc[c] = "recheck" => Stage(c) = "woken"
           /\ pc[c] \in {"close", "return", "keep", "return2"} =>
                 Stage(c) = IF value[c] = NoAnswer THEN "failed" ELSE "answered"
BY DEF Stage, Asking, Leading

(* One caller moves: so does its call, and no other.                       *)
LEMMA CallMoves ==
    ASSUME IInv, NEW c \in Caller, NEW stage, NEW v, NEW place,
           pc' = [pc EXCEPT ![c] = place], UNCHANGED <<key, since>>,
           value' = value \/ \E a : value' = [value EXCEPT ![c] = a],
           Stage(c)' = stage, v = IF place = "store" THEN NoAnswer ELSE value'[c]
    PROVE  Promise!Move(c, stage, v)
<1>1. \A x \in Caller \ {c} : pc'[x] = pc[x] /\ value'[x] = value[x]
  BY DEF IInv, TypeOK
<1>2. pc'[c] = place
  BY DEF IInv, TypeOK
<1>3. \A x \in Caller \ {c} : Stage(x)' = Stage(x)
  BY <1>1 DEF Stage, Asking, Leading
<1>4. \A x \in Caller \ {c} : call'[x] = call[x]
  BY <1>1, <1>3 DEF call
<1>5. call'[c] = [stage |-> stage, key |-> key[c], since |-> since[c], value |-> v]
  BY <1>2 DEF call
<1>6. [call[c] EXCEPT !.stage = stage, !.value = v]
        = [stage |-> stage, key |-> key[c], since |-> since[c], value |-> v]
  <2>1. PICK q, w : q = call[c] /\ w = IF pc[c] = "store" THEN NoAnswer ELSE value[c]
    OBVIOUS
  <2>2. q = [stage |-> Stage(c), key |-> key[c], since |-> since[c], value |-> w]
    BY <2>1, SeenOf
  <2>3. PICK x : x = [q EXCEPT !.stage = stage]
    OBVIOUS
  <2>4. x = [stage |-> stage, key |-> key[c], since |-> since[c], value |-> w]
    BY <2>2, <2>3
  <2>5. [x EXCEPT !.value = v] = [stage |-> stage, key |-> key[c], since |-> since[c], value |-> v]
    BY <2>4
  <2>6. [q EXCEPT !.stage = stage, !.value = v] = [[q EXCEPT !.stage = stage] EXCEPT !.value = v]
    OBVIOUS
  <2> QED BY <2>1, <2>3, <2>5, <2>6
<1>7. call' = [call EXCEPT ![c] = [stage |-> stage, key |-> key[c], since |-> since[c], value |-> v]]
  BY <1>4, <1>5 DEF call
<1> QED BY <1>6, <1>7 DEF Promise!Move

(* One caller moves and its call does not.                                 *)
LEMMA CallStays ==
    ASSUME IInv, NEW c \in Caller, NEW place,
           pc' = [pc EXCEPT ![c] = place], UNCHANGED <<key, since>>,
           value' = value \/ \E a : value' = [value EXCEPT ![c] = a],
           Stage(c)' = Stage(c),
           (IF place = "store" THEN NoAnswer ELSE value'[c]) = IF pc[c] = "store" THEN NoAnswer ELSE value[c]
    PROVE  UNCHANGED call
<1>1. \A x \in Caller \ {c} : pc'[x] = pc[x] /\ value'[x] = value[x]
  BY DEF IInv, TypeOK
<1>2. pc'[c] = place
  BY DEF IInv, TypeOK
<1>3. \A x \in Caller \ {c} : Stage(x)' = Stage(x)
  BY <1>1 DEF Stage, Asking, Leading
<1>4. \A x \in Caller : call'[x] = call[x]
  BY <1>1, <1>2, <1>3 DEF call
<1> QED BY <1>4 DEF call

(* An entry that has not expired is an answer that counts.                 *)
LEMMA StillLoaded ==
    ASSUME IInv, NEW k \in Key, responseCache[k].expiresAt > clock
           \/ \E c \in Asking : responseCache[k].expiresAt > since[c]
    PROVE  /\ [value |-> responseCache[k].value, until |-> responseCache[k].expiresAt] \in loaded[k]
           /\ responseCache[k].value \in Time
<1>1. responseCache[k] \in {Absent} \union [value : Time, expiresAt : Nat \ {0}]
  BY DEF IInv, TypeOK
<1>2. clock \in Nat /\ \A c \in Asking : since[c] \in Nat
  BY DEF IInv, TypeOK, Time, Asking
<1>3. responseCache[k] # Absent
  BY <1>2, LoaderCacheAssumption DEF Absent
<1>4. responseCache[k].value \in Time /\ responseCache[k].expiresAt \in Nat
  BY <1>1, <1>3
<1>5. Counted(responseCache[k], k)
  BY <1>3 DEF IInv, EntriesCount
<1>6. ~(responseCache[k].expiresAt <= clock
          /\ \A c \in Asking : responseCache[k].expiresAt <= since[c])
  BY <1>2, <1>4
<1> QED BY <1>4, <1>5, <1>6 DEF Counted

Places ==
    {"idle", "look", "drop", "join", "load", "store", "scan", "trim", "leave", "close", "wait",
     "recheck", "return", "keep", "return2"}

(* Every step of the cache is a step of SharedLoads, or none.              *)
LEMMA PromiseStep == IInv /\ IInv' /\ [Next]_vars => [Promise!Next]_(Promise!absVars)
<1> SUFFICES ASSUME IInv, IInv', [Next]_vars PROVE Promise!Next \/ UNCHANGED Promise!absVars
  OBVIOUS
<1> USE LoaderCacheAssumption
<1>0. /\ clock \in Time /\ Horizon \in Nat /\ pc \in [Caller -> Places]
      /\ key \in [Caller -> Key] /\ since \in [Caller -> Time]
      /\ value \in [Caller -> Time \union {NoAnswer}] /\ NoAnswer \notin Time
  BY DEF IInv, TypeOK, Time, NoAnswer, Places
<1>1. ASSUME NEW c \in Caller, NEW k \in Key, cached(c, k)
      PROVE  Promise!Ask(c, k)
  <2>1. pc[c] = "idle" /\ value[c] = NoAnswer
    BY <1>1 DEF cached, IInv, ValuesRight
  <2>2. /\ pc' = [pc EXCEPT ![c] = "look"] /\ key' = [key EXCEPT ![c] = k]
        /\ since' = [since EXCEPT ![c] = clock] /\ UNCHANGED <<value, clock, loaded>>
    BY <1>1 DEF cached, Go
  <2>3. call'[c] = [stage |-> "asked", key |-> k, since |-> clock, value |-> NoAnswer]
    <3>1. Stage(c)' = "asked"
      BY <1>0, <2>2 DEF Stage, Asking, Leading
    <3> QED BY <1>0, <2>1, <2>2, <3>1 DEF call
  <2>4. \A x \in Caller \ {c} : call'[x] = call[x]
    BY <1>0, <2>2 DEF call, Stage, Asking, Leading
  <2>5. call' = [call EXCEPT ![c] = [stage |-> "asked", key |-> k, since |-> clock, value |-> NoAnswer]]
    BY <2>3, <2>4 DEF call
  <2>6. call[c].stage = "idle"
    BY <2>1, SeenOf, Stages
  <2> QED BY <2>2, <2>5, <2>6 DEF Promise!Ask, Promise!NoAnswer, NoAnswer
(* A call that gets an answer out of the cache.                            *)
<1>a. ASSUME NEW c \in Caller, NEW e, e = responseCache[key[c]], pc[c] \in {"look", "recheck"},
             e.expiresAt > (IF pc[c] = "look" THEN since[c] ELSE clock),
             Answer(c, e.value), Go(c, "return"), UNCHANGED <<clock, key, since, loaded>>
      PROVE  Promise!Share(c)
  <2>1. key[c] \in Key /\ (pc[c] = "look" => c \in Asking)
    BY <1>0 DEF Asking
  <2>2. [value |-> e.value, until |-> e.expiresAt] \in loaded[key[c]] /\ e.value \in Time
    BY <1>a, <2>1, StillLoaded
  <2>3. value'[c] = e.value /\ pc'[c] = "return"
    BY <1>0, <1>a DEF Answer, Go
  <2>4. Stage(c)' = "answered"
    BY <1>0, <2>2, <2>3, Stages DEF Stage, Asking, Leading, NoAnswer
  <2>5. Promise!Move(c, "answered", e.value)
    BY <1>a, <2>3, <2>4, CallMoves DEF Answer, Go
  <2>6. call[c].stage = (IF pc[c] = "look" THEN "asked" ELSE "woken") /\ call[c].key = key[c]
        /\ call[c].since = since[c]
    BY <1>a, SeenOf, Stages
  <2>7. PICK a \in loaded[key[c]] : a.value = e.value /\ a.until = e.expiresAt
    BY <2>2
  <2> QED BY <1>a, <2>5, <2>6, <2>7 DEF Promise!Share
<1>2. ASSUME NEW c \in Caller, look(c)
      PROVE  Promise!Share(c) \/ UNCHANGED Promise!absVars
  <2>1. pc[c] = "look" /\ UNCHANGED <<clock, key, since, loaded>>
    BY <1>2 DEF look
  <2>2. CASE responseCache[key[c]].expiresAt > since[c]
             /\ Answer(c, responseCache[key[c]].value) /\ Go(c, "return")
    BY <1>a, <2>1, <2>2
  <2>3. CASE (Go(c, "drop") \/ Go(c, "join")) /\ UNCHANGED value
    <3>1. Stage(c)' = Stage(c)
      BY <1>0, <2>1, <2>3 DEF Stage, Asking, Leading, Go
    <3>2. UNCHANGED call
      BY <2>1, <2>3, <3>1, CallStays DEF Go
    <3> QED BY <2>1, <3>2 DEF Promise!absVars
  <2> QED BY <1>2, <2>2, <2>3 DEF look
(* A step the callers do not see.                                          *)
<1>b. ASSUME NEW c \in Caller, NEW place, Go(c, place), pc[c] # "store", place # "store",
             UNCHANGED <<clock, key, since, value, loaded>>,
             \/ {pc[c], place} \subseteq {"look", "drop", "join"}
             \/ {pc[c], place} \subseteq Leading
      PROVE  UNCHANGED Promise!absVars
  <2>1. Stage(c)' = Stage(c)
    BY <1>0, <1>b DEF Stage, Asking, Leading, Go
  <2>2. UNCHANGED call
    BY <1>b, <2>1, CallStays DEF Go
  <2> QED BY <1>b, <2>2 DEF Promise!absVars
<1>3. ASSUME NEW c \in Caller, drop(c) \/ scan(c) \/ trim(c)
      PROVE  UNCHANGED Promise!absVars
  BY <1>3, <1>b DEF drop, scan, trim, Leading
<1>4. ASSUME NEW c \in Caller, join(c)
      PROVE  Promise!StartLoad(c) \/ Promise!Wait(c)
  <2>1. pc[c] = "join" /\ UNCHANGED <<clock, key, since, value, loaded>> /\ value[c] = NoAnswer
    BY <1>4 DEF join, IInv, ValuesRight
  <2>2. call[c].stage = "asked" /\ call[c].key = key[c]
    BY <2>1, SeenOf, Stages
  <2>3. Promise!Loads(key[c]) = {x \in Caller : pc[x] \in Leading /\ key[x] = key[c]}
    BY <1>0 DEF Promise!Loads, call, Stage, Asking, Leading
  <2>4. inFlight[key[c]] \in Caller \union {None} /\ None \notin Caller
    BY <1>0 DEF IInv, TypeOK, None
  <2>5. CASE inFlight[key[c]] = None /\ Go(c, "load")
    <3>1. Promise!Loads(key[c]) = {}
      BY <1>0, <2>3, <2>4, <2>5 DEF IInv, Registered
    <3>2. Stage(c)' = "loading"
      BY <1>0, <2>5 DEF Stage, Asking, Leading, Go
    <3>3. Promise!Move(c, "loading", NoAnswer)
      BY <2>1, <2>5, <3>2, CallMoves DEF Go
    <3> QED BY <2>1, <2>2, <3>1, <3>3 DEF Promise!StartLoad, Promise!NoAnswer, NoAnswer
  <2>6. CASE inFlight[key[c]] # None /\ Go(c, "wait")
    <3>1. Promise!Loads(key[c]) # {}
      BY <1>0, <2>3, <2>4, <2>6 DEF IInv, Registered
    <3>2. Stage(c)' = "waiting"
      BY <1>0, <2>6 DEF Stage, Asking, Leading, Go
    <3>3. Promise!Move(c, "waiting", NoAnswer)
      BY <2>1, <2>6, <3>2, CallMoves DEF Go
    <3> QED BY <2>1, <2>2, <3>1, <3>3 DEF Promise!Wait, Promise!NoAnswer, NoAnswer
  <2> QED BY <1>4, <2>5, <2>6 DEF join
<1>5. ASSUME NEW c \in Caller, load(c)
      PROVE  UNCHANGED Promise!absVars
  <2>1. pc[c] = "load" /\ UNCHANGED <<clock, key, since, loaded>> /\ value[c] = NoAnswer
    BY <1>5 DEF load, IInv, ValuesRight
  <2>2. PICK place \in {"store", "leave"} :
           Go(c, place) /\ (IF place = "store" THEN Answer(c, clock) ELSE UNCHANGED value)
    BY <1>5 DEF load
  <2>3. Stage(c)' = Stage(c)
    BY <1>0, <2>1, <2>2 DEF Stage, Asking, Leading, Go
  <2>4. UNCHANGED call
    BY <2>1, <2>2, <2>3, CallStays DEF Go, Answer
  <2> QED BY <2>1, <2>4 DEF Promise!absVars
<1>6. ASSUME NEW c \in Caller, store(c)
      PROVE  \E v \in Promise!Time : Promise!Learn(c, v)
  <2>1. /\ pc[c] = "store" /\ Go(c, "scan") /\ Keeps(key[c], value[c], TTL)
        /\ UNCHANGED <<clock, key, since, value>>
        /\ since[c] <= value[c] /\ value[c] <= clock
    BY <1>6 DEF store, IInv, ValuesRight
  <2>2. Stage(c)' = "loading"
    BY <1>0, <2>1 DEF Stage, Asking, Leading, Go
  <2>3. Promise!Move(c, "loading", value[c])
    BY <2>1, <2>2, CallMoves DEF Go
  <2>4. call[c].stage = "loading" /\ call[c].key = key[c] /\ call[c].since = since[c]
    BY <2>1, SeenOf, Stages DEF Leading
  <2>5. Promise!Learn(c, value[c])
    BY <2>1, <2>3, <2>4 DEF Promise!Learn, Keeps
  <2>6. value[c] \in Promise!Time
    BY <1>0, <2>1 DEF Promise!Time, Time, NoAnswer
  <2> QED BY <2>5, <2>6
<1>7. ASSUME NEW c \in Caller, leave(c)
      PROVE  Promise!EndLoad(c)
  <2>1. pc[c] = "leave" /\ Go(c, "close") /\ UNCHANGED <<clock, key, since, value, loaded>>
    BY <1>7 DEF leave
  <2>2. Stage(c)' = IF value[c] = NoAnswer THEN "failed" ELSE "answered"
    BY <1>0, <2>1 DEF Stage, Asking, Leading, Go, NoAnswer
  <2>3. Promise!Move(c, IF value[c] = NoAnswer THEN "failed" ELSE "answered", value[c])
    BY <2>1, <2>2, CallMoves DEF Go
  <2>4. call[c].stage = "loading" /\ call[c].value = value[c]
    BY <2>1, SeenOf, Stages DEF Leading
  <2> QED BY <2>1, <2>3, <2>4 DEF Promise!EndLoad, Promise!NoAnswer, NoAnswer
<1>8. ASSUME NEW c \in Caller, close(c)
      PROVE  \E S \in SUBSET Caller : Promise!Wake(S)
  <2>1. /\ pc[c] = "close" /\ UNCHANGED <<clock, key, since, value, loaded>>
        /\ pc' = [x \in Caller |-> IF x = c THEN "return" ELSE IF x \in Waiting(c) THEN "recheck" ELSE pc[x]]
    BY <1>8 DEF close
  <2>2. Waiting(c) \subseteq Caller /\ \A x \in Waiting(c) : pc[x] = "wait" /\ x # c
    BY <2>1 DEF Waiting
  <2>3. \A x \in Waiting(c) : Stage(x) = "waiting" /\ Stage(x)' = "woken"
    BY <2>1, <2>2 DEF Stage, Asking, Leading
  <2>4. \A x \in Caller \ Waiting(c) : Stage(x)' = Stage(x)
    BY <2>1 DEF Stage, Asking, Leading, NoAnswer
  <2>5. ASSUME NEW x \in Waiting(c)
        PROVE  call[x].stage = "waiting" /\ call'[x] = [call[x] EXCEPT !.stage = "woken"]
    <3>1. x \in Caller /\ pc[x] # "store" /\ pc'[x] # "store"
      BY <2>1, <2>2
    <3>2. PICK q : q = call[x]
      OBVIOUS
    <3>3. q = [stage |-> "waiting", key |-> key[x], since |-> since[x], value |-> value[x]]
      BY <2>3, <3>1, <3>2, SeenOf
    <3>4. call'[x] = [stage |-> "woken", key |-> key[x], since |-> since[x], value |-> value[x]]
      BY <2>1, <2>3, <3>1 DEF call
    <3>5. [q EXCEPT !.stage = "woken"] = [stage |-> "woken", key |-> key[x], since |-> since[x], value |-> value[x]]
      BY <3>3
    <3> QED BY <3>2, <3>3, <3>4, <3>5
  <2>6. \A x \in Caller \ Waiting(c) : call'[x] = call[x]
    BY <2>1, <2>4 DEF call
  <2>7. call' = [x \in Caller |-> IF x \in Waiting(c) THEN [call[x] EXCEPT !.stage = "woken"] ELSE call[x]]
    BY <2>2, <2>5, <2>6 DEF call
  <2>8. Promise!Wake(Waiting(c))
    BY <2>1, <2>5, <2>7 DEF Promise!Wake
  <2> QED BY <2>2, <2>8
<1>9. ASSUME NEW c \in Caller, recheck(c)
      PROVE  Promise!Share(c) \/ Promise!GiveUp(c)
  <2>1. pc[c] = "recheck" /\ Go(c, "return") /\ UNCHANGED <<clock, key, since, loaded>>
        /\ value[c] = NoAnswer
    BY <1>9 DEF recheck, IInv, ValuesRight
  <2>2. CASE responseCache[key[c]].expiresAt > clock /\ Answer(c, responseCache[key[c]].value)
    BY <1>a, <2>1, <2>2
  <2>3. CASE UNCHANGED value
    <3>1. Stage(c)' = "failed"
      BY <1>0, <2>1, <2>3 DEF Stage, Asking, Leading, Go, NoAnswer
    <3>2. Promise!Move(c, "failed", NoAnswer)
      BY <2>1, <2>3, <3>1, CallMoves DEF Go
    <3>3. call[c].stage = "woken"
      BY <2>1, SeenOf, Stages
    <3> QED BY <2>1, <3>2, <3>3 DEF Promise!GiveUp, Promise!NoAnswer, NoAnswer
  <2> QED BY <1>9, <2>2, <2>3 DEF recheck
<1>10. ASSUME NEW c \in Caller, refetch(c)
       PROVE  \E v \in Promise!Time : Promise!Refetch(c, v)
  <2>1. /\ pc[c] = "return" /\ value[c] # NoAnswer /\ Answer(c, clock) /\ Go(c, "keep")
        /\ UNCHANGED <<clock, key, since, loaded>> /\ since[c] <= clock
    BY <1>10 DEF refetch, IInv, ValuesRight
  <2>2. Stage(c)' = "answered"
    BY <1>0, <2>1 DEF Stage, Asking, Leading, Go, Answer, NoAnswer
  <2>3. Promise!Move(c, "answered", clock)
    BY <1>0, <2>1, <2>2, CallMoves DEF Go, Answer
  <2>4. call[c].stage = "answered" /\ call[c].since = since[c]
    BY <2>1, SeenOf, Stages
  <2>5. Promise!Refetch(c, clock)
    BY <1>0, <2>1, <2>3, <2>4 DEF Promise!Refetch, Time
  <2>6. clock \in Promise!Time
    BY <1>0 DEF Promise!Time, Time
  <2> QED BY <2>5, <2>6
<1>11. ASSUME NEW c \in Caller, keep(c)
       PROVE  Promise!Keep(c)
  <2>1. /\ pc[c] = "keep" /\ Go(c, "return2") /\ Keeps(key[c], value[c], FreshTTL)
        /\ UNCHANGED <<clock, key, since, value>> /\ value[c] # NoAnswer
    BY <1>0, <1>11 DEF keep, IInv, ValuesRight, NoAnswer, Time
  <2>2. call[c].stage = "answered" /\ call[c].key = key[c] /\ call[c].value = value[c]
    BY <2>1, SeenOf, Stages
  <2>3. Stage(c)' = Stage(c)
    BY <1>0, <2>1 DEF Stage, Asking, Leading, Go, NoAnswer
  <2>4. UNCHANGED call
    BY <2>1, <2>3, CallStays DEF Go
  <2> QED BY <2>1, <2>2, <2>4 DEF Promise!Keep, Keeps
<1>12. ASSUME NEW c \in Caller, return(c)
       PROVE  Promise!Return(c)
  <2>1. /\ pc[c] \in {"return", "return2"} /\ Go(c, "idle") /\ Answer(c, NoAnswer)
        /\ since' = [since EXCEPT ![c] = 0] /\ key' = [key EXCEPT ![c] = AnyKey]
        /\ UNCHANGED <<clock, loaded>>
    BY <1>12 DEF return
  <2>2. call[c].stage \in {"answered", "failed"}
    BY <2>1, SeenOf, Stages
  <2>3. call'[c] = [stage |-> "idle", key |-> AnyKey, since |-> 0, value |-> NoAnswer]
    <3>1. Stage(c)' = "idle"
      BY <1>0, <2>1 DEF Stage, Asking, Leading, Go
    <3> QED BY <1>0, <2>1, <3>1 DEF call, Go, Answer
  <2>4. \A x \in Caller \ {c} : call'[x] = call[x]
    BY <1>0, <2>1 DEF call, Stage, Asking, Leading, Go, Answer
  <2>5. call' = [call EXCEPT ![c] = [stage |-> "idle", key |-> AnyKey, since |-> 0, value |-> NoAnswer]]
    BY <2>3, <2>4 DEF call
  <2> QED BY <2>1, <2>2, <2>5 DEF Promise!Return, Promise!Idle, Promise!NoAnswer, NoAnswer, AnyKey
<1>13. ASSUME tick
       PROVE  Promise!Tick
  <2>1. UNCHANGED call
    BY <1>13 DEF tick, locals, call, Stage, Asking, Leading
  <2>2. \A c \in Caller : call[c].stage = "asked" <=> c \in Asking
    BY <1>0, SeenOf DEF Stage, Asking, Leading
  <2>3. loaded' = [k \in Key |->
             {a \in loaded[k] : a.until > clock' \/ \E c \in Caller : call[c].stage = "asked" /\ a.until > call[c].since}]
    <3>1. \A a : (\E c \in Asking : a.until > since[c])
                   <=> \E c \in Caller : call[c].stage = "asked" /\ a.until > call[c].since
      BY <2>2, SeenOf DEF Asking
    <3> QED BY <1>13, <3>1 DEF tick
  <2> QED BY <1>13, <2>1, <2>3 DEF tick, Promise!Tick, Promise!Counts
<1>14. ASSUME UNCHANGED vars
       PROVE  UNCHANGED Promise!absVars
  BY <1>14 DEF vars, locals, call, Stage, Asking, Leading, Promise!absVars
<1>15. ASSUME NEW c \in Caller, step(c) \/ refetch(c)
       PROVE  Promise!Next \/ UNCHANGED Promise!absVars
  BY <1>2, <1>3, <1>4, <1>5, <1>6, <1>7, <1>8, <1>9, <1>10, <1>11, <1>12, <1>15 DEF step, Promise!Next
<1>16. ASSUME NEW c \in Caller, NEW k \in Key, cached(c, k)
       PROVE  Promise!Next
  BY <1>1, <1>16 DEF Promise!Next
<1> QED BY <1>13, <1>14, <1>15, <1>16 DEF Next, Promise!Next

(* A caller of cached() gets an answer that still counted when it asked or *)
(* was read since, and a failure only for its own load or one it waited    *)
(* for: cached() keeps the promise of SharedLoads.                         *)
THEOREM CachedKeepsItsPromise == Spec => KeepsPromise
<1>1. Init => Promise!Init
  <2> SUFFICES ASSUME Init PROVE Promise!Init
    OBVIOUS
  <2>1. \A c \in Caller : Stage(c) = "idle"
    BY Stages DEF Init
  <2>2. call = [c \in Caller |-> [stage |-> "idle", key |-> AnyKey, since |-> 0, value |-> NoAnswer]]
    BY <2>1 DEF call, Init
  <2> QED BY <2>2 DEF Init, Promise!Init, Promise!Idle, Promise!NoAnswer, NoAnswer, AnyKey
<1> QED BY <1>1, Invariant, PromiseStep, PTL DEF Spec, KeepsPromise, Promise!Spec
=============================================================================
