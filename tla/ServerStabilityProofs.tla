----------------------- MODULE ServerStabilityProofs -----------------------
(***************************************************************************)
(* Proofs about ServerStability for every set of titles, providers and     *)
(* callers and for every choice of the lifetimes and capacities.           *)
(***************************************************************************)
EXTENDS ServerStability, FiniteSetTheorems, TLAPS

LEMMA NoReqType == NoReq \in [key : Key, refresh : BOOLEAN, deadline : Int]
BY SetsAssumption DEF NoReq, Never

(* The entries that stand for "not there" have their types at any time.    *)
LEMMA AbsentTypes ==
    ASSUME now \in Nat
    PROVE  /\ Never \in Past /\ NoServers \in Servers
           /\ NoEntry \in Entry /\ NoList \in List
<1>1. Never \in Past
  BY DEF Never, Past
<1>2. NoServers \in Servers
  BY <1>1 DEF NoServers, Servers
<1> QED BY <1>1, <1>2 DEF NoEntry, Entry, NoList, List, Never

(* What the merges return, and what becomes of a collector's result.       *)
LEMMA MergeType ==
    ASSUME NEW fresh \in Servers, NEW previous \in Servers, NEW at
    PROVE  /\ mergeProviderServers(fresh, previous) \in Servers
           /\ mergeListSnapshot(fresh, previous, at) \in Servers
BY DEF mergeProviderServers, mergeListSnapshot, Servers

LEMMA StabilizedType ==
    ASSUME TypeOK, NEW k \in Key, NEW p \in Provider, NEW fresh \in Servers
    PROVE  Stabilized(k, p, fresh) \in Servers
<1>1. providers[k][p].servers \in Servers
  BY DEF TypeOK, Snapshot, Entry
<1> QED BY <1>1, MergeType DEF Stabilized

LEMMA PutProviderType ==
    ASSUME TypeOK, NEW k \in Key, NEW p \in Provider, NEW entry \in Entry, NEW gone
    PROVE  PutProvider(k, p, entry, gone) \in Snapshot
BY AbsentTypes DEF TypeOK, PutProvider, Snapshot

(* stabilizeProvider preserves the types of what it assigns.               *)
LEMMA StabilizeType ==
    ASSUME TypeOK, NEW r \in Request, NEW p \in Provider, NEW fresh \in Servers,
           stabilizeProvider(r, p, fresh)
    PROVE  /\ providers' \in Snapshot
           /\ pool' \in [Request -> Servers]
           /\ coll' \in [Request -> [Provider -> Stage]]
           /\ owed' \in [Request -> SUBSET Slot]
<1> DEFINE k == req[r].key
           stable == Stabilized(k, p, fresh)
<1>0. k \in Key /\ now \in Past
  BY DEF TypeOK, Past, Never
<1>3. stable \in Servers
  BY <1>0, StabilizedType
<1>4. pool' \in [Request -> Servers]
  BY <1>3 DEF TypeOK, stabilizeProvider, Servers
<1>5. coll' \in [Request -> [Provider -> Stage]]
  BY DEF TypeOK, stabilizeProvider, Stage
<1>6. owed' \in [Request -> SUBSET Slot]
  BY DEF TypeOK, stabilizeProvider
<1>7. [servers |-> stable, storedAt |-> now] \in Entry
  BY <1>0, <1>3 DEF Entry
<1>8. providers' \in Snapshot
  <2>1. NoEntry \in Entry /\ providers \in Snapshot
    BY AbsentTypes DEF TypeOK
  <2>2. \A gone : PutProvider(k, p, [servers |-> stable, storedAt |-> now], gone) \in Snapshot
    BY <1>0, <1>7, PutProviderType
  <2>3. PutProvider(k, p, NoEntry, {}) \in Snapshot
    BY <1>0, <2>1, PutProviderType
  <2> QED BY <2>1, <2>2, <2>3 DEF stabilizeProvider
<1> QED BY <1>4, <1>5, <1>6, <1>8

(* What was in the past stays in the past.                                 *)
LEMMA TypeOKLater ==
    ASSUME now \in Nat, now' \in Nat, now <= now', bootedAt' \in 0 .. now',
           lists' \in [Key -> List],
           providers' \in Snapshot, disk' \in Snapshot,
           flights' \in [FlightKey -> Request \cup {NoRequest}],
           pc' \in [Request -> PC],
           req' \in [Request -> [key : Key, refresh : BOOLEAN, deadline : Int]],
           coll' \in [Request -> [Provider -> Stage]],
           pool' \in [Request -> Servers],
           owed' \in [Request -> SUBSET Slot]
    PROVE  TypeOK'
<1>1. Past \subseteq Past'
  BY DEF Past, Never
<1>2. Servers \subseteq Servers'
  BY <1>1 DEF Servers
<1>3. Entry \subseteq Entry' /\ List \subseteq List'
  BY <1>1, <1>2 DEF Entry, List
<1>4. Snapshot \subseteq Snapshot'
  BY <1>3 DEF Snapshot
<1>5. lists' \in [Key -> List'] /\ pool' \in [Request -> Servers']
  BY <1>2, <1>3
<1> QED BY <1>4, <1>5 DEF TypeOK, FlightKey, PC, Stage

LEMMA TypeInit == Init => TypeOK
<1> SUFFICES ASSUME Init PROVE TypeOK
  OBVIOUS
<1>1. now \in Nat /\ bootedAt \in 0 .. now
  BY DEF Init
<1>2. lists \in [Key -> List] /\ providers \in Snapshot /\ disk \in Snapshot
  BY <1>1, AbsentTypes DEF Init, Snapshot
<1>3. pool \in [Request -> Servers] /\ req \in [Request -> [key : Key, refresh : BOOLEAN, deadline : Int]]
  BY <1>1, AbsentTypes, NoReqType DEF Init
<1> QED BY <1>1, <1>2, <1>3 DEF Init, TypeOK, PC, Stage, NoStages

LEMMA TypeStep == TypeOK /\ [Next]_vars => TypeOK'
<1> SUFFICES ASSUME TypeOK, [Next]_vars PROVE TypeOK'
  OBVIOUS
<1> USE AbsentTypes
<1>0. now \in Nat /\ now \in Past
  BY DEF TypeOK, Past, Never
<1>1. ASSUME NEW r \in Request, NEW k \in Key, NEW refresh \in BOOLEAN, loadList(r, k, refresh)
      PROVE  TypeOK'
  <2>1. req' \in [Request -> [key : Key, refresh : BOOLEAN, deadline : Int]]
    BY <1>1, TimesAssumption DEF loadList, TypeOK
  <2>2. lists' \in [Key -> List]
    BY <1>1 DEF loadList, TypeOK
  <2>3. pc' \in [Request -> PC]
    BY <1>1 DEF loadList, TypeOK, PC
  <2> QED BY <1>1, <2>1, <2>2, <2>3, TypeOKLater DEF loadList, TypeOK
<1>2. ASSUME NEW r \in Request, beginFlight(r)
      PROVE  TypeOK'
  <2> DEFINE started == [p \in Provider |->
                IF p \in EnabledFor(req[r].key) THEN "running" ELSE "off"]
             held == HeldUntil(req[r].key, req[r].deadline)
  <2>0. started \in [Provider -> Stage] /\ held \in SUBSET Slot
    BY DEF Stage, HeldUntil
  <2>1. pc' \in [Request -> PC] /\ coll' \in [Request -> [Provider -> Stage]]
    <3>1. pc' = [pc EXCEPT ![r] = "wait"] \/ pc' = [pc EXCEPT ![r] = "lead"]
      BY <1>2 DEF beginFlight
    <3>2. coll' = coll \/ coll' = [coll EXCEPT ![r] = started]
      BY <1>2 DEF beginFlight
    <3> QED BY <2>0, <3>1, <3>2 DEF TypeOK, PC
  <2>2. owed' \in [Request -> SUBSET Slot]
    <3>1. owed' = owed \/ owed' = [owed EXCEPT ![r] = held]
      BY <1>2 DEF beginFlight
    <3> QED BY <2>0, <3>1 DEF TypeOK
  <2>3. flights' \in [FlightKey -> Request \cup {NoRequest}]
    BY <1>2 DEF beginFlight, TypeOK
  <2> QED BY <1>2, <2>1, <2>2, <2>3, TypeOKLater DEF beginFlight, TypeOK
<1>3. ASSUME NEW r \in Request, NEW p \in Provider, collect(r, p)
      PROVE  TypeOK'
  <2>1. PICK names \in SUBSET Of(p) : stabilizeProvider(r, p, FreshOf(p, names))
    BY <1>3 DEF collect
  <2>2. FreshOf(p, names) \in Servers
    BY <1>0 DEF FreshOf, Servers
  <2> QED BY <1>3, <2>1, <2>2, StabilizeType, TypeOKLater DEF collect, TypeOK
<1>4. ASSUME NEW r \in Request, NEW p \in Provider, collectLate(r, p)
      PROVE  TypeOK'
  <2>1. pool' \in [Request -> Servers]
    BY <1>0, <1>4 DEF collectLate, TypeOK, Servers, FreshOf
  <2>2. coll' \in [Request -> [Provider -> Stage]]
    BY <1>4 DEF collectLate, TypeOK, Stage
  <2> QED BY <1>4, <2>1, <2>2, TypeOKLater DEF collectLate, TypeOK, cacheVars
<1>5. ASSUME NEW r \in Request, NEW p \in Provider, verifyMegaVidLang(r, p)
      PROVE  TypeOK'
  <2>1. PICK kept \in SUBSET Slot :
           stabilizeProvider(r, p, [s \in Slot |-> IF s \in kept THEN pool[r][s] ELSE Never])
    <3>1. \A kept \in SUBSET {s \in Of(p) : pool[r][s] # Never} : kept \in SUBSET Slot
      BY DEF Of
    <3> QED BY <1>5, <3>1 DEF verifyMegaVidLang
  <2>2. [s \in Slot |-> IF s \in kept THEN pool[r][s] ELSE Never] \in Servers
    BY <1>0 DEF TypeOK, Servers
  <2> QED BY <1>5, <2>1, <2>2, StabilizeType, TypeOKLater DEF verifyMegaVidLang, TypeOK
<1>6. ASSUME NEW r \in Request, storeList(r)
      PROVE  TypeOK'
  <2> DEFINE k == req[r].key
             merged == IF Here(lists[k])
                       THEN mergeListSnapshot(pool[r], lists[k].servers, lists[k].storedAt)
                       ELSE pool[r]
  <2>1. k \in Key /\ merged \in Servers
    BY MergeType DEF TypeOK, List
  <2>2. \A ttl \in Nat : ListEntry(merged, ttl) \in List
    BY <1>0, <2>1 DEF ListEntry, List
  <2>3. lists' \in [Key -> List]
    BY <1>6, <2>2, TimesAssumption DEF storeList, TypeOK
  <2>4. pool' \in [Request -> Servers]
    BY <1>6, <2>1 DEF storeList, TypeOK
  <2>5. pc' \in [Request -> PC] /\ coll' \in [Request -> [Provider -> Stage]]
    BY <1>6 DEF storeList, TypeOK, PC, Stage, NoStages
  <2> QED BY <1>6, <2>3, <2>4, <2>5, TypeOKLater DEF storeList, TypeOK
<1>7. ASSUME NEW done \in SUBSET Request, returned(done)
      PROVE  /\ pc' \in [Request -> PC] /\ pool' \in [Request -> Servers]
             /\ req' \in [Request -> [key : Key, refresh : BOOLEAN, deadline : Int]]
             /\ owed' \in [Request -> SUBSET Slot]
  BY <1>0, <1>7, NoReqType DEF returned, TypeOK, PC
<1>8. ASSUME NEW r \in Request, finishFlight(r)
      PROVE  TypeOK'
  <2>1. {r} \cup waitersOf(r) \in SUBSET Request
    BY DEF waitersOf
  <2>2. flights' \in [FlightKey -> Request \cup {NoRequest}]
    BY <1>8 DEF finishFlight, TypeOK
  <2> QED BY <1>7, <1>8, <2>1, <2>2, TypeOKLater DEF finishFlight, TypeOK
<1>9. ASSUME NEW r \in Request, giveUp(r)
      PROVE  TypeOK'
  BY <1>7, <1>9, TypeOKLater DEF giveUp, TypeOK, cacheVars
<1>10. CASE saveProvidersSnapshot
  <2>1. disk' \in Snapshot
    BY <1>0, <1>10 DEF saveProvidersSnapshot, savedEntries, TypeOK, Snapshot
  <2> QED BY <1>10, <2>1, TypeOKLater DEF saveProvidersSnapshot, TypeOK, cacheVars, callVars
<1>11. CASE restart
  <2>1. providers' \in Snapshot /\ disk' \in Snapshot
    BY <1>0, <1>11 DEF restart, restored, TypeOK, Snapshot
  <2>2. lists' \in [Key -> List] /\ pool' \in [Request -> Servers]
    BY <1>0, <1>11 DEF restart
  <2>3. /\ req' \in [Request -> [key : Key, refresh : BOOLEAN, deadline : Int]]
        /\ coll' \in [Request -> [Provider -> Stage]] /\ pc' \in [Request -> PC]
    BY <1>11, NoReqType DEF restart, NoStages, Stage, PC
  <2> QED BY <1>0, <1>11, <2>1, <2>2, <2>3, TypeOKLater DEF restart
<1>12. CASE tick
  BY <1>0, <1>12, TypeOKLater DEF tick, TypeOK, cacheVars, callVars
<1>13. CASE UNCHANGED vars
  BY <1>13, TypeOKLater DEF TypeOK, vars, cacheVars, callVars
<1>14. ASSUME NEW r \in Request, NEW k \in Key, listHit(r, k)
       PROVE  TypeOK'
  BY <1>13, <1>14 DEF listHit
<1> QED BY <1>1, <1>2, <1>3, <1>4, <1>5, <1>6, <1>8, <1>9, <1>10, <1>11, <1>12, <1>13, <1>14
        DEF Next, CallStep

(* Everything has its type, and nothing is dated in the future.            *)
THEOREM TypeCorrect == Spec => []TypeOK
<1> QED BY TypeInit, TypeStep, PTL DEF Spec

-----------------------------------------------------------------------------
LEMMA FlightsInit == Init => FlightsSound
BY DEF Init, FlightsSound

(* Only loadList, beginFlight and the steps that end a call touch what     *)
(* FlightsSound is about: pc, req and flights.                             *)
LEMMA FlightsStep == TypeOK /\ FlightsSound /\ [Next]_vars => FlightsSound'
<1> SUFFICES ASSUME TypeOK, FlightsSound, [Next]_vars PROVE FlightsSound'
  OBVIOUS
<1> USE SetsAssumption
<1>0. /\ pc \in [Request -> PC]
      /\ flights \in [FlightKey -> Request \cup {NoRequest}]
      /\ req \in [Request -> [key : Key, refresh : BOOLEAN, deadline : Int]]
      /\ \A q \in Request : FlightOf(q) \in FlightKey
  BY DEF TypeOK, FlightOf, FlightKey
<1>1. ASSUME NEW r \in Request, NEW k \in Key, NEW refresh \in BOOLEAN, loadList(r, k, refresh)
      PROVE  FlightsSound'
  <2>1. flights' = flights /\ pc' = [pc EXCEPT ![r] = "miss"] /\ pc[r] = "idle"
    BY <1>1 DEF loadList
  <2>2. \A q \in Request : q # r => FlightOf(q)' = FlightOf(q)
    BY <1>0, <1>1 DEF loadList, FlightOf
  <2> QED BY <1>0, <2>1, <2>2 DEF FlightsSound
<1>2. ASSUME NEW r \in Request, beginFlight(r)
      PROVE  FlightsSound'
  <2>1. \A q \in Request : FlightOf(q)' = FlightOf(q)
    BY <1>2 DEF beginFlight, FlightOf
  <2>2. CASE flights' = flights /\ InFlight(FlightOf(r)) /\ pc' = [pc EXCEPT ![r] = "wait"]
    BY <1>0, <1>2, <2>1, <2>2 DEF beginFlight, FlightsSound, InFlight
  <2>3. CASE /\ ~InFlight(FlightOf(r)) /\ flights' = [flights EXCEPT ![FlightOf(r)] = r]
             /\ pc' = [pc EXCEPT ![r] = "lead"]
    BY <1>0, <1>2, <2>1, <2>3 DEF beginFlight, FlightsSound, InFlight
  <2> QED BY <1>2, <2>2, <2>3 DEF beginFlight
<1>3. ASSUME UNCHANGED <<pc, req, flights>>
      PROVE  FlightsSound'
  BY <1>3 DEF FlightsSound, FlightOf
<1>4. ASSUME NEW r \in Request, storeList(r)
      PROVE  FlightsSound'
  <2>1. \A q \in Request : FlightOf(q)' = FlightOf(q)
    BY <1>4 DEF storeList, FlightOf
  <2> QED BY <1>0, <1>4, <2>1 DEF storeList, FlightsSound
<1>5. ASSUME NEW done \in SUBSET Request, returned(done)
      PROVE  \A q \in Request : /\ q \in done => pc'[q] = "idle"
                                /\ q \notin done => pc'[q] = pc[q] /\ FlightOf(q)' = FlightOf(q)
  BY <1>5 DEF returned, FlightOf
<1>6. ASSUME NEW r \in Request, finishFlight(r)
      PROVE  FlightsSound'
  <2> DEFINE done == {r} \cup waitersOf(r)
  <2>1. done \in SUBSET Request /\ returned(done)
    BY <1>6 DEF finishFlight, waitersOf
  <2>2. flights' = [flights EXCEPT ![FlightOf(r)] = NoRequest] /\ flights[FlightOf(r)] = r
    BY <1>6 DEF finishFlight, FlightsSound
  <2>3. \A q \in Request : q \in done <=>
            q = r \/ (pc[q] = "wait" /\ FlightOf(q) = FlightOf(r))
    BY DEF waitersOf
  <2>4. pc[r] = "stored"
    BY <1>6 DEF finishFlight
  <2> QED BY <1>0, <1>5, <2>1, <2>2, <2>3, <2>4 DEF FlightsSound
<1>7. ASSUME NEW r \in Request, giveUp(r)
      PROVE  FlightsSound'
  <2>1. {r} \in SUBSET Request /\ returned({r}) /\ flights' = flights /\ pc[r] = "wait"
    BY <1>7 DEF giveUp, cacheVars
  <2> QED BY <1>0, <1>5, <2>1 DEF FlightsSound
<1>8. CASE restart
  BY <1>0, <1>8 DEF restart, FlightsSound, FlightOf
<1>9. ASSUME NEW r \in Request, NEW p \in Provider,
             collect(r, p) \/ collectLate(r, p) \/ verifyMegaVidLang(r, p)
      PROVE  UNCHANGED <<pc, req, flights>>
  BY <1>9 DEF collect, collectLate, verifyMegaVidLang, cacheVars
<1>10. CASE saveProvidersSnapshot \/ tick \/ UNCHANGED vars
  BY <1>3, <1>10 DEF saveProvidersSnapshot, tick, vars, cacheVars, callVars
<1>11. ASSUME NEW r \in Request, NEW k \in Key, listHit(r, k)
       PROVE  FlightsSound'
  BY <1>10, <1>11 DEF listHit
<1> QED BY <1>1, <1>2, <1>3, <1>4, <1>6, <1>7, <1>8, <1>9, <1>10, <1>11 DEF Next, CallStep

(* One leader per round, and no waiter without a round.                    *)
THEOREM SingleFlight == Spec => []FlightsSound
<1> QED BY TypeInit, TypeStep, FlightsInit, FlightsStep, PTL DEF Spec

-----------------------------------------------------------------------------
LEMMA TokensInit == Init => TokensDieWithProcess
BY SetsAssumption DEF Init, TokensDieWithProcess, NoEntry, NoList, NoServers

(* A result stamped by this process mixes only with entries that are.      *)
LEMMA TokensStabilize ==
    ASSUME TypeOK, TokensDieWithProcess, bootedAt' = bootedAt,
           NEW r \in Request, NEW p \in Provider, NEW fresh \in Servers,
           \A s \in Slot : s[1] \in TokenBased /\ fresh[s] # Never => fresh[s] >= bootedAt,
           stabilizeProvider(r, p, fresh),
           NEW s \in Slot, s[1] \in TokenBased
    PROVE  /\ \A k \in Key : providers'[k][s[1]].servers[s] # Never =>
                                providers'[k][s[1]].servers[s] >= bootedAt
           /\ \A q \in Request : pool'[q][s] # Never => pool'[q][s] >= bootedAt
<1> DEFINE key == req[r].key
           stable == Stabilized(key, p, fresh)
<1>0. key \in Key /\ s[1] \in Provider /\ pool \in [Request -> Servers]
  BY SetsAssumption DEF TypeOK
<1>1. \A k \in Key : providers[k][s[1]].servers[s] # Never =>
                        providers[k][s[1]].servers[s] >= bootedAt
  BY DEF TokensDieWithProcess
<1>2. s[1] = p /\ stable[s] # Never => stable[s] >= bootedAt
  BY <1>0, <1>1 DEF Stabilized, mergeProviderServers
<1>3. \A gone : \A k \in Key :
        LET e == PutProvider(key, p, [servers |-> stable, storedAt |-> now], gone)[k][s[1]]
        IN  e.servers[s] # Never => e.servers[s] >= bootedAt
  BY <1>0, <1>1, <1>2 DEF PutProvider, NoEntry, NoServers
<1>4. \A k \in Key :
        LET e == PutProvider(key, p, NoEntry, {})[k][s[1]]
        IN  e.servers[s] # Never => e.servers[s] >= bootedAt
  BY <1>0, <1>1 DEF PutProvider, NoEntry, NoServers
<1>5. \A k \in Key : providers'[k][s[1]].servers[s] # Never =>
                        providers'[k][s[1]].servers[s] >= bootedAt
  <2>1. \/ \E gone : providers' = PutProvider(key, p, [servers |-> stable, storedAt |-> now], gone)
        \/ providers' = PutProvider(key, p, NoEntry, {})
        \/ providers' = providers
    BY DEF stabilizeProvider
  <2> QED BY <1>1, <1>3, <1>4, <2>1
<1>6. \A q \in Request : pool'[q][s] # Never => pool'[q][s] >= bootedAt
  BY <1>0, <1>2 DEF stabilizeProvider, TokensDieWithProcess, Servers
<1> QED BY <1>5, <1>6

LEMMA TokensStep == TypeOK /\ TokensDieWithProcess /\ [Next]_vars => TokensDieWithProcess'
<1> SUFFICES ASSUME TypeOK, TokensDieWithProcess, [Next]_vars PROVE TokensDieWithProcess'
  OBVIOUS
<1>0. /\ now \in Nat /\ bootedAt \in 0 .. now /\ pool \in [Request -> Servers]
      /\ lists \in [Key -> List]
  BY DEF TypeOK
<1>1. ASSUME NEW r \in Request, NEW k \in Key, NEW refresh \in BOOLEAN, loadList(r, k, refresh)
      PROVE  TokensDieWithProcess'
  BY <1>0, <1>1 DEF loadList, TokensDieWithProcess, NoList, NoServers
<1>2. ASSUME UNCHANGED <<bootedAt, lists, providers, disk, pool>>
      PROVE  TokensDieWithProcess'
  BY <1>2 DEF TokensDieWithProcess
<1>3. ASSUME NEW r \in Request, NEW p \in Provider, NEW fresh \in Servers,
             \A s \in Slot : s[1] \in TokenBased /\ fresh[s] # Never => fresh[s] >= bootedAt,
             stabilizeProvider(r, p, fresh), UNCHANGED <<bootedAt, lists, disk>>
      PROVE  TokensDieWithProcess'
  BY <1>3, TokensStabilize DEF TokensDieWithProcess
<1>4. ASSUME NEW r \in Request, NEW p \in Provider, collect(r, p)
      PROVE  TokensDieWithProcess'
  <2>1. PICK names \in SUBSET Of(p) : stabilizeProvider(r, p, FreshOf(p, names))
    BY <1>4 DEF collect
  <2>2. FreshOf(p, names) \in Servers
    BY <1>0 DEF FreshOf, Servers, Past, Never
  <2>3. \A s \in Slot : FreshOf(p, names)[s] # Never => FreshOf(p, names)[s] >= bootedAt
    BY <1>0 DEF FreshOf
  <2> QED BY <1>3, <1>4, <2>1, <2>2, <2>3 DEF collect
<1>5. ASSUME NEW r \in Request, NEW p \in Provider, collectLate(r, p)
      PROVE  TokensDieWithProcess'
  BY <1>0, <1>5 DEF collectLate, cacheVars, FreshOf, TokensDieWithProcess, Servers
<1>6. ASSUME NEW r \in Request, NEW p \in Provider, verifyMegaVidLang(r, p)
      PROVE  TokensDieWithProcess'
  <2> DEFINE fresh(kept) == [s \in Slot |-> IF s \in kept THEN pool[r][s] ELSE Never]
  <2>1. PICK kept : stabilizeProvider(r, p, fresh(kept))
    BY <1>6 DEF verifyMegaVidLang
  <2>2. fresh(kept) \in Servers
    BY <1>0 DEF Servers, Past, Never
  <2>3. \A s \in Slot : s[1] \in TokenBased /\ fresh(kept)[s] # Never => fresh(kept)[s] >= bootedAt
    BY DEF TokensDieWithProcess
  <2> QED BY <1>3, <1>6, <2>1, <2>2, <2>3 DEF verifyMegaVidLang
<1>7. ASSUME NEW r \in Request, storeList(r)
      PROVE  TokensDieWithProcess'
  <2> DEFINE k == req[r].key
             merged == IF Here(lists[k])
                       THEN mergeListSnapshot(pool[r], lists[k].servers, lists[k].storedAt)
                       ELSE pool[r]
  <2>0. k \in Key /\ UNCHANGED <<bootedAt, providers, disk>>
    BY <1>7 DEF TypeOK, storeList
  <2>1. \A s \in Slot : s[1] \in TokenBased /\ merged[s] # Never => merged[s] >= bootedAt
    BY <2>0 DEF mergeListSnapshot, mergeProviderServers, TokensDieWithProcess
  <2>2. pool' = pool \/ pool' = [pool EXCEPT ![r] = merged]
    BY <1>7 DEF storeList
  <2>3. ASSUME NEW s \in Slot, s[1] \in TokenBased, NEW j \in Key
        PROVE  lists'[j].servers[s] # Never => lists'[j].servers[s] >= bootedAt
    <3>1. \A ttl : ListEntry(merged, ttl).servers = merged
      BY DEF ListEntry
    <3>2. lists[j].servers[s] # Never => lists[j].servers[s] >= bootedAt
      BY <2>3 DEF TokensDieWithProcess
    <3>3. NoList.servers[s] = Never
      BY DEF NoList, NoServers
    <3>4. \/ lists' = lists
          \/ \E gone \in ListEvictions : \E ttl : lists' = [i \in Key |->
                IF i = k THEN ListEntry(merged, ttl)
                ELSE IF i \in gone THEN NoList ELSE lists[i]]
      BY <1>7 DEF storeList
    <3> QED BY <2>1, <2>3, <3>1, <3>2, <3>3, <3>4
  <2> QED BY <1>0, <2>0, <2>1, <2>2, <2>3 DEF TokensDieWithProcess
<1>8. ASSUME NEW done, returned(done), UNCHANGED <<bootedAt, lists, providers, disk>>
      PROVE  TokensDieWithProcess'
  BY <1>8 DEF returned, TokensDieWithProcess, NoServers
<1>9. ASSUME NEW r \in Request, finishFlight(r) \/ giveUp(r)
      PROVE  TokensDieWithProcess'
  BY <1>8, <1>9 DEF finishFlight, giveUp, cacheVars
<1>10. CASE saveProvidersSnapshot
  <2>1. \A k \in Key, s \in Slot : s[1] \in TokenBased => disk'[k][s[1]] = NoEntry
    BY <1>10, SetsAssumption DEF saveProvidersSnapshot, savedEntries
  <2> QED BY <1>10, <2>1 DEF saveProvidersSnapshot, cacheVars, callVars, TokensDieWithProcess
<1>11. CASE restart
  <2>1. \A k \in Key, s \in Slot : s[1] \in TokenBased => providers'[k][s[1]] = NoEntry
    BY <1>11, SetsAssumption DEF restart, restored
  <2>2. /\ \A k \in Key : lists'[k] = NoList
        /\ \A r \in Request : pool'[r] = NoServers
        /\ disk' = disk
    BY <1>11 DEF restart
  <2> QED BY <2>1, <2>2 DEF TokensDieWithProcess, NoEntry, NoList, NoServers
<1>12. ASSUME NEW r \in Request, beginFlight(r)
       PROVE  TokensDieWithProcess'
  BY <1>2, <1>12 DEF beginFlight
<1>13. CASE tick \/ UNCHANGED vars
  BY <1>2, <1>13 DEF tick, vars, cacheVars, callVars
<1>14. ASSUME NEW r \in Request, NEW k \in Key, listHit(r, k)
       PROVE  TokensDieWithProcess'
  BY <1>13, <1>14 DEF listHit
<1> QED BY <1>1, <1>4, <1>5, <1>6, <1>7, <1>9, <1>10, <1>11, <1>12, <1>13, <1>14
        DEF Next, CallStep

(* Tokenized servers die with the process that minted them.                *)
THEOREM TokensNeverOutliveProcess == Spec => []TokensDieWithProcess
<1> QED BY TypeInit, TypeStep, TokensInit, TokensStep, PTL DEF Spec

-----------------------------------------------------------------------------
(* What a leading call may count on for each slot it is owed: the slot is  *)
(* in its pool already, or the cache still holds it for long enough.       *)
Kept(r, s) ==
    LET p == s[1]  entry == providers[req[r].key][s[1]]
    IN  \/ coll[r][p] = "stable" /\ pool[r][s] # Never
        \/ /\ coll[r][p] \in {"running", "fetched"}
           /\ Here(entry) /\ entry.servers[s] # Never
           /\ req[r].deadline - entry.storedAt <= ProviderTTL

OwedInv ==
    /\ \A r \in Request : pc[r] # "idle" => now <= req[r].deadline
    /\ \A r \in Request : pc[r] = "lead" => \A s \in owed[r] : Kept(r, s)
    /\ \A r \in Request : pc[r] = "stored" => \A s \in owed[r] : pool[r][s] # Never

LEMMA OwedInit == Init => OwedInv
BY DEF Init, OwedInv

(* One provider stabilized, by whatever round, breaks no leader's promise. *)
LEMMA OwedStabilize ==
    ASSUME TypeOK, OwedInv,
           NEW r \in Request, NEW p \in Provider, NEW fresh \in Servers,
           pc[r] = "lead", coll[r][p] \in {"running", "fetched"},
           stabilizeProvider(r, p, fresh),
           UNCHANGED <<now, pc, req>>
    PROVE  OwedInv'
<1> DEFINE key == req[r].key
           stable == Stabilized(key, p, fresh)
<1>0. /\ now \in Nat /\ key \in Key
      /\ pool \in [Request -> [Slot -> Past]] /\ coll \in [Request -> [Provider -> Stage]]
      /\ owed \in [Request -> SUBSET Slot]
      /\ \A q \in Request : req[q].key \in Key /\ req[q].deadline \in Int
      /\ \A k \in Key, q \in Provider : providers[k][q].storedAt \in Int
      /\ \A s \in Slot : s[1] \in Provider
  BY SetsAssumption DEF TypeOK, Snapshot, Entry, Servers, Past, Never
<1>1. /\ pool' = [pool EXCEPT ![r] = [s \in Slot |-> IF s[1] = p THEN stable[s] ELSE pool[r][s]]]
      /\ coll' = [coll EXCEPT ![r][p] = "stable"]
  BY DEF stabilizeProvider
<1>2. \A q \in Request : owed'[q] \subseteq owed[q]
  BY <1>0 DEF stabilizeProvider
<1>3. ProviderTTL \in Int /\ now \in Int
  BY <1>0, TimesAssumption
(* While p's entry is live, nothing it holds is missing from the result.   *)
<1>4. ASSUME NEW s \in Slot, s[1] = p, Here(providers[key][p]),
             providers[key][p].servers[s] # Never,
             now - providers[key][p].storedAt <= ProviderTTL
      PROVE  stable[s] # Never
  BY <1>4 DEF Stabilized, mergeProviderServers
(* What is left of the entry of slot s of title k, when s is still owed.   *)
<1>5. ASSUME NEW q \in Request, NEW s \in owed'[q],
             Here(providers[req[q].key][s[1]]),
             providers[req[q].key][s[1]].servers[s] # Never,
             req[q].deadline - providers[req[q].key][s[1]].storedAt <= ProviderTTL,
             now <= req[q].deadline
      PROVE  LET entry == providers'[req[q].key][s[1]]
             IN  /\ Here(entry) /\ entry.servers[s] # Never
                 /\ req[q].deadline - entry.storedAt <= ProviderTTL
  <2> DEFINE k == req[q].key
  <2>0. s \in Slot /\ s[1] \in Provider /\ k \in Key /\ req[q].deadline \in Int
    BY <1>0, <1>2
  <2>1. now - providers[k][s[1]].storedAt <= ProviderTTL
    BY <1>0, <1>3, <1>5, <2>0
  <2>2. CASE IsEmpty(fresh)
    <3>1. CASE providers' = providers
      BY <1>5, <3>1
    <3>2. CASE providers' = PutProvider(key, p, NoEntry, {}) /\ ~(now - providers[key][p].storedAt <= ProviderTTL)
      <4>1. ~(k = key /\ s[1] = p)
        BY <2>1, <3>2
      <4>2. providers'[k][s[1]] = providers[k][s[1]]
        BY <2>0, <3>2, <4>1 DEF PutProvider
      <4> QED BY <1>5, <4>2
    <3> QED BY <2>2, <3>1, <3>2 DEF stabilizeProvider
  <2>3. CASE ~IsEmpty(fresh)
    <3>1. PICK gone \in Evictions :
            /\ providers' = PutProvider(key, p, [servers |-> stable, storedAt |-> now], gone)
            /\ owed' = [j \in Request |-> {t \in owed[j] :
                          <<req[j].key, t[1]>> \in gone => <<req[j].key, t[1]>> = <<key, p>>}]
      BY <2>3 DEF stabilizeProvider
    <3>2. CASE k = key /\ s[1] = p
      <4>1. providers'[k][s[1]] = [servers |-> stable, storedAt |-> now]
        BY <1>0, <3>1, <3>2 DEF PutProvider
      <4>2. stable[s] # Never
        BY <1>4, <1>5, <2>0, <2>1, <3>2
      <4>3. FanOutLifetime \in Nat /\ now # Never
        BY <1>0, TimesAssumption DEF Never
      <4>4. req[q].deadline - now <= ProviderTTL
        <5>1. providers[k][s[1]].storedAt <= now
          BY <2>0 DEF TypeOK, Snapshot, Entry, Past
        <5> QED BY <1>0, <1>3, <1>5, <2>0, <5>1
      <4> QED BY <4>1, <4>2, <4>3, <4>4 DEF Here
    <3>3. CASE ~(k = key /\ s[1] = p)
      <4>1. <<k, s[1]>> \notin gone
        BY <3>1, <3>3
      <4>2. providers'[k][s[1]] = providers[k][s[1]]
        BY <2>0, <3>1, <3>3, <4>1 DEF PutProvider
      <4> QED BY <1>5, <4>2
    <3> QED BY <3>2, <3>3
  <2> QED BY <2>2, <2>3
<1>6. ASSUME NEW q \in Request, pc'[q] = "lead", NEW s \in owed'[q]
      PROVE  Kept(q, s)'
  <2>0. /\ pc[q] = "lead" /\ s \in owed[q] /\ s \in Slot /\ s[1] \in Provider
        /\ Kept(q, s) /\ now <= req[q].deadline /\ req' = req
    BY <1>0, <1>2, <1>6 DEF OwedInv
  <2>1. CASE coll[q][s[1]] = "stable" /\ pool[q][s] # Never
    <3>1. coll'[q][s[1]] = "stable"
      BY <1>0, <1>1, <2>0, <2>1
    <3>2. pool'[q][s] # Never
      BY <1>0, <1>1, <2>0, <2>1
    <3> QED BY <3>1, <3>2 DEF Kept
  <2>2. CASE ~(coll[q][s[1]] = "stable" /\ pool[q][s] # Never)
    <3>1. /\ coll[q][s[1]] \in {"running", "fetched"}
          /\ Here(providers[req[q].key][s[1]])
          /\ providers[req[q].key][s[1]].servers[s] # Never
          /\ req[q].deadline - providers[req[q].key][s[1]].storedAt <= ProviderTTL
      BY <2>0, <2>2 DEF Kept
    <3>2. CASE q = r /\ s[1] = p
      <4>1. now - providers[key][p].storedAt <= ProviderTTL
        BY <1>0, <1>3, <2>0, <3>1, <3>2
      <4>2. stable[s] # Never
        BY <1>4, <2>0, <3>1, <3>2, <4>1
      <4>3. pool'[q][s] # Never /\ coll'[q][s[1]] = "stable"
        BY <1>0, <1>1, <2>0, <3>2, <4>2
      <4> QED BY <4>3 DEF Kept
    <3>3. CASE ~(q = r /\ s[1] = p)
      <4>1. coll'[q][s[1]] = coll[q][s[1]]
        BY <1>0, <1>1, <2>0, <3>3
      <4> QED BY <1>5, <2>0, <3>1, <4>1 DEF Kept, Here
    <3> QED BY <3>2, <3>3
  <2> QED BY <2>1, <2>2
<1>7. ASSUME NEW q \in Request, pc'[q] = "stored", NEW s \in owed'[q]
      PROVE  pool'[q][s] # Never
  <2>1. q # r /\ s \in owed[q]
    BY <1>2, <1>7
  <2> QED BY <1>0, <1>1, <1>7, <2>1 DEF OwedInv
<1> QED BY <1>6, <1>7 DEF OwedInv

LEMMA OwedStep == TypeOK /\ OwedInv /\ [Next]_vars => OwedInv'
<1> SUFFICES ASSUME TypeOK, OwedInv, [Next]_vars PROVE OwedInv'
  OBVIOUS
<1>0. /\ now \in Nat /\ pc \in [Request -> PC]
      /\ req \in [Request -> [key : Key, refresh : BOOLEAN, deadline : Int]]
      /\ pool \in [Request -> [Slot -> Past]] /\ coll \in [Request -> [Provider -> Stage]]
      /\ owed \in [Request -> SUBSET Slot]
      /\ \A s \in Slot : s[1] \in Provider
  BY SetsAssumption DEF TypeOK, Servers
<1>1. ASSUME NEW r \in Request, NEW k \in Key, NEW refresh \in BOOLEAN, loadList(r, k, refresh)
      PROVE  OwedInv'
  <2>1. /\ now' = now /\ pc' = [pc EXCEPT ![r] = "miss"]
        /\ \A q \in Request : q # r => req'[q] = req[q]
        /\ req'[r].deadline = now + FanOutLifetime
        /\ UNCHANGED <<providers, coll, pool, owed>>
    BY <1>0, <1>1 DEF loadList
  <2>2. now <= now + FanOutLifetime
    BY <1>0, TimesAssumption
  <2> QED BY <1>0, <2>1, <2>2 DEF OwedInv, Kept, Here
<1>2. ASSUME NEW r \in Request, beginFlight(r)
      PROVE  OwedInv'
  <2>1. UNCHANGED <<now, req, providers, pool>> /\ pc[r] = "miss"
    BY <1>2 DEF beginFlight
  <2>2. CASE pc' = [pc EXCEPT ![r] = "wait"] /\ UNCHANGED <<coll, owed>>
    BY <1>0, <2>1, <2>2 DEF OwedInv, Kept, Here
  <2>3. CASE /\ pc' = [pc EXCEPT ![r] = "lead"]
             /\ coll' = [coll EXCEPT ![r] = [p \in Provider |->
                            IF p \in EnabledFor(req[r].key) THEN "running" ELSE "off"]]
             /\ owed' = [owed EXCEPT ![r] = HeldUntil(req[r].key, req[r].deadline)]
    <3>1. ASSUME NEW s \in owed'[r]
          PROVE  Kept(r, s)'
      <4>1. s \in HeldUntil(req[r].key, req[r].deadline)
        BY <1>0, <2>3, <3>1
      <4>2. coll'[r][s[1]] = "running"
        BY <1>0, <2>3, <4>1 DEF HeldUntil
      <4> QED BY <2>1, <4>1, <4>2 DEF Kept, HeldUntil, Here
    <3>2. ASSUME NEW q \in Request, q # r, pc'[q] = "lead", NEW s \in owed'[q]
          PROVE  Kept(q, s)'
      BY <1>0, <2>1, <2>3, <3>2 DEF OwedInv, Kept, Here
    <3>3. \A q \in Request : pc'[q] # "idle" => now' <= req'[q].deadline
      BY <1>0, <2>1, <2>3 DEF OwedInv
    <3>4. \A q \in Request : pc'[q] = "stored" => \A s \in owed'[q] : pool'[q][s] # Never
      BY <1>0, <2>1, <2>3 DEF OwedInv
    <3>5. \A q \in Request : pc'[q] = "lead" => \A s \in owed'[q] : Kept(q, s)'
      BY <3>1, <3>2
    <3> QED BY <3>3, <3>4, <3>5 DEF OwedInv
  <2> QED BY <1>2, <2>2, <2>3 DEF beginFlight
<1>3. ASSUME NEW r \in Request, NEW p \in Provider, collect(r, p)
      PROVE  OwedInv'
  <2>1. PICK names \in SUBSET Of(p) : stabilizeProvider(r, p, FreshOf(p, names))
    BY <1>3 DEF collect
  <2>2. FreshOf(p, names) \in Servers
    BY <1>0 DEF FreshOf, Servers, Past, Never
  <2> QED BY <1>3, <2>1, <2>2, OwedStabilize DEF collect
<1>4. ASSUME NEW r \in Request, NEW p \in Provider, collectLate(r, p)
      PROVE  OwedInv'
  <2>1. /\ UNCHANGED <<now, pc, req, providers, owed>>
        /\ pc[r] = "lead" /\ coll[r][p] = "running"
        /\ coll' = [coll EXCEPT ![r][p] = "fetched"]
        /\ \A q \in Request, s \in Slot : q # r \/ s[1] # p => pool'[q][s] = pool[q][s]
    BY <1>0, <1>4 DEF collectLate, cacheVars
  <2>2. ASSUME NEW q \in Request, pc[q] = "lead", NEW s \in owed[q]
        PROVE  Kept(q, s)'
    <3>1. Kept(q, s) /\ s \in Slot /\ s[1] \in Provider
      BY <1>0, <2>2 DEF OwedInv
    <3> QED BY <1>0, <2>1, <3>1 DEF Kept, Here
  <2>3. \A q \in Request : pc[q] = "stored" => \A s \in owed[q] : pool'[q][s] # Never
    BY <1>0, <2>1 DEF OwedInv
  <2> QED BY <2>1, <2>2, <2>3 DEF OwedInv
<1>5. ASSUME NEW r \in Request, NEW p \in Provider, verifyMegaVidLang(r, p)
      PROVE  OwedInv'
  <2> DEFINE fresh(kept) == [s \in Slot |-> IF s \in kept THEN pool[r][s] ELSE Never]
  <2>1. PICK kept : stabilizeProvider(r, p, fresh(kept))
    BY <1>5 DEF verifyMegaVidLang
  <2>2. fresh(kept) \in Servers
    BY <1>0 DEF Servers, Past, Never
  <2> QED BY <1>5, <2>1, <2>2, OwedStabilize DEF verifyMegaVidLang
<1>6. ASSUME NEW r \in Request, storeList(r)
      PROVE  OwedInv'
  <2> DEFINE k == req[r].key
             merged == IF Here(lists[k])
                       THEN mergeListSnapshot(pool[r], lists[k].servers, lists[k].storedAt)
                       ELSE pool[r]
  <2>1. /\ UNCHANGED <<now, req, providers, owed>> /\ pc[r] = "lead"
        /\ \A p \in Provider : coll[r][p] \in {"off", "stable"}
        /\ pc' = [pc EXCEPT ![r] = "stored"] /\ coll' = [coll EXCEPT ![r] = NoStages]
        /\ pool' = pool \/ pool' = [pool EXCEPT ![r] = merged]
    BY <1>6 DEF storeList
  <2>2. \A s \in Slot : pool[r][s] # Never => pool'[r][s] # Never
    BY <1>0, <2>1 DEF mergeListSnapshot, mergeProviderServers
  <2>3. \A s \in owed[r] : pool[r][s] # Never
    BY <1>0, <2>1 DEF OwedInv, Kept
  <2>4. ASSUME NEW q \in Request, q # r
        PROVE  pc'[q] = pc[q] /\ coll'[q] = coll[q] /\ pool'[q] = pool[q]
    BY <1>0, <2>1, <2>4
  <2>5. \A q \in Request : pc'[q] = "stored" => \A s \in owed'[q] : pool'[q][s] # Never
    BY <1>0, <2>1, <2>2, <2>3, <2>4 DEF OwedInv
  <2>6. \A q \in Request : pc'[q] = "lead" => \A s \in owed'[q] : Kept(q, s)'
    BY <1>0, <2>1, <2>4 DEF OwedInv, Kept, Here
  <2>7. \A q \in Request : pc'[q] # "idle" => now' <= req'[q].deadline
    BY <1>0, <2>1 DEF OwedInv
  <2> QED BY <2>5, <2>6, <2>7 DEF OwedInv
<1>7. ASSUME NEW done, returned(done), UNCHANGED <<now, providers, coll>>
      PROVE  OwedInv'
  <2>1. ASSUME NEW q \in Request, q \in done
        PROVE  pc'[q] = "idle"
    BY <1>7, <2>1 DEF returned
  <2>2. ASSUME NEW q \in Request, q \notin done
        PROVE  pc'[q] = pc[q] /\ req'[q] = req[q] /\ pool'[q] = pool[q] /\ owed'[q] = owed[q]
    BY <1>7, <2>2 DEF returned
  <2> QED BY <1>7, <2>1, <2>2 DEF OwedInv, Kept, Here
<1>8. ASSUME NEW r \in Request, finishFlight(r) \/ giveUp(r)
      PROVE  OwedInv'
  BY <1>7, <1>8 DEF finishFlight, giveUp, cacheVars
<1>9. CASE restart
  BY <1>9 DEF restart, OwedInv
<1>10. CASE tick
  <2>1. /\ now' = now + 1 /\ UNCHANGED <<pc, req, coll, pool, owed, providers>>
        /\ \A r \in Request : pc[r] # "idle" => now < req[r].deadline
    BY <1>10 DEF tick, cacheVars, callVars
  <2>2. \A r \in Request : pc'[r] # "idle" => now' <= req'[r].deadline
    BY <1>0, <2>1
  <2> QED BY <2>1, <2>2 DEF OwedInv, Kept, Here
<1>11. CASE saveProvidersSnapshot \/ UNCHANGED vars
  BY <1>11 DEF saveProvidersSnapshot, vars, cacheVars, callVars, OwedInv, Kept, Here
<1>12. ASSUME NEW r \in Request, NEW k \in Key, listHit(r, k)
       PROVE  OwedInv'
  BY <1>11, <1>12 DEF listHit
<1> QED BY <1>1, <1>2, <1>3, <1>4, <1>5, <1>6, <1>8, <1>9, <1>10, <1>11, <1>12
        DEF Next, CallStep

(* No flicker: a round serves every slot the cache owed it.                *)
THEOREM LastGoodServed == Spec => []OwedSlotsServed
<1>1. OwedInv => OwedSlotsServed
  BY DEF OwedInv, OwedSlotsServed
<1> QED BY <1>1, TypeInit, TypeStep, OwedInit, OwedStep, PTL DEF Spec

-----------------------------------------------------------------------------
(* The titles with a list, and the entries a map of last-good results has. *)
Listed    == {k \in Key : Here(lists[k])}
Filled(c) == {e \in Key \X Provider : Here(c[e[1]][e[2]])}

(* What is saved counts too: it is what the next process starts from.      *)
BoundInv ==
    /\ IsFiniteSet(Listed) /\ Cardinality(Listed) <= MaxLists
    /\ \A c \in {providers, disk} :
          IsFiniteSet(Filled(c)) /\ Cardinality(Filled(c)) <= MaxProviders

LEMMA BoundInit == Init => BoundInv
<1> SUFFICES ASSUME Init PROVE BoundInv
  OBVIOUS
<1>1. Listed = {} /\ Filled(providers) = {} /\ Filled(disk) = {}
  BY DEF Init, Listed, Filled, Here, NoList, NoEntry
<1> QED BY <1>1, FS_EmptySet, TimesAssumption DEF BoundInv

(* Whatever keeps no more than it had keeps within its capacity.           *)
LEMMA BoundSubset ==
    ASSUME NEW N, IsFiniteSet(N), NEW max \in Nat, Cardinality(N) <= max,
           NEW M, M \subseteq N
    PROVE  IsFiniteSet(M) /\ Cardinality(M) <= max
BY FS_Subset, FS_CardinalityType

(* So does one that takes in an entry, below capacity or with an old one   *)
(* gone, be it the very entry that comes back in.                          *)
LEMMA BoundReplace ==
    ASSUME NEW N, IsFiniteSet(N), NEW max \in Nat, Cardinality(N) <= max,
           NEW gone, NEW e, NEW M, M \subseteq (N \ gone) \cup {e},
           Cardinality(N) >= max => \E x \in N : gone = {x}
    PROVE  IsFiniteSet(M) /\ Cardinality(M) <= max
<1>1. Cardinality(N) \in Nat
  BY FS_CardinalityType
<1>2. IsFiniteSet(N \ gone) /\ Cardinality(N \ gone) \in Nat /\ Cardinality(N \ gone) + 1 <= max
  <2>1. CASE Cardinality(N) >= max
    <3>1. PICK x \in N : gone = {x}
      BY <2>1
    <3>2. IsFiniteSet(N \ {x}) /\ Cardinality(N \ {x}) = Cardinality(N) - 1
      BY FS_RemoveElement
    <3>3. Cardinality(N \ {x}) \in Nat
      BY <3>2, FS_CardinalityType
    <3>4. N \ gone = N \ {x}
      BY <3>1
    <3> QED BY <1>1, <3>2, <3>3, <3>4
  <2>2. CASE ~(Cardinality(N) >= max)
    <3>1. N \ gone \subseteq N
      OBVIOUS
    <3>2. IsFiniteSet(N \ gone) /\ Cardinality(N \ gone) <= Cardinality(N)
      BY <3>1, FS_Subset
    <3>3. Cardinality(N \ gone) \in Nat
      BY <3>2, FS_CardinalityType
    <3> QED BY <1>1, <2>2, <3>2, <3>3
  <2> QED BY <2>1, <2>2
<1>3. /\ IsFiniteSet((N \ gone) \cup {e})
      /\ Cardinality((N \ gone) \cup {e}) <= max
  BY <1>2, FS_AddElement
<1> QED BY <1>3, BoundSubset

LEMMA BoundStabilize ==
    ASSUME TypeOK, BoundInv, NEW r \in Request, NEW p \in Provider, NEW fresh,
           stabilizeProvider(r, p, fresh)
    PROVE  IsFiniteSet(Filled(providers')) /\ Cardinality(Filled(providers')) <= MaxProviders
<1> DEFINE key == req[r].key
           entry == [servers |-> Stabilized(key, p, fresh), storedAt |-> now]
<1>0. /\ MaxProviders \in Nat
      /\ IsFiniteSet(Filled(providers)) /\ Cardinality(Filled(providers)) <= MaxProviders
  BY TimesAssumption DEF BoundInv
<1>1. ASSUME NEW gone \in Evictions, providers' = PutProvider(key, p, entry, gone)
      PROVE  IsFiniteSet(Filled(providers')) /\ Cardinality(Filled(providers')) <= MaxProviders
  <2>1. Filled(providers') \subseteq (Filled(providers) \ gone) \cup {<<key, p>>}
    BY <1>1 DEF Filled, PutProvider, Here, NoEntry
  <2>2. Cardinality(Filled(providers)) >= MaxProviders => \E x \in Filled(providers) : gone = {x}
    BY <1>1 DEF Evictions, ProviderCount, OldestProviders, Filled
  <2> QED BY <1>0, <2>1, <2>2, BoundReplace
<1>2. CASE providers' = providers \/ providers' = PutProvider(key, p, NoEntry, {})
  <2>1. Filled(providers') \subseteq Filled(providers)
    BY <1>2 DEF Filled, PutProvider, Here, NoEntry
  <2> QED BY <1>0, <2>1, BoundSubset
<1> QED BY <1>1, <1>2 DEF stabilizeProvider

LEMMA BoundNow ==
    ASSUME IsFiniteSet(Listed'), Cardinality(Listed') <= MaxLists,
           IsFiniteSet(Filled(providers')), Cardinality(Filled(providers')) <= MaxProviders,
           IsFiniteSet(Filled(disk')), Cardinality(Filled(disk')) <= MaxProviders
    PROVE  BoundInv'
<1>1. ASSUME NEW c \in {providers', disk'}
      PROVE  IsFiniteSet(Filled(c)) /\ Cardinality(Filled(c)) <= MaxProviders
  <2>1. CASE c = providers'
    BY <2>1
  <2>2. CASE c = disk'
    BY <2>2
  <2> QED BY <1>1, <2>1, <2>2
<1>2. (IsFiniteSet(Listed) /\ Cardinality(Listed) <= MaxLists)'
  OBVIOUS
<1> QED BY <1>1, <1>2 DEF BoundInv, Filled, Here

LEMMA BoundStep == TypeOK /\ BoundInv /\ [Next]_vars => BoundInv'
<1> SUFFICES ASSUME TypeOK, BoundInv, [Next]_vars PROVE BoundInv'
  OBVIOUS
<1>0. MaxLists \in Nat /\ MaxProviders \in Nat
  BY TimesAssumption
<1>bounds. /\ IsFiniteSet(Listed) /\ Cardinality(Listed) <= MaxLists
      /\ IsFiniteSet(Filled(providers)) /\ Cardinality(Filled(providers)) <= MaxProviders
      /\ IsFiniteSet(Filled(disk)) /\ Cardinality(Filled(disk)) <= MaxProviders
  BY DEF BoundInv
<1>1. ASSUME NEW r \in Request, NEW k \in Key, NEW refresh \in BOOLEAN, loadList(r, k, refresh)
      PROVE  BoundInv'
  <2>1. Listed' \subseteq Listed /\ UNCHANGED <<providers, disk>>
    BY <1>1 DEF loadList, Listed, Here, NoList, TypeOK
  <2>2. IsFiniteSet(Listed') /\ Cardinality(Listed') <= MaxLists
    BY <1>0, <2>1, BoundSubset DEF BoundInv
  <2> QED BY <1>bounds, <2>1, <2>2, BoundNow
<1>2. ASSUME NEW r \in Request, NEW p \in Provider, NEW fresh,
             stabilizeProvider(r, p, fresh), UNCHANGED <<lists, disk>>
      PROVE  BoundInv'
  <2>1. IsFiniteSet(Filled(providers')) /\ Cardinality(Filled(providers')) <= MaxProviders
    BY <1>2, BoundStabilize
  <2>2. disk' = disk /\ Listed' = Listed
    BY <1>2 DEF Listed, Here
  <2> QED BY <1>bounds, <2>1, <2>2, BoundNow
<1>3. ASSUME NEW r \in Request, NEW p \in Provider, collect(r, p) \/ verifyMegaVidLang(r, p)
      PROVE  BoundInv'
  <2>1. \E fresh : stabilizeProvider(r, p, fresh)
    BY <1>3 DEF collect, verifyMegaVidLang
  <2> QED BY <1>2, <1>3, <2>1 DEF collect, verifyMegaVidLang
<1>4. ASSUME NEW r \in Request, storeList(r)
      PROVE  BoundInv'
  <2>1. UNCHANGED <<providers, disk>>
    BY <1>4 DEF storeList
  <2>2. CASE lists' = lists
    <3>1. Listed' = Listed
      BY <2>2 DEF Listed, Here
    <3> QED BY <1>bounds, <2>1, <3>1, BoundNow
  <2>3. CASE lists' # lists
    <3>1. PICK gone \in ListEvictions : \E entry :
             lists' = [j \in Key |-> IF j = req[r].key THEN entry
                                     ELSE IF j \in gone THEN NoList ELSE lists[j]]
      BY <1>4, <2>3 DEF storeList
    <3>2. Listed' \subseteq (Listed \ gone) \cup {req[r].key}
      BY <3>1 DEF Listed, Here, NoList
    <3>3. Cardinality(Listed) >= MaxLists => \E x \in Listed : gone = {x}
      BY <3>1 DEF ListEvictions, ListCount, OldestLists, Listed
    <3>4. IsFiniteSet(Listed') /\ Cardinality(Listed') <= MaxLists
      BY <1>0, <3>2, <3>3, BoundReplace DEF BoundInv
    <3> QED BY <1>bounds, <2>1, <3>4, BoundNow
  <2> QED BY <2>2, <2>3
<1>5. CASE UNCHANGED <<lists, providers, disk>>
  <2>1. Listed' = Listed
    BY <1>5 DEF Listed, Here
  <2> QED BY <1>5, <1>bounds, <2>1, BoundNow
<1>6. CASE saveProvidersSnapshot
  <2>1. Filled(disk') \subseteq Filled(providers)
    BY <1>6 DEF saveProvidersSnapshot, savedEntries, Filled, Here, NoEntry
  <2>2. IsFiniteSet(Filled(disk')) /\ Cardinality(Filled(disk')) <= MaxProviders
    BY <1>0, <2>1, BoundSubset DEF BoundInv
  <2>3. UNCHANGED <<lists, providers>>
    BY <1>6 DEF saveProvidersSnapshot, cacheVars
  <2>4. Listed' = Listed /\ Filled(providers') = Filled(providers)
    BY <2>3 DEF Listed, Filled, Here
  <2>5. IsFiniteSet(Filled(providers')) /\ Cardinality(Filled(providers')) <= MaxProviders
    BY <2>3 DEF BoundInv
  <2>6. IsFiniteSet(Listed') /\ Cardinality(Listed') <= MaxLists
    BY <2>4 DEF BoundInv
  <2> QED BY <2>2, <2>5, <2>6, BoundNow
<1>7. CASE restart
  <2>1. Filled(providers') \subseteq Filled(disk) /\ Listed' = {} /\ disk' = disk
    BY <1>7 DEF restart, restored, Filled, Listed, Here, NoEntry, NoList
  <2>2. IsFiniteSet(Filled(providers')) /\ Cardinality(Filled(providers')) <= MaxProviders
    BY <1>0, <2>1, BoundSubset DEF BoundInv
  <2>3. IsFiniteSet(Listed') /\ Cardinality(Listed') <= MaxLists
    BY <1>0, <2>1, FS_EmptySet
  <2>4. IsFiniteSet(Filled(disk')) /\ Cardinality(Filled(disk')) <= MaxProviders
    BY <2>1 DEF BoundInv
  <2> QED BY <2>2, <2>3, <2>4, BoundNow
<1>8. ASSUME NEW r \in Request, beginFlight(r) \/ finishFlight(r) \/ giveUp(r)
      PROVE  UNCHANGED <<lists, providers, disk>>
  BY <1>8 DEF beginFlight, finishFlight, giveUp, cacheVars
<1>9. ASSUME NEW r \in Request, NEW p \in Provider, collectLate(r, p)
      PROVE  UNCHANGED <<lists, providers, disk>>
  BY <1>9 DEF collectLate, cacheVars
<1>10. ASSUME NEW r \in Request, NEW k \in Key, listHit(r, k)
       PROVE  UNCHANGED <<lists, providers, disk>>
  BY <1>10 DEF listHit, vars, cacheVars
<1>11. CASE tick \/ UNCHANGED vars
  BY <1>5, <1>11 DEF tick, vars, cacheVars
<1> QED BY <1>1, <1>3, <1>4, <1>5, <1>6, <1>7, <1>8, <1>9, <1>10, <1>11 DEF Next, CallStep

(* Neither cache outgrows its capacity, restarts included, however many    *)
(* titles there are.                                                       *)
THEOREM CapacitiesKept == Spec => []CachesBounded
<1>1. BoundInv => CachesBounded
  BY DEF BoundInv, CachesBounded, ListCount, ProviderCount, Listed, Filled
<1> QED BY <1>1, TypeInit, TypeStep, BoundInit, BoundStep, PTL DEF Spec

-----------------------------------------------------------------------------
(* A list expires within a lifetime of the last-good results it is filled  *)
(* in from, counted from when it was stored.                               *)
ExpiryInv == \A k \in Key : Here(lists[k]) => lists[k].expires <= lists[k].storedAt + ProviderTTL

LEMMA ExpiryInit == Init => ExpiryInv
BY DEF Init, ExpiryInv, Here, NoList

LEMMA ExpiryStep == TypeOK /\ ExpiryInv /\ [Next]_vars => ExpiryInv'
<1> SUFFICES ASSUME TypeOK, ExpiryInv, [Next]_vars PROVE ExpiryInv'
  OBVIOUS
<1>1. ASSUME NEW r \in Request, NEW k \in Key, NEW refresh \in BOOLEAN, loadList(r, k, refresh)
      PROVE  ExpiryInv'
  BY <1>1 DEF loadList, ExpiryInv, Here, NoList, TypeOK
<1>2. ASSUME NEW r \in Request, storeList(r)
      PROVE  ExpiryInv'
  <2>1. ASSUME NEW servers, NEW ttl \in {ListTTL, IncompleteTTL}
        PROVE  ListEntry(servers, ttl).expires <= ListEntry(servers, ttl).storedAt + ProviderTTL
    BY TimesAssumption DEF ListEntry, TypeOK
  <2>2. \/ lists' = lists
        \/ \E servers, gone : \E ttl \in {ListTTL, IncompleteTTL} :
              lists' = [j \in Key |-> IF j = req[r].key THEN ListEntry(servers, ttl)
                                      ELSE IF j \in gone THEN NoList ELSE lists[j]]
    BY <1>2 DEF storeList
  <2> QED BY <2>1, <2>2 DEF ExpiryInv, Here, NoList
<1>3. CASE restart
  BY <1>3 DEF restart, ExpiryInv, Here, NoList
<1>4. CASE UNCHANGED lists
  BY <1>4 DEF ExpiryInv, Here
<1>5. ASSUME NEW r \in Request, beginFlight(r) \/ finishFlight(r) \/ giveUp(r)
      PROVE  UNCHANGED lists
  BY <1>5 DEF beginFlight, finishFlight, giveUp, cacheVars
<1>6. ASSUME NEW r \in Request, NEW p \in Provider,
             collect(r, p) \/ collectLate(r, p) \/ verifyMegaVidLang(r, p)
      PROVE  UNCHANGED lists
  BY <1>6 DEF collect, collectLate, verifyMegaVidLang, cacheVars
<1>7. CASE saveProvidersSnapshot \/ tick \/ UNCHANGED vars
  BY <1>4, <1>7 DEF saveProvidersSnapshot, tick, vars, cacheVars
<1>8. ASSUME NEW r \in Request, NEW k \in Key, listHit(r, k)
      PROVE  UNCHANGED lists
  BY <1>8 DEF listHit, vars, cacheVars
<1> QED BY <1>1, <1>2, <1>3, <1>4, <1>5, <1>6, <1>7, <1>8 DEF Next, CallStep

(* What one step does to a live list.                                      *)
KeepsSlots(k) ==
    \/ \A s \in Slot : lists[k].servers[s] # Never => lists'[k].servers[s] # Never
    \/ ~Here(lists[k])' /\ ListCount >= MaxLists

LEMMA LiveStep ==
    ASSUME TypeOK, ExpiryInv, Next, bootedAt' = bootedAt, NEW k \in Key, Live(lists[k])
    PROVE  KeepsSlots(k)
<1>1. ASSUME lists'[k] = lists[k]
      PROVE  KeepsSlots(k)
  BY <1>1 DEF KeepsSlots
<1>2. ASSUME NEW r \in Request, NEW j \in Key, NEW refresh \in BOOLEAN, loadList(r, j, refresh)
      PROVE  lists'[k] = lists[k]
  BY <1>2 DEF loadList, TypeOK
<1>3. ASSUME NEW r \in Request, storeList(r)
      PROVE  KeepsSlots(k)
  <2> DEFINE merged == mergeListSnapshot(pool[r], lists[k].servers, lists[k].storedAt)
  <2>1. \A s \in Slot : lists[k].servers[s] # Never => merged[s] # Never
    <3>1. now - lists[k].storedAt <= ProviderTTL
      BY TimesAssumption DEF ExpiryInv, Live, TypeOK, List, Past, Never
    <3> QED BY <3>1 DEF mergeListSnapshot, mergeProviderServers
  <2>2. CASE lists' = lists
    BY <1>1, <2>2
  <2>3. CASE req[r].key = k /\ lists' # lists
    <3>1. \E ttl : lists'[k] = ListEntry(merged, ttl)
      BY <1>3, <2>3 DEF storeList, Live
    <3> QED BY <2>1, <3>1 DEF KeepsSlots, ListEntry
  <2>4. CASE req[r].key # k /\ lists' # lists
    <3>1. PICK gone \in ListEvictions : lists'[k] = IF k \in gone THEN NoList ELSE lists[k]
      BY <1>3, <2>4 DEF storeList
    <3>2. k \in gone => ListCount >= MaxLists
      BY <3>1 DEF ListEvictions
    <3> QED BY <1>1, <3>1, <3>2 DEF KeepsSlots, Here, NoList
  <2> QED BY <2>2, <2>3, <2>4
<1>4. ASSUME NEW r \in Request, beginFlight(r) \/ finishFlight(r) \/ giveUp(r)
      PROVE  lists' = lists
  BY <1>4 DEF beginFlight, finishFlight, giveUp, cacheVars
<1>5. ASSUME NEW r \in Request, NEW p \in Provider,
             collect(r, p) \/ collectLate(r, p) \/ verifyMegaVidLang(r, p)
      PROVE  lists' = lists
  BY <1>5 DEF collect, collectLate, verifyMegaVidLang, cacheVars
<1>6. CASE saveProvidersSnapshot \/ tick
  BY <1>1, <1>6 DEF saveProvidersSnapshot, tick, cacheVars
<1>7. ~restart
  BY DEF restart, TypeOK
<1>8. ASSUME NEW r \in Request, NEW j \in Key, listHit(r, j)
      PROVE  lists' = lists
  BY <1>8 DEF listHit, vars, cacheVars
<1> QED BY <1>1, <1>2, <1>3, <1>4, <1>5, <1>6, <1>7, <1>8 DEF Next, CallStep

(* No round that races a live list shrinks it: it is replaced by one with  *)
(* at least its slots, or leaves by eviction or with the process.          *)
THEOREM LiveListsOnlyGrow == Spec => LiveListsKeepSlots
<1>1. TypeOK /\ ExpiryInv /\ [Next]_vars =>
        [bootedAt' = bootedAt => \A k \in Key :
            Live(lists[k]) =>
               \/ \A s \in Slot : lists[k].servers[s] # Never => lists'[k].servers[s] # Never
               \/ ~Here(lists[k])' /\ ListCount >= MaxLists]_vars
  BY LiveStep DEF KeepsSlots
<1> QED BY <1>1, TypeInit, TypeStep, ExpiryInit, ExpiryStep, PTL DEF Spec, LiveListsKeepSlots
=============================================================================
