-------------------------- MODULE SyncTokensProofs --------------------------
(***************************************************************************)
(* Proofs about the tracker connections, for any users, trackers, requests *)
(* and handshakes, and however often anything goes wrong.                  *)
(***************************************************************************)
EXTENDS SyncTokens, FiniteSetTheorems, TLAPS

-----------------------------------------------------------------------------
(* The inductive invariant.  First the types; a request that runs has all  *)
(* the fields of Started.                                                  *)
Last    == Cardinality(Grant)
Step    == {"exchange", "load", "refresh", "reload", "store", "use"}
Kind    == {"connect", "disconnect", "update", "job"}
AState  == State \union {""}
Running == [step : Step, user : User, provider : Provider, kind : Kind, state : AState,
            tokens : [Provider -> Nat], unread : BOOLEAN, stale : BOOLEAN, grant : Nat]
Pending == [user : User, provider : Provider, age : Nat]

TypeOK ==
    /\ row \in [User -> [Provider -> Nat]]
    /\ Last \in Nat /\ owner \in [1 .. Last -> User \X Provider]
    /\ spent \subseteq Grant
    /\ syncPending \in [State -> Pending \union {NoState}]
    /\ codes \subseteq State \X User \X Provider
    /\ request \in [Request -> Running \union {Idle}]

Runs(r) == request[r] # Idle

(* A grant that is kept for user u and tracker p was given to them.        *)
Theirs(g, u, p) == g = None \/ (g \in Grant /\ owner[g] = <<u, p>>)

RowsOwned == \A u \in User, p \in Provider : Theirs(row[u][p], u, p)

OwnedBy(q) ==
    /\ Theirs(q.grant, q.user, q.provider)
    /\ \A p \in Provider : Theirs(q.tokens[p], q.user, p)

(* The kinds of requests that come to a step.                              *)
StepRight(q) ==
    /\ q.kind = "connect" => q.step \in {"exchange", "reload", "store"}
    /\ q.kind # "connect" => q.step # "exchange" /\ q.state = ""
    /\ q.kind = "disconnect" => q.step \in {"load", "store"}
    /\ q.kind # "disconnect" /\ q.step \in {"refresh", "reload", "store"} => q.grant # None

(* A code comes back to whoever has begun its handshake.                   *)
CodeRight(q) ==
    \A c \in codes : q.state = c[1] => q.user = c[2] /\ q.provider = c[3]

RequestsRight ==
    \A r \in Request : Runs(r) =>
        OwnedBy(request[r]) /\ StepRight(request[r]) /\ CodeRight(request[r])

CodesRight ==
    \A c \in codes : syncPending[c[1]] # NoState =>
        syncPending[c[1]].user = c[2] /\ syncPending[c[1]].provider = c[3]

(* A request that is about to save a grant is alone in having it.          *)
Saves(r) == Runs(r) /\ request[r].step \in {"reload", "store"} /\ request[r].kind # "disconnect"

Private ==
    \A r \in Request : Saves(r) =>
        LET g == request[r].grant IN
        /\ g \notin spent
        /\ \A u \in User, p \in Provider : row[u][p] # g
        /\ \A x \in Request : Runs(x) =>
              /\ x # r => request[x].grant # g
              /\ \A p \in Provider : request[x].tokens[p] # g

(* What it is going to write back is the row as it stands, unless that     *)
(* counts as lost.                                                         *)
ReadAsIs ==
    \A r \in Request : Runs(r) /\ request[r].step = "store" =>
        request[r].stale \/ request[r].unread \/ request[r].tokens = row[request[r].user]

Safe == TypeOK /\ RowsOwned /\ RequestsRight /\ CodesRight
LostType == lost \in BOOLEAN
Rest     == Private /\ ReadAsIs /\ LostType /\ StaysConnected /\ StatesEnd
IInv     == Safe /\ Rest

-----------------------------------------------------------------------------
(* The types and the owners hold when the process starts.                  *)
LEMMA SafeInit == Init => Safe
<1> SUFFICES ASSUME Init PROVE Safe
  OBVIOUS
<1>1. Grant = {} /\ Last = 0
  BY FS_EmptySet DEF Init, Grant, Last
<1>2. TypeOK
  BY <1>1 DEF Init, TypeOK, NoTokens, None, Idle
<1> QED BY <1>2 DEF Init, Safe, RowsOwned, RequestsRight, CodesRight, NoTokens, Theirs, Runs

(* A new grant: its number follows the others, and they stay whose they    *)
(* are.                                                                    *)
Grows ==
    /\ Last' \in Nat /\ owner' \in [1 .. Last' -> User \X Provider]
    /\ Grant \subseteq Grant' /\ \A g \in Grant : owner'[g] = owner[g]

(* A new grant is the next one, and belongs to who asked for it.           *)
LEMMA NewGrantFacts ==
    ASSUME TypeOK, NEW u \in User, NEW p \in Provider, NewGrant(u, p)
    PROVE  /\ Grows
           /\ Last + 1 \in Grant' \ Grant /\ Last + 1 \in Nat \ {None}
           /\ owner'[Last + 1] = <<u, p>>
<1>1. Last \in Nat /\ Grant = 1 .. Last
  BY DEF TypeOK, Grant
<1>2. owner' = [g \in 1 .. Last + 1 |-> IF g \in Grant THEN owner[g] ELSE <<u, p>>]
  BY DEF NewGrant, Last
<1>3. Grant' = 1 .. Last + 1
  BY <1>2 DEF Grant
<1>4. \A n \in Nat : Cardinality(1 .. n) = n
  BY FS_Interval
<1>5. Last' = Last + 1
  <2>1. Last' = Cardinality(1 .. Last + 1)
    BY <1>3 DEF Last
  <2> QED BY <1>1, <1>4, <2>1
<1>6. owner' \in [1 .. Last + 1 -> User \X Provider]
  BY <1>1, <1>2 DEF TypeOK
<1> QED BY <1>1, <1>2, <1>3, <1>5, <1>6 DEF Grows, None

(* What belongs to somebody stays theirs.                                  *)
LEMMA TheirsStays ==
    ASSUME Grows, NEW g, NEW u, NEW p, Theirs(g, u, p)
    PROVE  Theirs(g, u, p)'
BY DEF Grows, Theirs

(* A request that gets a new grant goes on having what is its user's.      *)
LEMMA OwnsNew ==
    ASSUME Grows, NEW q, OwnedBy(q), NEW x,
           x.user = q.user, x.provider = q.provider, x.tokens = q.tokens,
           x.grant \in Grant', owner'[x.grant] = <<x.user, x.provider>>
    PROVE  OwnedBy(x)'
<1>1. Theirs(x.grant, x.user, x.provider)'
  BY DEF Theirs
<1>2. \A p \in Provider : Theirs(x.tokens[p], x.user, p)'
  BY TheirsStays DEF OwnedBy
<1> QED BY <1>1, <1>2 DEF OwnedBy

(* A request that does not run is at no step.                              *)
LEMMA IdleStep == Idle.step = "idle"
BY DEF Idle

(* One request moves on.                                                   *)
LEMMA SafeMove ==
    ASSUME Safe, Grows, NEW r \in Request, NEW x \in Running \union {Idle},
           request' = [request EXCEPT ![r] = x], row' = row, codes' \subseteq codes,
           spent' \subseteq Grant',
           \/ syncPending' = syncPending
           \/ \E s \in State : syncPending' = [syncPending EXCEPT ![s] = NoState],
           x # Idle => OwnedBy(x)' /\ StepRight(x) /\ CodeRight(x)
    PROVE  Safe'
<1>1. TypeOK'
  BY DEF Safe, TypeOK, Grows
<1>2. RowsOwned'
  BY TheirsStays DEF Safe, RowsOwned
<1>3. \A c \in codes : c[1] \in State
  BY DEF Safe, TypeOK
<1>4. CodesRight'
  BY <1>3 DEF Safe, CodesRight, TypeOK
<1>5. \A q : OwnedBy(q) => OwnedBy(q)'
  BY TheirsStays DEF OwnedBy
<1>6. \A q : CodeRight(q) => CodeRight(q)'
  BY DEF CodeRight
<1>7. RequestsRight'
  BY <1>5, <1>6 DEF Safe, RequestsRight, TypeOK, Runs
<1> QED BY <1>1, <1>2, <1>4, <1>7 DEF Safe

(* Nothing new is the simplest way to grow.                                *)
LEMMA Still == ASSUME TypeOK, UNCHANGED owner PROVE Grows /\ Grant' = Grant
BY DEF Grows, TypeOK, Last, Grant

(* A request that has not got a grant has nobody else's.                   *)
LEMMA OwnsNothing == ASSUME NEW q, q.grant = None, q.tokens = NoTokens PROVE OwnedBy(q)
BY DEF OwnedBy, Theirs, NoTokens

(* loadSyncTokens fills in the tokens and nothing else.                    *)
LEMMA LoadsFacts ==
    ASSUME Safe, NEW q \in Running, OwnedBy(q), NEW answer \in Loads(q)
    PROVE  /\ answer \in Running /\ OwnedBy(answer)
           /\ answer.step = q.step /\ answer.user = q.user /\ answer.provider = q.provider
           /\ answer.kind = q.kind /\ answer.state = q.state /\ answer.grant = q.grant
           /\ answer.stale = q.stale
           /\ answer.unread \/ answer.tokens = row[q.user]
<1>1. q.user \in User /\ row[q.user] \in [Provider -> Nat]
  BY DEF Running, Step, Kind, AState, Safe, TypeOK
<1>2. \A p \in Provider : Theirs(row[q.user][p], q.user, p)
  BY <1>1 DEF Safe, RowsOwned
<1>3. CASE answer = Read(q)
  BY <1>1, <1>2, <1>3 DEF Read, Running, OwnedBy
<1>4. CASE answer = Unread(q)
  BY <1>4 DEF Unread, Running, OwnedBy
<1> QED BY <1>3, <1>4 DEF Loads

(* The end of a save.                                                      *)
LEMMA DoneFacts ==
    ASSUME NEW q \in Running, OwnedBy(q), StepRight(q)
    PROVE  /\ Done(q) \in Running \union {Idle}
           /\ Done(q) # Idle => /\ OwnedBy(Done(q)) /\ StepRight(Done(q))
                                /\ Done(q).step = "use" /\ Done(q).user = q.user
                                /\ Done(q).provider = q.provider /\ Done(q).state = q.state
                                /\ Done(q).grant = q.grant /\ Done(q).tokens = NoTokens
           /\ q.kind = "connect" => Done(q) = Idle
<1>1. CASE q.kind \in {"update", "job"}
  <2>1. PICK x : x = [q EXCEPT !.step = "use", !.tokens = NoTokens, !.unread = FALSE, !.stale = FALSE]
    OBVIOUS
  <2>2. NoTokens \in [Provider -> Nat]
    BY DEF NoTokens, None
  <2>3. /\ x \in Running /\ x.tokens = NoTokens /\ x.step = "use"
        /\ x.user = q.user /\ x.provider = q.provider /\ x.state = q.state
        /\ x.grant = q.grant /\ x.kind = q.kind
    BY <2>1, <2>2 DEF Running, Step, Kind, AState
  <2>4. OwnedBy(x) /\ StepRight(x)
    BY <1>1, <2>3 DEF OwnedBy, Theirs, NoTokens, StepRight
  <2>5. Done(q) = x
    BY <1>1, <2>1 DEF Done
  <2> QED BY <1>1, <2>3, <2>4, <2>5
<1>2. CASE q.kind \notin {"update", "job"}
  BY <1>2 DEF Done
<1> QED BY <1>1, <1>2

(* The deferred deletion concerns at most one state.                       *)
LEMMA DeletedFacts ==
    ASSUME TypeOK, NEW r \in Request, Deleted(r)
    PROVE  \/ syncPending' = syncPending
           \/ \E s \in State : syncPending' = [syncPending EXCEPT ![s] = NoState]
<1>1. CASE request[r].state \in State
  BY <1>1 DEF Deleted
<1>2. CASE request[r].state \notin State
  BY <1>2 DEF Deleted, TypeOK
<1> QED BY <1>1, <1>2

(* The row is written back.                                                *)
LEMMA SafeStore ==
    ASSUME Safe, NEW r \in Request, storeSyncTokens(r)
    PROVE  Safe'
<1> DEFINE q == request[r]
<1>0. /\ request \in [Request -> Running \union {Idle}] /\ TypeOK
      /\ syncPending \in [State -> Pending \union {NoState}]
      /\ \A x \in Request : Runs(x) => /\ request[x] \in Running
                                       /\ OwnedBy(request[x]) /\ StepRight(request[x])
                                       /\ CodeRight(request[x])
  BY DEF Safe, TypeOK, RequestsRight, Runs
<1>1. q.step = "store" /\ Deleted(r) /\ UNCHANGED <<owner, spent, codes>>
  BY DEF storeSyncTokens, At
<1>2. Runs(r) /\ q \in Running /\ OwnedBy(q) /\ StepRight(q) /\ CodeRight(q)
  BY <1>0, <1>1 DEF Runs, Idle
<1>3. Grows /\ Grant' = Grant
  BY <1>0, <1>1, Still
<1>4. /\ Done(q) \in Running \union {Idle}
      /\ Done(q) # Idle => OwnedBy(Done(q)) /\ StepRight(Done(q)) /\ CodeRight(Done(q))
  BY <1>2, DoneFacts DEF CodeRight
<1>5. \/ syncPending' = syncPending
      \/ \E s \in State : syncPending' = [syncPending EXCEPT ![s] = NoState]
  BY <1>0, <1>1, DeletedFacts
<1>6. \A x : OwnedBy(x) => OwnedBy(x)'
  BY <1>3, TheirsStays DEF OwnedBy
<1>7. CASE Goes(r, Done(q)) /\ UNCHANGED row
  <2>1. spent' \subseteq Grant'
    BY <1>0, <1>1, <1>3 DEF TypeOK
  <2> QED BY <1>1, <1>3, <1>4, <1>5, <1>6, <1>7, <2>1, SafeMove DEF Goes
<1>8. CASE /\ row' = [row EXCEPT ![q.user] = Saved(q)]
           /\ request' = [x \in Request |-> IF x = r THEN Done(q) ELSE Overtaken(q.user, x)]
  <2>1. Saved(q) \in [Provider -> Nat] /\ \A p \in Provider : Theirs(Saved(q)[p], q.user, p)
    <3>1. q.tokens \in [Provider -> Nat] /\ q.grant \in Nat /\ q.provider \in Provider
      BY <1>2 DEF Running, Step, Kind, AState
    <3>2. \A p \in Provider : Saved(q)[p] = IF p # q.provider THEN q.tokens[p]
                                            ELSE IF q.kind = "disconnect" THEN None ELSE q.grant
      BY <3>1 DEF Saved
    <3>3. Saved(q) \in [Provider -> Nat]
      BY <3>1 DEF Saved, None
    <3> QED BY <1>2, <3>2, <3>3 DEF OwnedBy, Theirs
  <2>2. row' \in [User -> [Provider -> Nat]] /\ RowsOwned'
    <3>1. row \in [User -> [Provider -> Nat]] /\ q.user \in User
      BY <1>0, <1>2 DEF TypeOK, Running
    <3>2. \A u \in User : row'[u] = IF u = q.user THEN Saved(q) ELSE row[u]
      BY <1>8, <3>1
    <3>3. \A u \in User, p \in Provider : Theirs(row'[u][p], u, p)
      BY <2>1, <3>2 DEF Safe, RowsOwned
    <3> QED BY <1>3, <1>8, <2>1, <3>1, <3>3, TheirsStays DEF RowsOwned
  <2>3. ASSUME NEW x \in Request, x # r
        PROVE  /\ request'[x] = Overtaken(q.user, x)
               /\ Runs(x) => /\ request'[x] \in Running /\ OwnedBy(request'[x])
                             /\ StepRight(request'[x]) /\ CodeRight(request'[x])
               /\ ~Runs(x) => request'[x] = Idle
    <3>1. request'[x] = Overtaken(q.user, x)
      BY <1>8, <2>3
    <3>2. CASE ~Runs(x)
      BY <3>1, <3>2 DEF Runs, Overtaken
    <3>3. CASE Runs(x)
      <4>1. request'[x] \in {request[x], [request[x] EXCEPT !.stale = TRUE]}
        BY <3>1 DEF Overtaken
      <4>2. request[x] \in Running /\ OwnedBy(request[x]) /\ StepRight(request[x]) /\ CodeRight(request[x])
        BY <1>0, <3>3
      <4>3. PICK a, b : a = request[x] /\ b = request'[x]
        OBVIOUS
      <4>4. /\ b \in Running /\ b.user = a.user /\ b.provider = a.provider /\ b.kind = a.kind
            /\ b.step = a.step /\ b.state = a.state /\ b.grant = a.grant /\ b.tokens = a.tokens
        BY <4>1, <4>2, <4>3 DEF Running, Step, Kind, AState
      <4>5. OwnedBy(b) /\ StepRight(b) /\ CodeRight(b)
        BY <4>2, <4>3, <4>4 DEF OwnedBy, StepRight, CodeRight
      <4> QED BY <3>1, <3>3, <4>3, <4>4, <4>5
    <3> QED BY <3>1, <3>2, <3>3
  <2>4. TypeOK'
    <3>1. request'[r] = Done(q)
      BY <1>8
    <3>2. request' \in [Request -> Running \union {Idle}]
      BY <1>4, <1>8, <2>3, <3>1
    <3>3. Last' \in Nat /\ owner' \in [1 .. Last' -> User \X Provider]
      BY <1>3 DEF Grows
    <3> QED BY <1>0, <1>1, <1>3, <1>5, <2>2, <3>2, <3>3 DEF TypeOK
  <2>5. RequestsRight'
    <3>1. request'[r] = Done(q)
      BY <1>8
    <3>2. \A x \in Request : request'[x] # Idle =>
              OwnedBy(request'[x]) /\ StepRight(request'[x]) /\ CodeRight(request'[x])
      BY <1>4, <2>3, <3>1
    <3> QED BY <1>1, <1>6, <3>2 DEF RequestsRight, Runs, CodeRight
  <2>6. CodesRight'
    BY <1>0, <1>1, <1>5 DEF Safe, CodesRight, TypeOK
  <2> QED BY <2>2, <2>4, <2>5, <2>6 DEF Safe
<1> QED BY <1>7, <1>8 DEF storeSyncTokens

(* A handshake begins: its code will come back to who has begun it.        *)
LEMMA SafeAuthorize ==
    ASSUME Safe, NEW u \in User, NEW p \in Provider, SyncAuthorize(u, p)
    PROVE  Safe'
<1>1. PICK s \in State :
        LET begun == [syncPending EXCEPT ![s] = [user |-> u, provider |-> p, age |-> 0]]
        IN  /\ \A c \in codes : c[1] # s
            /\ \A r \in Request : request[r] # Idle => request[r].state # s
            /\ syncPending' \in {begun, Swept(begun)}
            /\ codes' = codes \union {<<s, u, p>>}
            /\ UNCHANGED <<row, owner, expired, spent, request, lost, upsets>>
  BY DEF SyncAuthorize
<1>a. PICK begun : begun = [syncPending EXCEPT ![s] = [user |-> u, provider |-> p, age |-> 0]]
  OBVIOUS
<1>2. Grows /\ Grant' = Grant
  BY <1>1, Still DEF Safe
<1>3. /\ begun \in [State -> Pending \union {NoState}]
      /\ begun[s] = [user |-> u, provider |-> p, age |-> 0]
      /\ \A t \in State : t # s => begun[t] = syncPending[t]
  BY <1>a DEF Safe, TypeOK, Pending
<1>4. /\ syncPending' \in [State -> Pending \union {NoState}]
      /\ \A t \in State : syncPending'[t] \in {begun[t], NoState}
  <2>1. Swept(begun) \in [State -> Pending \union {NoState}]
    BY <1>3 DEF Swept
  <2>2. \A t \in State : Swept(begun)[t] \in {begun[t], NoState}
    BY DEF Swept
  <2>3. syncPending' \in {begun, Swept(begun)}
    BY <1>1, <1>a
  <2> QED BY <1>3, <2>1, <2>2, <2>3
<1>5. TypeOK'
  <2>1. /\ UNCHANGED <<row, owner, spent, request>> /\ codes' = codes \union {<<s, u, p>>}
    BY <1>1
  <2>2. codes' \subseteq State \X User \X Provider
    BY <2>1 DEF Safe, TypeOK
  <2> QED BY <1>2, <1>4, <2>1, <2>2 DEF Safe, TypeOK, Grows
<1>6. CodesRight'
  <2>1. ASSUME NEW c \in codes', syncPending'[c[1]] # NoState
        PROVE  syncPending'[c[1]].user = c[2] /\ syncPending'[c[1]].provider = c[3]
    <3>1. CASE c = <<s, u, p>>
      BY <1>3, <1>4, <2>1, <3>1
    <3>2. CASE c \in codes
      <4>1. c[1] \in State /\ c[1] # s
        BY <1>1, <3>2 DEF Safe, TypeOK
      <4> QED BY <1>3, <1>4, <2>1, <3>2, <4>1 DEF Safe, CodesRight
    <3> QED BY <1>1, <2>1, <3>1, <3>2
  <2> QED BY <2>1 DEF CodesRight
<1>7. RowsOwned' /\ RequestsRight'
  <2>1. \A q : OwnedBy(q) => OwnedBy(q)'
    BY <1>2, TheirsStays DEF OwnedBy
  <2>2. RowsOwned'
    BY <1>1, <1>2, TheirsStays DEF Safe, RowsOwned
  <2>3. ASSUME NEW r \in Request, Runs(r)
        PROVE  CodeRight(request[r])'
    BY <1>1, <2>3 DEF Safe, RequestsRight, CodeRight, Runs
  <2> QED BY <1>1, <2>1, <2>2, <2>3 DEF Safe, RequestsRight, Runs
<1> QED BY <1>5, <1>6, <1>7 DEF Safe

(* Every step keeps the types and the owners.                              *)
LEMMA SafeStep == Safe /\ [Next]_vars => Safe'
<1> SUFFICES ASSUME Safe, [Next]_vars PROVE Safe'
  OBVIOUS
<1>0. /\ request \in [Request -> Running \union {Idle}] /\ TypeOK
      /\ syncPending \in [State -> Pending \union {NoState}]
      /\ \A r \in Request : Runs(r) => /\ request[r] \in Running
                                       /\ OwnedBy(request[r]) /\ StepRight(request[r])
                                       /\ CodeRight(request[r])
  BY DEF Safe, TypeOK, RequestsRight, Runs
<1>a. ASSUME UNCHANGED owner
      PROVE  Grows /\ Grant' = Grant /\ \A q : OwnedBy(q) => OwnedBy(q)'
  BY <1>0, <1>a, Still, TheirsStays DEF OwnedBy
<1>b. ASSUME NEW r \in Request, request[r].step # "idle"
      PROVE  Runs(r)
  BY <1>b, IdleStep DEF Runs
<1>c. ASSUME NEW r \in Request, Ends(r) \/ Returns(r), UNCHANGED <<row, owner>>,
             spent' \subseteq Grant, codes' \subseteq codes, Returns(r) \/ UNCHANGED syncPending
      PROVE  Safe'
  <2>1. \/ syncPending' = syncPending
        \/ \E s \in State : syncPending' = [syncPending EXCEPT ![s] = NoState]
    BY <1>0, <1>c, DeletedFacts DEF Returns
  <2>2. request' = [request EXCEPT ![r] = Idle]
    BY <1>c DEF Returns, Ends, Goes
  <2> QED BY <1>a, <1>c, <2>1, <2>2, SafeMove
<1>1. ASSUME NEW u \in Active, NEW p \in Provider, SyncAuthorize(u, p)
      PROVE  Safe'
  BY <1>1, SafeAuthorize, SyncAssumption
<1>2. ASSUME NEW r \in Request, NEW u \in User, NEW s \in State, SyncCallback(r, u, s)
      PROVE  Safe'
  <2>1. UNCHANGED <<row, owner, spent, codes>> /\ request[r] = Idle /\ syncPending[s] # NoState
    BY <1>2 DEF SyncCallback
  <2>2. Grows /\ spent' \subseteq Grant'
    BY <1>0, <1>a, <2>1 DEF TypeOK
  <2>3. CASE (UNCHANGED syncPending \/ syncPending' = [syncPending EXCEPT ![s] = NoState]) /\ UNCHANGED request
    <3>1. request' = [request EXCEPT ![r] = Idle]
      BY <1>0, <2>1, <2>3
    <3> QED BY <2>1, <2>2, <2>3, <3>1, SafeMove
  <2>4. CASE /\ Begun(syncPending[s], u)
             /\ Goes(r, Started(u, syncPending[s].provider, "connect", s, "exchange"))
             /\ UNCHANGED syncPending
    <3>0. PICK p, q : p = syncPending[s].provider /\ q = Started(u, p, "connect", s, "exchange")
      OBVIOUS
    <3>1. p \in Provider /\ u = syncPending[s].user
      BY <1>0, <2>1, <2>4, <3>0 DEF Pending, Begun
    <3>2. /\ q \in Running /\ OwnedBy(q) /\ q.step = "exchange" /\ q.user = u /\ q.provider = p
          /\ q.kind = "connect" /\ q.state = s
      <4>1. /\ q.step = "exchange" /\ q.user = u /\ q.provider = p /\ q.kind = "connect" /\ q.state = s
            /\ q.grant = None /\ q.tokens = NoTokens
        BY <3>0 DEF Started
      <4>2. q \in Running
        BY <3>0, <3>1 DEF Started, Running, Step, Kind, AState, NoTokens, None
      <4> QED BY <4>1, <4>2, OwnsNothing
    <3>3. StepRight(q) /\ CodeRight(q)
      <4>1. StepRight(q)
        BY <3>2 DEF StepRight
      <4>2. CodesRight
        BY DEF Safe
      <4>3. \A c \in codes : c[1] = s => u = c[2] /\ p = c[3]
        BY <2>1, <3>0, <3>1, <4>2 DEF CodesRight
      <4> QED BY <3>2, <4>1, <4>3 DEF CodeRight
    <3>4. OwnedBy(q)'
      BY <1>a, <2>1, <3>2
    <3>5. request' = [request EXCEPT ![r] = q] /\ syncPending' = syncPending
      BY <2>4, <3>0 DEF Goes
    <3> QED BY <2>1, <2>2, <3>2, <3>3, <3>4, <3>5, SafeMove
  <2> QED BY <1>2, <2>3, <2>4 DEF SyncCallback
<1>3. ASSUME NEW r \in Request, exchange(r)
      PROVE  Safe'
  <2>0. PICK q : q = request[r]
    OBVIOUS
  <2>1. Runs(r) /\ q \in Running /\ OwnedBy(q) /\ StepRight(q) /\ CodeRight(q) /\ q.step = "exchange"
    BY <2>0, <1>0, <1>3, <1>b DEF exchange, At
  <2>2. CASE Returns(r) /\ UNCHANGED owner /\ codes' \subseteq codes
    BY <2>0, <1>0, <1>3, <1>c, <2>2 DEF exchange, TypeOK
  <2>3. ASSUME NEW c \in codes, c[1] = q.state, NewGrant(c[2], c[3]), codes' = codes \ {c},
               Goes(r, [q EXCEPT !.step = "reload", !.grant = Cardinality(Grant) + 1]),
               UNCHANGED syncPending
        PROVE  Safe'
    <3>0. PICK x : x = [q EXCEPT !.step = "reload", !.grant = Cardinality(Grant) + 1]
      OBVIOUS
    <3>1. c[2] = q.user /\ c[3] = q.provider /\ q.user \in User /\ q.provider \in Provider
      BY <2>1, <2>3 DEF CodeRight, Running
    <3>2. /\ Grows /\ Last + 1 \in Grant' /\ Last + 1 \in Nat \ {None}
          /\ owner'[Last + 1] = <<q.user, q.provider>>
      BY <1>0, <2>3, <3>1, NewGrantFacts
    <3>3. /\ x \in Running /\ x.step = "reload" /\ x.grant = Last + 1 /\ x.user = q.user
          /\ x.provider = q.provider /\ x.tokens = q.tokens /\ x.kind = q.kind /\ x.state = q.state
      BY <2>1, <3>0, <3>2 DEF Running, Step, Kind, AState, Last
    <3>4. OwnedBy(x)'
      BY <2>1, <3>2, <3>3, OwnsNew
    <3>5. StepRight(x) /\ CodeRight(x)
      BY <2>1, <3>2, <3>3 DEF StepRight, CodeRight
    <3>6. /\ request' = [request EXCEPT ![r] = x] /\ UNCHANGED <<row, spent>>
          /\ syncPending' = syncPending /\ codes' \subseteq codes
      BY <2>0, <1>3, <2>3, <3>0 DEF exchange, Goes
    <3>7. spent' \subseteq Grant'
      BY <1>0, <3>2, <3>6 DEF TypeOK, Grows
    <3> QED BY <2>0, <3>2, <3>3, <3>4, <3>5, <3>6, <3>7, SafeMove
  <2> QED BY <2>0, <1>3, <2>2, <2>3 DEF exchange
<1>4. ASSUME NEW r \in Request, NEW u \in Active, NEW p \in Provider, NEW k \in Kinds, begin(r, u, p, k)
      PROVE  Safe'
  <2>0. PICK q : q = Started(u, p, k, "", "load")
    OBVIOUS
  <2>1. /\ UNCHANGED <<row, owner, spent, codes>> /\ syncPending' = syncPending
        /\ request' = [request EXCEPT ![r] = q] /\ k # "connect"
    BY <1>4, <2>0 DEF begin, Goes
  <2>2. /\ q \in Running /\ OwnedBy(q) /\ q.step = "load" /\ q.user = u /\ q.provider = p
        /\ q.kind = k /\ q.state = ""
    <3>1. /\ q.step = "load" /\ q.user = u /\ q.provider = p /\ q.kind = k /\ q.state = ""
          /\ q.grant = None /\ q.tokens = NoTokens
      BY <2>0 DEF Started
    <3>2. q \in Running
      BY <2>0, SyncAssumption DEF Started, Running, Step, Kind, AState, NoTokens, None
    <3> QED BY <3>1, <3>2, OwnsNothing
  <2>3. StepRight(q) /\ CodeRight(q)
    <3>1. \A c \in codes : c[1] # ""
      BY <1>0, SyncAssumption DEF TypeOK
    <3> QED BY <2>1, <2>2, <3>1 DEF StepRight, CodeRight
  <2>4. Grows /\ spent' \subseteq Grant' /\ OwnedBy(q)'
    BY <1>0, <1>a, <2>1, <2>2 DEF TypeOK
  <2> QED BY <2>1, <2>2, <2>3, <2>4, SafeMove
(* A request of which nothing but the step, the tokens and the marks       *)
(* changes.                                                                *)
<1>d. ASSUME NEW r \in Request, NEW x \in Running \union {Idle}, Goes(r, x), Runs(r),
             x # Idle => OwnedBy(x) /\ StepRight(x) /\ x.user = request[r].user
                           /\ x.provider = request[r].provider /\ x.state = request[r].state,
             UNCHANGED <<row, owner, codes>>, spent' \subseteq Grant,
             UNCHANGED syncPending \/ Deleted(r)
      PROVE  Safe'
  <2>1. \/ syncPending' = syncPending
        \/ \E s \in State : syncPending' = [syncPending EXCEPT ![s] = NoState]
    BY <1>0, <1>d, DeletedFacts
  <2>2. x # Idle => OwnedBy(x)' /\ CodeRight(x)
    BY <1>0, <1>a, <1>d DEF CodeRight
  <2>3. request' = [request EXCEPT ![r] = x]
    BY <1>d DEF Goes
  <2> QED BY <1>a, <1>d, <2>1, <2>2, <2>3, SafeMove
<1>5. ASSUME NEW r \in Request, load(r)
      PROVE  Safe'
  <2>0. PICK q : q = request[r]
    OBVIOUS
  <2>1. Runs(r) /\ q \in Running /\ OwnedBy(q) /\ StepRight(q) /\ q.step = "load"
    BY <2>0, <1>0, <1>5, <1>b DEF load, At
  <2>2. UNCHANGED <<row, owner, spent, syncPending, codes>>
    BY <2>0, <1>5 DEF load
  <2>3. CASE Ends(r)
    BY <2>0, <1>0, <1>c, <2>2, <2>3 DEF TypeOK
  <2>4. ASSUME NEW answer \in Loads(q), Goes(r, Loaded(answer))
        PROVE  Safe'
    <3>1. /\ answer \in Running /\ OwnedBy(answer) /\ answer.step = "load"
          /\ answer.user = q.user /\ answer.provider = q.provider
          /\ answer.kind = q.kind /\ answer.state = q.state
      BY <2>0, <2>1, <2>4, LoadsFacts
    <3>a. PICK g, x : g = answer.tokens[answer.provider] /\ x = Loaded(answer)
      OBVIOUS
    <3>2. CASE answer.kind = "disconnect"
      <4>1. x = [answer EXCEPT !.step = "store"]
        BY <3>2, <3>a DEF Loaded
      <4>2. /\ x \in Running /\ OwnedBy(x) /\ StepRight(x)
            /\ x.user = q.user /\ x.provider = q.provider /\ x.state = q.state
        BY <2>1, <3>1, <3>2, <4>1 DEF Running, Step, Kind, AState, OwnedBy, StepRight
      <4> QED BY <2>0, <1>0, <1>d, <2>1, <2>2, <2>4, <3>a, <4>2 DEF TypeOK
    <3>3. CASE answer.kind # "disconnect" /\ g = None
      <4>1. x = Idle
        BY <3>3, <3>a DEF Loaded
      <4> QED BY <2>0, <1>0, <1>d, <2>1, <2>2, <2>4, <3>a, <4>1 DEF TypeOK
    <3>4. CASE answer.kind # "disconnect" /\ g # None
      <4>1. x = [answer EXCEPT !.grant = g, !.tokens = NoTokens,
                               !.step = IF Stale(g) THEN "refresh" ELSE "use"]
        BY <3>4, <3>a DEF Loaded
      <4>2. Theirs(g, answer.user, answer.provider) /\ g \in Nat
        BY <3>1, <3>a DEF OwnedBy, Running
      <4>3. /\ x \in Running /\ x.grant = g /\ x.tokens = NoTokens
            /\ x.user = q.user /\ x.provider = q.provider /\ x.state = q.state
            /\ x.kind = q.kind /\ x.step \in {"refresh", "use"}
        BY <3>1, <4>1, <4>2 DEF Running, Step, Kind, AState, NoTokens, None
      <4>4. OwnedBy(x) /\ StepRight(x)
        BY <2>1, <3>1, <3>4, <4>2, <4>3 DEF OwnedBy, StepRight, NoTokens, Theirs
      <4> QED BY <2>0, <1>0, <1>d, <2>1, <2>2, <2>4, <3>a, <4>3, <4>4 DEF TypeOK
    <3> QED BY <3>2, <3>3, <3>4
  <2> QED BY <2>0, <1>5, <2>3, <2>4 DEF load
<1>6. ASSUME NEW r \in Request, refresh(r)
      PROVE  Safe'
  <2>0. PICK q : q = request[r]
    OBVIOUS
  <2>1. Runs(r) /\ q \in Running /\ OwnedBy(q) /\ StepRight(q) /\ CodeRight(q) /\ q.step = "refresh"
    BY <2>0, <1>0, <1>6, <1>b DEF refresh, At
  <2>2. UNCHANGED <<row, syncPending, codes>> /\ q.grant \in Grant
    BY <2>0, <1>6, <2>1 DEF refresh, StepRight, OwnedBy, Theirs
  <2>3. CASE Goes(r, GivesUp(q)) /\ UNCHANGED owner /\ spent' \in {spent, spent \union {q.grant}}
    <3>1. /\ GivesUp(q) \in Running \union {Idle}
          /\ GivesUp(q) # Idle => /\ OwnedBy(GivesUp(q)) /\ StepRight(GivesUp(q))
                                  /\ GivesUp(q).user = q.user /\ GivesUp(q).provider = q.provider
                                  /\ GivesUp(q).state = q.state
      <4>0. PICK x : x = [q EXCEPT !.step = "use"]
        OBVIOUS
      <4>1. /\ x \in Running /\ x.step = "use" /\ x.user = q.user /\ x.provider = q.provider
            /\ x.kind = q.kind /\ x.state = q.state /\ x.grant = q.grant /\ x.tokens = q.tokens
        BY <2>1, <4>0 DEF Running, Step
      <4>2. OwnedBy(x) /\ StepRight(x)
        BY <2>1, <4>1 DEF OwnedBy, StepRight
      <4>3. GivesUp(q) \in {Idle, x}
        BY <4>0 DEF GivesUp
      <4> QED BY <4>1, <4>2, <4>3
    <3> QED BY <2>0, <1>0, <1>d, <2>1, <2>2, <2>3, <3>1 DEF TypeOK
  <2>4. CASE /\ NewGrant(q.user, q.provider) /\ spent' = spent \union {q.grant}
             /\ Goes(r, [q EXCEPT !.step = "reload", !.grant = Cardinality(Grant) + 1])
    <3>0. PICK x : x = [q EXCEPT !.step = "reload", !.grant = Cardinality(Grant) + 1]
      OBVIOUS
    <3>1. /\ Grows /\ Last + 1 \in Grant' /\ Last + 1 \in Nat \ {None}
          /\ owner'[Last + 1] = <<q.user, q.provider>>
      BY <1>0, <2>1, <2>4, NewGrantFacts DEF Running, Step, Kind, AState
    <3>2. /\ x \in Running /\ x.step = "reload" /\ x.grant = Last + 1 /\ x.user = q.user
          /\ x.provider = q.provider /\ x.tokens = q.tokens /\ x.kind = q.kind /\ x.state = q.state
      BY <2>1, <3>0, <3>1 DEF Running, Step, Kind, AState, Last
    <3>3. OwnedBy(x)'
      BY <2>1, <3>1, <3>2, OwnsNew
    <3>4. StepRight(x) /\ CodeRight(x)
      BY <2>1, <3>1, <3>2 DEF StepRight, CodeRight
    <3>5. spent' \subseteq Grant'
      BY <1>0, <2>2, <2>4, <3>1 DEF TypeOK, Grows
    <3>6. request' = [request EXCEPT ![r] = x]
      BY <2>0, <2>4, <3>0 DEF Goes
    <3> QED BY <2>0, <2>2, <3>1, <3>2, <3>3, <3>4, <3>5, <3>6, SafeMove
  <2> QED BY <2>0, <1>6, <2>3, <2>4 DEF refresh
<1>7. ASSUME NEW r \in Request, reload(r)
      PROVE  Safe'
  <2>0. PICK q : q = request[r]
    OBVIOUS
  <2>1. Runs(r) /\ q \in Running /\ OwnedBy(q) /\ StepRight(q) /\ q.step = "reload"
    BY <2>0, <1>0, <1>7, <1>b DEF reload, At
  <2>2. UNCHANGED <<row, owner, spent, codes>>
    BY <2>0, <1>7 DEF reload
  <2>3. CASE Goes(r, Done(q)) /\ Deleted(r)
    <3>1. /\ Done(q) \in Running \union {Idle}
          /\ Done(q) # Idle => /\ OwnedBy(Done(q)) /\ StepRight(Done(q)) /\ Done(q).user = q.user
                               /\ Done(q).provider = q.provider /\ Done(q).state = q.state
      BY <2>1, DoneFacts
    <3> QED BY <2>0, <1>0, <1>d, <2>1, <2>2, <2>3, <3>1 DEF TypeOK
  <2>4. ASSUME NEW answer \in Loads(q), Goes(r, Saving(answer)), UNCHANGED syncPending
        PROVE  Safe'
    <3>1. /\ answer \in Running /\ OwnedBy(answer) /\ answer.step = "reload"
          /\ answer.user = q.user /\ answer.provider = q.provider
          /\ answer.kind = q.kind /\ answer.state = q.state /\ answer.grant = q.grant
      BY <2>0, <2>1, <2>4, LoadsFacts
    <3>2. /\ Saving(answer) \in Running /\ OwnedBy(Saving(answer)) /\ StepRight(Saving(answer))
          /\ Saving(answer).user = q.user /\ Saving(answer).provider = q.provider
          /\ Saving(answer).state = q.state
      <4>0. PICK x : x = Saving(answer)
        OBVIOUS
      <4>1. /\ x \in Running /\ x.step = "store" /\ x.user = answer.user
            /\ x.provider = answer.provider /\ x.kind = answer.kind /\ x.state = answer.state
            /\ x.grant = answer.grant /\ x.tokens = answer.tokens
        BY <3>1, <4>0 DEF Saving, Running, Step
      <4>2. OwnedBy(x) /\ StepRight(x)
        BY <2>1, <3>1, <4>1 DEF OwnedBy, StepRight
      <4> QED BY <3>1, <4>0, <4>1, <4>2
    <3> QED BY <2>0, <1>0, <1>d, <2>1, <2>2, <2>4, <3>2 DEF TypeOK
  <2> QED BY <2>0, <1>7, <2>3, <2>4 DEF reload
<1>8. ASSUME NEW r \in Request, use(r)
      PROVE  Safe'
  BY <1>0, <1>8, <1>c DEF use, TypeOK
<1>9. ASSUME UNCHANGED <<row, owner, spent, syncPending, codes, request>>
      PROVE  Safe'
  BY <1>9 DEF Safe, TypeOK, RowsOwned, RequestsRight, CodesRight, OwnedBy, CodeRight, Theirs,
              Runs, Last, Grant
<1>10. CASE tick
  <2>1. /\ UNCHANGED <<row, owner, spent, codes, request>>
        /\ syncPending' = [s \in State |->
             IF syncPending[s] = NoState \/ syncPending[s].age > TTL THEN syncPending[s]
             ELSE [syncPending[s] EXCEPT !.age = @ + 1]]
    BY <1>10 DEF tick
  <2>2. ASSUME NEW s \in State
        PROVE  /\ syncPending'[s] \in Pending \union {NoState}
               /\ syncPending[s] = NoState => syncPending'[s] = NoState
               /\ syncPending'[s].user = syncPending[s].user
               /\ syncPending'[s].provider = syncPending[s].provider
    <3>0. PICK a, b : a = syncPending[s] /\ b = syncPending'[s]
      OBVIOUS
    <3>1. CASE b = a
      BY <1>0, <3>0, <3>1
    <3>2. CASE a # NoState /\ b = [a EXCEPT !.age = @ + 1]
      <4>1. a \in Pending
        BY <1>0, <3>0, <3>2
      <4>2. b.user = a.user /\ b.provider = a.provider
        BY <3>2, <4>1 DEF Pending
      <4>3. PICK n \in Nat : n = a.age + 1
        <5>1. a.age \in Nat
          BY <4>1 DEF Pending
        <5> QED BY <5>1
      <4>4. b = [user |-> a.user, provider |-> a.provider, age |-> n]
        BY <3>2, <4>1, <4>3 DEF Pending
      <4>5. b \in Pending
        BY <4>1, <4>4 DEF Pending
      <4> QED BY <3>0, <3>2, <4>2, <4>5
    <3> QED BY <2>1, <3>0, <3>1, <3>2
  <2>3. CodesRight'
    BY <1>0, <2>1, <2>2 DEF Safe, TypeOK, CodesRight
  <2>4. TypeOK'
    <3>1. syncPending' \in [State -> Pending \union {NoState}]
      BY <2>1, <2>2
    <3> QED BY <1>0, <2>1, <3>1 DEF TypeOK, Last, Grant
  <2>5. RowsOwned' /\ RequestsRight'
    BY <2>1 DEF Safe, RowsOwned, RequestsRight, OwnedBy, CodeRight, Theirs, Runs, Grant
  <2> QED BY <2>3, <2>4, <2>5 DEF Safe
<1>11. CASE restart
  <2>1. /\ UNCHANGED <<row, owner, spent, codes>>
        /\ syncPending' = [s \in State |-> NoState] /\ request' = [r \in Request |-> Idle]
    BY <1>11 DEF restart
  <2>2. TypeOK'
    BY <1>0, <2>1 DEF TypeOK, Last, Grant
  <2>3. RowsOwned'
    BY <2>1 DEF Safe, RowsOwned, Theirs, Grant
  <2>4. \A c \in codes : c[1] \in State
    BY <1>0 DEF TypeOK
  <2> QED BY <2>1, <2>2, <2>3, <2>4 DEF Safe, RequestsRight, CodesRight, Runs
<1>12. ASSUME NEW g \in Grant, expire(g)
       PROVE  Safe'
  BY <1>9, <1>12 DEF expire
<1>13. CASE UNCHANGED vars
  BY <1>9, <1>13 DEF vars
<1> QED BY <1>1, <1>2, <1>3, <1>4, <1>5, <1>6, <1>7, <1>8, <1>10, <1>11, <1>12, <1>13, SafeStore
        DEF Next

-----------------------------------------------------------------------------
(* What the move of a request, from request[r] to x, does to the grants.   *)
(* KnownToken: x has this token from the row, or from what it had read.    *)
KnownToken(g, r) ==
    \/ g = None
    \/ \E u \in User, p \in Provider : g = row[u][p]
    \/ Runs(r) /\ \E p \in Provider : g = request[r].tokens[p]

KnownGrant(g, r) == KnownToken(g, r) \/ (Runs(r) /\ g = request[r].grant)
Fresh(g)         == g # None /\ g \notin Grant
ToSave(q)       == q.step \in {"reload", "store"} /\ q.kind # "disconnect"

GrantsMoved(r, x) ==
    /\ spent' \ spent \subseteq {request[r].grant} /\ (spent' # spent => Runs(r) /\ ~Saves(r))
    /\ x # Idle =>
        /\ KnownGrant(x.grant, r) \/ Fresh(x.grant)
        /\ \A p \in Provider : KnownToken(x.tokens[p], r)
        /\ x.step = "store" => x.stale \/ x.unread \/ x.tokens = row[x.user]
        /\ ToSave(x) => Fresh(x.grant) \/ (Saves(r) /\ x.grant = request[r].grant)

(* All that is kept anywhere has been given out.                           *)
LEMMA GivenOut ==
    ASSUME Safe
    PROVE  /\ spent \subseteq Grant /\ None \notin Grant
           /\ \A u \in User, p \in Provider : ~Fresh(row[u][p])
           /\ \A r \in Request : Runs(r) =>
                 ~Fresh(request[r].grant) /\ \A p \in Provider : ~Fresh(request[r].tokens[p])
<1>1. spent \subseteq Grant /\ Grant = 1 .. Last /\ Last \in Nat
  BY DEF Safe, TypeOK, Grant
<1>2. None \notin Grant
  BY <1>1 DEF None
<1>3. \A g, u, p : Theirs(g, u, p) => ~Fresh(g)
  BY DEF Theirs, Fresh
<1>4. \A u \in User, p \in Provider : ~Fresh(row[u][p])
  BY <1>3 DEF Safe, RowsOwned
<1>5. \A r \in Request : Runs(r) =>
         ~Fresh(request[r].grant) /\ \A p \in Provider : ~Fresh(request[r].tokens[p])
  BY <1>3 DEF Safe, RequestsRight, OwnedBy
<1> QED BY <1>1, <1>2, <1>4, <1>5

(* Nobody knows the grant that another request is about to save.           *)
LEMMA NotKnown ==
    ASSUME Safe, Private, NEW y \in Request, Saves(y), NEW r \in Request, NEW g
    PROVE  /\ KnownToken(g, r) => g # request[y].grant
           /\ KnownGrant(g, r) /\ r # y => g # request[y].grant
<1>1. request[y].grant # None
  BY DEF Safe, RequestsRight, StepRight, Saves
<1>2. /\ \A u \in User, p \in Provider : row[u][p] # request[y].grant
      /\ Runs(r) => /\ r # y => request[r].grant # request[y].grant
                    /\ \A p \in Provider : request[r].tokens[p] # request[y].grant
  BY DEF Private
<1> QED BY <1>1, <1>2 DEF KnownToken, KnownGrant

(* A move keeps what is about to be saved private.                         *)
LEMMA PrivateMove ==
    ASSUME Safe, Private, NEW r \in Request, NEW x,
           request' = [request EXCEPT ![r] = x], row' = row, GrantsMoved(r, x)
    PROVE  Private'
<1>0. /\ request'[r] = x /\ \A y \in Request : y # r => request'[y] = request[y]
  BY DEF Safe, TypeOK
<1>1. ASSUME NEW y \in Request, Saves(y)'
      PROVE  /\ request'[y].grant \notin spent'
             /\ \A u \in User, p \in Provider : row'[u][p] # request'[y].grant
             /\ \A z \in Request : Runs(z)' =>
                   /\ z # y => request'[z].grant # request'[y].grant
                   /\ \A v \in Provider : request'[z].tokens[v] # request'[y].grant
  <2>1. CASE y = r
    <3>1. x # Idle /\ ToSave(x)
      BY <1>0, <1>1, <2>1 DEF Saves, Runs, ToSave
    <3>2. CASE Fresh(x.grant)
      <4>1. spent' \subseteq spent \union {request[r].grant} /\ (spent' = spent \/ Runs(r))
        BY DEF GrantsMoved
      <4>2. x.grant \notin spent'
        BY <3>2, <4>1, GivenOut DEF Fresh
      <4>3. \A u \in User, p \in Provider : row[u][p] # x.grant
        BY <3>2, GivenOut
      <4>4. \A z \in Request \ {r} : Runs(z)' =>
              request[z].grant # x.grant /\ \A v \in Provider : request[z].tokens[v] # x.grant
        BY <1>0, <1>1, <3>2, GivenOut DEF Runs
      <4>5. \A v \in Provider : x.tokens[v] # x.grant
        BY <3>1, <3>2, GivenOut DEF GrantsMoved, KnownToken, Fresh
      <4> QED BY <1>0, <2>1, <4>2, <4>3, <4>4, <4>5
    <3>3. CASE Saves(r) /\ x.grant = request[r].grant
      <4>1. spent' = spent /\ x.grant \notin spent
        BY <3>3 DEF GrantsMoved, Private
      <4>2. \A u \in User, p \in Provider : row[u][p] # x.grant
        BY <3>3 DEF Private
      <4>3. \A z \in Request \ {r} : Runs(z)' =>
              request[z].grant # x.grant /\ \A v \in Provider : request[z].tokens[v] # x.grant
        BY <1>0, <1>1, <3>3 DEF Private, Runs
      <4>4. \A v \in Provider : x.tokens[v] # x.grant
        BY <3>1, <3>3, NotKnown DEF GrantsMoved
      <4> QED BY <1>0, <2>1, <4>1, <4>2, <4>3, <4>4
    <3> QED BY <3>1, <3>2, <3>3 DEF GrantsMoved
  <2>2. CASE y # r
    <3>1. Saves(y) /\ request'[y] = request[y]
      BY <1>0, <1>1, <2>2 DEF Saves, Runs
    <3>2. /\ request[y].grant \notin spent /\ \A u \in User, p \in Provider : row[u][p] # request[y].grant
          /\ Runs(r) => request[r].grant # request[y].grant
      BY <2>2, <3>1 DEF Private
    <3>3. request[y].grant \notin spent'
      BY <3>2 DEF GrantsMoved
    <3>4. ASSUME Runs(r)'
          PROVE  x.grant # request[y].grant /\ \A v \in Provider : x.tokens[v] # request[y].grant
      <4>1. ~Fresh(request[y].grant)
        BY <3>1, GivenOut DEF Saves
      <4> QED BY <1>0, <2>2, <3>1, <3>4, <4>1, NotKnown DEF GrantsMoved, Runs
    <3>5. \A z \in Request \ {r} : Runs(z)' =>
             /\ z # y => request[z].grant # request[y].grant
             /\ \A v \in Provider : request[z].tokens[v] # request[y].grant
      BY <1>0, <3>1 DEF Private, Runs
    <3> QED BY <1>0, <2>2, <3>1, <3>2, <3>3, <3>4, <3>5
  <2> QED BY <2>1, <2>2
<1> QED BY <1>1 DEF Private

(* A move keeps what is about to be stored as it was read.                 *)
LEMMA ReadMove ==
    ASSUME Safe, ReadAsIs, NEW r \in Request, NEW x,
           request' = [request EXCEPT ![r] = x], row' = row, GrantsMoved(r, x)
    PROVE  ReadAsIs'
<1>1. request'[r] = x /\ \A y \in Request : y # r => request'[y] = request[y]
  BY DEF Safe, TypeOK
<1> QED BY <1>1 DEF ReadAsIs, GrantsMoved, Runs

(* What it does to the connections: nobody leaves between a refresh and    *)
(* its save, and no refresh token is spent, but for a save to come.        *)
InSave(q) == q.step \in {"reload", "store"}

ConnectionsMoved(r, x) ==
    /\ lost' \in BOOLEAN /\ (lost => lost')
    /\ ~lost' /\ Runs(r) /\ InSave(request[r]) =>
          x # Idle /\ InSave(x) /\ x.user = request[r].user /\ x.provider = request[r].provider
    /\ ~lost' /\ spent' # spent =>
          /\ Runs(r) /\ spent' = spent \union {request[r].grant} /\ request[r].grant # None
          /\ x # Idle /\ InSave(x) /\ x.user = request[r].user /\ x.provider = request[r].provider

(* Such a move keeps the connections.                                      *)
LEMMA ConnectedMove ==
    ASSUME Safe, StaysConnected, NEW r \in Request, NEW x,
           request' = [request EXCEPT ![r] = x], row' = row, ConnectionsMoved(r, x)
    PROVE  StaysConnected'
<1>1. request'[r] = x /\ \A y \in Request : y # r => request'[y] = request[y]
  BY DEF Safe, TypeOK
<1>2. ASSUME ~lost', NEW u \in User, NEW p \in Provider, row[u][p] \in spent'
      PROVE  \E y \in Request : /\ request'[y] # Idle /\ InSave(request'[y])
                                /\ request'[y].user = u /\ request'[y].provider = p
  <2>1. CASE row[u][p] \in spent
    <3>1. PICK y \in Request : /\ Runs(y) /\ InSave(request[y])
                               /\ request[y].user = u /\ request[y].provider = p
      BY <1>2, <2>1 DEF ConnectionsMoved, StaysConnected, Runs, InSave
    <3>2. CASE y = r
      BY <1>1, <1>2, <3>1, <3>2 DEF ConnectionsMoved
    <3>3. CASE y # r
      BY <1>1, <3>1, <3>3 DEF Runs
    <3> QED BY <3>2, <3>3
  <2>2. CASE row[u][p] \notin spent
    <3>1. /\ Runs(r) /\ row[u][p] = request[r].grant /\ request[r].grant # None
          /\ x # Idle /\ InSave(x) /\ x.user = request[r].user /\ x.provider = request[r].provider
      BY <1>2, <2>2 DEF ConnectionsMoved
    <3>2. Theirs(row[u][p], u, p) /\ Theirs(request[r].grant, request[r].user, request[r].provider)
      BY <3>1 DEF Safe, RowsOwned, RequestsRight, OwnedBy
    <3>3. <<u, p>> = <<request[r].user, request[r].provider>>
      BY <3>1, <3>2 DEF Theirs
    <3> QED BY <1>1, <3>1, <3>3
  <2> QED BY <2>1, <2>2
<1> QED BY <1>2 DEF StaysConnected, InSave

(* What it does to the handshakes: whoever uses up a code, or leaves,      *)
(* takes its state along.                                                  *)
StatesMoved(r, x) ==
    /\ \A t \in State : syncPending'[t] # NoState => syncPending[t] # NoState
    /\ codes' \subseteq codes
    /\ \A c \in codes \ codes' : Runs(r) /\ c[1] = request[r].state
    /\ Runs(r) /\ request[r].state \in State =>
          \/ x # Idle /\ x.state = request[r].state
          \/ syncPending'[request[r].state] = NoState

(* Such a move keeps the states that are pending justified.                *)
LEMMA StatesMove ==
    ASSUME Safe, StatesEnd, NEW r \in Request, NEW x,
           request' = [request EXCEPT ![r] = x], StatesMoved(r, x)
    PROVE  StatesEnd'
<1>1. request'[r] = x /\ \A y \in Request : y # r => request'[y] = request[y]
  BY DEF Safe, TypeOK
<1>2. ASSUME NEW t \in State, syncPending'[t] # NoState, \A c \in codes' : c[1] # t
      PROVE  \E y \in Request : request'[y] # Idle /\ request'[y].state = t
  <2>1. PICK y \in Request : Runs(y) /\ request[y].state = t
    <3>1. CASE \A c \in codes : c[1] # t
      BY <1>2, <3>1 DEF StatesMoved, StatesEnd, Runs
    <3>2. CASE \E c \in codes : c[1] = t
      BY <1>2, <3>2 DEF StatesMoved
    <3> QED BY <3>1, <3>2
  <2>2. CASE y = r
    BY <1>1, <1>2, <2>1, <2>2 DEF StatesMoved
  <2>3. CASE y # r
    BY <1>1, <2>1, <2>3 DEF Runs
  <2> QED BY <2>2, <2>3
<1> QED BY <1>2 DEF StatesEnd

(* The rest of the invariant, over one move.                               *)
LEMMA RestMove ==
    ASSUME Safe, Rest, NEW r \in Request, NEW x,
           request' = [request EXCEPT ![r] = x], row' = row,
           GrantsMoved(r, x), ConnectionsMoved(r, x), StatesMoved(r, x)
    PROVE  Rest'
<1>1. Private' /\ ReadAsIs'
  BY PrivateMove, ReadMove DEF Rest
<1>2. StaysConnected' /\ StatesEnd'
  BY ConnectedMove, StatesMove DEF Rest
<1> QED BY <1>1, <1>2 DEF Rest, LostType, ConnectionsMoved

(* A handshake begins: a state is pending only with its code on the way.   *)
LEMMA RestAuthorize ==
    ASSUME Safe, Rest, NEW u \in User, NEW p \in Provider, SyncAuthorize(u, p)
    PROVE  Rest'
<1>1. PICK s \in State :
        LET begun == [syncPending EXCEPT ![s] = [user |-> u, provider |-> p, age |-> 0]]
        IN  /\ syncPending' \in {begun, Swept(begun)}
            /\ codes' = codes \union {<<s, u, p>>}
            /\ UNCHANGED <<row, owner, expired, spent, request, lost, upsets>>
  BY DEF SyncAuthorize
<1>2. Private' /\ ReadAsIs' /\ LostType' /\ StaysConnected'
  BY <1>1 DEF Rest, Private, ReadAsIs, LostType, StaysConnected, Saves, Runs
<1>3. PICK begun : begun = [syncPending EXCEPT ![s] = [user |-> u, provider |-> p, age |-> 0]]
  OBVIOUS
<1>4. \A t \in State : t # s => begun[t] = syncPending[t]
  BY <1>3 DEF Safe, TypeOK
<1>5. \A t \in State : syncPending'[t] \in {begun[t], NoState}
  BY <1>1, <1>3 DEF Swept
<1>6. ASSUME NEW t \in State, syncPending'[t] # NoState, \A c \in codes' : c[1] # t
      PROVE  syncPending[t] # NoState /\ \A c \in codes : c[1] # t
  <2>1. t # s
    <3>1. <<s, u, p>> \in codes' /\ <<s, u, p>>[1] = s
      BY <1>1
    <3> QED BY <1>6, <3>1
  <2> QED BY <1>1, <1>4, <1>5, <1>6, <2>1
<1>7. StatesEnd'
  BY <1>1, <1>6 DEF Rest, StatesEnd
<1> QED BY <1>2, <1>7 DEF Rest

(* What has been loaded comes from the row, or was there.                  *)
LEMMA LoadsTokens ==
    ASSUME Safe, NEW r \in Request, Runs(r), NEW q \in Running, q = request[r],
           NEW answer \in Loads(q), NEW p \in Provider
    PROVE  KnownToken(answer.tokens[p], r)
<1>1. q.user \in User
  BY DEF Running
<1>2. answer.tokens \in {row[q.user], q.tokens}
  BY DEF Loads, Read, Unread, Running
<1> QED BY <1>1, <1>2 DEF KnownToken

(* A save that fails is over, and counts as lost.                          *)
LEMMA DoneMoves ==
    ASSUME Safe, Rest, NEW r \in Request, Runs(r), NEW q, q = request[r], InSave(q),
           Goes(r, Done(q)), Deleted(r), lost' = TRUE, UNCHANGED <<row, spent, codes>>
    PROVE  Rest'
<1>0. /\ q \in Running /\ OwnedBy(q) /\ StepRight(q)
      /\ syncPending \in [State -> Pending \union {NoState}]
  BY DEF Safe, TypeOK, RequestsRight, Runs
<1>1. q.state \in State => q.kind = "connect"
  BY <1>0, SyncAssumption DEF StepRight
<1>2. PICK x : x = Done(q)
  OBVIOUS
<1>3. /\ x # Idle => /\ x.step = "use" /\ x.state = q.state /\ x.grant = q.grant
                     /\ x.tokens = NoTokens
      /\ q.kind = "connect" => x = Idle
  BY <1>0, <1>2, DoneFacts
<1>4. GrantsMoved(r, x)
  BY <1>3 DEF GrantsMoved, KnownGrant, KnownToken, NoTokens, ToSave
<1>5. ConnectionsMoved(r, x)
  BY DEF ConnectionsMoved
<1>6. StatesMoved(r, x)
  <2>1. CASE q.kind = "connect"
    <3>1. syncPending' = [syncPending EXCEPT ![q.state] = NoState]
      BY <2>1 DEF Deleted
    <3> QED BY <1>0, <3>1 DEF StatesMoved
  <2>2. CASE q.kind # "connect"
    <3>1. syncPending' = syncPending
      BY <2>2 DEF Deleted
    <3> QED BY <1>1, <2>2, <3>1 DEF StatesMoved
  <2> QED BY <2>1, <2>2
<1>7. request' = [request EXCEPT ![r] = x]
  BY <1>2 DEF Goes
<1> QED BY <1>4, <1>5, <1>6, <1>7, RestMove

(* The step of a request that has begun and does not store.                *)
LEMMA RestStep1 ==
    ASSUME Safe, Rest, NEW r \in Request,
           exchange(r) \/ load(r) \/ refresh(r) \/ reload(r) \/ use(r)
    PROVE  Rest'
<1>q. PICK q : q = request[r]
  OBVIOUS
<1>0. /\ Runs(r) /\ q \in Running /\ OwnedBy(q) /\ StepRight(q) /\ UNCHANGED row
      /\ syncPending \in [State -> Pending \union {NoState}] /\ lost \in BOOLEAN
      /\ q # Idle
  <2>1. request[r].step # "idle"
    BY DEF exchange, load, refresh, reload, use, At
  <2>2. Runs(r)
    BY <2>1, IdleStep DEF Runs
  <2>3. UNCHANGED row
    BY DEF exchange, load, refresh, reload, use
  <2> QED BY <1>q, <2>2, <2>3 DEF Safe, TypeOK, RequestsRight, Runs, Rest, LostType
<1>1. q.state \in State => q.kind = "connect"
  BY <1>0, SyncAssumption DEF StepRight
(* The request ends here.                                                  *)
<1>a. ASSUME Ends(r), spent' = spent, codes' \subseteq codes,
             \A c \in codes \ codes' : c[1] = q.state,
             Deleted(r) \/ (UNCHANGED syncPending /\ q.kind # "connect"),
             lost' \in BOOLEAN, lost => lost', lost' \/ ~InSave(q)
      PROVE  Rest'
  <2>1. request' = [request EXCEPT ![r] = Idle]
    BY <1>a DEF Ends, Goes
  <2>2. GrantsMoved(r, Idle)
    BY <1>a DEF GrantsMoved
  <2>3. ConnectionsMoved(r, Idle)
    BY <1>a, <1>0, <1>q DEF ConnectionsMoved
  <2>4. StatesMoved(r, Idle)
    <3>1. CASE q.kind = "connect" /\ Deleted(r)
      <4>1. syncPending' = [syncPending EXCEPT ![q.state] = NoState]
        BY <3>1, <1>q DEF Deleted
      <4> QED BY <1>0, <1>a, <1>q, <4>1 DEF StatesMoved
    <3>2. CASE q.kind # "connect"
      <4>1. syncPending' = syncPending
        BY <3>2, <1>q, <1>a DEF Deleted
      <4> QED BY <1>0, <1>1, <1>a, <1>q, <3>2, <4>1 DEF StatesMoved
    <3> QED BY <3>1, <3>2, <1>a
  <2> QED BY <1>0, <2>1, <2>2, <2>3, <2>4, RestMove
(* It goes on, with the same state.                                        *)
<1>b. ASSUME NEW x, Goes(r, x), x # Idle, x.state = q.state, GrantsMoved(r, x),
             ConnectionsMoved(r, x), codes' \subseteq codes,
             \A c \in codes \ codes' : c[1] = q.state, UNCHANGED syncPending
      PROVE  Rest'
  <2>1. StatesMoved(r, x)
    BY <1>0, <1>b, <1>q DEF StatesMoved
  <2>2. request' = [request EXCEPT ![r] = x]
    BY <1>b DEF Goes
  <2> QED BY <1>0, <1>b, <2>1, <2>2, RestMove
<1>2. CASE exchange(r)
  <2>1. q.step = "exchange" /\ UNCHANGED <<spent, lost>> /\ ~InSave(q)
    BY <1>2, <1>q DEF exchange, At, InSave
  <2>2. q.kind = "connect"
    BY <1>0, <2>1 DEF StepRight
  <2>3. CASE Returns(r) /\ (codes' = codes \/ codes' = {c \in codes : c[1] # q.state})
    BY <1>0, <1>a, <2>1, <2>3 DEF Returns
  <2>4. ASSUME NEW c \in codes, c[1] = q.state, NewGrant(c[2], c[3]), codes' = codes \ {c},
               Goes(r, [q EXCEPT !.step = "reload", !.grant = Cardinality(Grant) + 1]),
               UNCHANGED syncPending
        PROVE  Rest'
    <3>0. PICK x : x = [q EXCEPT !.step = "reload", !.grant = Cardinality(Grant) + 1]
      OBVIOUS
    <3>1. Fresh(Last + 1)
      <4>1. q.user \in User /\ q.provider \in Provider
        BY <1>0 DEF Running
      <4>2. c[2] \in User /\ c[3] \in Provider
        BY DEF Safe, TypeOK
      <4> QED BY <2>4, <4>2, NewGrantFacts DEF Safe, Fresh
    <3>2. /\ x # Idle /\ x.step = "reload" /\ x.grant = Last + 1 /\ x.tokens = q.tokens
          /\ x.state = q.state /\ x.user = q.user /\ x.provider = q.provider
      BY <1>0, <3>0, IdleStep DEF Running, Step, Last
    <3>3. GrantsMoved(r, x)
      BY <1>0, <1>q, <2>1, <3>1, <3>2 DEF GrantsMoved, KnownToken
    <3>4. ConnectionsMoved(r, x)
      BY <1>0, <1>q, <2>1, <3>2 DEF ConnectionsMoved
    <3> QED BY <1>b, <2>4, <3>0, <3>2, <3>3, <3>4
  <2> QED BY <1>2, <1>q, <2>3, <2>4 DEF exchange
<1>3. CASE load(r)
  <2>1. q.step = "load" /\ UNCHANGED <<spent, lost, syncPending, codes>> /\ ~InSave(q)
    BY <1>3, <1>q DEF load, At, InSave
  <2>2. q.kind # "connect"
    BY <1>0, <2>1 DEF StepRight
  <2>3. CASE Ends(r)
    BY <1>0, <1>a, <2>1, <2>2, <2>3
  <2>4. ASSUME NEW answer \in Loads(q), Goes(r, Loaded(answer))
        PROVE  Rest'
    <3>1. /\ answer \in Running /\ answer.step = "load" /\ answer.user = q.user
          /\ answer.provider = q.provider /\ answer.state = q.state /\ answer.grant = q.grant
          /\ answer.unread \/ answer.tokens = row[q.user]
      BY <1>0, <2>1, <2>4, LoadsFacts
    <3>2. \A p \in Provider : KnownToken(answer.tokens[p], r)
      BY <1>0, <1>q, <2>4, LoadsTokens
    <3>a. PICK g, x : g = answer.tokens[answer.provider] /\ x = Loaded(answer)
      OBVIOUS
    <3>3. CASE answer.kind = "disconnect"
      <4>1. x = [answer EXCEPT !.step = "store"]
        BY <3>3, <3>a DEF Loaded
      <4>2. /\ x # Idle /\ x.step = "store" /\ x.kind = "disconnect" /\ x.user = q.user
            /\ x.provider = q.provider /\ x.state = q.state /\ x.grant = q.grant
            /\ x.tokens = answer.tokens /\ x.unread = answer.unread
        BY <3>1, <3>3, <4>1, IdleStep DEF Running, Step
      <4>3. GrantsMoved(r, x)
        BY <1>0, <1>q, <2>1, <3>1, <3>2, <4>2 DEF GrantsMoved, KnownGrant, ToSave
      <4>4. ConnectionsMoved(r, x)
        BY <1>0, <1>q, <2>1 DEF ConnectionsMoved
      <4> QED BY <1>b, <2>1, <2>4, <3>a, <4>2, <4>3, <4>4
    <3>4. CASE answer.kind # "disconnect" /\ g = None
      <4>1. x = Idle
        BY <3>4, <3>a DEF Loaded
      <4> QED BY <1>0, <1>a, <2>1, <2>2, <2>4, <3>a, <4>1 DEF Ends
    <3>5. CASE answer.kind # "disconnect" /\ g # None
      <4>1. x = [answer EXCEPT !.grant = g, !.tokens = NoTokens,
                               !.step = IF Stale(g) THEN "refresh" ELSE "use"]
        BY <3>5, <3>a DEF Loaded
      <4>2. /\ x # Idle /\ x.step \in {"refresh", "use"} /\ x.user = q.user
            /\ x.provider = q.provider /\ x.state = q.state /\ x.grant = g
            /\ x.tokens = NoTokens
        BY <3>1, <3>5, <4>1, IdleStep DEF Running, Step
      <4>3. KnownToken(g, r) /\ \A p \in Provider : KnownToken(x.tokens[p], r)
        <5>1. answer.provider \in Provider
          BY <3>1 DEF Running
        <5> QED BY <3>2, <3>a, <4>2, <5>1 DEF KnownToken, NoTokens
      <4>4. GrantsMoved(r, x)
        BY <1>0, <1>q, <2>1, <4>2, <4>3 DEF GrantsMoved, KnownGrant, ToSave
      <4>5. ConnectionsMoved(r, x)
        BY <1>0, <1>q, <2>1 DEF ConnectionsMoved
      <4> QED BY <1>b, <2>1, <2>4, <3>a, <4>2, <4>4, <4>5
    <3> QED BY <3>3, <3>4, <3>5
  <2> QED BY <1>3, <1>q, <2>3, <2>4 DEF load
<1>4. CASE refresh(r)
  <2>1. /\ q.step = "refresh" /\ UNCHANGED <<syncPending, codes>> /\ ~InSave(q) /\ ~Saves(r)
        /\ q.kind # "connect" /\ q.grant # None
    BY <1>0, <1>4, <1>q DEF refresh, At, InSave, Saves, StepRight
  <2>2. CASE /\ Goes(r, GivesUp(q)) /\ spent' \in {spent, spent \union {q.grant}}
             /\ lost' = (lost \/ spent' # spent)
    <3>0. PICK x : x = [q EXCEPT !.step = "use"]
      OBVIOUS
    <3>1. /\ x # Idle /\ x.step = "use" /\ x.user = q.user /\ x.provider = q.provider
          /\ x.kind = q.kind /\ x.state = q.state /\ x.grant = q.grant /\ x.tokens = q.tokens
      BY <1>0, <3>0, IdleStep DEF Running, Step
    <3>2. GrantsMoved(r, x) /\ GrantsMoved(r, Idle)
      BY <1>0, <1>q, <2>1, <2>2, <3>1 DEF GrantsMoved, KnownGrant, KnownToken, ToSave
    <3>3. lost' \in BOOLEAN /\ (lost => lost') /\ (~lost' => spent' = spent)
      BY <1>0, <2>2
    <3>4. ConnectionsMoved(r, x) /\ ConnectionsMoved(r, Idle)
      BY <1>0, <1>q, <2>1, <3>3 DEF ConnectionsMoved
    <3>5. StatesMoved(r, x) /\ StatesMoved(r, Idle)
      BY <1>0, <1>1, <1>q, <2>1, <3>1 DEF StatesMoved
    <3>6. request' = [request EXCEPT ![r] = x] \/ request' = [request EXCEPT ![r] = Idle]
      BY <2>2, <3>0 DEF GivesUp, Goes
    <3> QED BY <1>0, <3>2, <3>4, <3>5, <3>6, RestMove
  <2>3. CASE /\ NewGrant(q.user, q.provider) /\ spent' = spent \union {q.grant} /\ UNCHANGED lost
             /\ Goes(r, [q EXCEPT !.step = "reload", !.grant = Cardinality(Grant) + 1])
    <3>0. PICK x : x = [q EXCEPT !.step = "reload", !.grant = Cardinality(Grant) + 1]
      OBVIOUS
    <3>1. Fresh(Last + 1)
      BY <1>0, <2>3, NewGrantFacts DEF Safe, Fresh, Running
    <3>2. /\ x # Idle /\ x.step = "reload" /\ x.grant = Last + 1 /\ x.tokens = q.tokens
          /\ x.state = q.state /\ x.user = q.user /\ x.provider = q.provider
      BY <1>0, <3>0, IdleStep DEF Running, Step, Last
    <3>3. GrantsMoved(r, x)
      BY <1>0, <1>q, <2>1, <2>3, <3>1, <3>2 DEF GrantsMoved, KnownToken
    <3>4. ConnectionsMoved(r, x)
      BY <1>0, <1>q, <2>1, <2>3, <3>2 DEF ConnectionsMoved, InSave
    <3> QED BY <1>b, <2>1, <2>3, <3>0, <3>2, <3>3, <3>4
  <2> QED BY <1>0, <1>4, <1>q, <2>2, <2>3 DEF refresh
<1>5. CASE reload(r)
  <2>1. q.step = "reload" /\ UNCHANGED <<spent, codes>>
    BY <1>5, <1>q DEF reload, At
  <2>2. CASE Goes(r, Done(q)) /\ Deleted(r) /\ lost' = TRUE
    <3>1. InSave(q)
      BY <2>1 DEF InSave
    <3> QED BY <1>0, <1>q, <2>1, <2>2, <3>1, DoneMoves
  <2>3. ASSUME NEW answer \in Loads(q), Goes(r, Saving(answer)), UNCHANGED <<syncPending, lost>>
        PROVE  Rest'
    <3>1. /\ answer \in Running /\ answer.step = "reload" /\ answer.user = q.user
          /\ answer.provider = q.provider /\ answer.state = q.state /\ answer.grant = q.grant
          /\ answer.kind = q.kind /\ (answer.unread \/ answer.tokens = row[q.user])
      BY <1>0, <2>1, <2>3, LoadsFacts
    <3>2. \A p \in Provider : KnownToken(answer.tokens[p], r)
      BY <1>0, <1>q, <2>3, LoadsTokens
    <3>0. PICK x : x = Saving(answer)
      OBVIOUS
    <3>3. /\ x # Idle /\ x.step = "store" /\ x.user = q.user /\ x.provider = q.provider
          /\ x.state = q.state /\ x.grant = q.grant /\ x.kind = q.kind
          /\ x.tokens = answer.tokens /\ x.unread = answer.unread
      BY <3>0, <3>1, IdleStep DEF Saving, Running, Step
    <3>4. GrantsMoved(r, x)
      BY <1>0, <1>q, <2>1, <3>1, <3>2, <3>3 DEF GrantsMoved, KnownGrant, ToSave, Saves
    <3>5. ConnectionsMoved(r, x)
      BY <1>0, <1>q, <2>1, <2>3, <3>3 DEF ConnectionsMoved, InSave
    <3> QED BY <1>b, <2>1, <2>3, <3>0, <3>3, <3>4, <3>5
  <2> QED BY <1>5, <1>q, <2>2, <2>3 DEF reload
<1>6. CASE use(r)
  <2>1. q.step = "use" /\ Ends(r) /\ UNCHANGED <<spent, codes, lost, syncPending>>
    BY <1>6, <1>q DEF use, At
  <2>2. q.kind # "connect" /\ ~InSave(q)
    BY <1>0, <2>1 DEF StepRight, InSave
  <2> QED BY <1>0, <1>a, <2>1, <2>2
<1> QED BY <1>2, <1>3, <1>4, <1>5, <1>6

(* The store: the grants that come into the row are the request's, and     *)
(* whoever has loaded the row before is told apart by its mark.            *)
LEMMA RestStore ==
    ASSUME Safe, Rest, NEW r \in Request, storeSyncTokens(r)
    PROVE  Rest'
<1>q. PICK q : q = request[r]
  OBVIOUS
<1>1. q.step = "store" /\ Deleted(r) /\ UNCHANGED <<owner, spent, codes>>
  BY <1>q DEF storeSyncTokens, At
<1>0. /\ Runs(r) /\ q \in Running /\ OwnedBy(q) /\ StepRight(q) /\ InSave(q)
      /\ syncPending \in [State -> Pending \union {NoState}] /\ lost \in BOOLEAN
      /\ request \in [Request -> Running \union {Idle}]
  <2>1. Runs(r)
    BY <1>1, <1>q, IdleStep DEF Runs
  <2>2. /\ syncPending \in [State -> Pending \union {NoState}] /\ lost \in BOOLEAN
        /\ request \in [Request -> Running \union {Idle}]
    BY DEF Safe, TypeOK, Rest, LostType
  <2>3. OwnedBy(q) /\ StepRight(q)
    BY <1>q, <2>1 DEF Safe, RequestsRight
  <2>4. InSave(q)
    BY <1>1 DEF InSave
  <2> QED BY <1>q, <2>1, <2>2, <2>3, <2>4 DEF Runs
<1>2. CASE lost' = TRUE /\ Goes(r, Done(q)) /\ UNCHANGED row
  BY <1>0, <1>1, <1>2, <1>q, DoneMoves
<1>3. CASE /\ row' = [row EXCEPT ![q.user] = Saved(q)]
           /\ lost' = (lost \/ q.stale \/ q.unread)
           /\ request' = [x \in Request |-> IF x = r THEN Done(q) ELSE Overtaken(q.user, x)]
  <2>1. PICK x : x = Done(q)
    OBVIOUS
  <2>2. /\ x # Idle => x.step = "use" /\ x.grant = q.grant /\ x.tokens = NoTokens
        /\ request'[r] = x
    BY <1>0, <1>3, <2>1, DoneFacts
  <2>3. ASSUME NEW z \in Request, z # r
        PROVE  /\ Runs(z)' <=> Runs(z)
               /\ Runs(z) =>
                    /\ request'[z].step = request[z].step /\ request'[z].kind = request[z].kind
                    /\ request'[z].user = request[z].user
                    /\ request'[z].provider = request[z].provider
                    /\ request'[z].state = request[z].state
                    /\ request'[z].grant = request[z].grant
                    /\ request'[z].tokens = request[z].tokens
                    /\ request'[z].unread = request[z].unread
                    /\ IF request[z].step = "store" /\ request[z].user = q.user
                       THEN request'[z].stale ELSE request'[z].stale = request[z].stale
    <3>1. PICK a, b : a = request[z] /\ b = request'[z]
      OBVIOUS
    <3>2. b = IF a # Idle /\ a.step = "store" /\ a.user = q.user
              THEN [a EXCEPT !.stale = TRUE] ELSE a
      BY <1>3, <2>3, <3>1 DEF Overtaken
    <3>3. CASE a = Idle
      BY <3>1, <3>2, <3>3 DEF Runs
    <3>4. CASE a # Idle
      <4>1. a \in Running
        BY <1>0, <3>1, <3>4
      <4>2. /\ b.step = a.step /\ b.kind = a.kind /\ b.user = a.user /\ b.provider = a.provider
            /\ b.state = a.state /\ b.grant = a.grant /\ b.tokens = a.tokens
            /\ b.unread = a.unread
            /\ IF a.step = "store" /\ a.user = q.user THEN b.stale ELSE b.stale = a.stale
        BY <3>2, <3>4, <4>1 DEF Running
      <4>3. b # Idle
        BY <4>1, <4>2, IdleStep DEF Running, Step
      <4> QED BY <3>1, <3>4, <4>2, <4>3 DEF Runs
    <3> QED BY <3>3, <3>4
  <2>4. /\ q.user \in User /\ q.provider \in Provider /\ q.tokens \in [Provider -> Nat]
        /\ row \in [User -> [Provider -> Nat]]
    BY <1>0 DEF Running, Safe, TypeOK
  <2>5. ASSUME NEW u \in User, NEW p \in Provider
        PROVE  row'[u][p] = IF u # q.user THEN row[u][p] ELSE
                            IF p # q.provider THEN q.tokens[p] ELSE
                            IF q.kind = "disconnect" THEN None ELSE q.grant
    BY <1>3, <2>4 DEF Saved
  <2>6. Private'
    <3>1. ASSUME NEW y \in Request, Saves(y)'
          PROVE  /\ y # r /\ Saves(y) /\ request'[y].grant = request[y].grant
                 /\ request[y].grant \notin spent
      <4>1. y # r
        BY <2>2, <3>1 DEF Saves, Runs
      <4>2. Saves(y) /\ request'[y].grant = request[y].grant
        BY <2>3, <3>1, <4>1 DEF Saves
      <4> QED BY <4>1, <4>2 DEF Rest, Private
    <3>2. ASSUME NEW y \in Request, Saves(y)', NEW u \in User, NEW p \in Provider
          PROVE  row'[u][p] # request[y].grant
      <4>1. KnownGrant(row'[u][p], r)
        BY <1>0, <1>q, <2>5 DEF KnownGrant, KnownToken
      <4> QED BY <3>1, <3>2, <4>1, NotKnown DEF Rest
    <3>3. ASSUME NEW y \in Request, Saves(y)', NEW z \in Request, Runs(z)'
          PROVE  /\ z # y => request'[z].grant # request[y].grant
                 /\ \A p \in Provider : request'[z].tokens[p] # request[y].grant
      <4>1. CASE z = r
        <5>1. request[y].grant # None /\ request[y].grant # q.grant
          BY <1>0, <1>q, <3>1, <3>3 DEF Rest, Private, Safe, RequestsRight, StepRight, Saves
        <5> QED BY <2>2, <3>3, <4>1, <5>1 DEF Runs, NoTokens
      <4>2. CASE z # r
        BY <2>3, <3>1, <3>3, <4>2 DEF Rest, Private
      <4> QED BY <4>1, <4>2
    <3> QED BY <1>1, <3>1, <3>2, <3>3 DEF Private
  <2>7. ReadAsIs'
    <3>1. ASSUME NEW y \in Request, Runs(y)', request'[y].step = "store"
          PROVE  \/ request'[y].stale \/ request'[y].unread
                 \/ request'[y].tokens = row'[request'[y].user]
      <4>1. y # r
        BY <2>2, <3>1 DEF Runs
      <4>2. Runs(y) /\ request[y].step = "store"
        BY <2>3, <3>1, <4>1
      <4>3. request[y].user \in User
        BY <1>0, <4>2 DEF Running, Runs
      <4>4. request[y].user # q.user => row'[request[y].user] = row[request[y].user]
        BY <1>3, <2>4, <4>3
      <4> QED BY <2>3, <4>1, <4>2, <4>4 DEF Rest, ReadAsIs
    <3> QED BY <3>1 DEF ReadAsIs
  <2>8. LostType' /\ (~lost' => ~lost /\ q.tokens = row[q.user])
    <3>1. lost' \in BOOLEAN /\ (~lost' => ~lost /\ ~q.stale /\ ~q.unread)
      BY <1>0, <1>3 DEF Running
    <3> QED BY <1>0, <1>1, <1>q, <3>1 DEF LostType, Rest, ReadAsIs
  <2>9. StaysConnected'
    <3>1. ASSUME ~lost', NEW u \in User, NEW p \in Provider, row'[u][p] \in spent
          PROVE  \E y \in Request : /\ request'[y] # Idle /\ InSave(request'[y])
                                    /\ request'[y].user = u /\ request'[y].provider = p
      <4>1. ~(u = q.user /\ p = q.provider)
        <5>1. q.kind # "disconnect" => q.grant \notin spent
          BY <1>0, <1>q DEF Rest, Private, Saves, InSave
        <5> QED BY <2>5, <3>1, <5>1, GivenOut
      <4>2. row[u][p] \in spent
        BY <2>5, <2>8, <3>1, <4>1
      <4>3. PICK y \in Request : /\ Runs(y) /\ InSave(request[y])
                                 /\ request[y].user = u /\ request[y].provider = p
        BY <2>8, <3>1, <4>2 DEF Rest, StaysConnected, Runs, InSave
      <4>4. y # r
        BY <1>q, <4>1, <4>3
      <4> QED BY <2>3, <4>3, <4>4 DEF Runs, InSave
    <3> QED BY <1>1, <3>1 DEF StaysConnected, InSave
  <2>10. StatesEnd'
    <3>1. /\ \A t \in State : syncPending'[t] # NoState => syncPending[t] # NoState
          /\ q.kind = "connect" /\ q.state \in State => syncPending'[q.state] = NoState
      BY <1>0, <1>1, <1>q DEF Deleted
    <3>2. ASSUME NEW t \in State, syncPending'[t] # NoState, \A c \in codes : c[1] # t
          PROVE  \E y \in Request : request'[y] # Idle /\ request'[y].state = t
      <4>1. PICK y \in Request : Runs(y) /\ request[y].state = t
        BY <3>1, <3>2 DEF Rest, StatesEnd, Runs
      <4>2. y # r
        BY <1>0, <1>q, <3>1, <3>2, <4>1, SyncAssumption DEF StepRight
      <4> QED BY <2>3, <4>1, <4>2 DEF Runs
    <3> QED BY <1>1, <3>2 DEF StatesEnd
  <2> QED BY <2>6, <2>7, <2>8, <2>9, <2>10 DEF Rest
<1> QED BY <1>q, <1>2, <1>3 DEF storeSyncTokens

(* Every step keeps the rest of the invariant.                             *)
LEMMA RestStep == Safe /\ Rest /\ [Next]_vars => Rest'
<1> SUFFICES ASSUME Safe, Rest, [Next]_vars PROVE Rest'
  OBVIOUS
<1>0. request \in [Request -> Running \union {Idle}] /\ lost \in BOOLEAN
  BY DEF Safe, TypeOK, Rest, LostType
<1>1. ASSUME NEW u \in Active, NEW p \in Provider, SyncAuthorize(u, p)
      PROVE  Rest'
  BY <1>1, RestAuthorize, SyncAssumption
(* A request begins.                                                       *)
<1>a. ASSUME NEW r \in Request, request[r] = Idle, NEW x, request' = [request EXCEPT ![r] = x],
             x # Idle => x.step \in {"exchange", "load"} /\ x.grant = None /\ x.tokens = NoTokens,
             UNCHANGED <<row, spent, codes, lost>>,
             \A t \in State : syncPending'[t] # NoState => syncPending[t] # NoState
      PROVE  Rest'
  <2>1. GrantsMoved(r, x)
    BY <1>a DEF GrantsMoved, KnownGrant, KnownToken, NoTokens, ToSave
  <2>2. ConnectionsMoved(r, x) /\ StatesMoved(r, x)
    BY <1>0, <1>a DEF ConnectionsMoved, StatesMoved, Runs
  <2> QED BY <1>a, <2>1, <2>2, RestMove
<1>2. ASSUME NEW r \in Request, NEW u \in User, NEW s \in State, SyncCallback(r, u, s)
      PROVE  Rest'
  <2>1. request[r] = Idle /\ UNCHANGED <<row, spent, codes, lost>>
    BY <1>2 DEF SyncCallback
  <2>2. CASE /\ UNCHANGED syncPending \/ syncPending' = [syncPending EXCEPT ![s] = NoState]
             /\ UNCHANGED request
    <3>1. request' = [request EXCEPT ![r] = Idle]
      BY <1>0, <2>1, <2>2
    <3>2. \A t \in State : syncPending'[t] # NoState => syncPending[t] # NoState
      BY <2>2 DEF Safe, TypeOK
    <3> QED BY <1>a, <2>1, <3>1, <3>2
  <2>3. CASE /\ Goes(r, Started(u, syncPending[s].provider, "connect", s, "exchange"))
             /\ UNCHANGED syncPending
    <3>1. PICK x : x = Started(u, syncPending[s].provider, "connect", s, "exchange")
      OBVIOUS
    <3>2. x.step = "exchange" /\ x.grant = None /\ x.tokens = NoTokens
      BY <3>1 DEF Started
    <3> QED BY <1>a, <2>1, <2>3, <3>1, <3>2 DEF Goes
  <2> QED BY <1>2, <2>2, <2>3 DEF SyncCallback
<1>3. ASSUME NEW r \in Request, NEW u \in Active, NEW p \in Provider, NEW k \in Kinds, begin(r, u, p, k)
      PROVE  Rest'
  <2>1. PICK x : x = Started(u, p, k, "", "load")
    OBVIOUS
  <2>2. x.step = "load" /\ x.grant = None /\ x.tokens = NoTokens
    BY <2>1 DEF Started
  <2>3. /\ request[r] = Idle /\ UNCHANGED <<row, spent, codes, lost, syncPending>>
        /\ request' = [request EXCEPT ![r] = x]
    BY <1>3, <2>1 DEF begin, Goes
  <2> QED BY <1>a, <2>2, <2>3
<1>4. ASSUME UNCHANGED <<row, spent, codes, request, lost>>,
             \A t \in State : syncPending'[t] # NoState => syncPending[t] # NoState
      PROVE  Rest'
  BY <1>4 DEF Rest, Private, ReadAsIs, LostType, StaysConnected, StatesEnd, Saves, Runs
<1>5. CASE tick
  <2>1. \A t \in State : syncPending[t] = NoState => syncPending'[t] = NoState
    BY <1>5 DEF tick
  <2> QED BY <1>4, <1>5, <2>1 DEF tick
<1>6. CASE restart
  <2>1. /\ UNCHANGED <<row, spent, codes>> /\ lost' = TRUE
        /\ \A t \in State : syncPending'[t] = NoState
        /\ \A r \in Request : request'[r] = Idle
    BY <1>6 DEF restart
  <2> QED BY <2>1 DEF Rest, Private, ReadAsIs, LostType, StaysConnected, StatesEnd, Saves, Runs
<1>7. ASSUME NEW g \in Grant, expire(g)
      PROVE  Rest'
  BY <1>4, <1>7 DEF expire
<1>8. CASE UNCHANGED vars
  BY <1>4, <1>8 DEF vars
<1> QED BY <1>1, <1>2, <1>3, <1>5, <1>6, <1>7, <1>8, RestStep1, RestStore DEF Next

(* The rest of the invariant holds when the process starts.                *)
LEMMA RestInit == Init => Rest
BY DEF Init, Rest, Private, ReadAsIs, LostType, StaysConnected, StatesEnd, Saves, Runs

(* The invariant is inductive.                                             *)
LEMMA Invariant == Spec => []IInv
<1>1. Init => IInv
  BY SafeInit, RestInit DEF IInv
<1>2. IInv /\ [Next]_vars => IInv'
  BY SafeStep, RestStep DEF IInv
<1> QED BY <1>1, <1>2, PTL DEF Spec

(* Nobody completes a handshake another has begun: a row holds the user's  *)
(* own grants, each for its tracker.                                       *)
THEOREM TokensOwned == Spec => []OwnTokens
<1>1. IInv => OwnTokens
  BY DEF IInv, Safe, RowsOwned, Theirs, OwnTokens
<1> QED BY <1>1, Invariant, PTL

(* A connection stays good, whatever requests overlap, unless a save has   *)
(* failed or a row was written back over a later or an unread one.         *)
THEOREM ConnectionsKept == Spec => []StaysConnected
<1>1. IInv => StaysConnected
  BY DEF IInv, Rest
<1> QED BY <1>1, Invariant, PTL

(* A state whose code has been exchanged is gone when the callback is.     *)
THEOREM HandshakesEnd == Spec => []StatesEnd
<1>1. IInv => StatesEnd
  BY DEF IInv, Rest
<1> QED BY <1>1, Invariant, PTL
=============================================================================
