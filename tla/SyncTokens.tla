----------------------------- MODULE SyncTokens -----------------------------
(***************************************************************************)
(* The tracker connections of internal/api/v1/sync.go: the OAuth handshake *)
(* with its pending states in memory, and each user's row of tokens, which *)
(* every request reads, changes and writes back as a whole.  Requests run  *)
(* side by side; one step of a request is one call to Supabase or to the   *)
(* tracker.                                                                *)
(*                                                                         *)
(* A token is known by the grant it comes from: its access token expires,  *)
(* and its refresh token is good for one refresh, which yields the next    *)
(* grant.  Of the progress and score updates only the token they use is    *)
(* modelled.                                                               *)
(***************************************************************************)
EXTENDS Integers, FiniteSets, TLC

CONSTANTS
    User, Provider, Request, State,
    Active,         \* the users who connect anything; the others only try their states
    MaxGrants,      \* the grants that are told apart (a bound of the model)
    TTL,            \* syncStateTTL, in ticks
    Kinds,          \* what is requested
    Upsets, MaxUpsets   \* what may go wrong, and how often (a bound of the model)

ASSUME SyncAssumption ==
    /\ IsFiniteSet(User \X Provider) /\ IsFiniteSet(Request) /\ IsFiniteSet(State)
    /\ "" \notin State
    /\ Active \subseteq User /\ MaxGrants \in Nat /\ TTL \in Nat /\ MaxUpsets \in Nat
    /\ Kinds \subseteq {"connect", "disconnect", "update", "job"}

VARIABLES
    row,            \* each user's sync_tokens in user_settings
    owner,          \* whom the tracker has given a grant to, and for which tracker
    expired,        \* the grants whose access token has run out
    spent,          \* the grants whose refresh token has been used
    syncPending,    \* the handshakes that have been started
    codes,          \* the authorization codes not used yet: the state each came with, and whose it is
    request,        \* the running requests
    lost,           \* a row has been written back over a later or an unread one
    upsets

vars == <<row, owner, expired, spent, syncPending, codes, request, lost, upsets>>

-----------------------------------------------------------------------------
None     == 0
Grant    == DOMAIN owner
NoTokens == [p \in Provider |-> None]
NoState  == [user |-> "", provider |-> "", age |-> 0]
Idle     == [step |-> "idle"]

Fine          == UNCHANGED upsets
Trouble(what) == what \in Upsets /\ upsets < MaxUpsets /\ upsets' = upsets + 1

(* The fields of a running request: who asks for what, the state of the    *)
(* handshake, the tokens it has read (tokens, and unread when the read     *)
(* failed), and the grant it is going to use or to save.                   *)
Started(u, p, k, s, first) ==
    [step |-> first, user |-> u, provider |-> p, kind |-> k, state |-> s,
     tokens |-> NoTokens, unread |-> FALSE, stale |-> FALSE, grant |-> None]

Goes(r, x)    == request' = [request EXCEPT ![r] = x]
At(r, s)      == request[r].step = s
Ends(r)       == Goes(r, Idle)

(* The deferred deletion of the state, when a callback returns.            *)
DeletedNot(r) == UNCHANGED syncPending
Deleted(r) ==
    IF request[r].kind = "connect"
    THEN syncPending' = [syncPending EXCEPT ![request[r].state] = NoState]
    ELSE UNCHANGED syncPending
Returns(r)    == Ends(r) /\ Deleted(r)

NewGrant(u, p) ==
    /\ Cardinality(Grant) < MaxGrants
    /\ owner' = [g \in 1 .. Cardinality(Grant) + 1 |->
                    IF g \in Grant THEN owner[g] ELSE <<u, p>>]

-----------------------------------------------------------------------------
(* SyncAuthorize remembers a handshake; now and then it sweeps.            *)
Swept(S) == [s \in State |-> IF S[s].age > TTL THEN NoState ELSE S[s]]

SyncAuthorize(u, p) ==
    \E s \in State :
        /\ syncPending[s] = NoState /\ \A c \in codes : c[1] # s
        /\ \A r \in Request : request[r] # Idle => request[r].state # s
        /\ LET begun == [syncPending EXCEPT ![s] = [user |-> u, provider |-> p, age |-> 0]]
           IN  syncPending' \in {begun, Swept(begun)}
        /\ codes' = codes \union {<<s, u, p>>}
        /\ UNCHANGED <<row, owner, expired, spent, request, lost, upsets>>

(* The callback loads the state and checks it.                             *)
BegunBySome(known, u) == known # NoState
Begun(known, u) == known.user = u

SyncCallback(r, u, s) ==
    LET known == syncPending[s] IN
    /\ "connect" \in Kinds /\ request[r] = Idle /\ known # NoState
    /\ \/ ~Begun(known, u) /\ UNCHANGED <<request, syncPending>>
       \/ /\ Begun(known, u) /\ known.age > TTL
          /\ syncPending' = [syncPending EXCEPT ![s] = NoState] /\ UNCHANGED request
       \/ /\ Begun(known, u) /\ known.age <= TTL
          /\ Goes(r, Started(u, known.provider, "connect", s, "exchange"))
          /\ UNCHANGED syncPending
    /\ UNCHANGED <<row, owner, expired, spent, codes, lost, upsets>>

(* The exchange of the code; a code is good for one exchange.              *)
exchange(r) ==
    LET q == request[r] IN
    /\ At(r, "exchange")
    /\ \/ \E c \in codes :
            /\ c[1] = q.state /\ NewGrant(c[2], c[3]) /\ Fine
            /\ codes' = codes \ {c}
            /\ Goes(r, [q EXCEPT !.step = "reload", !.grant = Cardinality(Grant) + 1])
            /\ UNCHANGED syncPending
       \/ /\ \A c \in codes : c[1] # q.state
          /\ Fine /\ Returns(r) /\ UNCHANGED <<owner, codes>>
       \/ /\ Trouble("tracker") /\ Returns(r) /\ UNCHANGED owner
          /\ codes' \in {codes, {c \in codes : c[1] # q.state}}
    /\ UNCHANGED <<row, expired, spent, lost>>

-----------------------------------------------------------------------------
(* The other requests begin by loading the row.                            *)
begin(r, u, p, k) ==
    /\ request[r] = Idle /\ k \in Kinds \ {"connect"}
    /\ Goes(r, Started(u, p, k, "", "load"))
    /\ UNCHANGED <<row, owner, expired, spent, syncPending, codes, lost, upsets>>

(* loadSyncTokens: an answer other than 200 reads as a row without tokens, *)
(* no answer is an error.                                                  *)
Read(q)   == [q EXCEPT !.tokens = row[q.user]]
Unread(q) == [q EXCEPT !.unread = TRUE]
loadSyncTokens(q, answer) ==
    (answer = Read(q) /\ Fine) \/ (answer = Unread(q) /\ Trouble("supabase"))
Loads(q) == {Read(q), Unread(q)}

Stale(g) == g \in expired

(* What a request does with the row it has loaded.                         *)
Loaded(q) ==
    LET g == q.tokens[q.provider] IN
    CASE q.kind = "disconnect"           -> [q EXCEPT !.step = "store"]
      [] q.kind # "disconnect" /\ g = None -> Idle
      [] OTHER -> [q EXCEPT !.grant = g, !.tokens = NoTokens,
                               !.step = IF Stale(g) THEN "refresh" ELSE "use"]

load(r) ==
    /\ At(r, "load")
    /\ \/ \E answer \in Loads(request[r]) :
            loadSyncTokens(request[r], answer) /\ Goes(r, Loaded(answer))
       \/ Trouble("supabase") /\ Ends(r)
    /\ UNCHANGED <<row, owner, expired, spent, syncPending, codes, lost>>

(* A refresh: the tracker accepts a refresh token once.  SyncUpdate gives  *)
(* up when it fails, an import or an export goes on with the old token.    *)
GivesUp(q) == IF q.kind = "update" THEN Idle ELSE [q EXCEPT !.step = "use"]

refresh(r) ==
    LET q == request[r] IN
    /\ At(r, "refresh")
    /\ \/ /\ q.grant \notin spent /\ NewGrant(q.user, q.provider) /\ Fine
          /\ spent' = spent \union {q.grant} /\ UNCHANGED lost
          /\ Goes(r, [q EXCEPT !.step = "reload", !.grant = Cardinality(Grant) + 1])
       \/ /\ q.grant \in spent /\ Fine /\ Goes(r, GivesUp(q))
          /\ UNCHANGED <<owner, spent, lost>>
       \/ /\ Trouble("tracker") /\ Goes(r, GivesUp(q)) /\ UNCHANGED owner
          /\ spent' \in {spent, spent \union {q.grant}}
          /\ lost' = (lost \/ spent' # spent)
    /\ UNCHANGED <<row, expired, syncPending, codes>>

(* saveSyncToken loads the row once more, changes it and stores it.  When  *)
(* it is over, and be it in error, an update or a job uses the token it    *)
(* has, while a disconnect or a callback is done.                          *)
Saving(q) == [q EXCEPT !.step = "store"]
Done(q) ==
    IF q.kind \in {"update", "job"}
    THEN [q EXCEPT !.step = "use", !.tokens = NoTokens, !.unread = FALSE, !.stale = FALSE]
    ELSE Idle

reload(r) ==
    /\ At(r, "reload")
    /\ \/ /\ \E answer \in Loads(request[r]) :
               loadSyncTokens(request[r], answer) /\ Goes(r, Saving(answer))
          /\ UNCHANGED <<syncPending, lost>>
       \/ Trouble("supabase") /\ Goes(r, Done(request[r])) /\ Deleted(r) /\ lost' = TRUE
    /\ UNCHANGED <<row, owner, expired, spent, codes>>

(* Whoever has loaded this row before is going to store an older one.      *)
Overtaken(u, x) ==
    IF request[x] # Idle /\ request[x].step = "store" /\ request[x].user = u
    THEN [request[x] EXCEPT !.stale = TRUE] ELSE request[x]

SavedOnce(q) ==   \* mutant
    [q.tokens EXCEPT ![q.provider] = IF q.kind = "disconnect" THEN None
                                     ELSE IF @ = None THEN q.grant ELSE @]
Saved(q) == [q.tokens EXCEPT ![q.provider] = IF q.kind = "disconnect" THEN None ELSE q.grant]

storeSyncTokens(r) ==
    LET q == request[r] IN
    /\ At(r, "store") /\ Deleted(r)
    /\ \/ /\ Fine \/ Trouble("answer")
          /\ row' = [row EXCEPT ![q.user] = Saved(q)]
          /\ lost' = (lost \/ q.stale \/ q.unread)
          /\ request' = [x \in Request |-> IF x = r THEN Done(q) ELSE Overtaken(q.user, x)]
       \/ /\ Trouble("supabase") /\ lost' = TRUE
          /\ Goes(r, Done(q)) /\ UNCHANGED row
    /\ UNCHANGED <<owner, expired, spent, codes>>

use(r) ==
    /\ At(r, "use") /\ Ends(r)
    /\ UNCHANGED <<row, owner, expired, spent, syncPending, codes, lost, upsets>>

-----------------------------------------------------------------------------
(* Time, and a restart.                                                    *)
expire(g) ==
    /\ g \in Grant \ expired /\ expired' = expired \union {g}
    /\ UNCHANGED <<row, owner, spent, syncPending, codes, request, lost, upsets>>

tick ==
    /\ \E s \in State : syncPending[s] # NoState /\ syncPending[s].age <= TTL
    /\ syncPending' = [s \in State |->
          IF syncPending[s] = NoState \/ syncPending[s].age > TTL THEN syncPending[s]
          ELSE [syncPending[s] EXCEPT !.age = @ + 1]]
    /\ UNCHANGED <<row, owner, expired, spent, codes, request, lost, upsets>>

(* Grants that were fetched and not saved are lost with the process.       *)
restart ==
    /\ Trouble("restart")
    /\ syncPending' = [s \in State |-> NoState]
    /\ request' = [r \in Request |-> Idle]
    /\ lost' = TRUE
    /\ UNCHANGED <<row, owner, expired, spent, codes>>

Init ==
    /\ row = [u \in User |-> NoTokens] /\ owner = <<>> /\ expired = {} /\ spent = {}
    /\ syncPending = [s \in State |-> NoState] /\ codes = {}
    /\ request = [r \in Request |-> Idle] /\ lost = FALSE /\ upsets = 0

Next ==
    \/ \E u \in Active, p \in Provider : SyncAuthorize(u, p)
    \/ \E r \in Request, u \in User, s \in State : SyncCallback(r, u, s)
    \/ \E r \in Request, u \in Active, p \in Provider, k \in Kinds : begin(r, u, p, k)
    \/ \E r \in Request :
          exchange(r) \/ load(r) \/ refresh(r) \/ reload(r) \/ storeSyncTokens(r) \/ use(r)
    \/ \E g \in Grant : expire(g)
    \/ tick \/ restart

Spec == Init /\ [][Next]_vars

Symmetry == Permutations(Provider) \union Permutations(Request)
              \union Permutations(State)

-----------------------------------------------------------------------------
(* A user's row holds grants of this user for this tracker only: nobody    *)
(* completes a handshake another has begun.                                *)
OwnTokens ==
    \A u \in User, p \in Provider : row[u][p] # None => owner[row[u][p]] = <<u, p>>

(* A connection stays good: its refresh token is the tracker's latest one, *)
(* or a request that has refreshed it is about to save the new one; unless *)
(* a save failed, or a row was written back over a later or unread one.    *)
StaysConnected ==
    ~lost => \A u \in User, p \in Provider :
        row[u][p] \in spent =>
            \E r \in Request : /\ request[r] # Idle
                               /\ request[r].user = u /\ request[r].provider = p
                               /\ request[r].step \in {"reload", "store"}

(* A state whose code has been exchanged is gone when the callback is.     *)
StatesEnd ==
    \A s \in State : syncPending[s] # NoState /\ (\A c \in codes : c[1] # s) =>
        \E r \in Request : request[r] # Idle /\ request[r].state = s

=============================================================================
