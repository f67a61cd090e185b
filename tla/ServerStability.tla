-------------------------- MODULE ServerStability --------------------------
(***************************************************************************)
(* The server-list stability cache of internal/streaming and the fan-out   *)
(* of FindAllServers that reads and fills it: short-lived list snapshots,  *)
(* per-provider last-good results, single-flight rounds, and the snapshot  *)
(* file that carries last-good results over a restart.                     *)
(*                                                                         *)
(* A server is known by its slot <<provider, name>>, and all that is kept  *)
(* of its content is the time it was resolved: a set of servers is a       *)
(* function from slots to that time, Never for a slot that is not in it.   *)
(* The order of a list, sources and subtitles are left out.  now is the    *)
(* wall clock in abstract ticks; only the order of the lifetimes matters.  *)
(***************************************************************************)
EXTENDS Integers, FiniteSets

CONSTANTS
    Key,            \* serverRequestKey: title, episode, language, content gate
    HentaiKey,      \* the keys whose content gate is up
    Provider,       \* every collector of the fan-out table
    Critical,       \* "kaa", "zenbu": a list without them is incomplete
    TokenBased,     \* "anv", "animex": results die with the process
    Late,           \* "megavid": stabilized after the others, once verified
    Corroborating,  \* the providers whose servers corroborate a late one
    Gated,          \* the providers never asked about a hentai title
    Slot,           \* the slots <<provider, name>> the providers can fill
    Request,        \* concurrent callers of FindAllServers
    NoRequest,      \* no flight registered
    ListTTL,        \* serverListStabilityTTL
    IncompleteTTL,  \* incompleteServerListTTL
    ProviderTTL,    \* providerLastGoodTTL = criticalLastGoodTTL
    FanOutLifetime, \* serverFanOutLifetime
    MaxLists,       \* maxServerListSnapshots
    MaxProviders,   \* maxProviderSnapshots
    MaxTime         \* bound: the last tick explored

ASSUME SetsAssumption ==
    /\ Key # {}
    /\ HentaiKey \subseteq Key
    /\ Critical \subseteq Provider
    /\ TokenBased \subseteq Provider
    /\ Late \subseteq Provider
    /\ Corroborating \subseteq Provider \ Late
    /\ Gated \subseteq Provider
    /\ \A s \in Slot : s[1] \in Provider
    /\ NoRequest \notin Request

ASSUME TimesAssumption ==
    /\ {ListTTL, IncompleteTTL, ProviderTTL, FanOutLifetime} \subseteq Nat \ {0}
    /\ ListTTL <= ProviderTTL /\ IncompleteTTL <= ProviderTTL
    /\ {MaxLists, MaxProviders} \subseteq Nat \ {0}
    /\ MaxTime \in Nat

VARIABLES
    now,        \* the wall clock
    bootedAt,   \* when the running process built its cache
    lists,      \* c.lists
    providers,  \* c.providers
    flights,    \* c.flights: the request that leads each registered flight
    disk,       \* the snapshot file
    pc,         \* where each FindAllServers call stands
    req,        \* its cache key, refresh flag and managerDeadline
    coll,       \* how far each collector of a leading call has come
    pool,       \* the servers a leader has gathered, and then its result
    owed        \* history: the slots the cache held for a round as it began

cacheVars == <<lists, providers, flights>>
callVars  == <<pc, req, coll, pool, owed>>
vars      == <<now, bootedAt, cacheVars, disk, callVars>>

-----------------------------------------------------------------------------
Never     == -1
Past      == Never .. now
Servers   == [Slot -> Past]
NoServers == [s \in Slot |-> Never]
Entry     == [servers : Servers, storedAt : Past]
NoEntry   == [servers |-> NoServers, storedAt |-> Never]
List      == [servers : Servers, storedAt : Past, expires : Int]
NoList    == [servers |-> NoServers, storedAt |-> Never, expires |-> Never]
Snapshot  == [Key -> [Provider -> Entry]]
FlightKey == Key \X BOOLEAN
PC        == {"idle", "miss", "lead", "stored", "wait"}
Stage     == {"off", "running", "fetched", "stable"}

Here(e)        == e.storedAt # Never
IsEmpty(ss)    == \A s \in Slot : ss[s] = Never
Of(p)          == {s \in Slot : s[1] = p}
Has(ss, p)     == \E s \in Of(p) : ss[s] # Never
EnabledFor(k)  == IF k \in HentaiKey THEN Provider \ Gated ELSE Provider
FlightOf(r)    == <<req[r].key, req[r].refresh>>
FreshOf(p, names) == [s \in Slot |-> IF s \in names THEN now ELSE Never]

NoReq      == [key |-> CHOOSE k \in Key : TRUE, refresh |-> FALSE, deadline |-> Never]
NoStages   == [p \in Provider |-> "off"]

(* mergeProviderServers: fresh servers win, slots they miss are kept.      *)
mergeProviderServers(fresh, previous) ==
    [s \in Slot |-> IF fresh[s] # Never THEN fresh[s] ELSE previous[s]]

(* mergeListSnapshot: the same against the previous list, whose slots are  *)
(* kept only within the last-good lifetime of that list.                   *)
mergeListSnapshotKeepsNothing(fresh, previous, previousAt) == fresh

mergeListSnapshot(fresh, previous, previousAt) ==
    IF now - previousAt <= ProviderTTL
    THEN mergeProviderServers(fresh, previous)
    ELSE fresh

(* The entries removeOldest...Snapshot may pick: ties fall to map order.   *)
OldestLists ==
    {k \in Key : Here(lists[k]) /\
        \A j \in Key : Here(lists[j]) => lists[k].storedAt <= lists[j].storedAt}

OldestProviders ==
    {e \in Key \X Provider : Here(providers[e[1]][e[2]]) /\
        \A d \in Key \X Provider : Here(providers[d[1]][d[2]]) =>
            providers[e[1]][e[2]].storedAt <= providers[d[1]][d[2]].storedAt}

ListCount     == Cardinality({k \in Key : Here(lists[k])})
ProviderCount == Cardinality({e \in Key \X Provider : Here(providers[e[1]][e[2]])})

Complete(k, servers) == k \in HentaiKey \/ \A p \in Critical : Has(servers, p)

-----------------------------------------------------------------------------
(* FindAllServers up to beginFlight.  A call that asks for a refresh skips *)
(* the list snapshot; any other is answered from it while it is live, and  *)
(* deletes it on the way to a new round once it has expired.               *)
Live(list) == Here(list) /\ now < list.expires

listHit(r, k) ==
    /\ pc[r] = "idle" /\ Live(lists[k])
    /\ UNCHANGED vars

loadList(r, k, refresh) ==
    /\ pc[r] = "idle" /\ (refresh \/ ~Live(lists[k]))
    /\ pc'    = [pc EXCEPT ![r] = "miss"]
    /\ req'   = [req EXCEPT ![r] = [key |-> k, refresh |-> refresh,
                                    deadline |-> now + FanOutLifetime]]
    /\ lists' = IF refresh THEN lists ELSE [lists EXCEPT ![k] = NoList]
    /\ UNCHANGED <<now, bootedAt, providers, flights, disk, coll, pool, owed>>

(* The slots the provider cache holds for key k at least until time t.     *)
HeldUntil(k, t) ==
    {s \in Slot : /\ s[1] \in EnabledFor(k)
                  /\ Here(providers[k][s[1]])
                  /\ providers[k][s[1]].servers[s] # Never
                  /\ t - providers[k][s[1]].storedAt <= ProviderTTL}

(* beginFlight: join the registered round of this key, or lead a new one   *)
(* and start every collector the content gate lets through.                *)
InFlightIgnored(f) == FALSE

InFlight(f) == flights[f] # NoRequest

beginFlight(r) ==
    /\ pc[r] = "miss"
    /\ \/ /\ InFlight(FlightOf(r))
          /\ pc' = [pc EXCEPT ![r] = "wait"]
          /\ UNCHANGED <<flights, coll, owed>>
       \/ /\ ~InFlight(FlightOf(r))
          /\ flights' = [flights EXCEPT ![FlightOf(r)] = r]
          /\ pc'      = [pc EXCEPT ![r] = "lead"]
          /\ coll'    = [coll EXCEPT ![r] = [p \in Provider |->
                            IF p \in EnabledFor(req[r].key) THEN "running" ELSE "off"]]
          /\ owed'    = [owed EXCEPT ![r] = HeldUntil(req[r].key, req[r].deadline)]
    /\ UNCHANGED <<now, bootedAt, lists, providers, disk, req, pool>>

(* The sets of entries that may go to make room for one more: at capacity  *)
(* the oldest goes, even when the new entry only overwrites its old self.  *)
EvictionsOneLate ==
    IF ProviderCount > MaxProviders THEN {{e} : e \in OldestProviders} ELSE {{}}

Evictions ==
    IF ProviderCount >= MaxProviders THEN {{e} : e \in OldestProviders} ELSE {{}}

ListEvictions ==
    IF ListCount >= MaxLists THEN {{k} : k \in OldestLists} ELSE {{}}

(* What a collector's result becomes: a live last-good entry fills in the  *)
(* slots it misses, all of them when it came back empty.                   *)
StabilizedWithoutFallback(k, p, fresh) == fresh

Stabilized(k, p, fresh) ==
    LET previous == providers[k][p]
        live     == Here(previous) /\ now - previous.storedAt <= ProviderTTL
    IN  IF live THEN mergeProviderServers(fresh, previous.servers) ELSE fresh

(* c.providers with the entry of k and p replaced and those in gone deleted. *)
PutProvider(k, p, entry, gone) ==
    [j \in Key |-> [q \in Provider |->
        IF j = k /\ q = p THEN entry
        ELSE IF <<j, q>> \in gone THEN NoEntry ELSE providers[j][q]]]

(* stabilizeProvider, and its result into the leader's pool.  A non-empty  *)
(* result becomes the provider's new last-good entry, stored now; an empty *)
(* one leaves a live entry alone and deletes an expired one.               *)
stabilizeProvider(r, p, fresh) ==
    LET k      == req[r].key
        stable == Stabilized(k, p, fresh)
    IN
    /\ pool' = [pool EXCEPT ![r] =
                    [s \in Slot |-> IF s[1] = p THEN stable[s] ELSE pool[r][s]]]
    /\ coll' = [coll EXCEPT ![r][p] = "stable"]
    /\ \/ /\ ~IsEmpty(fresh)
          /\ \E gone \in Evictions :
                /\ providers' = PutProvider(k, p, [servers |-> stable, storedAt |-> now], gone)
                /\ owed' = [q \in Request |-> {s \in owed[q] :
                               <<req[q].key, s[1]>> \in gone => <<req[q].key, s[1]>> = <<k, p>>}]
       \/ /\ IsEmpty(fresh)
          /\ providers' = IF now - providers[k][p].storedAt <= ProviderTTL
                          THEN providers ELSE PutProvider(k, p, NoEntry, {})
          /\ UNCHANGED owed

(* One collector goroutine returns: any subset of the provider's slots.    *)
collect(r, p) ==
    /\ pc[r] = "lead" /\ coll[r][p] = "running" /\ p \notin Late
    /\ \E names \in SUBSET Of(p) : stabilizeProvider(r, p, FreshOf(p, names))
    /\ UNCHANGED <<now, bootedAt, lists, flights, disk, pc, req>>

(* A late collector's goroutine only leaves its result in the pool.        *)
collectLate(r, p) ==
    /\ pc[r] = "lead" /\ coll[r][p] = "running" /\ p \in Late
    /\ \E names \in SUBSET Of(p) :
          pool' = [pool EXCEPT ![r] =
                     [s \in Slot |-> IF s[1] = p THEN FreshOf(p, names)[s] ELSE pool[r][s]]]
    /\ coll' = [coll EXCEPT ![r][p] = "fetched"]
    /\ UNCHANGED <<now, bootedAt, cacheVars, disk, pc, req, owed>>

(* After wg.Wait: verifyMegaVidLang drops servers of a late provider (all  *)
(* of them when no other provider corroborates), then it is stabilized.    *)
verifyMegaVidLang(r, p) ==
    /\ pc[r] = "lead" /\ coll[r][p] = "fetched"
    /\ \A q \in Provider : coll[r][q] # "running"
    /\ \E kept \in SUBSET {s \in Of(p) : pool[r][s] # Never} :
          /\ (\A q \in Corroborating : ~Has(pool[r], q)) => kept = {}
          /\ stabilizeProvider(r, p, [s \in Slot |-> IF s \in kept THEN pool[r][s] ELSE Never])
    /\ UNCHANGED <<now, bootedAt, lists, flights, disk, pc, req>>

ListEntryDatedAtExpiry(servers, ttl) ==
    [servers |-> servers, storedAt |-> now + ttl, expires |-> now + ttl]

ListEntry(servers, ttl) ==
    [servers |-> servers, storedAt |-> now, expires |-> now + ttl]

(* storeList: a non-empty merged list is stored unless the deadline has    *)
(* passed; slots the round missed are filled in from the previous list.    *)
storeList(r) ==
    LET k      == req[r].key
        merged == IF Here(lists[k])
                  THEN mergeListSnapshot(pool[r], lists[k].servers, lists[k].storedAt)
                  ELSE pool[r]
        ttl    == IF Complete(k, merged) THEN ListTTL ELSE IncompleteTTL
    IN
    /\ pc[r] = "lead" /\ \A p \in Provider : coll[r][p] \in {"off", "stable"}
    /\ pc'   = [pc EXCEPT ![r] = "stored"]
    /\ coll' = [coll EXCEPT ![r] = NoStages]
    /\ \/ /\ IsEmpty(pool[r]) \/ now >= req[r].deadline
          /\ UNCHANGED <<lists, pool>>
       \/ /\ ~IsEmpty(pool[r]) /\ now < req[r].deadline
          /\ pool' = [pool EXCEPT ![r] = merged]
          /\ \E gone \in ListEvictions :
                lists' = [j \in Key |-> IF j = k THEN ListEntry(merged, ttl)
                                        ELSE IF j \in gone THEN NoList ELSE lists[j]]
    /\ UNCHANGED <<now, bootedAt, providers, flights, disk, req, owed>>

(* The calls in done return: nothing of them is left.                      *)
returned(done) ==
    /\ pc'   = [q \in Request |-> IF q \in done THEN "idle" ELSE pc[q]]
    /\ req'  = [q \in Request |-> IF q \in done THEN NoReq ELSE req[q]]
    /\ pool' = [q \in Request |-> IF q \in done THEN NoServers ELSE pool[q]]
    /\ owed' = [q \in Request |-> IF q \in done THEN {} ELSE owed[q]]

(* finishFlight, deferred by the leader: the flight is unregistered, and   *)
(* the waiters are released and return a copy of the leader's result.      *)
waitersOfNone(r) == {}

waitersOf(r) == {q \in Request : pc[q] = "wait" /\ FlightOf(q) = FlightOf(r)}

finishFlight(r) ==
    /\ pc[r] = "stored"
    /\ flights' = [flights EXCEPT ![FlightOf(r)] = NoRequest]
    /\ returned({r} \cup waitersOf(r))
    /\ UNCHANGED <<now, bootedAt, lists, providers, disk, coll>>

(* A waiter's own context ends first: the client left or its deadline is   *)
(* up.  A leader has no such step, its work is detached from its client.   *)
giveUp(r) ==
    /\ pc[r] = "wait"
    /\ returned({r})
    /\ UNCHANGED <<now, bootedAt, cacheVars, disk, coll>>

-----------------------------------------------------------------------------
savedEntriesAll == providers

savedEntries == [k \in Key |-> [p \in Provider |->
    IF p \in TokenBased THEN NoEntry ELSE providers[k][p]]]

(* saveProvidersSnapshot copies every durable entry under the lock, then   *)
(* writes a temporary file and renames it over the old one.  Only the next *)
(* process reads the file, so copy and rename are one step: a crash        *)
(* between them, or a failed write, is this step not taken.                *)
saveProvidersSnapshot ==
    /\ disk' = savedEntries
    /\ UNCHANGED <<now, bootedAt, cacheVars, callVars>>

(* loadProvidersSnapshot at time t.                                        *)
restored(t) == [k \in Key |-> [p \in Provider |->
    IF p \in TokenBased \/ t - disk[k][p].storedAt >= ProviderTTL
    THEN NoEntry ELSE disk[k][p]]]

(* The process dies and the next one builds its cache at its first call:   *)
(* lists, flights and calls are gone.                                      *)
restart ==
    /\ now < MaxTime
    /\ now' = now + 1 /\ bootedAt' = now + 1
    /\ providers' = restored(now + 1)
    /\ lists'   = [k \in Key |-> NoList]
    /\ flights' = [f \in FlightKey |-> NoRequest]
    /\ pc'      = [r \in Request |-> "idle"]
    /\ req'     = [r \in Request |-> NoReq]
    /\ coll'    = [r \in Request |-> NoStages]
    /\ pool'    = [r \in Request |-> NoServers]
    /\ owed'    = [r \in Request |-> {}]
    /\ UNCHANGED disk

(* Time passes, but no call outlives its deadline: a waiter's context and  *)
(* every collector's context end there.                                    *)
tick ==
    /\ now < MaxTime
    /\ \A r \in Request : pc[r] # "idle" => now < req[r].deadline
    /\ now' = now + 1
    /\ UNCHANGED <<bootedAt, cacheVars, disk, callVars>>

Init ==
    /\ now = 0 /\ bootedAt = 0
    /\ lists     = [k \in Key |-> NoList]
    /\ providers = [k \in Key |-> [p \in Provider |-> NoEntry]]
    /\ flights   = [f \in FlightKey |-> NoRequest]
    /\ disk      = [k \in Key |-> [p \in Provider |-> NoEntry]]
    /\ pc        = [r \in Request |-> "idle"]
    /\ req       = [r \in Request |-> NoReq]
    /\ coll      = [r \in Request |-> NoStages]
    /\ pool      = [r \in Request |-> NoServers]
    /\ owed      = [r \in Request |-> {}]

CallStep(r) ==
    \/ beginFlight(r)
    \/ \E p \in Provider : collect(r, p) \/ collectLate(r, p) \/ verifyMegaVidLang(r, p)
    \/ storeList(r)
    \/ finishFlight(r)

Next ==
    \/ \E r \in Request, k \in Key :
          listHit(r, k) \/ \E refresh \in BOOLEAN : loadList(r, k, refresh)
    \/ \E r \in Request : CallStep(r) \/ giveUp(r)
    \/ saveProvidersSnapshot
    \/ restart
    \/ tick

(* The runtime runs the goroutines of a started round: every collector is  *)
(* bounded by collectorBudget, so a round always comes to its end.         *)
Fairness == \A r \in Request : WF_vars(CallStep(r))

Spec == Init /\ [][Next]_vars /\ Fairness

-----------------------------------------------------------------------------
(* Type invariant: among others, nothing cached, served or saved is dated  *)
(* in the future.                                                          *)
TypeOK ==
    /\ now \in Nat /\ bootedAt \in 0 .. now
    /\ lists \in [Key -> List]
    /\ providers \in Snapshot /\ disk \in Snapshot
    /\ flights \in [FlightKey -> Request \cup {NoRequest}]
    /\ pc \in [Request -> PC]
    /\ req \in [Request -> [key : Key, refresh : BOOLEAN, deadline : Int]]
    /\ coll \in [Request -> [Provider -> Stage]]
    /\ pool \in [Request -> Servers]
    /\ owed \in [Request -> SUBSET Slot]

(* A round in flight is led by exactly one live call, and every waiter     *)
(* waits on a registered round: nobody is left behind by a finished one    *)
(* (beginFlight, finishFlight).                                            *)
FlightsSound ==
    /\ \A f \in FlightKey : flights[f] # NoRequest =>
          pc[flights[f]] \in {"lead", "stored"} /\ FlightOf(flights[f]) = f
    /\ \A r \in Request : pc[r] \in {"lead", "stored"} => flights[FlightOf(r)] = r
    /\ \A r \in Request : pc[r] = "wait" => flights[FlightOf(r)] # NoRequest

(* Servers of a token-based provider never outlive the process that minted *)
(* their session: none is in the snapshot file, and none that an earlier   *)
(* process resolved is cached, listed or served                            *)
(* (tokenBasedProviders, saveProvidersSnapshot, loadProvidersSnapshot).    *)
TokensDieWithProcess ==
    \A s \in Slot : s[1] \in TokenBased =>
        /\ \A k \in Key :
              /\ disk[k][s[1]] = NoEntry
              /\ providers[k][s[1]].servers[s] # Never =>
                    providers[k][s[1]].servers[s] >= bootedAt
              /\ lists[k].servers[s] # Never => lists[k].servers[s] >= bootedAt
        /\ \A r \in Request : pool[r][s] # Never => pool[r][s] >= bootedAt

(* No flicker: a slot the last-good cache held when a round began, and     *)
(* held for longer than the round may take, is in the list that round      *)
(* serves, whatever its collectors returned and whoever else stored a      *)
(* result meanwhile.  Only an eviction at capacity releases the promise.   *)
OwedSlotsServed ==
    \A r \in Request : pc[r] = "stored" =>
        \A s \in owed[r] : pool[r][s] # Never

(* While a list snapshot is live its slots stay visible: rounds that race  *)
(* it, refreshes included, may replace it but never shrink it; it leaves   *)
(* only by eviction for another key at capacity, or with the process.      *)
LiveListsKeepSlots ==
    [][bootedAt' = bootedAt => \A k \in Key :
          Live(lists[k]) =>
             \/ \A s \in Slot : lists[k].servers[s] # Never => lists'[k].servers[s] # Never
             \/ ~Here(lists[k])' /\ ListCount >= MaxLists]_vars

(* Neither cache outgrows its capacity.                                    *)
CachesBounded == ListCount <= MaxLists /\ ProviderCount <= MaxProviders

(* Every call returns: from its own round or from the one it joined (or    *)
(* with its process).                                                      *)
CallsAnswered == \A r \in Request : pc[r] # "idle" ~> pc[r] = "idle"

=============================================================================
