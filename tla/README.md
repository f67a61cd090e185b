# A TLA+ verification of Aniraku-Backend

This directory keeps, beside the Go code, formal models of the parts of the
backend whose correctness depends on *order*: caches shared by concurrent
requests, single-flight work, cooldowns and breakers, background schedulers,
snapshot files and restarts. Each module is translated from the source (the
`map` of `PROJECT.json` names the lines of every definition), checked by TLC on
small instances, and, where it matters most, proved for all instances by TLAPS.

All paths below are relative to the repository; `internal/...` is under `src/`.

## 1. Inventory

| # | component | state | operations | hard because | correct when |
|---|---|---|---|---|---|
| 1 | server-list stability cache and fan-out: `internal/streaming/servers_stability.go`, `manager.go` `FindAllServers` | list snapshots, per-provider last-good results, registered flights, snapshot file | `loadList`, `beginFlight`, collectors, `stabilizeProvider`, `verifyMegaVidLang`, `storeList`, `finishFlight`, save, restart | up to 14 goroutines per round, rounds of both flavours (refresh or not) race, clients leave, the process restarts | single flight; no slot flickers out; token-based servers die with the process; bounded; every call answered |
| 2 | JWKS key cache: `internal/auth/jwks.go` | key set, expiry, last attempt, refreshing flag, condition variable | `GetKey`, the detached refresh, key rotation | a lock held across HTTP, a condition variable, two refresh paths | one refresh at a time; no lost wakeup; a rotation becomes visible |
| 3 | AniList client: `internal/api/v1/anilist_client.go`, janitor in `handlers.go` | token bucket, circuit breaker, response cache, in-flight map | `do`, `AniListProxy`, `evictStale`, `evictOldest` | check-then-act on the in-flight map, retries across 60 s ban windows, half-open probing | an open circuit stops traffic and recovers; waiters are released; stale answers bounded |
| 4 | episode notifier: `internal/api/v1/notify.go` | sent keys, airing book with a check per episode | `notifyEpisode`, `refreshBookmarks`, `refreshOneAiring`, `sweepDueChecks`, `sendEpisodeNotifications` | two writers here and a third in the web client, asynchronous sends, restarts lose the book | a fresh episode is announced once it is playable; announcers do not repeat themselves |
| 5 | import and export: `internal/api/v1/importexport.go` | none in memory: rows in Supabase, entries at the trackers | `ImportMAL`, `ImportAniList`, `ExportMAL`, `ExportAniList` | batches that fail half way and are run again, tables read one request after the other while the user goes on watching | what the player or the user wrote survives; a clean import settles; an export lowers nothing without evidence and is silent about nothing |
| 6 | tracker sync: `internal/api/v1/sync.go` | pending OAuth states, one token row per user | authorize, callbacks, disconnect, update, score | read-modify-write of a shared row over HTTP, refresh tokens good for one use | own tokens only; a connection stays good; a state is used up |
| 7 | episode list and TMDB resolver: `internal/api/v1/catalog.go` `GetEpisodes`, `internal/tmdb/resolver.go`, `direct.go`, `anisearch.go`, `merge.go` | response cache, episode cache, list bodies | count, mapping, continuation, healing, title search, merge | six remote sources that lag and fail independently, five lifetimes | an episode is never shown as another; what has aired is listed; a list heals |
| 8 | resolver loader cache: `cached()`, its eviction, `fetchTmdbSeasonFresh` | two concurrent maps | look, join, load, store, evict | nothing is held between two calls on the maps | one load a key at a time; no stale answer; everybody returns |
| 9 | proxy allowlist: `internal/api/v1/proxy_allowlist.go` | learned hosts with their time, a JSON file | `isAllowedProxyHost`, `LearnHostFromPlaylist`, persist, load, cleanup | snapshot under a lock, write outside it; eviction at capacity | a host is admitted only because something vouched for it, and no longer than that lasts |
| 10 | media proxy: `proxy.go`, `proxy_fill_limiter.go`, `proxy_audio.go`, `internal/streaming/vod_cache.go` | fill slots, playlist cache, key cache | gates, acquire/release, fetch, rewrite, download | clients that leave while queued, caches shared with the providers' probes | slots never leak, overload sheds; a playlist is whole and in the language asked for |
| 11 | outage breakers: `internal/streaming/outage.go` (AniWaves, NiN), and those AnimeGG, Novuscloud and Mkissa keep of their own | pause end, strikes | `paused`, `noteResolve`, `noteOutageHealth`, `recordThrottle` | concurrent resolves that end in any order | a site that is up is served from again |
| 12 | AnimeGG and AniWaves: `animegg.go`, `aniwaves.go`, `segment_probe.go` | page and result caches | choice of the page, alignment of the listing, choice of mirrors, probes | listings that join several parts of a franchise | the episode and the language asked for |
| 13 | Kaa, Mkissa, Novuscloud, NiN: `kaa.go`, `mkissa.go`, `novuscloud.go`, `nin.go` | page and result caches, background retries | as 12 | slugs that rotate, retries behind the caller's back, a race of two relays | as 12 |
| 14 | other providers: `animex.go`, `anikoto.go`, `anipm.go`, `anv.go`, `zenbu.go`, `zoko.go`, `megavid.go`, `flixcloud.go`, `anixo.go` | result caches, cooldown ladders, sessions | search, listing, probe | byte-level parsing | as 12 |
| 15 | provider chain and list post-processing: `manager.go` | genre cache | `GetSourcesForProvider`, ranking, download merge | mostly sequential | order stable, gated titles never reach gated providers |
| 16 | HTTP middleware: `internal/api/middleware` | visitors of the rate limiter | `allow`, `cleanup` | clean-up in two lock sections | rate bounded per visitor |
| 17 | account, catalog and profile handlers; metadata clients; configuration, entry points, deployment | small response caches | one upstream request per handler | little | - |

How they interact. `GetServers` and `Stream` call `FindAllServers` (1), which
runs the providers (12-14), each behind its breaker (11); a list with playable
servers triggers `notifyEpisode` (4), which reads AniList through (3) and writes
to Supabase. Providers and rewritten playlists teach (9) the hosts they verified,
and the providers' probes leave the playlists they read in the cache of (10).
`GetEpisodes` (7) reads six sources through (8) and AniList through (3). Every
authenticated handler verifies its token with (2); (5) takes the tracker's token
from the row of (6). The scheduler of (4) calls `FindAllServers` in the
background. Nothing is shared through a database lock: Supabase is reached over
REST, so every sequence of requests interleaves.

## 2. Modules

`ServerStability.tla` - component 1. A server is its slot `<<provider, name>>`
and the tick it was resolved at; a set of servers is a function from slots to
that tick. The order of a list, sources, subtitles and download links are left
out. State: `lists`, `providers`, `flights`, `disk` are the Go maps and the
snapshot file; `pc`, `req`, `coll`, `pool` are the local state of each
`FindAllServers` call and of its collector goroutines; `owed` is a history
variable. One action per lock section: `listHit`/`loadList` (look up, and delete
an expired list), `beginFlight`, `collect` (a collector returns and is
stabilized), `collectLate` and `verifyMegaVidLang` (MegaVid's two steps),
`storeList`, `finishFlight` (with the waiters it releases), `giveUp`,
`saveProvidersSnapshot`, `restart`, `tick`. `storeList` and `finishFlight` are
two lock sections in the code and two actions here. `MCServerStability.tla` only names
small slot sets.

`Jwks.tla` - component 2. `GetKey` is a loop; each turn of it under the lock is
one action (`hit`, `startBackground`, `awaitRefresh`, `unknown`, `startFetch`).
A caller's own fetch holds the lock from `startFetch` to `endFetch`; the
detached goroutine is `backgroundFetch`, `backgroundFetched`, `backgroundEnd`
(it takes the lock twice). `rotate` is Supabase publishing another key set; a
fetch returns the set published when it began or when it ended, or fails.

`AnilistClient.tla` - component 3. The Go function `do` is the actions `do` (the
circuit's `allow`), `look`, `giveUp`, `check`, `register`, `pace`, then
`succeeded`, `retried` with its `backoff`, or `failed`, and `leave`: one per lock
section or wait. `disconnect` is a client that leaves. The look-up of the in-flight map and the store into it are
two steps, as in the code, so callers of one query can overwrite each other's
registration. The janitor is two loops (`evictStale`, `evictOldest`) whose
`delete`s come after the collection of the keys; it deletes by key, so it may
delete an entry that was replaced meanwhile. Cached responses carry their age
instead of a date and are whole or cut off; time stands still while a janitor
pass runs. `MCAnilistClient.tla` adds the symmetry of the calls.

`Notifier.tla` - component 4. The book goroutine: `refreshBookmarks`,
`refreshOneAiring` (with `addCheck` as `Added`, the transition detection as
`Passed`, the pruning as `TooOld`), `sweepDueChecks` and one `probe` per due
check. Whose turn it is to be looked up is read off `refreshed`, the order in
which shows were last looked up; a show whose look-up failed drops out of it. Beside it the two announcers, each a read step and an insert step
(`askOnDemand`, `insertOnDemand`, `askScheduled`, `insertScheduled`), since the
rows are read and written by different requests. Around them AniList, which airs
an episode and names the next one later (`notice`, `finish`), the providers
(`publish`), the user, and `restart`. What goes wrong is drawn from `Upsets`, at
most `MaxUpsets` times; AniList counts as upset too when it has not moved on by
the time the next episode airs. Times are relative: how long until a check is due and
until it is given up.

`ListTransfer.tla` - component 5, for one user and one tracker. A job is a
sequence of requests: each read fills what the job remembers (`seen...`), the
merge is taken over what was read, each write is a step of its own, and in
between the user watches, rates, bookmarks and edits the tracker's list. A failed
read leaves its table in `blind`. A watch row is one of three kinds (made by an
import, opened, finished), as the code tells them apart. `MCListTransfer.tla`
names the titles and their ids at the tracker.

`SyncTokens.tla` - component 6. A token is known by the grant it comes from; a
refresh yields the next grant and uses the old refresh token up. Every request
is its sequence of calls to Supabase and the tracker: `load`, `refresh`,
`reload`, `storeSyncTokens`, `use`; a callback is `SyncCallback`, `exchange`,
`reload`, `storeSyncTokens`.

`EpisodeList.tla` - component 7. A TMDB episode is its position in the show, a
remote answer is how far its source had come when it was read. TMDB lists the
whole show, so there may be seasons of other titles behind this one's (`first`,
`last`). AniList answers from a cache of five minutes, an older answer for up to
an hour when it fails, and `past` remembers what had aired a few ticks ago. One
request is one step over the caches of all sources; `MCEpisodeList.tla` enumerates
the titles (first and later seasons, with a following one of the same length and
with none, split mappings, with and without each source).

`SharedLoads.tla` and `LoaderCache.tla` - component 8. `SharedLoads` is what a
caller may rely on: one load of a key at a time, an answer that was loaded and
still counted when the call began or was read under it, failure only when one's
own load failed or after waiting for another's. `LoaderCache` is `cached()` with
every call on `responseCache` and `inFlight` a step. `Promise == INSTANCE
SharedLoads WITH call <- ...` reads a caller's abstract stage off its program
counter; `KeepsPromise` says that every behaviour of the code is one of the
promise.

`ProxyHosts.tla`, `MediaProxy.tla`, `Playback.tla` - components 9 to 13,
composed. `ProxyHosts` is the allowlist with its file, each a set of hosts with
their age, as the Go map has no order either: of entries as old as each other any
may be evicted. The snapshot is taken in one step (`draft`) and written in
another. `MediaProxy` extends it with the
gates, both caches, the fill slots and the rewrite: a request is `Proxy`,
`acquire` or `shed`, `fetch`, `persistDynamicCDNEntries`, `done`. `Playback`
extends it with a provider: `FindEpisodeSource` (caches and breaker, in the
provider's own order), `resolveShow`, `resolveEpisode`, `bgRetryResolve`, and
the provider's site, which may slow, go down, or lose single requests of a search
(`turn`): each page, hit or query whose request fails is left out of the choice
(`lost`). A body's size is one of four: it fits the 64 KiB of a probe's first hop,
the 256 KiB of the cache, the 1 MiB the proxy reads, or none of them. A fill
may last for ever. Proxy and provider share `hosts`, `playlists` and the `reply` a
player goes by.

`AnimeGG.tla`, `AniWaves.tla`, `Kaa.tla`, `Mkissa.tla`, `Novuscloud.tla`,
`NiN.tla` - the pure part of each provider as operators over a record of what its
site answers: which page, which episode of its listing, which mirrors or
players, what is probed and what is learned. `MCPlayback.tla` holds the pages and
the scenes; a scene fixes the provider, its site, what is asked and played, and
what may go wrong.

`ServerStabilityProofs.tla`, `UpstreamProofs.tla` (of `Jwks` and `AnilistClient`),
`NotifierProofs.tla`, `ListTransferProofs.tla`, `SyncTokensProofs.tla`,
`EpisodeListProofs.tla`, `LoaderCacheProofs.tla`, `PlaybackProofs.tla` - the
theorems about components 1 to 13, each module extending what it is about
(section 5).

## 3. Runs

| run | what it asks | bounds and why they suffice |
|---|---|---|
| `server_lifetimes` | entries never dated in the future, tokens die with the process, caches bounded, live lists keep their slots | one caller, two keys against a capacity of one list and two entries (evictions and overwrites at capacity happen), one slot per provider, a token-based, late and gated provider, as many ticks as pass every lifetime, restarts at any tick |
| `server_rounds` | single flight, every slot owed is served, every call returns | three callers of one key: a leader, a follower that may give up, and a round of the other flavour; collectors return any subset of slots |
| `jwks` | one refresh, no lost wakeup, rotation visible, calls return | two callers, two key ids, failing and slow fetches, time beyond expiry and cooldown |
| `anilist_safety` | nobody waits for a request that has ended; the stale fallback is bounded | three calls of one query, since it takes a third to remove the registration that the second wrote over the first's; no pacing; a circuit that opens at one failure |
| `anilist_live` | every call ends, the circuit recovers | two paced calls with one retry, one token, clients that leave, AniList up and down; `MaxEntries` is 0, so every pass of the janitor trims |
| `notifier` | nobody is told more than twice, a fresh episode is pursued, expired checks end | one show of two episodes (the second makes AniList move on from the first), one user, one upset of any kind at any point; the order retry < first probe < give-up = catch-up window < period of the code |
| `import_mal` | local rows survive, a clean import settles, only the player raises a count | one title with two ids at the tracker (both map to it, one is mapped back), two episodes, every content of the tables and of the first id's entry to start from, one upset at any request, imports and exports in any order |
| `export_anilist` | nothing is silent, nothing taken away without evidence | two titles in one batch of two, two attempts (so one retry of a batch that failed in part), one upset: a lost, cut or half-written request |
| `sync_tokens` | own tokens, connections stay good, states end | two requests over one row of two trackers, one state, three grants (a connection, its refresh and another connection), one upset; a second user who tries the first one's state |
| `episode_list` | no episode shown as another, the aired listed, lists heal | every form of title: a first season with another of its length behind it, one without, a sequel, a second half, one that spans two seasons; with an exact, a nested, an open or no mapping, dated by AniList or not. One outage, in which up to two sources are down for a request. The lifetimes keep the code's order, some of them equal: list body (90 s), AniZip answer and refetched season (5 min) one tick; AniList's answers (5 min) and episode entry (30 min) two; AniList's answers while it fails (1 h) and mapping (a day) three. AniList's outlive a body, so a new list can be made of an old answer |
| `loader_cache` | registered loads, the refinement, every call answered | two callers, two keys, a cache of one entry (every store evicts), two instants |
| `playback` | the properties of the composition, see 4 | two requests at a time, one fill slot, one cached playlist, two learned hosts; pages of each of the four sizes; twenty scenes, at most one upset each; a kept page lives two ticks, so it is used again before it ends; `ProbeMin`, `BasePause` 1 and `MaxPause` 2, so a pause is doubled and capped |

Time is an abstract tick. Lifetimes are small numbers that keep the order of the
real constants (5 s < 90 s < 2 h; fetch timeout < cooldown < key life); nothing
in the code depends on more than that order.

The scenes of `playback`: `Relay` a ladder of playlists; `Tracks` one master for
players of two languages; `Files` a key, a live playlist, one past the cap of a
read, a download; `Long` a playlist too large for the cache; `Again` a restart;
`Flaky` a search that loses requests; `Joined` a listing of several parts;
`OwnPage`, `Counting`, `NoPage` a title with its own AnimeGG page, one whose page
counts on from its prequels, one that has none; `Kickass`, `Rotated` Kaa with its
background retry, and a slug that has rotated; `ById`, `ByTitle` Mkissa with and
without the AniList id at its edges; `Nova` and `Supaplay` sources that are dead next to some that are not.
In `Remake`, `WavesRemake`, `KickRemake` and `KissRemake`, one for each provider that
chooses among pages, another title wins when the own one's request is lost.

Fairness. A round's collectors are each bounded by `collectorBudget` and the
leader's context by `serverFanOutLifetime`, so the Go runtime brings every
started round to its end: weak fairness on each call's own steps, none on time,
saves, restarts or callers that give up. In `Jwks`, strong fairness on a
caller's step stands for Go's mutex, which hands itself to a waiter that has
starved for a millisecond; the HTTP client's timeout ends every fetch. In
`AnilistClient`, weak fairness on each step of a call (requests and waits have
timeouts), on the janitor and on time; none on clients that leave, on AniList
going up or down, or on calls being made. In `Notifier`, weak fairness of the
process as a whole: its goroutines and its clock go on, none is favoured. In
`LoaderCache`, weak fairness of each caller's own step: a load ends by its
timeout. In `Playback`, whatever has begun moves on but a fill: goroutines are
scheduled, requests to a site end by their timeouts, a queued fill is shed at the
end of its hold, an answer is written under the server's write timeout. A fill
ends when its source and its reader let it: the clients of the proxy have no
timeout for a body (`handlers.go:41-46`, `:164-202`) and the write deadline is
lifted (`proxy.go:667-672`, `:833-836`), so nothing is assumed of it. Time passes
for pauses and for what is kept, and, for `SitesReturn` alone, viewers ask again and
again for what the site has, also at times when it is not paused. Nothing is assumed
of the site, of restarts or of clean-ups. `ListTransfer`, `SyncTokens` and `EpisodeList` state none: their
properties are safety properties.

## 4. Properties

* `OwedSlotsServed` (component 1): a slot the last-good cache held when a round
  began, and would hold to the round's deadline, is in the list that round
  serves, whatever the collectors return and whatever another round stores
  meanwhile; only an eviction at capacity releases the promise. This is what
  "server lists persist instead of flickering out" means.
* `LiveListsKeepSlots`: no step of any round shrinks a list that is still live.
  Its run has one caller; that two rounds race is covered by `OwedSlotsServed` and
  by the theorem. That an overwrite at capacity evicts another key's entry
  (`servers_stability.go:328`) violates neither these nor `CachesBounded`: both
  promises are released by an eviction.
* `TokensDieWithProcess`, `CachesBounded`, `FlightsSound`, `CallsAnswered`.
* `OneRefresh`, `RotationVisible`, `GetKeyReturns` (component 2). `RotationVisible`
  says that the cooldown hides no rotation: a key id published for a whole
  cooldown is refused only if a refresh has failed since.
* `WaitersFollowFetch` (component 3): whoever waits on a channel waits for a
  request of its own query that still runs, however registrations overwrite one
  another. With `CallsDrain`: once no new call is made every call returns. While
  new calls come, they can take a waiting call's token again and again: the
  bucket serves no queue.
* `StaleBounded`: the stale fallback checks no age. That it serves nothing older
  than the cache lifetime and one janitor period is the janitor's doing.
* `CircuitRecovers`: once AniList stays up and calls keep being made, the circuit
  closes, whatever counts late answers have left behind.
* `AtMostTwice` (component 4): a play and the scheduler can both read before
  either inserts, so two rows are possible; no failure, retry, restart or expired
  key makes a third.
* `AiredPursued`: the race of the first version, described at
  `notify.go:35-41`, cannot come back: AniList's move to the next episode leaves
  the check of the aired one alive and on time.
* `ProbingEnds`: moved airtimes, restarts and failures let no check of an airing
  show be probed on and on after it has expired: one more probe finds it out, a
  retry later, or when the first probe is due if the airtime was taken back so far.
* `LocalKept` (component 5): an import writes over no row the player had written
  and no rating, when it has read them. `ImportSettles`: after an import that met
  no trouble another one of the same list finds a bookmark with a status for each
  title, no row to add or take back and no rating to fill in; a stored status it
  would write over only of a title whose last rows the first import has taken back.
  `RaisedByPlayer`: what an import made up never comes back to the tracker as
  progress. `NothingTakenAway`: an export that has read the whole list (a
  MyAnimeList list beyond 1000 entries is not read whole, and without an error)
  lowers a count only to what is finished here. `NothingSilent`: what such an
  export does not settle it reports. The comments claim more, see Findings.
* `OwnTokens`, `StaysConnected`, `StatesEnd` (component 6). `StaysConnected` is the
  one that concurrent requests put at risk: a refresh token is good once, so the
  row must hold the latest one or a running request must be about to save it.
  It excuses what a failed save, or a row written back over a later or unread
  one (`lost`), has broken; the code does break it there, see Findings.
* `RightEpisode` (component 7): whatever mapping, continuation or search found an
  episode, none of the title's own is shown as another one, under the conditions
  section 5 names. `FoundRight`: where a following season stands behind a title in
  one season, this holds of what a request finds while TMDB is up. Numbers past
  the title's end are not asked about (that they can be listed at all, see
  Findings). `AiredListed`: with AniList up the list ends no
  earlier than what had aired when AniList's cached answers expire, five minutes
  before, if AniList gives the length or the next airing. `Healed`: with every
  source up, what TMDB lists of an airing title's first season is shown, however
  the caches stand.
* `KeepsPromise` (component 8): the refinement. `Consistent`: whoever waits, waits
  for a load that is under way. `Answered`: every call returns.
* `PlaylistsSound` (components 9 to 13): a playlist is answered whole if every
  reader could have read it so: it fits the first hop of a probe, or it fits the
  cache and no answer of the site leads a probe to it first. And what is answered
  whole is in the language asked for alone, whoever read it first: a player, a
  player of another language, or a probe. Of others the code serves what a probe
  has cut off, see Findings.
* `Vouched`: a host comes to be admitted by a provider's answer or by a playlist
  that was itself admitted; a restart makes no host younger.
* `FillsEnd`: nobody queues for ever, and a slot is given back once its fill is over,
  whatever the answer came to. That a fill is over one day is not promised, see
  Findings.
* `RightEpisode` (of `Playback`): what a provider serves is the episode and the
  language asked for, through caches, joined listings and rotated slugs, where no
  failing request can make it choose a page it would not choose otherwise
  (`Settled`). Where one can, as in the scenes with a remake, another show's
  episode is served, and `MistakesEnd` says for how long: once the site stays up the
  wrong page and its results are in the end forgotten, as using them renews nothing.
* `SitesReturn`: a site that stays up is served from again and again, so no
  breaker outlasts its reason. It is asked of the scenes whose site has what is
  wanted (`good`); Mkissa's throttle and NiN's dead way are left out, see Findings.

Each is broken by a plausible mutation of one definition (`mutants` in
`PROJECT.json`).

## 5. Proofs

What TLC checks on small instances, TLAPS proves here for every number of callers,
requests, shows, titles, users, keys, providers and slots, every lifetime, delay
and capacity, and any number of failures and restarts, but for what the
assumptions say. A theorem carries a hypothesis of its own where the code needs
one.

### Assumptions

Each module states one `ASSUME` about the shape of its constants. Beyond "a
positive number" and "this name is not that one", the proofs use:

* `Jwks`: a fetch is shorter than the cooldown and than the life of a key set (10 s
  against a minute and an hour: `jwks.go:33`, `:72-81`). Without it a key set could
  have expired by the time the call that fetched it looks at it again.
* `ServerStability`: a list lives no longer than a last-good entry.
* `Notifier`: retry <= first probe <= give-up, catch-up window <= give-up, and two
  episodes are more than a tick apart: the order of `notify.go`'s constants.
* `LoaderCache`: there is a key at all. `SyncTokens`: the empty string, which stands
  for "no state" in the handlers, is not a state.
* `ListTransfer`: the tables are finite, counts stay below `Last`, an id is mapped
  to one title or none. For AniList every title has an id: the title is its id.
* `EpisodeList`: a show's seasons follow one another from its first episode, a title
  is some of its episodes, and a refetched season counts no longer than a read one
  (five minutes against a day, `resolver.go:19-34`). `Open`, 100000 in the model,
  stands for no end: shows are shorter.
* `EpisodeList` too: AniList's answers count no longer when it is up than when it
  fails.
* `Playback`: there are finitely many addresses, and what sites name, playlists link
  to and players ask for are among them (`ScenesAssumption`). TLC evaluates it, so
  it resolves every ask of every scene on every page that some loss of requests
  lets it choose. A page's size is one of four.

### Hypotheses of single theorems

* `NewEpisodesPursued` assumes `Missing = {}`. A show whose look-up never succeeds
  keeps the others from being looked up (see Findings); the claim is false then.
* `OnlyTheWatchedRaises`, `NothingLost` and `ExportAccounts` assume `OneTitleEach`: no
  two titles of a list have the same id at the tracker. AniList's `idMal` is taken as
  it comes and nothing checks that it is unique; of two titles with one id the
  second export writes over what the first has written.
* `ExportAccounts` also excludes the score formats of 5 and 3 points, whose ratings
  never settle (see Findings).
* `ShownRight` and `FoundAreRight` are about titles for which `SearchFinds`: if a search
  by name finds the show, then the title comes first in it, its name mentions no
  later season, no later season has its length unless the first has it too, and
  numbers start anew where it goes on into another season. If a mapping leaves its
  end open, `ShownRight` asks that numbers run on from season to season or that no
  season follows; `FoundAreRight` only that they run on or that the title is in one
  season, if TMDB is up. TLC finds an episode shown as another when the conditions
  on what comes first, on the season mentioned or on the following season of a
  search are dropped; the one on running numbers and that on open mappings are not
  refuted by the titles and lifetimes of the run, but by the code (see Findings).
  Some titles of `MCEpisodeList` fulfil the conditions of `FoundAreRight` alone. The
  other theorems of the module hold of all titles.

### What is proved

| theorem | of | along which argument |
|---|---|---|
| `TypeCorrect`, `SingleFlight` | `ServerStability` | `FlightsSound` is inductive with the types; delicate are `beginFlight` (a join needs a registered round) and `finishFlight` (the leader and exactly its waiters leave) |
| `TokensNeverOutliveProcess` | | a fresh result is dated now, never before `bootedAt`; `restart` restores nothing token-based |
| `LastGoodServed` | | the property speaks of a finished round only. `OwedInv` says how each owed slot is kept until then: the cache still holds it to the deadline, or the pool has it. A merge drops no live slot, and an eviction strikes the slot from `owed` |
| `CapacitiesKept` | | every store first evicts down to capacity; the snapshot holds no more than the cache it was taken from. By cardinalities, so for any number of titles |
| `LiveListsOnlyGrow` | | a step's claim: `ExpiryInv`: a list that has not expired was stored within a last-good lifetime, so `mergeListSnapshot` still merges it |
| `JwksTypeCorrect`, `SingleRefresh` | `Jwks` | inductive with the types |
| `RotationSeen` | | `RotationInv`: what a running fetch will return has the ids published before it was attempted, whichever path fetches; once no refresh runs the key set has them, unless the attempt failed; and a call looks at the keys within a fetch's time of the attempt |
| `TypeCorrect`, `WaitersFollow` | `AnilistClient` | `Asking` adds that a running call has a query. Delicate is `leave`: it ends those who wait on this call, not on what is registered |
| `StaleAnswersBounded` | | an entry's age alone is not inductive; `Swept` bounds age and time to the next pass together |
| `TypeCorrect` | `Notifier` | among others: a sweep holds only checks still open, which takes `probe`, the only one to close them, one at a time |
| `ToldAtMostTwice` | | `TwiceInv` counts what an announcer is about to insert as inserted: it has read that there was no row |
| `ProbingEnds` by `NoProbingForEver` | | `ChecksInv` relates a check to the time its episode has to air; `addCheck` may take the end back but never more than the first delay before the next probe |
| `NewEpisodesPursued` | | by far the longest: `PursuitInv` says that the shows looked up in this tick are the last of the order (`LookUps`, so that every show has its turn), that AniList lags by an episode at most, that the upcoming episode has its check (`Upcoming`) and that the last one's is in time (`Current`) |
| `TypesKept` | `ListTransfer` | what every other proof of the module starts from |
| `ImportOnlyAdds` | | `LocalInv`: what was read is what the player had when it was read, and the rows, ratings and bookmarks planned are taken from titles where it said none |
| `ImportsSettle` | | `SettleInv` follows a clean import stage by stage: what is merged, written and marked is what the next import would plan nothing for; a status that it spares it spares for rows that are still there, or that it takes back itself |
| `OnlyTheWatchedRaises`, `NothingLost` | | `ExportInv`: what the export has read is still so until an edit, and what it takes an entry for is the entry, or the one it has just written. By the arithmetic of `exportProgress` then |
| `ExportAccounts` | | `SilentInv`: each title is still to come, was found settled, was written, or is counted as failed, across batches and their repetitions |
| `TokensOwned` | `SyncTokens` | `RowsOwned`, with what requests carry and what a code may come back as |
| `ConnectionsKept` | | the property holds only with `Private` (a grant about to be saved is known to nobody else, so nobody spends it) and `ReadAsIs` (the row a request is about to write is the row as it stands, or the write counts as `lost`) |
| `HandshakesEnd` | | a code goes with its state, or its request still holds it |
| `TypeCorrect` | `EpisodeList` | `StoreOK`: what is remembered of a source is no further than the source is now, and of those that never change it is what they say |
| `ShownRight` | | each mapping there can be is `Right` (it takes the first number of its range to the right one), so each `Target` is, past the end of the verified range too; a season has a number once. The direct answer starts in the first season, as no later one is as long as the title. Under its condition no open mapping leads on into a season whose numbers start anew |
| `FoundRight` by `FoundAreRight` | | an action property: before a following season is asked the title's own is read again, as TMDB is up. If that still lacks one of the title's numbers, TMDB has not come so far, and lists nothing of the seasons behind (`NoneBehind`) |
| `AiredListed` by `AiredAreListed` | | an action property. `PastOK`: an answer of AniList that still counts tells at least what had aired when it was read, which is at most its age ago; and the count is the greatest of several |
| `Healed` by `BareEpisodesHeal` | | an action property: an episode that no cache has is wanted; with all sources up it has exactly one mapping that covers it, or exactly one that goes on past its end; and its season, if it lacks the number, is read again |
| `WaitersAreLed` | `LoaderCache` | `Registered`: a leader is registered from `join` to `leave`, and its channel is closed after |
| `CachedKeepsItsPromise` | | the refinement: initial states to initial states, and each of the actions to its step of `SharedLoads` or a stutter. `EntriesCount` is what it takes: a cached entry was loaded and counts, or has expired for everyone who may still take it |
| `PlaylistsAreSound` | `Playback` | `CacheSound`: a cached body has the audio of its page, unless it is cut; it is cut only if the page is longer than the cache takes, or longer than a probe's first hop and one that such a hop can be led to; so is what is rewritten from it. That a call has no answer while it is open (`RequestsSound`) keeps an old playlist from being taken for the answer to a new task |
| `HostsAreVouchedFor` | | an action property. Hosts are learnt one by one from what a result or a playlist names, so by `LearnsOnly` whatever is new afterwards is named; time makes hosts older, a restart takes some of the file's |
| `SourcesAreResolved` | | `ShowsSound`, `ResolvedSound`: what is kept under a page, an episode or a language is what the search, or the site, answers to any ask that looks it up. A background retry asks only what has been asked |
| `CapacitiesHold` | | one lemma (`Replaced`) for the four caches, which all make room before they store; the file holds what the hosts once were. `SlotsSound` for the fills: every way from `filling` to `idle` is by `done` |
| `PausesAreBounded` | | by itself: each verdict clears the strikes with the pause, or leaves a strike with it |

`ServerStability!LiveListsKeepSlots`, `ListTransfer!LocalKept`, `RaisedByPlayer` and
`NothingTakenAway`, `EpisodeList!FoundRight`, `AiredListed` and `Healed`,
`Playback!Vouched` are properties of steps, each shown from the invariant in the
state before. The type invariants of `Jwks` and `AnilistClient` are proved and not run
again by TLC. The invariants were checked by TLC on the configurations of the
runs before they were proved.

Three devices recur. Where a definition picks the greatest or least of a set
(`CHOOSE`), the library's well-founded order on numbers gives its existence
(`WFMin`), since an induction theorem could not be instantiated. Where a step
replaces a record, a lemma states once what the record of the new state is, and
every part of the invariant starts from that. And where a step folds over what a
site names, induction is stated with sets in the place of predicates (`Numbers`,
`Subsets` of `PlaybackProofs`): from `WFMin` follows that the function a fold is
defined by exists (`FoldExists`) and that a fold ends where its operation stays
(`FoldStays`), so one lemma about learning one host, or about keeping one probed
playlist, holds for any number of them.

### What is model-checked only

* Liveness: `CallsAnswered`, `GetKeyReturns`, `CallsDrain`, `CircuitRecovers`,
  `Answered`, `FillsEnd`, `SitesReturn`, `MistakesEnd` need fairness and `ENABLED`, which
  the prover does not treat. Of `LoaderCache` the refinement that is proved is of safety:
  `SharedLoads` states no fairness.
* That the six providers select the right page and episode, in so far as it is true:
  their choices filter sequences (`SelectSeq`), of which the provers know nothing, and
  compare scores of given sites. TLC checks them on the scenes (`RightEpisode`); a
  theorem that assumed the right page would only restate `SourcesAreResolved`.

## 6. Findings

Where the code does something else than its comments, docs or tests say, or than
its own other half expects. They were met while modelling; the models follow the
code, and a property that one of them would break says what it excuses.

Server lists, keys, AniList

* A merge dates the whole entry anew (`servers_stability.go:335`), so a slot that
  no collector has returned for longer than the last-good lifetime is still
  served as long as a sibling slot is verified from time to time.
* `docs/PROVIDERS.md:56` says `refresh=1` bypasses the last-good fallback; every
  call passes `allowFallback = true`.
* Between a miss in `loadList` and `beginFlight` a round can finish: the caller
  leads a redundant round although a fresh list is stored.
* `loadList` deletes an expired list, so the previous order that
  `mergeListSnapshot` calls authoritative is gone whenever a list expired.
* A MegaVid server dropped as a proven language swap, or hidden as a solo claim,
  is merged back from the provider's last-good entry by `stabilizeProvider`.
* `jwksGrace` (`jwks.go:26`) is never read; the fallback after a failed refresh
  is not bounded.
* `doRefreshLocked` holds `j.mu` during the HTTP exchange although the comment
  at `jwks.go:168-170` says other callers do not queue behind it.
* The error of `io.ReadAll` is dropped (`anilist_client.go:376`), so a body cut off
  after a 200 status is cached as a success.
* A 429 is retried up to `maxRetries` times (`anilist_client.go:351-405`), where
  the comment and the test speak of a single retry; and a bucket of 8 with 0.4/s
  lets 32 requests through in a minute against the 30 it is meant to keep.
* A request whose own client leaves during the last attempt counts as a failure
  of AniList; five such clients open the circuit for everyone.

Notifier

* A restart between an airing and its first probe loses the announcement; the
  promised catch-up (`notify.go:31-32`) needs `lastSeenNext`, which is lost too.
* A show whose look-up always fails is queued first at every tick
  (`notify.go:501`), and no other show of the book is looked up again.
* `scheduleStaleAfter` is added to now instead of subtracted (`notify.go:482`), so
  no entry is ever too fresh to look up.
* The transition detection replaces the true airtime of a check by the time of
  the last look before it (`notify.go:566`): the six hours can end earlier. After
  hours of failed look-ups a check can be past its end before its first probe.
* Of a show that AniList calls FINISHED before the last episode's check comes due,
  the finale is announced neither by the scheduler nor for a play.
* `notifiedUsers` is said to keep any writer from doubling a notification
  (`notify.go:343-344`); a play and the scheduler that read at the same time both
  insert. `AtMostTwice` is what does hold.
* A scheduled announcement that fails is not retried: the check is marked
  notified before the send (`notify.go:678`).

Import, export, tracker sync

* An export reads a tracker list that cannot be fetched as an empty one and
  writes every title as new (`importexport.go:1588`, `:1919`).
* When the bookmarks' statuses cannot be read, an import overwrites every stored
  status, against the comment at `importexport.go:992-994`.
* A row the player writes between an import's read and its insert is overwritten
  (`:1059-1061` says "Merge-only").
* After an import without trouble the next one of the same list can overwrite a
  stored status: the first spares it for the sake of the title's rows
  (`importexport.go:1007`), then takes those rows back if an earlier import had made
  them (`:1072-1082`). `importexport.go:44` says that all endpoints are idempotent.
  `ImportSettles` makes an exception of these titles.
* Of a MyAnimeList list entries past the first 1000 are not read, without an error
  (`importexport.go:1197`, `:2273`): an import leaves them out, an export takes them
  for absent and may lower their count, against `:1702-1704`. In the model this is
  the upset `long`, and `NothingTakenAway` speaks of lists that were read whole.
* Favorites are read with a limit of 500 (`:448`), and an export of more than
  `importExportCap` titles always takes the same first ones.
* `anilistAuthedWithRetry` treats a bulk answer with some errors as a failure of
  all; the batch is sent again, entries that were written included.
* With the score formats of 5 and 3 points a rating never settles: what is read
  back is never what is wanted.
* `importexport.go:86-89` says a job never works with stale credentials; when the
  refresh fails it goes on with the old token.
* A token row whose read fails with a status is taken for empty and written back
  over the other provider's tokens (`sync.go:497`).
* `updateMALProgress` hands a MyAnimeList id to a look-up by AniList id.

Episode list

* With AniList and AniZip down the count is taken from the mapping, and for one that
  is open it adds up the following TMDB seasons, which are other titles
  (`resolver.go:2148-2167`): a first season is listed with the episodes of its
  sequels, against the comment at `:2135-2137`. A title of one episode before a
  sequel of two is listed with three.
* Past the end of its season an episode with an open-ended mapping is looked for by
  the same number in the following seasons (`resolver.go:1646-1710`). If these number
  anew, a title that goes on into them shows a later episode under that number; and
  so does a title in one season with a sequel behind it, if its own season was read
  before TMDB listed the episode, the next one after, and TMDB fails now.
* AniList's answers count for five minutes, and up to an hour when it fails
  (`anilist_client.go:99`, `:313-318`): a list computed after an airing may stop short
  of it, though its own body lives 90 seconds only.
* `ResolveEpisodesDirect` reduces the number by the episodes of earlier seasons
  (`direct.go:281-313`) and looks the rest up in the season: if its numbers run on,
  there is another episode there, or none.
* `ResolveEpisodesDirect` wins over a verified mapping when AniZip is empty or
  down; `pickDirectSeason` falls back to season 1, and so does `titleFallback`.
* A season that is known to be stale is fetched again by every request, against
  the comment at `resolver.go:24-27`.
* `AnibridgeMaxEpisode` counts the ends of targets, not of sources.
* A 200 answer that does not parse is an empty map, cached for a day.
* With AniList down the count stops at the verified frontier, and is cached for
  90 s as any other.
* A merge into an expired episode entry brings its old episodes back.
* A season load that was slow is cached over a fresh refetch, for a day.
* Those who wait in `cached()` fail with their leader's error, and do not watch
  their own context.

Proxy

* `VODCacheSet` takes what a probe has read. The first hop of a probe reads 64 KiB
  (`segment_probe.go:46`, `:77`, `:144`, `aniwaves.go:1065`, `kaa.go:1053`), so a longer
  master is kept as a whole one with its end cut off and served so, against
  `proxy.go:588-589`. What is cut off may be an audio rendition:
  a player then gets the other language.
* Nothing bounds the time of a fill: a source that stalls, or a client that stays
  and does not read, keeps its slot. `proxy.go:817-818` says that the cap on a
  download's size prevents that.
* A playlist found by its content is read up to 1 MiB and rewritten even if it is
  longer; one whose read breaks off is passed on as it is, with 200.
* A playlist without extension or hint that is answered with 206 is passed on
  unrewritten, against the comment at `proxy.go:1283-1289`.
* The read of a key ignores its error (about `proxy.go:531`): a broken-off key is
  cached for five minutes.
* The re-check when a playlist is rewritten "holds by construction"
  (`proxy.go:1058-1060`); it fails when its host was evicted or has expired
  during the fetch.
* `LearnHost` does not renew a host that is in use, and an answer from a result
  cache does not learn its hosts again: a title can be served whose hosts are no
  longer admitted. Eviction takes the host learned first, though it be in use.
* Snapshots are written outside the lock (`proxy_allowlist.go:306-308`): an older
  one can be written last; a process killed while it writes starts cold.

Providers

* A candidate whose request fails is left out without an error
  (`animegg.go:594-599`, `:807-812`, `:881-884`; `aniwaves.go:510-517`, `:556-563`,
  `:733-736`; Kaa's and Mkissa's searches alike): a remake or a prequel can win then,
  and is kept as the title's page for a day. `MistakesEnd` says that this ends.
* `noteResolve` passes its verdict inverted (`outage.go:45`, against `:18-21`).
  Every fast answer of AniWaves or NiN, cached ones too, is a strike and pauses
  the provider, and a hung one lifts the pause.
* AnimeGG counts an empty result as sick and opens its pause for everybody,
  against its comment at about `:1197-1200`.
* An AnimeGG listing that joins all parts without a gap never goes to offset mode:
  the prequel's episodes are served for the sequel's numbers
  (`animegg.go:387-391` says otherwise). An AniWaves listing split by cours whose
  parts are not named keeps the site's numbers.
* Kaa: an episode that is not on the page of its range never has the whole
  listing walked, though the comment at `kaa.go:641-643` says so; a hit needs no
  minimum score; servers are named by their place among those that play, so
  their names shift.
* Mkissa: a call refused while throttled counts as throttled, so calls keep the
  block of ten minutes up for as long as they come (`mkissa.go:259-268`, `:1247`).
  `extractMkissaSource` is called only when no field has an address
  (`mkissa.go:381-384`), and then has none to work on.
* NiN's race takes the first answer with an address; when its relay is dead the
  other is not tried.

## 7. Not modelled, and why

* The other providers (component 14): of the same build as the six of `Playback`,
  a search, a listing, a probe and a result cache; what differs is parsing.
* Parsing of pages, similarity of names, encryption helpers, JSON shapes, headers
  and nonces: byte-level work without a protocol; unit tests reach it.
* Of the resolver, movies, logos and covers and `ResolveEpisodesWithAnizip`; of
  the proxy, the re-check of redirects, subtitles and the transport memo; of
  Mkissa, the lane through its crypto and the gap between its calls. Of the
  notifier, the checks of a title's status NOT_YET_RELEASED (`notify.go:540`, `:605`).
* That a title search that found nothing is remembered for a day: `search` is what
  TMDB answers, always the same for a title, so a title added to TMDB later is
  outside `Healed`.
* The other readers of the playlist cache (`manager.go:1638-1686`, `anipm.go:683`), which
  belong to providers that are not modelled.
* `SitesReturn` leaves out NiN, and of Mkissa has a scene only whose site never
  throttles, so the block that calls keep up is covered by no property.
* The single-provider chain, verdict ranking and download merging of
  `manager.go`; the rate limiter of `internal/api/middleware`, which guards no
  other state that is modelled.
* Handlers of component 17 make one request and keep nothing; the Kitsu client is
  constructed by no program of the repository; `deploy/` and `cmd/` hold start-up
  code.

## 8. Plan

1. Done, modelled: `ServerStability`, `Jwks`, `AnilistClient`, `Notifier`,
   `ListTransfer`, `SyncTokens`, `EpisodeList`, `SharedLoads` with `LoaderCache`,
   `ProxyHosts` with `MediaProxy` and `Playback`.
2. Done, proved: every safety property of the runs that pass but AnimeGG's and the
   others' choice of a page (`Playback!RightEpisode`), the refinement of component 8, and the capacities of the caches of components 1 and 9 to 13.
3. Still wanted: a composition of the notifier's look-ups with the AniList circuit;
   the cooldown ladders of the remaining providers; the rate limiter.
