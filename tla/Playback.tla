------------------------------ MODULE Playback ------------------------------
(***************************************************************************)
(* From a title to its bytes: six scraping providers (animegg.go,          *)
(* aniwaves.go and nin.go with the breaker of outage.go, kaa.go,           *)
(* mkissa.go, novuscloud.go) and the media proxy, which share the hosts a  *)
(* provider vouches for and the playlists its probes have read.  A scene   *)
(* fixes the provider, what its site lists, and what is asked.             *)
(***************************************************************************)
EXTENDS MediaProxy, FiniteSetsExt

CONSTANTS
    Scene,              \* what the world is like: [provider, season, site, asks, good, plays, upstreams, upsets]
    ResolveTTL, ShowTTL,        \* animeggResolveTTL, animeggShowTTL and their like
    StrictResolveTTL,   \* mkissaResolveTTL, novuscloudResolveTTL: at just this age an entry has expired
    MaxEntries,         \* maxAnimeGGEntries and its like
    ProbeMin,           \* outagePauseProbeMin, probeMin
    BasePause, MaxPause,        \* the first and the longest pause
    MaxStrikes          \* strikes past this one change nothing (bound of the model)

ASSUME PlaybackAssumption ==
    /\ {ResolveTTL, ShowTTL, StrictResolveTTL} \subseteq Nat
    /\ {MaxEntries, ProbeMin, BasePause, MaxPause, MaxStrikes} \subseteq Nat \ {0}

VARIABLES
    scene,
    upstream,   \* "up", "flaky" (single requests of a search fail), "slow" or "down"
    upsets,     \* how often the upstream has changed or the process restarted (bounded by the scene)
    shows,      \* the pages found: [lang, page, age]
    resolved,   \* [ask, result, age]
    left,       \* what is left of the pause
    strikes,
    spent,      \* by request: how long its resolve has taken
    warming     \* bgWarm: what Kaa resolves again in the background

siteVars == <<shows, resolved, left, strikes, spent, warming>>
world    == <<scene, upstream, upsets>>
vars     == <<proxyVars, siteVars, world>>

GG == INSTANCE AnimeGG
AW == INSTANCE AniWaves
KA == INSTANCE Kaa
MK == INSTANCE Mkissa
NC == INSTANCE Novuscloud
NN == INSTANCE NiN

Least(a, b) == IF a < b THEN a ELSE b

SiteInit ==
    /\ shows = {} /\ resolved = {} /\ left = 0 /\ strikes = 0 /\ warming = {}
    /\ spent = [p \in Proc |-> 0]

Init ==
    /\ scene \in Scene /\ upstream \in scene.upstreams /\ upsets = 0
    /\ ProxyInit /\ SiteInit

-----------------------------------------------------------------------------
(* The breaker.  noteResolve of outage.go takes what lasted probeMin for   *)
(* healthy; noteOutageHealth of animegg.go takes what failed or lasted for *)
(* sick, and never shortens a pause.                                       *)
pausedWhileStruck(now, hits) == hits > 0        \* mutant
paused(now, hits) == now > 0
pauseAfter(n) == Least(BasePause * 2 ^ (n - 1), MaxPause)

Healthy == strikes' = 0 /\ left' = 0
Sick(longest) ==
    /\ strikes' = Least(strikes + 1, MaxStrikes)
    /\ left' = IF longest /\ left > pauseAfter(strikes + 1) THEN left ELSE pauseAfter(strikes + 1)

noteResolve(lasted) == IF lasted >= ProbeMin THEN Healthy ELSE Sick(FALSE)

noteOutageHealth(lasted, kind) ==
    IF kind = "sources" /\ lasted < ProbeMin THEN Healthy
    ELSE IF kind = "miss" /\ lasted < ProbeMin THEN UNCHANGED <<strikes, left>>
    ELSE Sick(TRUE)

(* Mkissa has its own: two refusals in a row, and it is not asked for ten  *)
(* minutes.  A call that is turned away for that counts as a refusal too.  *)
recordThrottle(kind) ==
    IF kind = "sources" THEN Healthy
    ELSE IF kind # "throttled" THEN UNCHANGED <<strikes, left>>
    ELSE /\ strikes' = Least(strikes + 1, MaxStrikes)
         /\ left' = IF strikes > 0 THEN MaxPause ELSE left

(* Novuscloud takes for sick what fails late, or by its deadline.          *)
NoteMirror(lasted, kind) ==
    IF kind = "late" \/ (kind \in {"network", "miss"} /\ lasted >= ProbeMin) THEN Sick(FALSE) ELSE Healthy

Note(lasted, kind) == CASE
    scene.provider = "animegg"  -> noteOutageHealth(lasted, kind)
 [] scene.provider \in {"aniwaves", "nin"} -> noteResolve(lasted)
 [] scene.provider = "kaa"      -> UNCHANGED <<strikes, left>>
 [] scene.provider = "mkissa"   -> recordThrottle(kind)
 [] scene.provider = "novuscloud" -> NoteMirror(lasted, kind)

-----------------------------------------------------------------------------
(* The caches.  A title has one page, by which its results go; Novuscloud  *)
(* needs none, and NiN keeps nothing at all.                               *)
Strict   == scene.provider \in {"mkissa", "novuscloud"}
ByPage   == scene.provider \in {"animegg", "aniwaves"}
ShowOf(ask) == IF scene.provider = "mkissa" THEN ask.lang ELSE "any"

loadResolved(ask) ==
    {e \in resolved : /\ e.ask = ask
                      /\ IF Strict THEN e.age < StrictResolveTTL ELSE e.age <= ResolveTTL}
loadShow(ask) == {e \in shows : e.lang = ShowOf(ask) /\ e.age < ShowTTL}

(* What has expired goes, and at the cap one that may go.                  *)
Unexpired(list, ttl) == {e \in list : e.age <= ttl}
Stored(kept, mayGo) ==
    IF Cardinality(kept) < MaxEntries THEN {kept} ELSE {kept \ {e} : e \in mayGo}

storeResolved(ask, result) ==
    LET kept == Unexpired(resolved, IF Strict THEN StrictResolveTTL ELSE ResolveTTL) IN
    \E rest \in Stored(kept, IF ByPage THEN kept ELSE Oldest(kept)) :
        resolved' = {e \in rest : e.ask # ask} \union {[ask |-> ask, result |-> result, age |-> 0]}

storeShow(ask, page) ==
    LET kept == Unexpired(shows, ShowTTL) IN
    \E rest \in Stored(kept, kept) :
        shows' = {e \in rest : e.lang # ShowOf(ask)}
                   \union {[lang |-> ShowOf(ask), page |-> page, age |-> 0]}

(* FindEpisodeSource: AniWaves looks at the pause first and takes every    *)
(* call, answered from the cache or not, for a resolve, and so does        *)
(* Novuscloud; AnimeGG looks at its cache first and counts what it         *)
(* resolves; Kaa and Mkissa need the page before they can look, and Mkissa *)
(* refuses before that.                                                    *)
Silent == UNCHANGED <<hostVars, cacheVars, slots, draft>>
Found(p, result) == Says(p, result) /\ Go(p, "answered")
TurnedAway(p)    == Found(p, [kind |-> "throttled", learned |-> <<>>])
Unnoted          == UNCHANGED <<left, strikes>>

FromCache(p, ask, noted) ==
    IF loadResolved(ask) # {}
    THEN (\E e \in loadResolved(ask) : Found(p, e.result)) /\ noted
    ELSE Go(p, "resolving") /\ UNCHANGED reply /\ Unnoted

CachedFirst(p, ask) ==
    IF loadResolved(ask) = {} /\ paused(left, strikes) THEN TurnedAway(p) /\ Unnoted
    ELSE FromCache(p, ask, Unnoted)
PauseFirst(p, ask) ==
    IF paused(left, strikes) THEN TurnedAway(p) /\ Unnoted ELSE FromCache(p, ask, Note(0, "sources"))
SlugFirst(p, ask) ==
    IF loadShow(ask) = {} THEN Go(p, "searching") /\ UNCHANGED reply /\ Unnoted
    ELSE FromCache(p, ask, Note(0, "sources"))
ThrottleFirst(p, ask) ==
    IF left > 0 THEN TurnedAway(p) /\ recordThrottle("throttled") ELSE SlugFirst(p, ask)

FindEpisodeSource(p, ask) ==
    /\ step[p] = "idle"
    /\ task' = [task EXCEPT ![p] = [use |-> "find", ask |-> ask]]
    /\ CASE scene.provider = "animegg"  -> CachedFirst(p, ask)
         [] scene.provider \in {"aniwaves", "nin", "novuscloud"} -> PauseFirst(p, ask)
         [] scene.provider = "kaa"      -> SlugFirst(p, ask)
         [] scene.provider = "mkissa"   -> ThrottleFirst(p, ask)
    /\ Silent /\ UNCHANGED <<shows, resolved, spent, warming, world>>

-----------------------------------------------------------------------------
(* resolveEpisode, and what becomes of its result.  The page is the one    *)
(* that was kept or one the search finds now.                              *)
Providers == {"animegg", "aniwaves", "kaa", "mkissa", "novuscloud", "nin"}

(* Requests that fail while a page is searched for drop what they would    *)
(* have found, one by one, and the choice is made among the rest.          *)
Losable(s, ask) == CASE
    s.provider \in {"animegg", "aniwaves"} -> s.site.pages
 [] s.provider = "kaa"    -> DOMAIN s.site.searches
 [] s.provider = "mkissa" -> DOMAIN s.site.searches[ask.lang]
 [] s.provider \in {"nin", "novuscloud"} -> {}
Losses(ask) == IF upstream = "up" THEN {{}} ELSE SUBSET Losable(scene, ask)

Select(s, ask, lost) == CASE
    s.provider = "animegg"  -> GG!animeggSelectSeries(s.site, lost)
 [] s.provider = "aniwaves" -> AW!resolveShow(s.site, lost)
 [] s.provider = "kaa"      -> KA!resolveSlug(s.site, lost)
 [] s.provider = "mkissa"   -> MK!resolveShow(s.site, ask.lang, lost)
 [] s.provider \in {"nin", "novuscloud"} -> {"mirror"}
Findable(s, ask) == UNION {Select(s, ask, lost) : lost \in SUBSET Losable(s, ask)}

ResolveOn(s, page, ask) == CASE
    s.provider = "animegg"  -> {GG!resolveOn(s.site, page, ask.episode, ask.lang)}
 [] s.provider = "aniwaves" -> {AW!resolveOn(s.site, page, ask.episode, ask.lang)}
 [] s.provider = "kaa"      -> {KA!resolveOn(s.site, page, ask.episode, ask.lang, draw) : draw \in {"page", "walk"}}
 [] s.provider = "mkissa"   -> {MK!resolveOn(s.site, page, ask.episode, ask.lang)}
 [] s.provider = "nin"      -> NN!resolve(s.site, ask.episode, ask.lang)
 [] s.provider = "novuscloud" -> {NC!resolveMirror(s.site, ask.episode, ask.lang)}

(* What sites name and players ask for are addresses of pages there are.   *)
ASSUME ScenesAssumption ==
    \A s \in Scene :
        /\ s.provider \in Providers
        /\ \A q \in s.plays : q.url \in Url
        /\ \A ask \in s.asks : \A page \in Findable(s, ask) : \A r \in ResolveOn(s, page, ask) :
              r.learned \in Seq(Url)

(* AnimeGG takes a kept page it cannot fetch for one that lists nothing.   *)
Kept(ask, lost) ==
    {e.page : e \in loadShow(ask)} \ (IF scene.provider = "animegg" THEN lost ELSE {})
Pages(ask, lost) == IF loadShow(ask) # {} THEN Kept(ask, lost) ELSE Select(scene, ask, lost)
KeepAgain(ask, page) == IF ~ByPage THEN UNCHANGED shows ELSE storeShow(ask, page)     \* mutant
KeepShow(ask, page) ==
    IF ~ByPage \/ loadShow(ask) # {} THEN UNCHANGED shows ELSE storeShow(ask, page)

(* The probe of a playlist leaves what it has read of it to the proxy: of  *)
(* a master, or of a playlist without variants, no more than 64 KiB, of    *)
(* the variant it tries no more than the cache takes.  Mkissa, Novuscloud  *)
(* and NiN look into the cache first.                                      *)
Caching == scene.provider \in {"mkissa", "novuscloud", "nin"}
fetchPlaylistCapped(list, u, size) ==
    LET fresh == IF Caching THEN {e \in list : e.url = u => e.age <= PlaylistTTL} ELSE list IN
    IF Caching /\ \E e \in fresh : e.url = u /\ e.size <= size THEN {fresh}
    ELSE VODCacheSet(fresh, u, First(u, size))
ReadAll(urls, size, lists) ==
    FoldSet(LAMBDA u, some : UNION {fetchPlaylistCapped(l, u, size) : l \in some}, lists, urls)

Playlists(urls) == {u \in Url \cap urls : Page[u].kind = "playlist"}
Variants(urls)  == {Page[u].links[1] : u \in {x \in Url \cap urls : Page[x].links # <<>>}}
AllProbed(urls) ==
    ReadAll(Playlists(Variants(urls)), 2, ReadAll(Playlists(urls), 1, {playlists}))

(* bgRetryResolve: what Kaa fails to find once it knows the page is tried  *)
(* once more in the background, for nobody but the cache.                  *)
Retried(p, kind) ==
    warming' = IF task[p].use = "warm" THEN warming \ {task[p].ask}
               ELSE IF scene.provider = "kaa" /\ kind # "sources" THEN warming \union {task[p].ask}
               ELSE warming

Resolves(p, page, ask) == \E result \in ResolveOn(scene, page, ask) :
    /\ KeepShow(ask, page)
    /\ playlists' \in IF scene.provider = "animegg" THEN {playlists} ELSE AllProbed(result.probed)
    /\ Says(p, result) /\ Note(spent[p], result.kind) /\ Retried(p, result.kind)
    /\ Vouch(Hosts(result.learned))
    /\ IF result.kind = "sources" /\ scene.provider # "nin" THEN storeResolved(ask, result) ELSE UNCHANGED resolved
    /\ Persist(p, "answered")

(* A search that finds no page, and a site that does not answer, answers   *)
(* too late, or says that it is asked too often.                           *)
FailsWith(p, kind) ==
    /\ Found(p, [kind |-> kind, learned |-> <<>>])
    /\ Note(spent[p], kind)
    /\ UNCHANGED <<hosts, playlists, resolved, shows, draft>>
Upset == CASE
    scene.provider = "mkissa"     -> {"network", "throttled"}
 [] scene.provider = "novuscloud" -> {"network", "late"}
 [] OTHER -> {"network"}

resolveEpisode(p) ==
    LET ask == task[p].ask IN
    /\ step[p] = "resolving"
    /\ upstream = "slow" => spent[p] >= ProbeMin
    /\ \/ /\ upstream # "down"
          /\ \E lost \in Losses(ask) :
                IF Pages(ask, lost) = {} THEN FailsWith(p, "miss") /\ UNCHANGED warming
                ELSE \E page \in Pages(ask, lost) : Resolves(p, page, ask)
       \/ upstream # "up" /\ (\E kind \in Upset : FailsWith(p, kind) /\ Retried(p, kind))
    /\ spent' = [spent EXCEPT ![p] = 0]
    /\ UNCHANGED <<file, keys, slots, task, world>>

(* Kaa and Mkissa keep the page as soon as they have it, and look for the  *)
(* result under it.                                                        *)
resolveShow(p) ==
    LET ask == task[p].ask IN
    /\ step[p] = "searching"
    /\ \/ /\ upstream # "down" /\ \E lost \in Losses(ask) : Select(scene, ask, lost) = {}
          /\ FailsWith(p, "miss")
       \/ /\ upstream # "down"
          /\ \E lost \in Losses(ask) : \E page \in Select(scene, ask, lost) : storeShow(ask, page)
          /\ FromCache(p, ask, Note(0, "sources"))
          /\ UNCHANGED <<hosts, playlists, resolved, draft>>
       \/ upstream # "up" /\ (\E kind \in Upset : FailsWith(p, kind))
    /\ UNCHANGED <<file, keys, slots, task, spent, warming, world>>

bgRetryResolve(p) ==
    /\ step[p] = "idle"
    /\ \E ask \in warming \ {task[q].ask : q \in {x \in Proc : task[x].use = "warm"}} :
          task' = [task EXCEPT ![p] = [use |-> "warm", ask |-> ask]]
    /\ Go(p, "resolving") /\ UNCHANGED <<reply, siteVars, world>> /\ Silent

-----------------------------------------------------------------------------
ofSite == UNCHANGED <<siteVars, world>>

timers ==
    /\ left' = IF left = 0 THEN 0 ELSE left - 1
    /\ spent' = [p \in Proc |-> IF step[p] = "resolving" THEN Least(spent[p] + 1, ProbeMin) ELSE 0]

aging ==
    /\ shows' = Ages(shows, ShowTTL)
    /\ resolved' = Ages(resolved, IF Strict THEN StrictResolveTTL ELSE ResolveTTL)

tick ==
    /\ ProxyTick /\ timers /\ aging
    /\ UNCHANGED <<strikes, warming, world>>

restart ==
    /\ upsets < scene.upsets /\ upsets' = upsets + 1
    /\ ProxyRestart
    /\ shows' = {} /\ resolved' = {} /\ left' = 0 /\ strikes' = 0 /\ warming' = {}
    /\ spent' = [p \in Proc |-> 0]
    /\ UNCHANGED <<scene, upstream>>

turn ==
    /\ upsets < scene.upsets /\ upsets' = upsets + 1
    /\ upstream' \in scene.upstreams \ {upstream}
    /\ UNCHANGED <<proxyVars, siteVars, scene>>

clean == CleanupDynamicCDNEntries /\ UNCHANGED <<cacheVars, slots, procVars, siteVars, world>>

Play(p) == ofSite /\ \E q \in scene.plays : Proxy(p, q)
Ask(p)  == \E ask \in scene.asks : FindEpisodeSource(p, ask)
Work(p) ==
    \/ ofSite /\ (acquire(p) \/ fetch(p) \/ persistDynamicCDNEntries(p) \/ done(p))
    \/ resolveShow(p) \/ resolveEpisode(p) \/ bgRetryResolve(p)
Shed(p) == ofSite /\ shed(p)

Next ==
    \/ \E p \in Proc : Play(p) \/ Ask(p) \/ Work(p) \/ Shed(p)
    \/ tick \/ restart \/ turn \/ clean

(* Goroutines are scheduled, requests to a site end by their timeouts, a   *)
(* queued fill is shed at the end of its hold, and time passes: all that   *)
(* is asked moves on but a fill, which nothing bounds in time.  Viewers    *)
(* ask for what the site has, also at times when it is not paused.         *)
Places == {"idle", "searching", "resolving", "persist", "queued", "filling", "answered"}
MovesOn(p) ==
    /\ step[p] \notin {"idle", "filling"}
    /\ \E place \in Places \ {step[p]} : step' = [step EXCEPT ![p] = place]
Asked(p) ==
    /\ \E ask \in scene.good : task' = [task EXCEPT ![p] = [use |-> "find", ask |-> ask]]
    /\ step[p] = "idle" /\ ~paused(left, strikes)

Fairness ==
    /\ \A p \in Proc : WF_step(MovesOn(p))
    /\ SF_task(\E p \in Proc : Asked(p))
    /\ WF_<<left, spent>>(timers) /\ WF_<<shows, resolved>>(aging)

Spec == Init /\ [][Next]_vars /\ Fairness

-----------------------------------------------------------------------------
(* A playlist is answered whole if all of its readers could have read it   *)
(* so: it fits the first hop of a probe, or it fits the cache and no site  *)
(* leads a probe to it first.  And what is answered whole is in the        *)
(* language that was asked for and in that one alone, whoever read it.     *)
FirstHops(s) ==
    IF s.provider = "animegg" THEN {}
    ELSE UNION {UNION {r.probed : r \in UNION {ResolveOn(s, page, ask) : page \in Findable(s, ask)}} : ask \in s.asks}
Spared(s, u) == Page[u].size = 1 \/ (Page[u].size = 2 /\ u \notin FirstHops(s))
PlaylistsSound == \A p \in Proc : reply[p].kind = "playlist" =>
    LET page == Page[reply[p].url] IN
    /\ Spared(scene, reply[p].url) => ~reply[p].cut
    /\ ~reply[p].cut =>
          reply[p].audio = IF task[p].al \in page.audio THEN {task[p].al} ELSE page.audio

(* A host comes to be admitted by a provider, or by a playlist whose own   *)
(* host is admitted when the playlist is rewritten; a restart brings back  *)
(* what the file holds, and neither it nor anything else makes it younger. *)
Names(p, h) ==
    \/ task[p].use \in {"find", "warm"} /\ reply'[p] \notin {reply[p], NoReply} /\ h \in ToSet(Hosts(reply'[p].learned))
    \/ /\ reply'[p] # reply[p] /\ reply'[p].kind = "playlist"
       /\ isAllowedProxyHost(Page[reply'[p].url].host)
       /\ h \in ToSet(Hosts(Page[reply'[p].url].links))
Vouched == [][\A entry \in hosts' : entry.age <= HostTTL =>
    \/ \E e \in hosts \union file : e.host = entry.host /\ e.age <= entry.age
    \/ \E p \in Proc : Names(p, entry.host)]_vars

(* Nobody queues for ever, and a slot is given back once its fill is over, *)
(* whatever the answer came to.                                            *)
FillsEnd == \A p \in Proc : []<>(step[p] # "queued" /\ (p \in slots => step[p] = "filling"))

(* What a provider serves is the episode and the language asked for, where *)
(* no failing request can make it choose a page it would not choose        *)
(* otherwise.                                                              *)
Settled == [s \in Scene |-> {ask \in s.asks : Findable(s, ask) \subseteq Select(s, ask, {})}]
RightEpisode == \A p \in Proc : reply[p].kind = "sources" /\ task[p].ask \in Settled[scene] =>
    reply[p].shows = <<scene.season, task[p].ask.episode>> /\ reply[p].lang = task[p].ask.lang

(* A page that was only chosen because requests failed is kept for a while *)
(* like any other, and by then forgotten: it is not renewed by its use, so *)
(* that in the end what is served is what the site resolves to with none   *)
(* of its pages lost.                                                      *)
Rightful == [s \in Scene |->
    [ask \in s.asks |-> UNION {ResolveOn(s, page, ask) : page \in Select(s, ask, {})}]]
Mistaken(p) == reply[p].kind = "sources" /\ reply[p] \notin Rightful[scene][task[p].ask]
MistakesEnd == <>[](upstream = "up") => <>[](\A p \in Proc : ~Mistaken(p))

(* A site that is up in the end is served from again and again: no pause   *)
(* outlasts what it was opened for.                                        *)
SitesReturn == <>[](upstream = "up") =>
    []<>(scene.good = {} \/ \E p \in Proc : task[p].use = "find" /\ reply[p].kind = "sources")
=============================================================================
