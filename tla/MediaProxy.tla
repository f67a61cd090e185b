----------------------------- MODULE MediaProxy -----------------------------
(***************************************************************************)
(* The media proxy (internal/api/v1/proxy.go, proxy_fill_limiter.go,       *)
(* proxy_audio.go, internal/streaming/vod_cache.go): what a player asks    *)
(* for passes the gates, is answered from the playlist or the key cache,   *)
(* or waits for a fill slot and is fetched; a playlist is rewritten so     *)
(* that what it names passes the gates in its turn.                        *)
(*                                                                         *)
(* A page is what an upstream URL serves: its host, its kind (playlist,    *)
(* key, media), whether a path, a type or nothing tells that it is a       *)
(* playlist, where it is marked as static (at its head, at its end, or     *)
(* nowhere: it is live), its size, the pages it names, the languages of    *)
(* its audio renditions and those of them it names far from its head.      *)
(* Sizes: 1 fits the first hop of a probe (64 KiB), 2 its second hop and   *)
(* the playlist cache (256 KiB), 3 a read (1 MiB), 4 reaches that cap.     *)
(***************************************************************************)
EXTENDS ProxyHosts

CONSTANTS
    Proc,               \* the requests that may run at a time
    Url,
    Page,               \* by URL
    FillCap,            \* ANIRAKU_PROXY_MAX_STREAMS
    PlaylistTTL,        \* vodCacheTTL
    KeyTTL,             \* five minutes
    MaxPlaylists        \* vodCacheMaxEnt

ASSUME MediaProxyAssumption ==
    /\ {PlaylistTTL, KeyTTL} \subseteq Nat /\ {FillCap, MaxPlaylists} \subseteq Nat \ {0}
    /\ IsFiniteSet(Url)
    /\ \A u \in Url : /\ Page[u].host \in Host \ Nuisance /\ Page[u].links \in Seq(Url)
                      /\ Page[u].size \in 1 .. 4

VARIABLES
    playlists,  \* vodCache: [url, age, size, cut, audio]
    keys,       \* keyCache: [url, age, cut]
    slots,      \* proxyFills: who holds a slot
    step,       \* by request: where it is
    task,       \* by request: what it was asked for
    reply,      \* by request: what it answers
    draft       \* by request: the snapshot of hosts it is about to write

cacheVars == <<playlists, keys>>
procVars  == <<step, task, reply, draft>>
proxyVars == <<hostVars, cacheVars, slots, procVars>>

Languages == {"sub", "dub"}
NoTask    == [use |-> "none"]
NoReply   == [kind |-> "none"]
Answer(kind, u)     == [kind |-> kind, url |-> u]
Go(p, place)        == step' = [step EXCEPT ![p] = place]
Says(p, r)          == reply' = [reply EXCEPT ![p] = r]
Hosts(urls)         == [i \in DOMAIN urls |-> Page[urls[i]].host]

ProxyInit ==
    /\ HostsInit /\ playlists = {} /\ keys = {} /\ slots = {}
    /\ step = [p \in Proc |-> "idle"] /\ task = [p \in Proc |-> NoTask]
    /\ reply = [p \in Proc |-> NoReply] /\ draft = [p \in Proc |-> {}]

-----------------------------------------------------------------------------
(* The playlist cache keeps raw bodies that are small and static, as far   *)
(* as what was read of them shows.                                         *)
isCacheablePlaylist(u, cut) == Page[u].mark = "head" \/ (Page[u].mark = "end" /\ ~cut)

VODCacheGet(list, u) == {e \in list : e.url = u /\ e.age <= PlaylistTTL}

VODCacheSet(list, u, body) ==
    IF body.size > 2 \/ ~isCacheablePlaylist(u, body.cut) THEN {list}
    ELSE LET room == IF Cardinality(list) < MaxPlaylists THEN {list} ELSE {list \ {e} : e \in Oldest(list)} IN
         {{e \in r : e.url # u}
             \union {[url |-> u, age |-> 0, size |-> body.size, cut |-> body.cut, audio |-> body.audio]} : r \in room}

Whole(u) == [size |-> Page[u].size, cut |-> FALSE, audio |-> Page[u].audio]
First(u, size) ==                               \* no more of it than is read
    IF Page[u].size <= size THEN Whole(u)
    ELSE [size |-> size, cut |-> TRUE, audio |-> IF size = 1 THEN Page[u].audio \ Page[u].far ELSE Page[u].audio]

stripAudioRenditions(audio, al) == IF al \in audio THEN {al} ELSE audio

(* rewriteHLSPlaylist: the hosts it names are vouched for while its own is *)
(* admitted; the languages that were not asked for are stripped.  What is  *)
(* learnt is written to the file before the answer goes out.               *)
Persist(p, next) ==
    IF hosts' = hosts THEN Go(p, next) /\ UNCHANGED draft
    ELSE Go(p, "persist") /\ draft' = [draft EXCEPT ![p] = hosts']

VouchAlways(u) == Vouch(Hosts(Page[u].links))   \* mutant
VouchForLinks(u) ==
    IF isAllowedProxyHost(Page[u].host) THEN Vouch(Hosts(Page[u].links)) ELSE UNCHANGED hosts

serveRewrittenPlaylist(p, u, body, al) ==
    /\ VouchForLinks(u) /\ UNCHANGED file
    /\ Says(p, [kind |-> "playlist", url |-> u, cut |-> body.cut,
                audio |-> stripAudioRenditions(body.audio, al)])
    /\ Persist(p, "answered")

-----------------------------------------------------------------------------
(* The gates, the caches and the first try for a slot.                     *)
Gated(q) == isAllowedProxyHost(Page[q.url].host)
Cached(q) == IF q.use = "play" THEN VODCacheGet(playlists, q.url) ELSE {}
KeyCached(q) == IF q.use = "play" THEN {e \in keys : e.url = q.url /\ e.age < KeyTTL} ELSE {}

(* An expired entry that is looked up is dropped.                          *)
Dropped(q) ==
    IF q.use # "play" \/ ~Gated(q) THEN UNCHANGED cacheVars
    ELSE /\ playlists' = {e \in playlists : e.url = q.url => e.age <= PlaylistTTL}
         /\ keys' = IF Cached(q) # {} THEN keys ELSE {e \in keys : e.url = q.url => e.age < KeyTTL}

Proxy(p, q) ==
    /\ step[p] = "idle"
    /\ task' = [task EXCEPT ![p] = q]
    /\ Dropped(q)
    /\ \/ /\ ~Gated(q)
          /\ Says(p, Answer("forbidden", q.url)) /\ Go(p, "answered")
          /\ UNCHANGED <<hostVars, slots, draft>>
       \/ /\ Gated(q) /\ \E e \in Cached(q) : serveRewrittenPlaylist(p, q.url, e, q.al)
          /\ UNCHANGED slots
       \/ /\ Gated(q) /\ Cached(q) = {}
          /\ \E e \in KeyCached(q) : Says(p, [kind |-> "key", url |-> q.url, cut |-> e.cut]) /\ Go(p, "answered")
          /\ UNCHANGED <<hostVars, slots, draft>>
       \/ /\ Gated(q) /\ Cached(q) = {} /\ KeyCached(q) = {}
          /\ IF Cardinality(slots) < FillCap
             THEN slots' = slots \union {p} /\ Go(p, "filling")
             ELSE Go(p, "queued") /\ UNCHANGED slots
          /\ UNCHANGED <<hostVars, reply, draft>>

acquire(p) ==
    /\ step[p] = "queued" /\ Cardinality(slots) < FillCap
    /\ slots' = slots \union {p} /\ Go(p, "filling")
    /\ UNCHANGED <<hostVars, cacheVars, task, reply, draft>>

(* The queue hold has passed, or the client is gone.                       *)
shed(p) ==
    /\ step[p] = "queued"
    /\ Says(p, Answer("busy", task[p].url)) /\ Go(p, "answered")
    /\ UNCHANGED <<hostVars, cacheVars, slots, task, draft>>

-----------------------------------------------------------------------------
(* What doRequest and the one retry come back with: nothing that can be    *)
(* used; the whole body; a body that breaks off; or, where the range a     *)
(* player asked for is passed on, a head of it or all of it as a range.    *)
RangePassedOn(q) == q.ranged /\ Page[q.url].hint # "path" /\ Page[q.url].kind # "key"
doRequest(q) ==
    {"unusable", "whole", "broken"} \union (IF RangePassedOn(q) THEN {"head", "all"} ELSE {})

classifyPlaylistResponse(got) == IF got \in {"whole", "all"} THEN "serve" ELSE "reject"

Fails(p, u) == Says(p, Answer("failed", u)) /\ Go(p, "answered") /\ UNCHANGED <<hostVars, cacheVars, draft>>
Passes(p, u, cut) ==
    /\ Says(p, [kind |-> "raw", url |-> u, cut |-> cut]) /\ Go(p, "answered")
    /\ UNCHANGED <<hostVars, cacheVars, draft>>

KeepStripped(list, u, body, al) ==              \* mutant
    VODCacheSet(list, u, [body EXCEPT !.audio = stripAudioRenditions(body.audio, al)])
Keep(list, u, body, al) == VODCacheSet(list, u, body)

Serves(p, u, body, al) ==
    /\ playlists' \in Keep(playlists, u, body, al)
    /\ serveRewrittenPlaylist(p, u, body, al)
    /\ UNCHANGED keys

(* A playlist its URL or its type gives away: a cut one is refused.        *)
Hinted(p, q, got) ==
    IF classifyPlaylistResponse(got) = "serve" /\ Page[q.url].size < 4
    THEN Serves(p, q.url, [Whole(q.url) EXCEPT !.cut = got = "head"], q.al)
    ELSE Fails(p, q.url)

(* One that only its first bytes give away is read up to the cap; a range  *)
(* of it is not looked into, and one that breaks off passes as it is.      *)
Sniffed(p, q, got) ==
    IF got = "whole" THEN Serves(p, q.url, [Whole(q.url) EXCEPT !.cut = Page[q.url].size = 4], q.al)
    ELSE Passes(p, q.url, got # "all")

(* A key whose read breaks off is kept like a whole one.                   *)
Key(p, q, got) ==
    \/ /\ Page[q.url].size <= 2 \/ got = "broken"
       /\ keys' = {e \in keys : e.url # q.url} \union {[url |-> q.url, age |-> 0, cut |-> got = "broken"]}
       /\ Says(p, [kind |-> "key", url |-> q.url, cut |-> got = "broken"]) /\ Go(p, "answered")
       /\ UNCHANGED <<hostVars, playlists, draft>>
    \/ Page[q.url].size > 2 /\ Passes(p, q.url, got = "broken")

(* A body is copied for as long as it flows and the player reads it.       *)
fetch(p) ==
    LET q == task[p] IN
    LET page == Page[q.url] IN
    /\ step[p] = "filling"
    /\ \E got \in doRequest(q) :
          IF got = "unusable" THEN Fails(p, q.url)
          ELSE IF q.use = "save" THEN Passes(p, q.url, got \in {"broken", "head"})
          ELSE IF page.kind = "key" THEN Key(p, q, got)
          ELSE IF page.kind = "media" THEN Passes(p, q.url, got \in {"broken", "head"})
          ELSE IF page.hint # "none" THEN Hinted(p, q, got)
          ELSE Sniffed(p, q, got)
    /\ UNCHANGED <<slots, task>>

(* The file is written outside the lock, from a snapshot.                  *)
persistDynamicCDNEntries(p) ==
    /\ step[p] = "persist" /\ Go(p, "answered")
    /\ file' = draft[p] /\ draft' = [draft EXCEPT ![p] = {}]
    /\ UNCHANGED <<hosts, cacheVars, slots, task, reply>>

(* The answer has gone out, and the slot is given back.                    *)
doneWithAnswer(p) ==                            \* mutant
    /\ step[p] = "answered" /\ Go(p, "idle")
    /\ slots' = IF reply[p].kind = "failed" THEN slots ELSE slots \ {p}
    /\ task' = [task EXCEPT ![p] = NoTask] /\ Says(p, NoReply)
    /\ UNCHANGED <<hostVars, cacheVars, draft>>

done(p) ==
    /\ step[p] = "answered" /\ Go(p, "idle")
    /\ slots' = slots \ {p}
    /\ task' = [task EXCEPT ![p] = NoTask] /\ Says(p, NoReply)
    /\ UNCHANGED <<hostVars, cacheVars, draft>>

(* No clock here is fine enough to see a rewrite or a write of the file.   *)
Ages(list, max) == {[e EXCEPT !.age = IF @ > max THEN @ ELSE @ + 1] : e \in list}
ProxyTick ==
    /\ \A p \in Proc : step[p] # "persist"
    /\ HostsTick
    /\ playlists' = Ages(playlists, PlaylistTTL)
    /\ keys' = {e \in Ages(keys, KeyTTL) : e.age <= KeyTTL}
    /\ UNCHANGED <<slots, procVars>>

(* A restart keeps the file alone, and a write it interrupts leaves none.  *)
ProxyRestart ==
    LET writing == {p \in Proc : step[p] = "persist"} IN
    /\ file' \in {file} \union (IF writing = {} THEN {} ELSE {{}})
    /\ hosts' = ensureDynamicCDNLoaded(file')
    /\ playlists' = {} /\ keys' = {} /\ slots' = {}
    /\ step' = [p \in Proc |-> "idle"] /\ task' = [p \in Proc |-> NoTask]
    /\ reply' = [p \in Proc |-> NoReply] /\ draft' = [p \in Proc |-> {}]
=============================================================================
