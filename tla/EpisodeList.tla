---------------------------- MODULE EpisodeList ----------------------------
(***************************************************************************)
(* The episode list of one title (GetEpisodes in internal/api/v1/          *)
(* catalog.go) and the resolver behind it (internal/tmdb): how many        *)
(* episodes are listed, and which TMDB episode each of them is shown with, *)
(* as the title airs, the sources catch up one after another, fail, and    *)
(* every answer is cached for a while.                                     *)
(*                                                                         *)
(* A TMDB episode is known by its position in the show: 1, 2, ... over all *)
(* regular seasons.  The title's episode n is position Base + n; this is   *)
(* what the code has to find out.  A remote answer is known by how far the *)
(* source had come when it was read.  A request is one step: its reads     *)
(* run side by side in the code, but none changes what another finds       *)
(* except as described (the caches under concurrent calls are modelled in  *)
(* LoaderCache).  Descriptions, air dates and pictures follow the episode. *)
(***************************************************************************)
EXTENDS Integers, Sequences, FiniteSets

CONSTANTS
    Title,              \* the titles considered
    SeasonKey,          \* by season: what the list of its episodes is cached under
    BodyTTL,            \* episodesCacheTTL
    AniListFresh,       \* cacheTTL of the AniList client: five minutes
    AniListKept,        \* how long it answers from them when AniList fails: an hour
    EpisodeTTL,         \* the AniZip answers
    EntryTTL,           \* episodeCacheTTL
    FreshTTL,           \* seasonFreshTTL
    LongTTL,            \* MappingTTL, SeasonTTL, AnisearchTTL: a day
    Assumed,            \* the length assumed of a title nobody knows it of (12)
    MaxDown, MaxOutages \* bounds of the model: sources down at once, and
                        \* requests that find one down

Source == {"anilist", "anibridge", "tmdb", "anizip", "fribb", "anisearch"}

(* A title: the positions the show's TMDB seasons begin at, where the last *)
(* one ends, whether the numbers run on from season to season, the         *)
(* position before the title's first episode, its length and whether       *)
(* AniList says it from the start, whether AniList gives the next airing,  *)
(* the form of its AniBridge mapping, what the other sources know, and the *)
(* season its name mentions.                                               *)
TitleType ==
    [first : Seq(Nat), last : Nat, absolute : BOOLEAN, base : Nat, total : Nat, known : BOOLEAN,
     dated : BOOLEAN, bridge : {"none", "nested", "show", "open"}, fribb : BOOLEAN, search : BOOLEAN,
     marker : Nat, anizip : BOOLEAN, anisearch : BOOLEAN]

(* The seasons of a show follow one another from its first episode, and a  *)
(* title is some of its episodes.  Open stands for no end: it is past      *)
(* every number there is.                                                  *)
Err  == -1
Open == 100000

WellFormed(t) ==
    /\ Len(t.first) \in 1 .. Len(SeasonKey)
    /\ t.first[1] = 1 /\ \A i, j \in DOMAIN t.first : i < j => t.first[i] < t.first[j]
    /\ t.first[Len(t.first)] <= t.last
    /\ t.total > 0 /\ t.base + t.total <= t.last /\ t.last < Open

SourceKeys == {"anilist", "mapping", "show", "search", "anizip", "meta", "fribb", "anisearch"}

ASSUME EpisodeListAssumption ==
    /\ \A t \in Title : t \in TitleType /\ WellFormed(t)
    /\ SeasonKey \in Seq(STRING) /\ \A i \in DOMAIN SeasonKey : SeasonKey[i] \notin SourceKeys
    /\ {BodyTTL, AniListFresh, AniListKept, EpisodeTTL, EntryTTL, FreshTTL, LongTTL, Assumed} \subseteq Nat \ {0}
    /\ FreshTTL <= LongTTL /\ AniListFresh <= AniListKept
    /\ MaxDown \in Nat /\ MaxOutages \in Nat

VARIABLES
    title,
    aired, bridged, listed,     \* episodes aired, verified by AniBridge, listed by TMDB
                                \* (those of following seasons behind the title's)
    past,                       \* how many had aired 1, 2, ... ticks ago (history)
    store,                      \* the clients' caches: what was read and how long it still counts
    episodeCache,               \* position by episode number, and how long they count
    body,                       \* the rendered answer
    outages

vars == <<title, aired, bridged, listed, past, store, episodeCache, body, outages>>

-----------------------------------------------------------------------------
(* The remote world.                                                       *)
Seasons == 1 .. Len(title.first)
Keys    == SourceKeys \union {SeasonKey[s] : s \in Seasons}

Last(s)   == IF s = Len(title.first) THEN title.last ELSE title.first[s + 1] - 1
Season(i) == CHOOSE s \in Seasons : title.first[s] <= i /\ i <= Last(s)
Number(i) == IF title.absolute THEN i ELSE i - title.first[Season(i)] + 1
In(s, top) == title.first[s] .. IF top < Last(s) THEN top ELSE Last(s)

World(k) ==
    CASE k = "anilist"              -> aired
      [] k = "mapping"              -> bridged
      [] k = "anizip"               -> IF title.anizip THEN aired ELSE 0
      [] k = "meta"                 -> IF title.anizip THEN title.total ELSE Err
      [] k = "fribb"                -> IF title.fribb THEN 1 ELSE 0
      [] k = "search"               -> IF title.search THEN 1 ELSE 0
      [] k = "anisearch"            -> IF title.anisearch THEN aired ELSE Err
      [] OTHER                      -> title.base + listed

SourceOf(k) ==
    CASE k = "anilist"            -> {"anilist"}
      [] k = "mapping"            -> {"anibridge"}
      [] k \in {"anizip", "meta"} -> {"anizip"}
      [] k = "fribb"              -> {"fribb"}
      [] k = "anisearch"          -> {"anizip", "anisearch"}
      [] OTHER                    -> {"tmdb"}

TTL(k) ==
    IF k = "anilist" THEN AniListKept ELSE IF k \in {"anizip", "meta"} THEN EpisodeTTL ELSE LongTTL

(* What AniList answered is taken for five minutes, and for longer only    *)
(* when it fails.                                                          *)
Age(k)        == TTL(k) - store[k].left
FreshWhileKept(k) == store[k].left > 0           \* mutant
Fresh(k)      == store[k].left > 0 /\ (k = "anilist" => Age(k) < AniListFresh)
Up(k, down)   == SourceOf(k) \intersect down = {}
staleCache(k) == IF k = "anilist" THEN store[k].value ELSE Err
(* What a request finds at k, and the entry it leaves there.               *)
Read(k, down) ==
    IF Fresh(k) THEN store[k].value ELSE IF Up(k, down) THEN World(k) ELSE staleCache(k)
Cached(k, down) ==
    IF Fresh(k) \/ ~Up(k, down) \/ World(k) = Err THEN store[k]
    ELSE [value |-> World(k), left |-> TTL(k)]

(* What a request finds, with some sources down.                           *)
Request(down) == [down |-> down, heard |-> [k \in Keys |-> Read(k, down)]]

(* The episodes, or the show or season listed up to a position.            *)
FetchAniZipEpisodes(q)    == IF q.heard["anizip"] = Err THEN 0 ELSE q.heard["anizip"]
FetchAniZipMediaMeta(q)   == q.heard["meta"]
FetchAnisearchEpisodes(q) == IF q.heard["anisearch"] = Err THEN 0 ELSE q.heard["anisearch"]
getMapping(q)             == q.heard["mapping"]
getTmdbShow(q)            == q.heard["show"]
getTmdbSeason(s, q)       == q.heard[SeasonKey[s]]
resolveTmdbIDByTitle(q)   == q.heard["search"] = 1

-----------------------------------------------------------------------------
(* Mappings: a season of the show, and a range of the title's numbers with *)
(* the range of the season's it goes to.                                   *)
rng(a, b) == [from |-> a, to |-> b]
Size(r)     == IF r.to = Open THEN Open ELSE r.to - r.from + 1
Mapping(s, src, dst) == [season |-> s, src |-> src, dst |-> dst]

MappedAsGiven(m, n) == IF m.src.from <= n /\ n <= m.src.to THEN n ELSE 0     \* mutant

mapEpisodeNumber(m, n) ==
    IF /\ m.src.from <= n /\ n <= m.src.to
       /\ n - m.src.from < Size(m.dst)
    THEN m.dst.from + n - m.src.from ELSE 0

Least(S)    == CHOOSE x \in S : \A y \in S : x <= y
Greatest(S) == CHOOSE x \in S : \A y \in S : x >= y

(* What AniBridge answers once b episodes are verified, and Fribb.         *)
Verified(b, s) == {n \in 1 .. b : Season(title.base + n) = s}
FromFirst      == Mapping(Season(title.base + 1),
                          rng(1, Open), rng(Number(title.base + 1), Open))

extractTmdbShowMappings(b) ==
    CASE b < 1 \/ title.bridge \in {"none", "nested"} -> {}
      [] b >= 1 /\ title.bridge = "open"              -> {FromFirst}
      [] OTHER ->
            {LET lo == Least(Verified(b, s))  hi == Greatest(Verified(b, s))
             IN  Mapping(s, rng(lo, hi),
                         rng(Number(title.base + lo), Number(title.base + hi)))
             : s \in {x \in Seasons : Verified(b, x) # {}}}

fribbToMappings(f)     == IF f = 1 THEN {FromFirst} ELSE {}
getFribbMappings(q) == fribbToMappings(q.heard["fribb"])

(* The ranges below another id, which say nothing of a season: with a show *)
(* found by its title they are taken for the first season's; without them  *)
(* the requested numbers are.                                              *)
extractNestedRanges(b, nums) ==
    IF b >= 1 /\ title.bridge = "nested" THEN {Mapping(1, rng(1, b), rng(1, b))}
    ELSE {Mapping(1, rng(n, n), rng(n, n)) : n \in nums}

Named(q)  == q.heard["anilist"] # Err       \* only AniList gives the title's names
airing(q) == Named(q) /\ q.heard["anilist"] < title.total

Mappings(nums, q) ==
    LET shows  == extractTmdbShowMappings(getMapping(q))
        fribb  == getFribbMappings(q)
    IN  IF shows # {} THEN shows
        ELSE IF fribb # {} THEN fribb
        ELSE IF Named(q) /\ resolveTmdbIDByTitle(q) THEN extractNestedRanges(getMapping(q), nums)
        ELSE {}

(* The season and number of an episode: of the only mapping that covers    *)
(* it, or, past the end of all, of one that has kept pace so far.          *)
NoTarget == [n |-> 0, season |-> 0, number |-> 0, open |-> FALSE]
Covering(mappings, n) == {m \in mappings : mapEpisodeNumber(m, n) # 0}

identityAlignedContinuation(m) ==
    /\ m.src.from = 1 /\ m.src.to # Open /\ m.dst.to # Open
    /\ Size(m.src) = Size(m.dst)
Extended(mappings, n) ==
    {m \in mappings : identityAlignedContinuation(m) /\ n > m.src.to}

selectTmdbMappingForEpisode(mappings, n) ==
    IF Cardinality(Covering(mappings, n)) = 1
    THEN LET m == CHOOSE m \in Covering(mappings, n) : TRUE
         IN  [n |-> n, season |-> m.season, number |-> mapEpisodeNumber(m, n), open |-> m.src.to = Open]
    ELSE IF Extended(mappings, n) # {}
    THEN LET m == CHOOSE m \in Extended(mappings, n) :
                      \A x \in Extended(mappings, n) : m.src.to >= x.src.to
         IN  [n |-> n, season |-> m.season, number |-> n + m.dst.from - m.src.from, open |-> FALSE]
    ELSE NoTarget

(* The TMDB episode with this number in a season read up to position top.  *)
At(s, number, top) == {i \in In(s, top) : Number(i) = number}

continuationSeasonNumbers(s, q) ==
    {x \in Seasons : x > s /\ In(x, getTmdbShow(q)) # {}}

-----------------------------------------------------------------------------
(* ResolveEpisodes: the position found for each number, what has been read *)
(* (what is fresh is taken from the cache) and which seasons were read in  *)
(* any case, because they lacked a mapped episode.                         *)
Nothing == [found |-> {}, read |-> {}, forced |-> {}]

early(q) ==
    LET unmapped == extractTmdbShowMappings(getMapping(q)) = {}
    IN  {"mapping"} \union {k \in {"fribb", "search"} :
            /\ unmapped
            /\ k = "search" => Named(q) /\ getFribbMappings(q) = {}}

requested(nums, q) ==
    LET mappings == Mappings(nums, q)
    IN  {selectTmdbMappingForEpisode(mappings, n) : n \in nums} \ {NoTarget}

missed(reqs, q) == {x \in reqs : At(x.season, x.number, getTmdbSeason(x.season, q)) = {}}
noneStale(lacking, q)    == {}                    \* mutant
staleSeasons(lacking, q) == IF "tmdb" \in q.down THEN {} ELSE {x.season : x \in lacking}

(* Of an open ended range the following seasons are looked through too.    *)
later(x, q) ==
    UNION {At(s, x.number, getTmdbSeason(s, q)) : s \in continuationSeasonNumbers(x.season, q)}

resolveOne(x, lacking, stale, q) ==
    LET top == IF x.season \in stale THEN World("show") ELSE getTmdbSeason(x.season, q)
        own == At(x.season, x.number, top)
    IN  IF own = {} /\ x \in lacking /\ x.open THEN later(x, q) ELSE own

episodes(reqs, lacking, stale, q) ==
    UNION {{<<x.n, i>> : i \in {j \in resolveOne(x, lacking, stale, q) :
                                    \A k \in resolveOne(x, lacking, stale, q) : j <= k}} : x \in reqs}

Resolved(reqs, lacking, q) ==
    LET active  == {x.season : x \in reqs}
        pending == {x \in lacking : x.open}
        seasons == early(q) \union {SeasonKey[s] : s \in active}
    IN  IF reqs = {} THEN [Nothing EXCEPT !.read = early(q)]
        ELSE IF \E s \in active : getTmdbSeason(s, q) = Err THEN [Nothing EXCEPT !.read = seasons]
        ELSE IF pending # {} /\ getTmdbShow(q) = Err
        THEN [Nothing EXCEPT !.read = seasons \union {"show"}]
        ELSE [found  |-> episodes(reqs, lacking, staleSeasons(lacking, q), q),
              forced |-> staleSeasons(lacking, q),
              read   |-> seasons \union {k \in {"show"} : pending # {}}
                           \union UNION {{SeasonKey[s] : s \in continuationSeasonNumbers(x.season, q)}
                                           : x \in pending}]

Sought(reqs, q) == Resolved(reqs, missed(reqs, q), q)
ResolveEpisodesWithTitles(nums, q) == Sought(requested(nums, q), q)

(* ResolveEpisodesDirect: by the title alone.                              *)
directSeasons(q) == {s \in Seasons : In(s, getTmdbShow(q)) # {}}
Count(s, q)      == Cardinality(In(s, getTmdbShow(q)))

pickDirectSeason(known, q) ==
    LET seasons == directSeasons(q)
        match   == {s \in seasons : Count(s, q) = known}
    IN  IF title.marker \in seasons THEN title.marker
        ELSE IF known > 0 /\ Cardinality(match) = 1 THEN CHOOSE s \in match : TRUE
        ELSE Least(seasons)

(* Numbers run on from the chosen season into the following ones.          *)
assignDirectSlots(start, nums, q) ==
    LET there == UNION {In(s, getTmdbShow(q)) : s \in directSeasons(q)}
    IN  {x \in {<<n, title.first[start] + n - 1>> : n \in nums} : x[2] \in there}

ResolveEpisodesDirect(nums, known, q) ==
    IF ~resolveTmdbIDByTitle(q) THEN [Nothing EXCEPT !.read = {"search"}]
    ELSE IF getTmdbShow(q) = Err \/ directSeasons(q) = {}
    THEN [Nothing EXCEPT !.read = {"search", "show"}]
    ELSE LET slots    == assignDirectSlots(pickDirectSeason(known, q), nums, q)
             needed   == {Season(x[2]) : x \in slots}
             entry(i) == At(Season(i), i - title.first[Season(i)] + 1, World("show"))
         IN  IF "tmdb" \in q.down /\ needed # {} THEN [Nothing EXCEPT !.read = {"search", "show"}]
             ELSE [found  |-> UNION {{<<x[1], i>> : i \in entry(x[2])} : x \in slots},
                   read   |-> {"search", "show"},
                   forced |-> needed]

(* Both, and the direct answer wins; it is asked for titles without an     *)
(* AniZip map only.                                                        *)
Numbers(P) == {x[1] : x \in P}
Over(P, Q) == {x \in P : x[1] \notin Numbers(Q)} \union Q

resolveEpisodes(nums, known, q) ==
    LET result == ResolveEpisodesWithTitles(nums, q)
        direct == IF Named(q) /\ FetchAniZipEpisodes(q) = 0
                  THEN ResolveEpisodesDirect(nums, known, q) ELSE Nothing
    IN  [found  |-> Over(result.found, direct.found),
         read   |-> result.read \union direct.read,
         forced |-> result.forced \union direct.forced]

-----------------------------------------------------------------------------
(* How many episodes are listed.                                           *)
Max2(a, b) == IF a >= b THEN a ELSE b

knownTotal(q) ==
    IF Named(q) /\ (title.known \/ ~airing(q)) THEN title.total ELSE 0

AnibridgeMaxEpisode(q) ==
    LET b == getMapping(q)
        shows == {m \in extractTmdbShowMappings(b) : m.src.to # Open}
    IN  IF b >= 1 /\ title.bridge = "nested" THEN b
        ELSE Greatest({0} \union {m.src.to : m \in shows} \union {m.dst.to : m \in shows})

DirectSeasonEpisodeCount(q) ==
    IF ~resolveTmdbIDByTitle(q) \/ getTmdbShow(q) = Err \/ directSeasons(q) = {} THEN 0
    ELSE Count(pickDirectSeason(0, q), q)

(* With no total from AniList: what AniBridge has verified, what has aired *)
(* and, without an AniZip map, the length of the season on TMDB.           *)
aniListCount(q) ==
    LET abMax == AnibridgeMaxEpisode(q)
        count == IF Named(q) /\ title.dated THEN Max2(abMax, q.heard["anilist"]) ELSE abMax
        least == IF Named(q) /\ count = 0 THEN Assumed ELSE count
    IN  IF Named(q) /\ FetchAniZipEpisodes(q) = 0
        THEN Max2(least, DirectSeasonEpisodeCount(q)) ELSE least

(* The ends of the mapped ranges, or the seasons themselves.               *)
mappingRangeCount(mappings, q) ==
    LET closed == {m.src.to : m \in {x \in mappings : x.src.to # Open}}
        probe(m) == LET top == getTmdbSeason(m.season, q)
                    IN  IF top = Err THEN 0
                        ELSE Max2(0, Cardinality(In(m.season, top)) - m.dst.from + 1)
                               + Cardinality(UNION {In(s, getTmdbSeason(s, q)) :
                                      s \in continuationSeasonNumbers(m.season, q)})
    IN  Greatest({0} \union (IF closed # {} THEN closed ELSE {probe(m) : m \in mappings}))

InferEpisodeCount(q) ==
    LET shows == mappingRangeCount(extractTmdbShowMappings(getMapping(q)), q)
    IN  IF shows > 0 THEN shows
        ELSE mappingRangeCount(getFribbMappings(q), q)

episodeCount(q) ==
    LET anilist == IF knownTotal(q) > 0 THEN knownTotal(q) ELSE aniListCount(q)
        anizip  == Max2(FetchAniZipMediaMeta(q), FetchAniZipEpisodes(q))
    IN  IF anilist > 0 THEN anilist
        ELSE IF anizip > 0 THEN anizip
        ELSE IF InferEpisodeCount(q) > 0 THEN InferEpisodeCount(q)
        ELSE FetchAnisearchEpisodes(q)

(* What is read on the way.                                                *)
ProbeReads(mappings, q) ==
    IF \E m \in mappings : m.src.to # Open THEN {}
    ELSE UNION {{SeasonKey[m.season]} \union
                (IF getTmdbSeason(m.season, q) = Err THEN {}
                 ELSE {"show"} \union {SeasonKey[s] : s \in continuationSeasonNumbers(m.season, q)})
                : m \in mappings}

InferReads(q) ==
    LET shows == extractTmdbShowMappings(getMapping(q))
    IN  ProbeReads(shows, q) \union
        (IF mappingRangeCount(shows, q) > 0 THEN {}
         ELSE {"fribb"} \union ProbeReads(getFribbMappings(q), q))

CountReads(q) ==
    LET given == knownTotal(q) > 0
    IN  {"anilist", "anizip"}
        \union (IF given THEN {} ELSE {"mapping"})
        \union (IF ~given /\ Named(q) /\ FetchAniZipEpisodes(q) = 0
                THEN {"search"} \union (IF resolveTmdbIDByTitle(q) THEN {"show"} ELSE {})
                ELSE {})
        \union (IF given \/ aniListCount(q) > 0 THEN {}
                ELSE {"meta"} \union
                     (IF Max2(FetchAniZipMediaMeta(q), FetchAniZipEpisodes(q)) > 0 THEN {}
                      ELSE InferReads(q) \union
                             (IF InferEpisodeCount(q) > 0 THEN {} ELSE {"anisearch"})))

-----------------------------------------------------------------------------
(* A request.                                                              *)
Absent == [value |-> Err, left |-> 0]

GetCachedEpisodes(nums) ==
    IF episodeCache.left = 0 THEN {} ELSE {x \in episodeCache.episodes : x[1] \in nums}

setCachedLonger(found) ==                        \* mutant
    episodeCache' = [episodes |-> Over(episodeCache.episodes, found),
                     left |-> episodeCache.left + EntryTTL]

setCachedEpisodes(found) ==
    episodeCache' = [episodes |-> Over(episodeCache.episodes, found), left |-> EntryTTL]

(* Only an airing title looks for what a cached entry lacks.               *)
WantedOnce(nums, q) ==                        \* mutant
    IF GetCachedEpisodes(nums) = {} THEN nums ELSE {}

Wanted(nums, q) ==
    LET cached == Numbers(GetCachedEpisodes(nums)) IN
    IF cached = {} THEN nums
    ELSE IF airing(q) THEN nums \ cached ELSE {}

episodesCacheGet == body.left > 0

Rendered(nums, found, q) ==
    [count |-> Cardinality(nums), down |-> q.down, left |-> BodyTTL,
     shown |-> Over(GetCachedEpisodes(nums), found)]

Answers(nums, resolved, q) ==
    /\ body' = Rendered(nums, resolved.found, q)
    /\ IF resolved.found # {} THEN setCachedEpisodes(resolved.found)
       ELSE UNCHANGED episodeCache
    /\ store' = [k \in Keys |->
          IF \E s \in resolved.forced : k = SeasonKey[s]
          THEN [value |-> World(k), left |-> FreshTTL]
          ELSE IF k \in CountReads(q) \union resolved.read THEN Cached(k, q.down) ELSE store[k]]

GetEpisodes(down) ==
    /\ ~episodesCacheGet /\ (down # {} => outages < MaxOutages)
    /\ outages' = IF down # {} THEN outages + 1 ELSE outages
    /\ \E q \in {Request(down)} : \E nums \in {1 .. episodeCount(q)} :
          \E wanted \in {Wanted(nums, q)} :
             Answers(nums, IF wanted = {} THEN Nothing ELSE resolveEpisodes(wanted, knownTotal(q), q), q)
    /\ UNCHANGED <<title, aired, bridged, listed, past>>

-----------------------------------------------------------------------------
(* The world goes on.                                                      *)
NoBody   == [count |-> 0, shown |-> {}, left |-> 0, down |-> {}]
Older(x, gone) == IF x.left > 1 THEN [x EXCEPT !.left = @ - 1] ELSE gone

tick ==
    /\ store' = [k \in Keys |-> Older(store[k], Absent)]
    /\ body' = Older(body, NoBody)
    /\ episodeCache' = Older(episodeCache, [episodeCache EXCEPT !.left = 0])
    /\ past' = [i \in DOMAIN past |-> IF i = 1 THEN aired ELSE past[i - 1]]
    /\ <<past, store, episodeCache, body>>' # <<past, store, episodeCache, body>>
    /\ UNCHANGED <<title, aired, bridged, listed, outages>>

air    == aired < title.total /\ aired' = aired + 1
            /\ UNCHANGED <<title, bridged, listed, past, store, episodeCache, body, outages>>
verify == bridged < aired /\ title.bridge # "none" /\ bridged' = bridged + 1
            /\ UNCHANGED <<title, aired, listed, past, store, episodeCache, body, outages>>
list   == title.base + listed < title.last /\ listed' = listed + 1
            /\ UNCHANGED <<title, aired, bridged, past, store, episodeCache, body, outages>>

(* A store for another title drops the expired entry.                      *)
evictEpisodeCacheIfNeeded ==
    /\ episodeCache.left = 0 /\ episodeCache.episodes # {}
    /\ episodeCache' = [episodes |-> {}, left |-> 0]
    /\ UNCHANGED <<title, aired, bridged, listed, past, store, body, outages>>

Init ==
    /\ title \in Title
    /\ aired = 0 /\ bridged = 0 /\ listed = 0
    /\ past = [i \in 1 .. AniListFresh |-> 0]
    /\ store = [k \in Keys |-> Absent]
    /\ episodeCache = [episodes |-> {}, left |-> 0]
    /\ body = NoBody
    /\ outages = 0

Next ==
    \/ \E down \in SUBSET Source : Cardinality(down) <= MaxDown /\ GetEpisodes(down)
    \/ tick \/ air \/ verify \/ list \/ evictEpisodeCacheIfNeeded

Spec == Init /\ [][Next]_vars

-----------------------------------------------------------------------------
TypeOK ==
    /\ bridged <= aired /\ aired <= title.total /\ title.base + listed <= title.last
    /\ \A i \in 1 .. AniListFresh : past[i] \in 0 .. aired
    /\ \A k \in Keys : store[k].left \in 0 .. TTL(k) /\ store[k].value \in Err .. title.last
    /\ episodeCache.episodes \union body.shown \subseteq Nat \X (1 .. title.last)
    /\ episodeCache.left \in 0 .. EntryTTL /\ body.left \in 0 .. BodyTTL

(* What can be known of where a title is.  A search by its name finds it   *)
(* where it is if it comes first in its show, its name mentions no later   *)
(* season, no later season has its length (unless the first one has it     *)
(* too), and numbers start anew where it goes on into another season.      *)
OneSeason  == \A s \in Seasons : title.first[s] \notin title.base + 2 .. title.base + title.total
LastSeason == Season(title.base + 1) = Len(title.first)
OpenEnded  == title.fribb \/ title.bridge = "open"

SearchFinds ==
    title.search =>
        /\ title.base = 0 /\ title.marker <= 1 /\ (title.absolute => OneSeason)
        /\ \/ Last(1) = title.total
           \/ \A s \in Seasons \ {1} : Last(s) - title.first[s] + 1 < title.total

Rightly(x) == x[1] <= title.total => x[2] = title.base + x[1]

(* None of the title's episodes is ever shown as another episode of the    *)
(* show, whatever is down, stale or behind: if a mapping without an end    *)
(* leads into the last season there is, or the numbers run on.             *)
RightEpisode ==
    SearchFinds /\ (OpenEnded => title.absolute \/ LastSeason)
      => \A x \in body.shown : Rightly(x)

(* With another season behind it, an episode that such a mapping leads to  *)
(* is the right one if TMDB is up when it is looked for: the season that   *)
(* lacks it is read again before the following ones are believed.          *)
FoundRight ==
    [][body'.left = BodyTTL /\ body.left = 0 /\ "tmdb" \notin body'.down
       /\ SearchFinds /\ (OpenEnded => title.absolute \/ OneSeason)
         => \A x \in body'.shown \ episodeCache.episodes : Rightly(x)]_vars

(* An answer given while AniList is up lists every episode that had aired  *)
(* five minutes ago, of a title whose length or next airing AniList gives. *)
AiredListed ==
    [][body'.left = BodyTTL /\ body.left = 0 /\ "anilist" \notin body'.down
       /\ (title.known \/ title.dated)
         => past[AniListFresh] <= body'.count]_vars

(* An answer given with every source up shows each episode that is on TMDB *)
(* of an airing title, once any source tells where to look; in the title's *)
(* first season, as the list of later seasons is not read again.           *)
Mappable ==
    \/ title.fribb \/ (title.search /\ title.base = 0)
    \/ title.bridge \in {"show", "open"} /\ Read("mapping", {}) >= 1
Healed ==
    [][body'.left = BodyTTL /\ body.left = 0 /\ body'.down = {}
       /\ aired < title.total /\ Mappable
         => \A n \in 1 .. body'.count :
              n <= listed /\ n <= title.total /\ Season(title.base + n) = Season(title.base + 1)
              => n \in Numbers(body'.shown)]_vars

=============================================================================
