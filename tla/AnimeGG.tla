------------------------------ MODULE AnimeGG ------------------------------
(***************************************************************************)
(* How internal/streaming/animegg.go finds the page of a title and the     *)
(* episode on it.  A site record holds what AniList says of the title      *)
(* (expected episodes, status, format, episodes of its prequels), the      *)
(* numbers its titles carry, and the pages the search finds: how close     *)
(* their name comes (dice, in thousandths), the numbers of their slug, and *)
(* the episodes they list.  An episode says by shows which season and      *)
(* episode it really is.                                                   *)
(***************************************************************************)
EXTENDS Integers, FiniteSets, Sequences, SequencesExt

Numbered(site, page)  == site.number # 0 /\ page.number # site.number

(* A bare name is worth less for a numbered page, a film for its series, a *)
(* spin-off for its franchise.                                             *)
animeggTitleScore(site, page) ==
    LET base == IF site.number = 0 /\ page.number \in 2 .. 1899
                THEN (page.dice * (100 - 6 * (page.number - 1))) \div 100 ELSE page.dice IN
    IF Numbered(site, page) THEN (page.dice * 65) \div 100
    ELSE IF (site.movie /\ ~page.movie) \/ page.extra THEN (base * 40) \div 100
    ELSE IF page.long THEN (base * 80) \div 100
    ELSE base

(* Searches and series pages that cannot be fetched are left out (lost).   *)
findTopSlugs(site, lost) == {page \in site.pages \ lost : animeggTitleScore(site, page) >= 500}

Between(page, low, high) == Cardinality({e \in page.episodes : e.number > low /\ e.number <= high})
LocalHits(site, page) ==
    IF site.expected = 0 THEN Cardinality(page.episodes) ELSE Between(page, 0, site.expected)
OffsetHits(site, page) ==
    IF site.expected = 0 \/ site.offset = 0 THEN 0
    ELSE Between(page, site.offset, site.offset + site.expected)

Mode(site, page)     == IF OffsetHits(site, page) > LocalHits(site, page) THEN "offset" ELSE "local"

(* The page of the prequel, under the name of a numbered sequel.           *)
NoShadow(site, page) == FALSE                   \* mutant
Shadow(site, page) ==
    /\ site.offset > 0 /\ site.expected > 0 /\ Mode(site, page) = "local"
    /\ site.numbers # {} /\ site.numbers \intersect page.numbers = {}
    /\ OffsetHits(site, page) = 0

Needed(site) ==
    IF site.status = "FINISHED" THEN (site.expected * 9 + 9) \div 10 ELSE site.expected - 3
CountScore(site, page) ==
    LET hits == IF Mode(site, page) = "offset" THEN OffsetHits(site, page) ELSE LocalHits(site, page) IN
    IF site.expected < 6 \/ hits >= Needed(site) THEN 1000 ELSE (1000 * hits) \div Needed(site)

Score(site, page) == (animeggTitleScore(site, page) * 7 + CountScore(site, page) * 3) \div 10
Fitting(site, lost) ==
    {page \in findTopSlugs(site, lost) :
        /\ page.episodes # {} /\ ~Shadow(site, page)
        /\ Score(site, page) >= (IF site.movie THEN 900 ELSE 650)}

(* Of pages that score the same, the first to answer is taken.             *)
animeggSelectSeries(site, lost) ==
    {page \in Fitting(site, lost) : \A x \in Fitting(site, lost) : Score(site, x) <= Score(site, page)}

animeggWatchEpisode(episode, number) == episode.watch \in {0, number}

(* The best file of a tab that still serves, and the tabs that have one.   *)
Live(tab)  == SelectSeq(tab.files, LAMBDA f : f.alive)
Best(tab)  == CHOOSE f \in ToSet(Live(tab)) : \A x \in ToSet(Live(tab)) : x.rank <= f.rank
Hits(site, lang) == SelectSeq(site.tabs[lang], LAMBDA t : Live(t) # <<>>)

(* A dub whose best file is below 720p is not shown.                       *)
Shown(hits, lang) == lang = "sub" \/ \E i \in DOMAIN hits : Best(hits[i]).rank >= 720

resolveOn(site, page, episode, lang) ==
    LET number == IF Mode(site, page) = "offset" THEN episode + site.offset ELSE episode
        listed == {e \in page.episodes : e.number = number}
        hits   == Hits(site, lang) IN
    IF listed = {} THEN [kind |-> "miss", learned |-> <<>>]
    ELSE LET e == CHOOSE x \in listed : TRUE IN
         IF lang \notin e.langs \/ ~animeggWatchEpisode(e, number) \/ site.tabs[lang] = <<>>
         THEN [kind |-> "nothing", learned |-> <<>>]
         ELSE IF hits = <<>> THEN [kind |-> "miss", learned |-> <<>>]
         ELSE IF ~Shown(hits, lang) THEN [kind |-> "nothing", learned |-> <<>>]
         ELSE LET urls == [i \in DOMAIN hits |-> Best(hits[i]).url] IN
              [kind |-> "sources", shows |-> e.shows, lang |-> lang, urls |-> urls, learned |-> urls]
=============================================================================
