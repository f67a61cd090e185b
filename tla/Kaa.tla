-------------------------------- MODULE Kaa --------------------------------
(***************************************************************************)
(* How internal/streaming/kaa.go finds a show, its episode and the players *)
(* of the episode.  A site record holds the year AniList gives, what the   *)
(* search answers to each title (hits, in order), and by episode slug the  *)
(* players of its watch page.  A hit lists its episodes in pages, twice:   *)
(* slugs rotate, and a listing drawn again may carry others.  A player has *)
(* masters and subtitle files; a master plays, is only read, or is dead.   *)
(***************************************************************************)
EXTENDS Integers, FiniteSets, Sequences, SequencesExt

kaaScoreHit(site, hit) ==
    (IF site.year # 0 /\ hit.year = site.year THEN 10 ELSE 0) + (IF hit.tv THEN 2 ELSE 0)
    + (IF hit.named THEN 5 ELSE 0) + (IF site.year # 0 /\ hit.starts = site.year THEN 3 ELSE 0)

(* The first of the best hits of the first title that has any, however     *)
(* little it has in common with it; a search that fails is passed over.    *)
resolveSlug(site, lost) ==
    LET heard    == [i \in DOMAIN site.searches |-> IF i \in lost THEN <<>> ELSE site.searches[i]]
        answered == SelectSeq(heard, LAMBDA s : s # <<>>)
        hits     == answered[1]
        best     == SelectInSeq(hits, LAMBDA h :
                        \A x \in ToSet(hits) : kaaScoreHit(site, x) <= kaaScoreHit(site, h)) IN
    IF answered = <<>> THEN {} ELSE {hits[best]}

(* The site answers with the page whose leading episode comes last before  *)
(* the one that is asked for.                                              *)
fetchEpisodePage(pages, episode) ==
    LET n == SelectLastInSeq(pages, LAMBDA page : page[1].number <= episode) IN
    IF pages = <<>> THEN <<>> ELSE IF n = 0 THEN pages[1] ELSE pages[n]

Named(list, episode) == SelectSeq(list, LAMBDA e : e.number = episode /\ e.slug # "")

(* The whole listing is walked where the first draw of the page failed, a  *)
(* page that lacks the episode is taken at its word.                       *)
Drawn(hit, lang, episode, draw) ==
    Named(IF draw = "page" THEN fetchEpisodePage(hit.first[lang], episode) ELSE FlattenSeq(hit.first[lang]),
          episode)

Players(site, slug) == IF slug \in DOMAIN site.watch THEN site.watch[slug] ELSE <<>>

(* A watch page without players: the listing is drawn again, once.         *)
Watched(site, hit, lang, episode, match) ==
    LET redrawn == SelectSeq(Named(fetchEpisodePage(hit.again[lang], episode), episode),
                             LAMBDA e : e.slug # match.slug) IN
    IF Players(site, match.slug) # <<>> \/ redrawn = <<>> THEN match ELSE redrawn[1]

(* resolvePlayerMaster and probeKaaMaster: masters are probed in order, up *)
(* to the first that plays.                                                *)
Playing(player) == SelectInSeq(player.masters, LAMBDA m : m.state = "plays")
Tried(player)   == IF Playing(player) = 0 THEN player.masters ELSE SubSeq(player.masters, 1, Playing(player))
Carrying(players) == SelectSeq(players, LAMBDA pl : ~pl.dash /\ pl.masters # <<>>)
Probed(players) ==
    {m.url : m \in {x \in UNION {ToSet(Tried(pl)) : pl \in ToSet(Carrying(players))} : x.state # "dead"}}

resolveOn(site, hit, episode, lang, draw) ==
    LET matches == Drawn(hit, lang, episode, draw)
        e       == Watched(site, hit, lang, episode, matches[1])
        players == Players(site, e.slug)
        hits    == SelectSeq(Carrying(players), LAMBDA pl : Playing(pl) # 0)
        urls    == [i \in DOMAIN hits |-> hits[i].masters[Playing(hits[i])].url]
        subs    == FlattenSeq([i \in DOMAIN Carrying(players) |-> Carrying(players)[i].subs]) IN
    IF matches = <<>> THEN [kind |-> "miss", probed |-> {}, learned |-> <<>>]
    ELSE IF hits = <<>> THEN [kind |-> "miss", probed |-> Probed(players), learned |-> subs]
    ELSE [kind |-> "sources", shows |-> e.shows, lang |-> lang, probed |-> Probed(players),
          urls |-> urls, learned |-> subs \o urls]
=============================================================================
