------------------------------- MODULE Mkissa -------------------------------
(***************************************************************************)
(* How internal/streaming/mkissa.go finds a show, its episode and what it  *)
(* plays.  A site record holds by language what the search answers to each *)
(* title (edges, in order) and the sources of an episode.  An edge says    *)
(* whether it carries the AniList id that is asked for ("own"), another    *)
(* one or none, how like its name is, whether a search for its title finds *)
(* it again, and its episodes.  A source has a kind that is named or not,  *)
(* an address or none, what that ends in ("hls", "mp4" or neither), and it *)
(* plays, is read only, or is dead.                                        *)
(***************************************************************************)
EXTENDS Integers, FiniteSets, Sequences, SequencesExt

mkissaScoreHit(edge) ==
    edge.likeness + (IF \E lang \in DOMAIN edge.episodes : edge.episodes[lang] # <<>> THEN 5 ELSE 0)

(* The first edge with the id itself; without one, the first of those that *)
(* are most alike, of edges that carry no id and are alike enough.  What   *)
(* a failed search would have found is not missed.                         *)
resolveShow(site, lang, lost) ==
    LET heard == [i \in DOMAIN site.searches[lang] |-> IF i \in lost THEN <<>> ELSE site.searches[lang][i]]
        edges == FlattenSeq(heard)
        own   == SelectInSeq(edges, LAMBDA e : e.anilist = "own")
        alike == SelectSeq(edges, LAMBDA e : e.anilist = "none" /\ mkissaScoreHit(e) >= 80)
        best  == SelectInSeq(alike, LAMBDA e : \A x \in ToSet(alike) : mkissaScoreHit(x) <= mkissaScoreHit(e)) IN
    IF own # 0 THEN {edges[own]} ELSE IF alike = <<>> THEN {} ELSE {alike[best]}

(* The show is searched for by its title once more, and may not be found.  *)
matchEpisode(edge, lang, episode) ==
    IF edge.again THEN SelectSeq(edge.episodes[lang], LAMBDA e : e.number = episode) ELSE <<>>

(* Of the sources of a kind that has a name, those whose address ends in   *)
(* what can be played.  A page behind an address is looked into only where *)
(* there is no address, that is, never.                                    *)
Candidates(sources) == SelectSeq(sources, LAMBDA f : f.named /\ f.url # "" /\ f.ends \in {"hls", "mp4"})

resolveOn(site, edge, episode, lang) ==
    LET matches == matchEpisode(edge, lang, episode)
        files   == Candidates(site.sources[lang])
        kept    == SelectSeq(files, LAMBDA f : f.state = "plays")
        urls    == [i \in DOMAIN kept |-> kept[i].url]
        probed  == {f.url : f \in {x \in ToSet(files) : x.ends = "hls" /\ x.state # "dead"}} IN
    IF matches = <<>> THEN [kind |-> "miss", probed |-> {}, learned |-> <<>>]
    ELSE IF kept = <<>> THEN [kind |-> "nothing", probed |-> probed, learned |-> <<>>]
    ELSE [kind |-> "sources", shows |-> matches[1].shows, lang |-> lang, probed |-> probed,
          urls |-> urls, learned |-> urls]
=============================================================================
