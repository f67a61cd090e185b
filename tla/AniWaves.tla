------------------------------ MODULE AniWaves ------------------------------
(***************************************************************************)
(* How internal/streaming/aniwaves.go finds the page of a title, lines its *)
(* listing up with the requested part, and picks and probes the mirrors.   *)
(* A site record is as in AnimeGG; its pages carry a type, a year and the  *)
(* number of episodes they have, their listing is in order, and an         *)
(* episode's name may begin a part (its ordinal).                          *)
(***************************************************************************)
EXTENDS Integers, FiniteSets, Sequences, SequencesExt

aniwavesCoverage(site, page) ==
    LET needed == IF site.status = "FINISHED" THEN (site.expected * 8 + 9) \div 10 ELSE site.expected - 3 IN
    IF site.expected < 1 THEN 500
    ELSE IF page.avail < 1 THEN 0
    ELSE IF site.expected < 6 \/ page.avail >= needed THEN 1000
    ELSE (1000 * page.avail) \div needed

aniwavesValidate(site, page) ==
    /\ page.dice >= 680
    /\ site.type # "" /\ page.type # "" => site.type = page.type
    /\ site.year # 0 /\ page.year # 0 => site.year = page.year
    /\ site.expected >= 6 => aniwavesCoverage(site, page) >= 800

Score(site, page) ==
    (page.dice * 72 + aniwavesCoverage(site, page) * 4) \div 100
        + (IF site.type # "" /\ page.type = site.type THEN 140 ELSE 70)
        + (IF site.year # 0 /\ page.year = site.year THEN 100 ELSE 40)

(* The best page, if it is good enough and clearly ahead of the next one,  *)
(* of those whose search and detail page could be fetched (not lost).      *)
resolveShow(site, lost) ==
    LET valid == {page \in site.pages \ lost : page.dice >= 500 /\ aniwavesValidate(site, page)} IN
    {page \in valid : /\ Score(site, page) >= 820
                      /\ \A x \in valid \ {page} : Score(site, page) - Score(site, x) >= 80}

(* A listing of several parts is cut down to the requested one and         *)
(* renumbered, where the part can be told.                                 *)
aniwavesAlign(site, list) ==
    LET target == IF site.numbers = {} THEN 0 ELSE CHOOSE n \in site.numbers : \A m \in site.numbers : m <= n
        starts == {i \in DOMAIN list : list[i].ordinal = target}
        start  == CHOOSE i \in starts : \A j \in starts : i <= j IN
    IF site.expected = 0 \/ Len(list) <= site.expected \/ target < 2 \/ starts = {} THEN list
    ELSE IF Len(list) - start + 1 < site.expected THEN list
    ELSE [i \in 1 .. site.expected |-> [list[start + i - 1] EXCEPT !.number = i]]

(* Of a mirror, a playlist before a file and the best file before others;  *)
(* only that one is probed.                                                *)
Better(a, b) ==
    \/ a.kind = "hls" /\ b.kind # "hls"
    \/ a.kind = b.kind /\ a.kind = "mp4" /\ a.rank > b.rank
Best(mirror) == CHOOSE f \in ToSet(mirror.files) : \A x \in ToSet(mirror.files) : ~Better(x, f)
Hits(site, lang) ==
    SelectSeq(site.mirrors, LAMBDA m : m.audio = lang /\ m.files # <<>> /\ Best(m).alive)
Probed(site, lang) ==
    {Best(m).url : m \in {x \in ToSet(site.mirrors) : x.audio = lang /\ x.files # <<>> /\ Best(x).kind = "hls"}}

resolveOn(site, page, episode, lang) ==
    LET list   == aniwavesAlign(site, page.list)
        listed == {i \in DOMAIN list : list[i].number = episode}
        hits   == Hits(site, lang) IN
    IF listed = {} THEN [kind |-> "miss", probed |-> {}, learned |-> <<>>]
    ELSE LET e == list[CHOOSE i \in listed : \A j \in listed : i <= j] IN
         IF lang \notin e.langs \/ \A i \in DOMAIN site.mirrors : site.mirrors[i].audio # lang
         THEN [kind |-> "nothing", probed |-> {}, learned |-> <<>>]
         ELSE IF hits = <<>> THEN [kind |-> "miss", probed |-> Probed(site, lang), learned |-> <<>>]
         ELSE LET urls == [i \in DOMAIN hits |-> Best(hits[i]).url] IN
              [kind |-> "sources", shows |-> e.shows, lang |-> lang, probed |-> Probed(site, lang),
               urls |-> urls, learned |-> urls]
=============================================================================
