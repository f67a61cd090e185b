----------------------------- MODULE MCPlayback -----------------------------
(* The pages and the scenes Playback is checked on.                        *)
EXTENDS Playback

Static(host, kind, hint, size, links, audio) ==
    [host |-> host, kind |-> kind, hint |-> hint, mark |-> "head", size |-> size, links |-> links, audio |-> audio,
     far |-> {}]

MCPage == [
    master |-> Static("edge", "playlist", "path", 1, <<"leg">>, {"sub", "dub"}),
    leg    |-> [Static("legs", "playlist", "none", 2, <<"key", "bit">>, {}) EXCEPT !.mark = "end"],
    live   |-> [Static("listed", "playlist", "type", 1, <<"seg">>, {}) EXCEPT !.mark = "none"],
    long   |-> [Static("edge", "playlist", "path", 3, <<"seg", "bit">>, {"sub", "dub"}) EXCEPT !.far = {"dub"}],
    huge   |-> Static("listed", "playlist", "none", 4, <<"seg">>, {}),
    bit    |-> Static("legs", "media", "none", 1, <<>>, {}),
    key    |-> Static("listed", "key", "none", 1, <<>>, {}),
    seg    |-> Static("segs", "media", "none", 1, <<>>, {})]

Play1(u, al)  == [url |-> u, al |-> al, ranged |-> FALSE, use |-> "play"]
Ranged(u)     == [url |-> u, al |-> "", ranged |-> TRUE, use |-> "play"]
Save(u)       == [url |-> u, al |-> "", ranged |-> FALSE, use |-> "save"]
A(n, lang)    == [episode |-> n, lang |-> lang]

-----------------------------------------------------------------------------
(* Listings of AniWaves: a page of its own, and several parts in one.      *)
W(n, season, episode, ordinal) ==
    [number |-> n, langs |-> {"sub"}, shows |-> <<season, episode>>, ordinal |-> ordinal]
OwnList   == <<W(1, 1, 1, 0), W(2, 1, 2, 0)>>
Parts     == <<W(1, 1, 1, 1), W(2, 1, 2, 0), W(3, 2, 1, 2), W(4, 2, 2, 0)>>
WPage(dice, year, list) == [dice |-> dice, type |-> "TV", year |-> year, avail |-> Len(list), list |-> list]
File(kind, rank, url, alive) == [kind |-> kind, rank |-> rank, url |-> url, alive |-> alive]
Mirror(files) == [audio |-> "sub", files |-> files]
WSite(year, numbers, pages, url) ==
    [expected |-> 2, status |-> "FINISHED", type |-> "TV", year |-> year, numbers |-> numbers, pages |-> pages,
     mirrors |-> <<Mirror(<<File("hls", 0, url, TRUE)>>), Mirror(<<File("mp4", 720, "seg", FALSE)>>), Mirror(<<>>)>>]
Own(url) == WSite(2020, {}, {WPage(1000, 2020, OwnList), WPage(900, 1999, Parts)}, url)

Waves(site, season, asks, good, plays, upstreams, most) ==
    [provider |-> "aniwaves", season |-> season, site |-> site, asks |-> asks, good |-> good, plays |-> plays,
     upstreams |-> upstreams, upsets |-> most]

First1 == {A(1, "sub")}
(* A ladder of playlists; two players of one in two languages; a key, a    *)
(* live playlist, one past the cap of a read, and a download; one that is  *)
(* too large for the cache; a restart; a listing of several parts.         *)
Relay  == Waves(Own("master"), 1, First1, First1, {Play1("master", "sub"), Ranged("leg")}, {"up"}, 0)
Tracks == Waves(Own("master"), 1, First1, First1, {Play1("master", "sub"), Play1("master", "dub")}, {"up"}, 0)
Files  == Waves(Own("master"), 1, {}, {}, {Play1("key", ""), Ranged("live"), Ranged("huge"), Save("key")}, {"up"}, 0)
Long   == Waves(Own("long"), 1, First1, First1, {Play1("long", "dub")}, {"up"}, 0)
Again  == Waves(Own("master"), 1, First1, First1, {Play1("master", "sub")}, {"up"}, 1)
Flaky  == Waves(Own("master"), 1, First1, First1, {}, {"up", "flaky"}, 1)
Joined == Waves(WSite(2021, {2}, {WPage(900, 2021, Parts)}, "master"), 2,
                {A(1, "sub"), A(3, "sub")}, {A(1, "sub")}, {}, {"up", "slow", "down"}, 1)

-----------------------------------------------------------------------------
(* Listings of AnimeGG: a page of its own next to that of a spin-off, one  *)
(* next to a remake that wins when it is lost, a sequel whose page counts  *)
(* on from its prequels, and a sequel that has no page.                    *)
E(n, season, episode) == [number |-> n, langs |-> {"sub", "dub"}, shows |-> <<season, episode>>, watch |-> n]
GPage(dice, number, numbers, episodes) ==
    [dice |-> dice, number |-> number, extra |-> FALSE, long |-> FALSE, movie |-> FALSE, numbers |-> numbers,
     episodes |-> episodes]
Tab(files) == [files |-> files]
MP4(rank, url, alive) == [rank |-> rank, url |-> url, alive |-> alive]
Tabs == [sub |-> <<Tab(<<MP4(1080, "seg", FALSE), MP4(720, "seg", TRUE)>>), Tab(<<MP4(480, "leg", FALSE)>>)>>,
         dub |-> <<Tab(<<MP4(480, "seg", TRUE)>>)>>]
GSite(expected, offset, number, numbers, pages) ==
    [expected |-> expected, status |-> "FINISHED", movie |-> FALSE, offset |-> offset, number |-> number,
     numbers |-> numbers, pages |-> pages, tabs |-> Tabs]

Prequel  == {E(n, 1, n) : n \in 1 .. 5}
GG1 == GSite(5, 0, 0, {}, {GPage(1000, 0, {}, Prequel), [GPage(900, 0, {}, {E(1, 9, 1)}) EXCEPT !.extra = TRUE]})
GGR == GSite(5, 0, 0, {}, {GPage(1000, 0, {}, Prequel), GPage(900, 0, {}, {E(n, 9, n) : n \in 1 .. 5})})
GG2 == GSite(3, 5, 2, {2}, {GPage(900, 2, {2}, {E(n + 5, 2, n) : n \in 1 .. 3}), GPage(900, 0, {}, Prequel)})
GG3 == GSite(3, 5, 2, {2}, {GPage(900, 0, {}, Prequel)})

Gogo(site, season, asks, good, upstreams) ==
    [provider |-> "animegg", season |-> season, site |-> site, asks |-> asks, good |-> good, plays |-> {},
     upstreams |-> upstreams, upsets |-> 1]
OwnPage  == Gogo(GG1, 1, {A(1, "sub"), A(1, "dub")}, {A(1, "sub")}, {"up", "flaky", "slow", "down"})
Counting == Gogo(GG2, 2, {A(1, "sub"), A(6, "sub")}, {A(1, "sub")}, {"up", "flaky"})
Remake   == Gogo(GGR, 1, First1, First1, {"up", "flaky"})
NoPage   == Gogo(GG3, 2, {A(1, "sub")}, {}, {"up", "slow", "down"})

-----------------------------------------------------------------------------
(* Kaa: a first title that finds nothing, a remake next to the show, a     *)
(* slug that has rotated, and players that are not for it, dead or cut.    *)
KE(n, season, slug) == [number |-> n, slug |-> slug, shows |-> <<season, n>>]
Langs(list) == [sub |-> list, dub |-> <<>>]
Hit(year, named, first, again) ==
    [year |-> year, starts |-> year, tv |-> TRUE, named |-> named, first |-> Langs(first), again |-> Langs(again)]
Master(url, state) == [url |-> url, state |-> state]
Player(dash, masters, subs) == [dash |-> dash, masters |-> masters, subs |-> subs]
KSite == [
    year     |-> 2020,
    searches |-> <<<<>>, <<Hit(1999, TRUE, <<<<KE(1, 9, "far")>>>>, <<>>),
                          Hit(2020, TRUE, <<<<KE(1, 1, "old")>>, <<KE(2, 1, "two")>>>>, <<<<KE(1, 1, "new")>>>>)>>>>,
    watch    |-> [new |-> <<Player(TRUE, <<Master("long", "plays")>>, <<>>),
                            Player(FALSE, <<Master("long", "read"), Master("master", "plays")>>, <<"bit">>),
                            Player(FALSE, <<Master("long", "dead")>>, <<>>)>>,
                  two |-> <<Player(FALSE, <<Master("long", "read")>>, <<"bit">>)>>]]
Kick(asks, upstreams, most) ==
    [provider |-> "kaa", season |-> 1, site |-> KSite, asks |-> asks, good |-> First1, plays |-> {},
     upstreams |-> upstreams, upsets |-> most]
Kickass == Kick(First1, {"up", "flaky", "slow", "down"}, 1)
Rotated == Kick({A(1, "sub"), A(2, "sub")}, {"up"}, 0)

-----------------------------------------------------------------------------
(* Mkissa: edges of another title and of none next to the show, a source   *)
(* of no name, one that is a page, one that is dead.                       *)
ME(n, season) == [number |-> n, shows |-> <<season, n>>]
Edge(anilist, likeness, season) ==
    [anilist |-> anilist, likeness |-> likeness, again |-> TRUE, episodes |-> [sub |-> <<ME(1, season)>>, dub |-> <<>>]]
Source(named, url, ends, state) == [named |-> named, url |-> url, ends |-> ends, state |-> state]
MSite(first) == [
    searches |-> [sub |-> <<<<Edge("other", 100, 9), first>>, <<Edge("none", 60, 8)>>>>, dub |-> <<>>],
    sources  |-> [sub |-> <<Source(FALSE, "long", "hls", "plays"), Source(TRUE, "leg", "page", "plays"),
                            Source(TRUE, "master", "hls", "plays"), Source(TRUE, "seg", "mp4", "dead")>>,
                  dub |-> <<>>]]
Kiss(first, good, upstreams) ==
    [provider |-> "mkissa", season |-> 1, site |-> MSite(first), asks |-> {A(1, "sub"), A(1, "dub")}, good |-> good,
     plays |-> {}, upstreams |-> upstreams, upsets |-> 1]
ById    == Kiss(Edge("own", 40, 1), First1, {"up"})
ByTitle == Kiss(Edge("none", 80, 1), {}, {"up"})

-----------------------------------------------------------------------------
(* Novuscloud: sources of no known form, read only, and dead; a track that *)
(* is no caption; a language it has no page for.                           *)
NSource(url, ends, state) == [url |-> url, ends |-> ends, type |-> "none", state |-> state]
Track(url, captions) == [url |-> url, captions |-> captions, state |-> "plays"]
NSite == [season |-> 1, answers |-> [
    sub |-> [token |-> TRUE, tracks |-> <<Track("seg", FALSE), Track("bit", TRUE)>>,
             sources |-> <<NSource("leg", "other", "plays"), NSource("long", "hls", "read"),
                           NSource("master", "hls", "plays")>>],
    dub |-> [token |-> FALSE, tracks |-> <<>>, sources |-> <<>>]]]
Nova == [provider |-> "novuscloud", season |-> 1, site |-> NSite, asks |-> {A(1, "sub"), A(1, "dub")}, good |-> First1,
         plays |-> {}, upstreams |-> {"up", "slow"}, upsets |-> 1]

-----------------------------------------------------------------------------
(* NiN: one way that fails or leads to what is dead, next to one that does *)
(* not.                                                                    *)
Way(answer, url, state) == [answer |-> answer, url |-> url, state |-> state]
Relays == [season |-> 1, answers |-> [
    sub |-> [z6 |-> Way("master", "long", "dead"), cache |-> Way("master", "master", "read")],
    dub |-> [z6 |-> Way("nothing", "", "dead"), cache |-> Way("error", "", "dead")]]]
Supaplay == [provider |-> "nin", season |-> 1, site |-> Relays, asks |-> {A(1, "sub"), A(1, "dub")}, good |-> {},
             plays |-> {}, upstreams |-> {"up", "slow", "down"}, upsets |-> 1]

(* Sites where another title wins once requests of a search fail, with one *)
(* source each, on a host that is always admitted.                         *)
WavesRemake ==
    Waves(WSite(2020, {}, {WPage(1000, 2020, OwnList), WPage(850, 2020, <<W(1, 9, 1, 0)>>)}, "live"), 1,
          First1, First1, {}, {"up", "flaky"}, 1)
KickRemake == [Kick(First1, {"up", "flaky"}, 1) EXCEPT
    !.site.searches = <<<<Hit(2020, TRUE, <<<<KE(1, 1, "new")>>>>, <<>>)>>, <<Hit(1999, TRUE, <<<<KE(1, 9, "new")>>>>, <<>>)>>>>,
    !.site.watch = [new |-> <<Player(FALSE, <<Master("live", "plays")>>, <<>>)>>]]
KissRemake == [Kiss(Edge("own", 40, 1), {}, {"up", "flaky"}) EXCEPT
    !.asks = First1, !.site.searches.sub = <<<<Edge("own", 40, 1)>>, <<Edge("none", 80, 9)>>>>,
    !.site.sources.sub = <<Source(TRUE, "live", "hls", "plays")>>]

MCScene ==
    {Relay, Tracks, Files, Long, Again, Flaky, Joined, WavesRemake, OwnPage, Remake, Counting, NoPage,
     Kickass, Rotated, KickRemake, ById, ByTitle, KissRemake, Nova, Supaplay}
=============================================================================
