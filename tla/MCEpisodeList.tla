--------------------------- MODULE MCEpisodeList ---------------------------
(***************************************************************************)
(* The titles considered, of two episodes each: a first season that has    *)
(* another of its length behind it, one that a search by title does not    *)
(* find, a sequel, a second half of a season, and one that spans two       *)
(* seasons whose numbers run on.  A search finds first seasons only; the   *)
(* README says what the code makes of other titles.                        *)
(***************************************************************************)
EXTENDS EpisodeList

MCSeasonKey == <<"s1", "s2">>

First  == [first |-> <<1, 3>>, last |-> 4, absolute |-> FALSE, base |-> 0, total |-> 2,
           known |-> FALSE, dated |-> TRUE, bridge |-> "none", fribb |-> FALSE, search |-> TRUE,
           marker |-> 0, anizip |-> FALSE, anisearch |-> TRUE]
Hidden == [First EXCEPT !.first = <<1>>, !.last = 2, !.search = FALSE, !.anizip = TRUE,
                        !.anisearch = FALSE]
Sequel == [Hidden EXCEPT !.first = <<1, 3>>, !.last = 4, !.base = 2]
Half   == [Hidden EXCEPT !.last = 4, !.base = 2]
Spans  == [Hidden EXCEPT !.first = <<1, 2>>, !.last = 3, !.absolute = TRUE]

(* Mapped by Fribb, the length of the title given by AniList.              *)
Listed(t) == [t EXCEPT !.fribb = TRUE, !.known = TRUE]

(* AniList gives no next airing of the one with ranges below another id.   *)
EveryTitle ==
    {First, Listed(First), [First EXCEPT !.last = 3, !.bridge = "nested", !.dated = FALSE],
     [Hidden EXCEPT !.bridge = "show"], [Listed(Hidden) EXCEPT !.bridge = "open"],
     [Listed(Sequel) EXCEPT !.bridge = "show"], [Half EXCEPT !.bridge = "open"],
     Spans, [Listed(Spans) EXCEPT !.anizip = FALSE]}

=============================================================================
