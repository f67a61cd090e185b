-------------------------------- MODULE NiN --------------------------------
(***************************************************************************)
(* What internal/streaming/nin.go makes of the two ways to Supaplay's      *)
(* playlist of an episode, which it races.  A site record holds the season *)
(* that is served and, by language and way, the answer: an error, nothing, *)
(* or the address of a master that plays, is read only, or is dead.        *)
(***************************************************************************)
EXTENDS Integers, FiniteSets, Sequences

Ways == {"z6", "cache"}

(* The first answer with an address wins, whichever it is; without one the *)
(* error is reported, if there is one.                                     *)
fetchEpisodeAnyPath(answers) ==
    LET found == {way \in Ways : answers[way].answer = "master"} IN
    IF found # {} THEN {answers[way] : way \in found}
    ELSE {[answer |-> IF \E way \in Ways : answers[way].answer = "error" THEN "error" ELSE "nothing"]}

(* Its playlists are read, its segments are not; the other answer is not   *)
(* looked at again.                                                        *)
buildSourceResult(site, episode, lang, data) ==
    IF data.state = "dead" THEN [kind |-> "nothing", probed |-> {}, learned |-> <<>>]
    ELSE [kind |-> "sources", shows |-> <<site.season, episode>>, lang |-> lang, probed |-> {data.url},
          urls |-> <<data.url>>, learned |-> <<data.url>>]

resolve(site, episode, lang) ==
    {IF data.answer = "master" THEN buildSourceResult(site, episode, lang, data)
     ELSE [kind |-> IF data.answer = "error" THEN "miss" ELSE "nothing", probed |-> {}, learned |-> <<>>] :
        data \in fetchEpisodeAnyPath(site.answers[lang])}
=============================================================================
