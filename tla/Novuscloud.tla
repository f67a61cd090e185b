----------------------------- MODULE Novuscloud -----------------------------
(***************************************************************************)
(* What internal/streaming/novuscloud.go makes of the answer of a mirror.  *)
(* The mirror is asked by AniList id and episode, so a site record holds   *)
(* the season it serves and, by language, what it answers: whether there   *)
(* is a page with a token, its sources and its caption tracks in order.  A *)
(* source has an address, what it ends in, the type it is said to be of,   *)
(* and plays, is read only, or is dead.                                    *)
(***************************************************************************)
EXTENDS Integers, FiniteSets, Sequences, SequencesExt

Type(source) == IF source.ends # "other" THEN source.ends ELSE source.type
Typed(sources) == SelectSeq(sources, LAMBDA s : s.url # "" /\ Type(s) \in {"hls", "mp4"})

(* Captions that are served are admitted, though no source be left.        *)
Captions(tracks) == SelectSeq(tracks, LAMBDA t : t.captions /\ t.url # "" /\ t.state = "plays")
Urls(list) == [i \in DOMAIN list |-> list[i].url]

resolveMirror(site, episode, lang) ==
    LET answer  == site.answers[lang]
        kept    == SelectSeq(Typed(answer.sources), LAMBDA s : s.state = "plays")
        probed  == {s.url : s \in {x \in ToSet(Typed(answer.sources)) : Type(x) = "hls" /\ x.state # "dead"}}
        learned == Urls(kept) \o Urls(Captions(answer.tracks)) IN
    IF ~answer.token THEN [kind |-> "miss", probed |-> {}, learned |-> <<>>]
    ELSE IF kept = <<>> THEN [kind |-> "nothing", probed |-> probed, learned |-> learned]
    ELSE [kind |-> "sources", shows |-> <<site.season, episode>>, lang |-> lang, probed |-> probed,
          urls |-> Urls(kept), learned |-> learned]
=============================================================================
