------------------------- MODULE EpisodeListProofs -------------------------
(***************************************************************************)
(* Proofs about EpisodeList for any titles and seasons, any lifetimes, and *)
(* any sources failing at any time.                                        *)
(***************************************************************************)
EXTENDS EpisodeList, FiniteSetTheorems, WellFoundedInduction, TLAPS

-----------------------------------------------------------------------------
(* Least and greatest elements.                                            *)
LEMMA LessThan == \A x, y \in Nat : <<y, x>> \in OpToRel(<, Nat) <=> y < x
<1> SUFFICES ASSUME NEW x \in Nat, NEW y \in Nat
             PROVE  <<y, x>> \in {p \in Nat \X Nat : p[1] < p[2]} <=> y < x
  BY Zenon DEF OpToRel
<1> QED OBVIOUS

(* Among some numbers there is a least one.                                *)
LEMMA LeastOf ==
    ASSUME NEW S \in SUBSET Nat, S # {}
    PROVE  Least(S) \in S /\ \A y \in S : Least(S) <= y
<1>1. \E x \in S : \A y \in S : ~(<<y, x>> \in OpToRel(<, Nat))
  BY NatLessThanWellFounded, WFMin, Zenon
<1>2. \E x \in S : \A y \in S : ~(y < x)
  BY <1>1, LessThan, Zenon
<1>3. \E x \in S : \A y \in S : x <= y
  BY <1>2
<1> QED BY <1>3 DEF Least

(* Among some numbers up to n there is a greatest one.                     *)
LEMMA GreatestOf ==
    ASSUME NEW n \in Nat, NEW S \in SUBSET (0 .. n), S # {}
    PROVE  Greatest(S) \in S /\ \A y \in S : Greatest(S) >= y
<1> DEFINE T == {n - x : x \in S}
<1>1. T \in SUBSET Nat /\ T # {}
  <2>1. \A x \in S : n - x \in Nat
    OBVIOUS
  <2> QED BY <2>1
<1> HIDE DEF T
<1>2. PICK m \in T : \A y \in T : m <= y
  BY <1>1, LeastOf
<1>3. PICK x \in S : m = n - x
  BY <1>2 DEF T
<1>4. \A y \in S : n - y \in T
  BY DEF T
<1>5. \A y \in S : x >= y
  BY <1>2, <1>3, <1>4
<1> QED BY <1>5 DEF Greatest

-----------------------------------------------------------------------------
(* Shows, seasons and titles.                                              *)
(* The facts of a title, by its fields.                                    *)
LEMMA TitleFacts ==
    ASSUME title \in Title
    PROVE  /\ title.first \in Seq(Nat) /\ Len(title.first) \in Nat \ {0}
           /\ Seasons = DOMAIN title.first /\ Seasons \subseteq DOMAIN SeasonKey /\ 1 \in Seasons
           /\ title.first[1] = 1
           /\ \A i, j \in Seasons : i < j => title.first[i] < title.first[j]
           /\ \A s \in Seasons : s \in Nat \ {0} /\ title.first[s] \in Nat \ {0} /\ title.first[s] <= title.last
           /\ title.last \in Nat /\ title.base \in Nat /\ title.total \in Nat \ {0} /\ title.marker \in Nat
           /\ title.base + title.total <= title.last /\ title.last < Open
           /\ title.known \in BOOLEAN /\ title.dated \in BOOLEAN
           /\ title.absolute \in BOOLEAN /\ title.fribb \in BOOLEAN
           /\ title.search \in BOOLEAN /\ title.anizip \in BOOLEAN /\ title.anisearch \in BOOLEAN
           /\ title.bridge \in {"none", "nested", "show", "open"}
<1>1. title \in TitleType /\ WellFormed(title) /\ Len(SeasonKey) \in Nat /\ DOMAIN SeasonKey = 1 .. Len(SeasonKey)
  BY EpisodeListAssumption
<1>2. /\ title.first \in Seq(Nat) /\ title.last \in Nat /\ title.base \in Nat /\ title.total \in Nat
      /\ title.known \in BOOLEAN /\ title.dated \in BOOLEAN
      /\ title.absolute \in BOOLEAN /\ title.fribb \in BOOLEAN
      /\ title.search \in BOOLEAN /\ title.anizip \in BOOLEAN /\ title.anisearch \in BOOLEAN
      /\ title.marker \in Nat /\ title.bridge \in {"none", "nested", "show", "open"}
  BY <1>1 DEF TitleType
<1>3. /\ Len(title.first) \in Nat \ {0} /\ Seasons = DOMAIN title.first
      /\ Seasons \subseteq DOMAIN SeasonKey /\ 1 \in Seasons
      /\ Len(title.first) \in Seasons /\ \A s \in Seasons : s \in Nat \ {0} /\ s <= Len(title.first)
  BY <1>1, <1>2 DEF WellFormed, Seasons
<1>4. /\ title.first[1] = 1 /\ \A i, j \in Seasons : i < j => title.first[i] < title.first[j]
      /\ title.first[Len(title.first)] <= title.last
      /\ title.total > 0 /\ title.base + title.total <= title.last /\ title.last < Open
  BY <1>1, <1>3 DEF WellFormed
<1>5. ASSUME NEW s \in Seasons
      PROVE  title.first[s] \in Nat \ {0} /\ title.first[s] <= title.last
  <2>1. title.first[s] \in Nat /\ title.first[Len(title.first)] \in Nat
    BY <1>2, <1>3
  <2>2. title.first[s] >= 1
    <3>1. CASE s = 1
      BY <1>4, <3>1
    <3>2. CASE s > 1
      BY <1>3, <1>4, <2>1, <3>2
    <3> QED BY <3>1, <3>2, <1>3
  <2>3. title.first[s] <= title.last
    <3>1. CASE s = Len(title.first)
      BY <1>4, <3>1
    <3>2. CASE s < Len(title.first)
      BY <1>2, <1>3, <1>4, <2>1, <3>2
    <3> QED BY <3>1, <3>2, <1>3
  <2> QED BY <2>1, <2>2, <2>3
<1> QED BY <1>2, <1>3, <1>4, <1>5

(* Where the title is in its show.                                         *)
LEMMA TitleRange ==
    ASSUME title \in Title
    PROVE  /\ title.base \in Nat /\ title.total \in Nat \ {0} /\ title.last \in Nat
           /\ title.base + title.total <= title.last /\ title.last < Open
           /\ title.base + 1 \in 1 .. title.last
           /\ \A n \in 1 .. title.total : title.base + n \in 1 .. title.last
<1>1. /\ title.base \in Nat /\ title.total \in Nat \ {0} /\ title.last \in Nat
      /\ title.base + title.total <= title.last /\ title.last < Open
  BY TitleFacts
<1> QED BY <1>1

(* Where a season ends: it holds its first episode, and the next season    *)
(* begins after its last.                                                  *)
LEMMA SeasonEnds ==
    ASSUME title \in Title, NEW s \in Seasons
    PROVE  /\ Last(s) \in Nat /\ title.first[s] <= Last(s) /\ Last(s) <= title.last
           /\ \A t \in Seasons : s < t => Last(s) < title.first[t]
           /\ s # Len(title.first) => s + 1 \in Seasons /\ Last(s) = title.first[s + 1] - 1
<1>1. /\ Len(title.first) \in Nat /\ s \in Nat /\ s <= Len(title.first)
      /\ title.first[s] \in Nat /\ title.first[s] <= title.last /\ title.last \in Nat
  BY TitleFacts DEF Seasons
<1>2. CASE s = Len(title.first)
  <2>1. \A t \in Seasons : ~(s < t)
    BY <1>2 DEF Seasons
  <2> QED BY <1>1, <1>2, <2>1 DEF Last
<1>3. CASE s # Len(title.first)
  <2>1. s + 1 \in Seasons /\ s < s + 1
    BY <1>1, <1>3 DEF Seasons
  <2>2. /\ title.first[s + 1] \in Nat /\ title.first[s + 1] <= title.last
        /\ title.first[s] < title.first[s + 1]
    BY <2>1, TitleFacts
  <2>3. Last(s) = title.first[s + 1] - 1
    BY <1>3 DEF Last
  <2>4. ASSUME NEW t \in Seasons, s < t
        PROVE  title.first[s + 1] <= title.first[t]
    <3>1. t \in Nat /\ title.first[t] \in Nat
      BY TitleFacts
    <3>2. CASE t = s + 1
      BY <2>2, <3>2
    <3>3. CASE s + 1 < t
      BY <2>1, <2>2, <3>1, <3>3, TitleFacts
    <3> QED BY <1>1, <2>4, <3>1, <3>2, <3>3
  <2>5. ASSUME NEW t \in Seasons, s < t
        PROVE  Last(s) < title.first[t]
    <3>1. title.first[t] \in Nat
      BY TitleFacts
    <3> QED BY <2>2, <2>3, <2>4, <2>5, <3>1
  <2> QED BY <1>1, <2>1, <2>2, <2>3, <2>5
<1> QED BY <1>2, <1>3

(* An episode of a show is in one season, the one that has it.             *)
LEMMA SeasonIs ==
    ASSUME title \in Title, NEW i \in 1 .. title.last
    PROVE  /\ Season(i) \in Seasons /\ title.first[Season(i)] <= i /\ i <= Last(Season(i))
           /\ \A s \in Seasons : title.first[s] <= i /\ i <= Last(s) => s = Season(i)
<1> DEFINE S == {s \in Seasons : title.first[s] <= i}
<1>1. S \in SUBSET (0 .. Len(title.first)) /\ 1 \in S /\ Len(title.first) \in Nat
  BY TitleFacts DEF Seasons
<1>2. Greatest(S) \in S /\ \A t \in S : Greatest(S) >= t
  <2> HIDE DEF S
  <2> QED BY <1>1, GreatestOf
<1>3. i <= Last(Greatest(S))
  <2>1. CASE Greatest(S) = Len(title.first)
    <3>1. Last(Greatest(S)) = title.last
      BY <2>1 DEF Last
    <3> QED BY <3>1, TitleRange
  <2>2. CASE Greatest(S) # Len(title.first)
    <3>1. Greatest(S) + 1 \in Seasons /\ Last(Greatest(S)) = title.first[Greatest(S) + 1] - 1
      BY <1>2, <2>2, SeasonEnds
    <3>2. Greatest(S) \in Nat /\ title.first[Greatest(S) + 1] \in Nat
      BY <1>2, <3>1, TitleFacts
    <3>3. ~(title.first[Greatest(S) + 1] <= i)
      <4>1. Greatest(S) + 1 \notin S
        <5> HIDE DEF S
        <5> QED BY <1>2, <3>2
      <4> QED BY <3>1, <4>1
    <3> HIDE DEF S
    <3> QED BY <3>1, <3>2, <3>3
  <2> QED BY <2>1, <2>2
<1>4. \A s, t \in Seasons : title.first[s] <= i /\ i <= Last(s) /\ title.first[t] <= i /\ i <= Last(t) => s = t
  <2> SUFFICES ASSUME NEW s \in Seasons, NEW t \in Seasons, s # t,
                      title.first[s] <= i /\ i <= Last(s) /\ title.first[t] <= i /\ i <= Last(t)
               PROVE  FALSE
    OBVIOUS
  <2>1. /\ s \in Nat /\ t \in Nat /\ title.first[s] \in Nat /\ title.first[t] \in Nat
        /\ Last(s) \in Nat /\ Last(t) \in Nat
    BY TitleFacts, SeasonEnds
  <2>2. CASE s < t
    BY <2>1, <2>2, SeasonEnds
  <2>3. CASE t < s
    BY <2>1, <2>3, SeasonEnds
  <2> QED BY <2>1, <2>2, <2>3
<1>5. \E s \in Seasons : title.first[s] <= i /\ i <= Last(s)
  BY <1>2, <1>3
<1>6. Season(i) \in Seasons /\ title.first[Season(i)] <= i /\ i <= Last(Season(i))
  BY <1>5 DEF Season
<1> QED BY <1>4, <1>6

(* What is between two episodes of a season is in it too.                  *)
LEMMA SeasonBetween ==
    ASSUME title \in Title, NEW i \in 1 .. title.last, NEW k \in 1 .. title.last, Season(i) = Season(k),
           NEW j \in Nat, i <= j, j <= k
    PROVE  j \in 1 .. title.last /\ Season(j) = Season(i)
<1>1. title.last \in Nat /\ j \in 1 .. title.last
  BY TitleRange
<1>2. /\ Season(i) \in Seasons /\ title.first[Season(i)] <= i /\ k <= Last(Season(i))
      /\ title.first[Season(i)] \in Nat /\ Last(Season(i)) \in Nat
  BY SeasonIs, SeasonEnds, TitleFacts
<1>3. title.first[Season(i)] <= j /\ j <= Last(Season(i))
  BY <1>2
<1> QED BY <1>1, <1>2, <1>3, SeasonIs

(* The number an episode has in a season.                                  *)
NumberIn(s, i) == IF title.absolute THEN i ELSE i - title.first[s] + 1

LEMMA NumberIs ==
    ASSUME title \in Title, NEW i \in 1 .. title.last
    PROVE  Number(i) = NumberIn(Season(i), i) /\ Number(i) \in 1 .. i
<1>1. title.last \in Nat /\ title.first[Season(i)] \in Nat \ {0} /\ title.first[Season(i)] <= i
  BY TitleFacts, SeasonIs
<1> QED BY <1>1 DEF Number, NumberIn

(* The part of a season up to an episode.                                  *)
LEMMA InIs ==
    ASSUME title \in Title, NEW s \in Seasons, NEW top \in Int
    PROVE  /\ In(s, top) \subseteq 1 .. title.last
           /\ \A i \in Int : i \in In(s, top) <=> title.first[s] <= i /\ i <= Last(s) /\ i <= top
           /\ \A i \in In(s, top) : Season(i) = s
<1>1. /\ title.first[s] \in Nat \ {0} /\ Last(s) \in Nat /\ Last(s) <= title.last /\ title.last \in Nat
  BY TitleFacts, SeasonEnds
<1>2. \A i : i \in In(s, top) <=> i \in Int /\ title.first[s] <= i /\ i <= Last(s) /\ i <= top
  BY <1>1 DEF In
<1>3. In(s, top) \subseteq 1 .. title.last
  BY <1>1, <1>2
<1>4. \A i \in In(s, top) : Season(i) = s
  BY <1>2, <1>3, SeasonIs
<1> QED BY <1>2, <1>3, <1>4

(* A number finds the one episode of the season that has it.               *)
LEMMA AtIs ==
    ASSUME title \in Title, NEW s \in Seasons, NEW top \in Int, NEW number
    PROVE  /\ At(s, number, top) \subseteq 1 .. title.last
           /\ \A i \in At(s, number, top) : i <= top /\ Season(i) = s /\ number = NumberIn(s, i)
           /\ \A i \in In(s, top) : number = NumberIn(s, i) => i \in At(s, number, top)
BY InIs, NumberIs DEF At

-----------------------------------------------------------------------------
(* The invariant: how far the sources have come,                           *)
WorldOK ==
    /\ title \in Title
    /\ aired \in Nat /\ bridged \in Nat /\ listed \in Nat
    /\ bridged <= aired /\ aired <= title.total /\ title.base + listed <= title.last

(* what is cached of each, which is nothing or what it answered once,      *)
Entry == [value : Int, left : Nat]
Remembered(k) ==
    /\ store[k].left \in 1 .. TTL(k) /\ store[k].value \in 0 .. World(k)
    /\ k \in {"fribb", "search"} => store[k].value = World(k)
StoreOK ==
    /\ store \in [Keys -> Entry]
    /\ \A k \in Keys : store[k] = Absent \/ Remembered(k)

(* and the episodes found.                                                 *)
Pair == (Nat \ {0}) \X (1 .. title.last)
CachesOK ==
    /\ episodeCache \in [episodes : SUBSET Pair, left : 0 .. EntryTTL]
    /\ body \in [count : {body.count}, shown : SUBSET Pair, left : 0 .. BodyTTL, down : SUBSET Source]

TypeInv == WorldOK /\ StoreOK /\ CachesOK

LEMMA Lifetimes ==
    /\ BodyTTL \in Nat \ {0} /\ EpisodeTTL \in Nat \ {0} /\ EntryTTL \in Nat \ {0}
    /\ FreshTTL \in Nat \ {0} /\ LongTTL \in Nat \ {0} /\ Assumed \in Nat \ {0} /\ FreshTTL <= LongTTL
    /\ AniListFresh \in Nat \ {0} /\ AniListKept \in Nat \ {0} /\ AniListFresh <= AniListKept
BY EpisodeListAssumption

(* What each source answers now.                                           *)
LEMMA WorldIs ==
    ASSUME WorldOK
    PROVE  /\ SourceKeys \subseteq Keys /\ \A s \in Seasons : SeasonKey[s] \in Keys
           /\ World("anilist") = aired /\ TTL("anilist") = AniListKept
           /\ World("mapping") = bridged /\ World("show") = title.base + listed
           /\ \A s \in Seasons : World(SeasonKey[s]) = title.base + listed /\ SourceOf(SeasonKey[s]) = {"tmdb"}
           /\ World("fribb") \in 0 .. 1 /\ World("search") \in 0 .. 1
           /\ World("fribb") = 1 <=> title.fribb
           /\ World("search") = 1 <=> title.search
           /\ \A k \in Keys : World(k) \in Err .. title.last
           /\ \A k \in Keys : TTL(k) \in Nat \ {0} /\ (\A s \in Seasons : TTL(SeasonKey[s]) = LongTTL)
<1>1. /\ title.last \in Nat \ {0} /\ title.base \in Nat /\ title.total \in Nat
      /\ title.base + title.total <= title.last /\ Seasons \subseteq DOMAIN SeasonKey
      /\ title.fribb \in BOOLEAN /\ title.search \in BOOLEAN
  BY TitleFacts DEF WorldOK
<1>2. \A s \in Seasons : SeasonKey[s] \notin SourceKeys
  BY <1>1, EpisodeListAssumption
<1>3. SourceKeys \subseteq Keys /\ \A s \in Seasons : SeasonKey[s] \in Keys
  BY DEF Keys
<1>4. /\ World("anilist") = aired /\ TTL("anilist") = AniListKept
      /\ World("mapping") = bridged /\ World("show") = title.base + listed
      /\ World("fribb") = (IF title.fribb THEN 1 ELSE 0) /\ World("search") = (IF title.search THEN 1 ELSE 0)
  BY DEF World, TTL
<1>5. ASSUME NEW s \in Seasons
      PROVE  World(SeasonKey[s]) = title.base + listed /\ SourceOf(SeasonKey[s]) = {"tmdb"} /\ TTL(SeasonKey[s]) = LongTTL
  BY <1>2 DEF World, SourceOf, TTL, SourceKeys
<1>6. ASSUME NEW k \in Keys
      PROVE  World(k) \in Err .. title.last /\ TTL(k) \in Nat \ {0}
  <2>1. World(k) \in {bridged, aired, 0, title.total, Err, 1, title.base + listed}
    BY DEF World
  <2>2. World(k) \in Err .. title.last
    BY <1>1, <2>1 DEF WorldOK, Err
  <2> QED BY <2>2, Lifetimes DEF TTL
<1> QED BY <1>1, <1>3, <1>4, <1>5, <1>6

-----------------------------------------------------------------------------
(* What a request finds.                                                   *)
Heard(q) ==
    /\ \A k \in Keys : q.heard[k] \in Err .. World(k)
    /\ \A k \in {"fribb", "search"} : q.heard[k] \in {Err, World(k)}

LEMMA RequestHears ==
    ASSUME TypeInv, NEW down
    PROVE  /\ Heard(Request(down)) /\ Request(down).down = down
           /\ \A k \in Keys : Request(down).heard[k] = Read(k, down)
           /\ \A k \in Keys : Up(k, down) /\ World(k) # Err => Request(down).heard[k] # Err
<1>1. ASSUME NEW k \in Keys
      PROVE  /\ Read(k, down) \in Err .. World(k)
             /\ k \in {"fribb", "search"} => Read(k, down) \in {Err, World(k)}
             /\ Up(k, down) /\ World(k) # Err => Read(k, down) # Err
  <2>1. World(k) \in Int /\ World(k) >= Err
    BY WorldIs, TitleRange DEF TypeInv, WorldOK, Err
  <2>2. CASE Fresh(k)
    <3>1. Remembered(k)
      BY <2>2 DEF TypeInv, StoreOK, Fresh, Absent
    <3> QED BY <2>1, <2>2, <3>1 DEF Read, Remembered, Err
  <2>3. CASE ~Fresh(k)
    <3>1. staleCache(k) \in Err .. World(k) /\ (k \in {"fribb", "search"} => staleCache(k) = Err)
      BY <2>1 DEF TypeInv, StoreOK, Remembered, Absent, staleCache, Err
    <3> QED BY <2>1, <2>3, <3>1 DEF Read, Err
  <2> QED BY <2>2, <2>3
<1>2. {"fribb", "search"} \subseteq Keys
  BY WorldIs DEF TypeInv, SourceKeys
<1> QED BY <1>1, <1>2 DEF Heard, Request

LEMMA HeardIs ==
    ASSUME WorldOK, NEW q, Heard(q)
    PROVE  /\ q.heard["anilist"] \in Int /\ q.heard["anilist"] <= aired
           /\ getMapping(q) \in Int /\ getMapping(q) <= bridged
           /\ getTmdbShow(q) \in Int /\ getTmdbShow(q) <= title.base + listed
           /\ \A s \in Seasons : getTmdbSeason(s, q) \in Int /\ getTmdbSeason(s, q) <= title.base + listed
           /\ resolveTmdbIDByTitle(q) => title.search
           /\ q.heard["fribb"] = 1 => title.fribb
<1>1. title.base \in Nat
  BY TitleRange DEF WorldOK
<1> QED BY <1>1, WorldIs DEF WorldOK, Heard, getMapping, getTmdbShow, getTmdbSeason, resolveTmdbIDByTitle, SourceKeys, Err

-----------------------------------------------------------------------------
(* Mappings.  The verified episodes of a season are a range.               *)
LEMMA VerifiedIs ==
    ASSUME title \in Title, NEW b \in Int, b <= title.total, NEW s \in Seasons, Verified(b, s) # {}
    PROVE  LET lo == Least(Verified(b, s))  hi == Greatest(Verified(b, s)) IN
           /\ lo \in Nat \ {0} /\ hi \in Nat /\ lo <= hi /\ hi <= b
           /\ Season(title.base + lo) = s /\ Season(title.base + hi) = s
           /\ \A n \in 1 .. b : Season(title.base + n) = s <=> lo <= n /\ n <= hi
<1> DEFINE V == Verified(b, s)
<1>1. V \in SUBSET (0 .. b) /\ V \in SUBSET Nat /\ b \in Nat /\ V # {}
  BY DEF Verified
<1>2. /\ Least(V) \in V /\ \A y \in V : Least(V) <= y
      /\ Greatest(V) \in V /\ \A y \in V : Greatest(V) >= y
  <2> HIDE DEF V
  <2> QED BY <1>1, LeastOf, GreatestOf
<1>3. \A n \in V : n \in 1 .. b /\ Season(title.base + n) = s
  BY DEF Verified
<1>4. /\ title.base \in Nat /\ title.last \in Nat
      /\ \A n \in 1 .. b : title.base + n \in 1 .. title.last
  BY TitleRange
<1>5. ASSUME NEW n \in 1 .. b, Least(V) <= n, n <= Greatest(V)
      PROVE  Season(title.base + n) = s
  <2> DEFINE lo == Least(V)  hi == Greatest(V)
  <2>1. lo \in 1 .. b /\ hi \in 1 .. b /\ Season(title.base + lo) = s /\ Season(title.base + hi) = s
    BY <1>2, <1>3
  <2>2. title.base + lo <= title.base + n /\ title.base + n <= title.base + hi /\ title.base + n \in Nat
    BY <1>4, <1>5, <2>1
  <2> HIDE DEF lo, hi, V
  <2> QED BY <1>4, <2>1, <2>2, SeasonBetween
<1>6. ASSUME NEW n \in 1 .. b, Season(title.base + n) = s
      PROVE  n \in V
  BY <1>6 DEF Verified
<1> HIDE DEF V
<1>7. /\ Least(V) \in Nat \ {0} /\ Greatest(V) \in Nat /\ Least(V) <= Greatest(V) /\ Greatest(V) <= b
      /\ Season(title.base + Least(V)) = s /\ Season(title.base + Greatest(V)) = s
  BY <1>2, <1>3
<1>8. \A n \in 1 .. b : Season(title.base + n) = s <=> Least(V) <= n /\ n <= Greatest(V)
  BY <1>2, <1>5, <1>6
<1> QED BY <1>7, <1>8 DEF V

(* A mapping is right if it takes the first number of its range to the     *)
(* number that this episode has in the season.  So do all there are, if    *)
(* only first seasons are found by their title.                            *)
FirstsFound == title.search => title.base = 0

Right(m) ==
    /\ m.season \in Seasons
    /\ m.src.from \in Nat \ {0} /\ m.src.to \in Nat /\ m.dst.from \in Nat /\ m.dst.to \in Nat
    /\ FirstsFound => m.dst.from = NumberIn(m.season, title.base + m.src.from)

LEMMA FromFirstRight ==
    ASSUME title \in Title
    PROVE  /\ Right(FromFirst) /\ FromFirst.src = rng(1, Open) /\ FromFirst.dst.to = Open
           /\ FromFirst.season = Season(title.base + 1)
<1>1. title.base + 1 \in 1 .. title.last
  BY TitleRange
<1> QED BY <1>1, SeasonIs, NumberIs DEF Right, FromFirst, Mapping, rng, Open

LEMMA ShowMappingsRight ==
    ASSUME title \in Title, NEW b \in Int, b <= title.total, NEW m \in extractTmdbShowMappings(b)
    PROVE  Right(m)
<1>1. CASE b < 1 \/ title.bridge \in {"none", "nested"}
  BY <1>1 DEF extractTmdbShowMappings
<1>2. CASE b >= 1 /\ title.bridge = "open"
  BY <1>2, FromFirstRight DEF extractTmdbShowMappings
<1>3. CASE b >= 1 /\ title.bridge = "show"
  <2> DEFINE lo(s) == Least(Verified(b, s))  hi(s) == Greatest(Verified(b, s))
  <2>1. PICK s \in Seasons : /\ Verified(b, s) # {}
                             /\ m = Mapping(s, rng(lo(s), hi(s)), rng(Number(title.base + lo(s)), Number(title.base + hi(s))))
    BY <1>3 DEF extractTmdbShowMappings
  <2>2. /\ lo(s) \in Nat \ {0} /\ hi(s) \in Nat /\ lo(s) <= hi(s) /\ hi(s) <= b
        /\ Season(title.base + lo(s)) = s
    BY <2>1, VerifiedIs
  <2> HIDE DEF lo, hi
  <2>3. title.base + lo(s) \in 1 .. title.last /\ title.base + hi(s) \in 1 .. title.last
    <3>1. title.base \in Nat /\ title.total \in Nat /\ title.last \in Nat /\ title.base + title.total <= title.last
      BY TitleRange
    <3> QED BY <2>2, <3>1
  <2>4. /\ Number(title.base + lo(s)) = NumberIn(s, title.base + lo(s))
        /\ Number(title.base + lo(s)) \in Nat /\ Number(title.base + hi(s)) \in Nat
    BY <2>2, <2>3, NumberIs
  <2> QED BY <2>1, <2>2, <2>4 DEF Right, Mapping, rng
<1> QED BY <1>1, <1>2, <1>3, TitleFacts

LEMMA NoShowMappings ==
    ASSUME NEW b \in Int, b < 1 \/ title.bridge \in {"none", "nested"}
    PROVE  extractTmdbShowMappings(b) = {}
BY DEF extractTmdbShowMappings

LEMMA NestedRight ==
    ASSUME title \in Title, title.search, NEW b \in Int, NEW nums \in SUBSET (Nat \ {0}),
           NEW m \in extractNestedRanges(b, nums)
    PROVE  Right(m) /\ m.season = 1 /\ m.src = m.dst
<1>1. 1 \in Seasons /\ title.first[1] = 1 /\ title.base \in Nat /\ title.absolute \in BOOLEAN
  BY TitleFacts
<1>2. \A i \in Nat : NumberIn(1, i) = i
  BY <1>1 DEF NumberIn
<1>3. \E i, j \in Nat \ {0} : m = Mapping(1, rng(i, j), rng(i, j))
  BY DEF extractNestedRanges
<1>4. m.season = 1 /\ m.src = m.dst /\ m.src.from \in Nat \ {0} /\ m.src.to \in Nat
  BY <1>3 DEF Mapping, rng
<1> QED BY <1>1, <1>2, <1>4 DEF Right, FirstsFound

(* Which mappings a request goes by.                                       *)
LEMMA MappingsAre ==
    ASSUME WorldOK, NEW q, Heard(q), NEW nums \in SUBSET (Nat \ {0})
    PROVE  LET b == getMapping(q) IN
           \/ Mappings(nums, q) = {}
           \/ Mappings(nums, q) = {FromFirst} /\ (title.fribb \/ title.bridge = "open")
           \/ /\ title.bridge = "show" /\ b >= 1 /\ Mappings(nums, q) = extractTmdbShowMappings(b)
           \/ /\ title.search /\ Mappings(nums, q) = extractNestedRanges(b, nums)
<1>1. title.bridge \in {"none", "nested", "show", "open"}
  BY TitleFacts DEF WorldOK
<1>2. CASE extractTmdbShowMappings(getMapping(q)) # {}
  <2>1. Mappings(nums, q) = extractTmdbShowMappings(getMapping(q))
    BY <1>2 DEF Mappings
  <2>2. ~(getMapping(q) < 1 \/ title.bridge \in {"none", "nested"})
    <3>1. getMapping(q) \in Int
      BY HeardIs
    <3> QED BY <1>2, <3>1, NoShowMappings, Zenon
  <2>3. getMapping(q) >= 1 /\ title.bridge \in {"show", "open"}
    BY <1>1, <2>2, HeardIs
  <2>4. title.bridge = "open" => extractTmdbShowMappings(getMapping(q)) = {FromFirst}
    BY <2>2, <2>3 DEF extractTmdbShowMappings
  <2> QED BY <2>1, <2>3, <2>4
<1>3. CASE extractTmdbShowMappings(getMapping(q)) = {}
  BY <1>3, HeardIs DEF Mappings, getFribbMappings, fribbToMappings
<1> QED BY <1>2, <1>3

LEMMA MappingsRight ==
    ASSUME WorldOK, NEW q, Heard(q), NEW nums \in SUBSET (Nat \ {0}), NEW m \in Mappings(nums, q)
    PROVE  Right(m)
<1>1. title \in Title /\ getMapping(q) \in Int /\ getMapping(q) <= title.total
  BY HeardIs, TitleRange DEF WorldOK
<1> QED BY <1>1, MappingsAre, FromFirstRight, ShowMappingsRight, NestedRight

-----------------------------------------------------------------------------
(* The season and number an episode is looked for at.                      *)
(* At most one mapping goes on past its end.                               *)
LEMMA ExtendedOne ==
    ASSUME WorldOK, NEW q, Heard(q), NEW nums \in SUBSET (Nat \ {0}), NEW n,
           NEW m \in Extended(Mappings(nums, q), n), NEW o \in Extended(Mappings(nums, q), n)
    PROVE  m = o
<1> DEFINE b == getMapping(q)
<1>1. title \in Title /\ b \in Int /\ b <= title.total
  BY HeardIs, TitleRange DEF WorldOK
<1>2. /\ m \in Mappings(nums, q) /\ m.src.from = 1 /\ m.src.to # Open
      /\ o \in Mappings(nums, q) /\ o.src.from = 1
  BY DEF Extended, identityAlignedContinuation
<1> HIDE DEF b
<1>3. CASE Mappings(nums, q) = {FromFirst}
  BY <1>2, <1>3
<1>4. CASE title.bridge = "show" /\ b >= 1 /\ Mappings(nums, q) = extractTmdbShowMappings(b)
  <2> DEFINE M(s) == LET lo == Least(Verified(b, s))  hi == Greatest(Verified(b, s))
                     IN  Mapping(s, rng(lo, hi), rng(Number(title.base + lo), Number(title.base + hi)))
  <2>1. ASSUME NEW y \in Mappings(nums, q), y.src.from = 1
        PROVE  Season(title.base + 1) \in Seasons /\ y = M(Season(title.base + 1))
    <3>1. PICK s \in Seasons : Verified(b, s) # {} /\ y = M(s)
      BY <1>4, <2>1 DEF extractTmdbShowMappings
    <3>2. Season(title.base + Least(Verified(b, s))) = s
      BY <1>1, <3>1, VerifiedIs
    <3>3. y.src.from = Least(Verified(b, s))
      BY <3>1 DEF Mapping, rng
    <3> QED BY <2>1, <3>1, <3>2, <3>3
  <2> HIDE DEF M
  <2> QED BY <1>2, <2>1
<1>5. CASE title.search /\ Mappings(nums, q) = extractNestedRanges(b, nums)
  <2>1. CASE b >= 1 /\ title.bridge = "nested"
    BY <1>2, <1>5, <2>1 DEF extractNestedRanges
  <2>2. CASE ~(b >= 1 /\ title.bridge = "nested")
    <3>1. ASSUME NEW y \in Mappings(nums, q), y.src.from = 1
          PROVE  y = Mapping(1, rng(1, 1), rng(1, 1))
      BY <1>5, <2>2, <3>1 DEF extractNestedRanges, Mapping, rng
    <3> QED BY <1>2, <3>1
  <2> QED BY <2>1, <2>2
<1> QED BY <1>2, <1>3, <1>4, <1>5, MappingsAre DEF b

(* What a target says: where the title's episode n is, if only first       *)
(* seasons are found by their title.  Other seasons are looked through for *)
(* those alone that are mapped from the title's first episode on without   *)
(* an end (or whose number is past every other).                           *)
Target(x) ==
    /\ x.n \in Nat \ {0} /\ x.season \in Seasons /\ x.number \in Int
    /\ FirstsFound => x.number = NumberIn(x.season, title.base + x.n)
    /\ x.open => \/ x.season = Season(title.base + 1) /\ OpenEnded
                 \/ x.number >= Open

LEMMA OpenIs ==
    ASSUME WorldOK, NEW q, Heard(q), NEW nums \in SUBSET (Nat \ {0}), NEW m \in Mappings(nums, q), m.src.to = Open
    PROVE  \/ m.season = Season(title.base + 1) /\ OpenEnded
           \/ m.src.from = Open /\ m.dst.from = Open
<1> DEFINE b == getMapping(q)
<1>1. /\ title \in Title /\ b \in Int /\ b <= title.total /\ title.total \in Nat /\ title.total < Open
  BY HeardIs, TitleRange DEF WorldOK, Open
<1> HIDE DEF b
<1>2. CASE Mappings(nums, q) = {FromFirst} /\ OpenEnded
  BY <1>1, <1>2, FromFirstRight
<1>3. CASE title.bridge = "show" /\ b >= 1 /\ Mappings(nums, q) = extractTmdbShowMappings(b)
  <2>1. PICK s \in Seasons : Verified(b, s) # {} /\ m.src.to = Greatest(Verified(b, s))
    BY <1>3 DEF extractTmdbShowMappings, Mapping, rng
  <2>2. m.src.to \in Nat /\ m.src.to <= b
    BY <1>1, <2>1, VerifiedIs
  <2> QED BY <1>1, <2>2 DEF Open
<1>4. CASE title.search /\ Mappings(nums, q) = extractNestedRanges(b, nums)
  <2>1. CASE b >= 1 /\ title.bridge = "nested"
    <3>1. m.src.to = b
      BY <1>4, <2>1 DEF extractNestedRanges, Mapping, rng
    <3> QED BY <1>1, <3>1 DEF Open
  <2>2. CASE ~(b >= 1 /\ title.bridge = "nested")
    <3>1. PICK k \in nums : m = Mapping(1, rng(k, k), rng(k, k))
      BY <1>4, <2>2 DEF extractNestedRanges
    <3> QED BY <3>1 DEF Mapping, rng
  <2> QED BY <2>1, <2>2
<1> QED BY <1>2, <1>3, <1>4, MappingsAre DEF b, OpenEnded

(* An offset from the first episode of a range goes along with the number. *)
LEMMA NumbersRun ==
    ASSUME title \in Title, NEW s \in Seasons, NEW f \in Nat, NEW n \in Nat
    PROVE  NumberIn(s, title.base + f) + n - f = NumberIn(s, title.base + n)
           /\ NumberIn(s, title.base + n) \in Int
<1>1. title.base \in Nat /\ title.first[s] \in Nat
  BY TitleFacts
<1> QED BY <1>1 DEF NumberIn

LEMMA TargetsAre ==
    ASSUME WorldOK, NEW q, Heard(q), NEW nums \in SUBSET (Nat \ {0}), NEW x \in requested(nums, q)
    PROVE  Target(x) /\ x.n \in nums
<1> DEFINE M == Mappings(nums, q)
<1>1. PICK n \in nums : x = selectTmdbMappingForEpisode(M, n) /\ x # NoTarget
  BY DEF requested
<1>2. \A m \in M : Right(m)
  BY MappingsRight
<1>3. title \in Title /\ n \in Nat
  BY DEF WorldOK
<1>4. ASSUME NEW m \in M, x.n = n, x.season = m.season, x.number = m.dst.from + n - m.src.from,
             x.open => m.src.to = Open /\ (m.src.from = Open => n = m.src.from)
      PROVE  Target(x)
  <2>1. /\ m.src.from \in Nat /\ m.dst.from \in Nat /\ m.season \in Seasons
        /\ FirstsFound => m.dst.from = NumberIn(m.season, title.base + m.src.from)
    BY <1>2 DEF Right
  <2>2. FirstsFound => x.number = NumberIn(x.season, title.base + n)
    BY <1>3, <1>4, <2>1, NumbersRun
  <2>3. m.src.to = Open => \/ m.season = Season(title.base + 1) /\ OpenEnded
                           \/ m.src.from = Open /\ m.dst.from = Open
    BY OpenIs
  <2> QED BY <1>3, <1>4, <2>1, <2>2, <2>3 DEF Target, Open
<1>5. CASE Cardinality(Covering(M, n)) = 1
  <2> DEFINE m == CHOOSE m \in Covering(M, n) : TRUE
  <2>1. Covering(M, n) # {}
    BY <1>5, FS_EmptySet
  <2>2. m \in Covering(M, n)
    BY <2>1
  <2>3. x = [n |-> n, season |-> m.season, number |-> mapEpisodeNumber(m, n), open |-> m.src.to = Open]
    BY <1>1, <1>5 DEF selectTmdbMappingForEpisode
  <2> HIDE DEF m, M
  <2>4. /\ m \in M /\ mapEpisodeNumber(m, n) = m.dst.from + n - m.src.from
        /\ m.src.from <= n /\ n <= m.src.to
    BY <2>2 DEF Covering, mapEpisodeNumber
  <2>6. x.n = n /\ x.season = m.season /\ x.number = m.dst.from + n - m.src.from /\ (x.open <=> m.src.to = Open)
    BY <2>3, <2>4
  <2>7. m.src.to = Open /\ m.src.from = Open => n = m.src.from
    BY <1>3, <2>4 DEF Open
  <2> QED BY <1>1, <1>4, <2>4, <2>6, <2>7
<1>6. CASE Cardinality(Covering(M, n)) # 1
  <2> DEFINE m == CHOOSE m \in Extended(M, n) : \A y \in Extended(M, n) : m.src.to >= y.src.to
  <2>1. Extended(M, n) # {}
    BY <1>1, <1>6 DEF selectTmdbMappingForEpisode
  <2>2. \E y \in Extended(M, n) : \A z \in Extended(M, n) : y.src.to >= z.src.to
    <3>1. PICK y \in Extended(M, n) : TRUE
      BY <2>1
    <3>2. \A z \in Extended(M, n) : z = y
      BY <3>1, ExtendedOne
    <3>3. y.src.to \in Nat
      BY <1>2 DEF Extended, Right
    <3> QED BY <3>1, <3>2, <3>3
  <2>3. m \in Extended(M, n)
    BY <2>2
  <2>4. x = [n |-> n, season |-> m.season, number |-> n + m.dst.from - m.src.from, open |-> FALSE]
    BY <1>1, <1>6, <2>1 DEF selectTmdbMappingForEpisode
  <2> HIDE DEF m, M
  <2>5. m \in M
    BY <2>3 DEF Extended
  <2>6. m.dst.from \in Nat /\ m.src.from \in Nat
    BY <1>2, <2>5 DEF Right
  <2>7. x.n = n /\ x.season = m.season /\ x.number = n + m.dst.from - m.src.from /\ x.open = FALSE
    BY <2>4
  <2>8. x.number = m.dst.from + n - m.src.from
    BY <1>3, <2>6, <2>7
  <2> QED BY <1>1, <1>4, <2>5, <2>7, <2>8
<1> QED BY <1>5, <1>6, <1>1, <1>4

-----------------------------------------------------------------------------
(* The episodes found.                                                     *)
(* A title is found where it is under the conditions RightEpisode and      *)
(* FoundRight name; then the episodes in the caches are the right ones,    *)
(* and so are those a request finds.                                       *)
Findable  == SearchFinds /\ (OpenEnded => title.absolute \/ LastSeason)
Placed(q) ==
    SearchFinds /\ (OpenEnded => title.absolute \/ LastSeason \/ (OneSeason /\ "tmdb" \notin q.down))

RightPair(p)   == p \in Pair /\ (Findable => Rightly(p))
FoundPair(p, q) == p \in Pair /\ (Placed(q) => Rightly(p))

LEMMA FoundIsRight ==
    ASSUME NEW q, NEW p, FoundPair(p, q)
    PROVE  RightPair(p)
BY DEF FoundPair, RightPair, Placed, Findable

(* Two episodes with one number in one season are the same.                *)
LEMMA NumberOnce ==
    ASSUME title \in Title, NEW s \in Seasons, NEW i \in Int, NEW j \in Int, NumberIn(s, i) = NumberIn(s, j)
    PROVE  i = j
<1>1. title.first[s] \in Nat
  BY TitleFacts
<1> QED BY <1>1 DEF NumberIn

(* A title in one season is all in it, and the following ones are behind.  *)
LEMMA InOneSeason ==
    ASSUME title \in Title, OneSeason
    PROVE  LET z == Season(title.base + 1) IN
           /\ \A n \in 1 .. title.total : title.first[z] <= title.base + n /\ title.base + n <= Last(z)
           /\ \A s \in Seasons : s > z => title.base + title.total < title.first[s]
<1> DEFINE z == Season(title.base + 1)
<1>1. /\ title.base \in Nat /\ title.total \in Nat \ {0} /\ title.last \in Nat
      /\ title.base + title.total <= title.last /\ title.base + 1 \in 1 .. title.last
  BY TitleRange
<1>2. z \in Seasons /\ title.first[z] <= title.base + 1 /\ title.base + 1 <= Last(z)
  BY <1>1, SeasonIs
<1> HIDE DEF z
<1>3. /\ z \in Nat /\ title.first[z] \in Nat /\ Last(z) \in Nat
      /\ \A s \in Seasons : z < s => Last(z) < title.first[s]
      /\ z # Len(title.first) => z + 1 \in Seasons /\ Last(z) = title.first[z + 1] - 1
  BY <1>2, TitleFacts, SeasonEnds
<1>4. ASSUME NEW s \in Seasons, s > z
      PROVE  title.base + title.total < title.first[s]
  <2>1. title.first[s] \in Nat /\ s \in Nat /\ Last(z) < title.first[s]
    BY <1>3, <1>4, TitleFacts
  <2>2. title.first[s] \notin title.base + 2 .. title.base + title.total
    BY DEF OneSeason
  <2> QED BY <1>1, <1>2, <1>3, <2>1, <2>2
<1>5. title.base + title.total <= Last(z)
  <2>1. CASE z = Len(title.first)
    BY <1>1, <2>1 DEF Last
  <2>2. CASE z # Len(title.first)
    <3>1. z + 1 \in Seasons /\ z + 1 > z /\ Last(z) = title.first[z + 1] - 1
      BY <1>3, <2>2
    <3>2. title.base + title.total < title.first[z + 1] /\ title.first[z + 1] \in Nat
      BY <1>4, <3>1, TitleFacts
    <3> QED BY <1>1, <3>1, <3>2
  <2> QED BY <2>1, <2>2
<1>6. \A n \in 1 .. title.total : title.first[z] <= title.base + n /\ title.base + n <= Last(z)
  BY <1>1, <1>2, <1>3, <1>5
<1> QED BY <1>4, <1>6 DEF z

(* What is looked for in the seasons behind the one the title begins in is *)
(* none of its episodes, if that one has just been read.                   *)
LEMMA NoneBehind ==
    ASSUME WorldOK, NEW q, Heard(q), OneSeason, NEW n \in 1 .. title.total,
           NEW s \in continuationSeasonNumbers(Season(title.base + 1), q)
    PROVE  LET z == Season(title.base + 1)
           IN  At(z, NumberIn(z, title.base + n), World("show")) # {}
<1> DEFINE z == Season(title.base + 1)
<1>1. /\ title \in Title /\ title.base \in Nat /\ title.total \in Nat /\ listed \in Nat
      /\ title.base + 1 \in 1 .. title.last /\ World("show") = title.base + listed
  BY TitleRange, WorldIs DEF WorldOK
<1>2. s \in Seasons /\ s > z /\ In(s, getTmdbShow(q)) # {}
  BY DEF continuationSeasonNumbers
<1>3. getTmdbShow(q) \in Int /\ getTmdbShow(q) <= title.base + listed
  BY HeardIs
<1>4. PICK i \in In(s, getTmdbShow(q)) : TRUE
  BY <1>2
<1>5. i \in Int /\ title.first[s] <= i /\ i <= getTmdbShow(q)
  BY <1>1, <1>2, <1>3, <1>4, InIs
<1>6. /\ title.first[z] <= title.base + n /\ title.base + n <= Last(z)
      /\ title.base + title.total < title.first[s]
  BY <1>1, <1>2, InOneSeason
<1>7. z \in Seasons /\ title.first[s] \in Nat
  BY <1>1, <1>2, SeasonIs, TitleFacts
<1> HIDE DEF z
<1>8. title.base + n \in In(z, World("show"))
  BY <1>1, <1>3, <1>5, <1>6, <1>7, InIs
<1> QED BY <1>1, <1>7, <1>8, AtIs DEF z

LEMMA EpisodesAre ==
    ASSUME WorldOK, NEW q, Heard(q), NEW reqs, \A x \in reqs : Target(x),
           NEW p \in episodes(reqs, missed(reqs, q), staleSeasons(missed(reqs, q), q), q)
    PROVE  FoundPair(p, q)
<1> DEFINE lacking == missed(reqs, q)  stale == staleSeasons(lacking, q)
<1>1. PICK x \in reqs : \E i \in resolveOne(x, lacking, stale, q) : p = <<x.n, i>>
  BY DEF episodes
<1>2. PICK i \in resolveOne(x, lacking, stale, q) : p = <<x.n, i>>
  BY <1>1
<1>3. /\ title \in Title /\ title.base \in Nat /\ title.last \in Nat /\ title.last < Open
      /\ title.absolute \in BOOLEAN
  BY TitleFacts DEF WorldOK
<1>4. x.n \in Nat \ {0} /\ x.season \in Seasons
  BY DEF Target
<1>5. SearchFinds => FirstsFound
  BY DEF SearchFinds, FirstsFound
<1> DEFINE top == IF x.season \in stale THEN World("show") ELSE getTmdbSeason(x.season, q)
<1>6. top \in Int
  BY <1>4, HeardIs, WorldIs, <1>3 DEF WorldOK
<1>7. x \in lacking /\ "tmdb" \notin q.down => top = World("show")
  BY DEF staleSeasons
<1>8. \/ i \in At(x.season, x.number, top)
      \/ x.open /\ x \in lacking /\ At(x.season, x.number, top) = {} /\ i \in later(x, q)
  BY <1>2 DEF resolveOne
<1> HIDE DEF top, stale, lacking
<1>9. CASE i \in At(x.season, x.number, top)
  <2>1. i \in 1 .. title.last /\ x.number = NumberIn(x.season, i)
    BY <1>3, <1>4, <1>6, <1>9, AtIs
  <2>2. SearchFinds => NumberIn(x.season, i) = NumberIn(x.season, title.base + x.n)
    BY <1>1, <1>5, <2>1 DEF Target
  <2>3. SearchFinds => i = title.base + x.n
    BY <1>3, <1>4, <2>1, <2>2, NumberOnce
  <2> QED BY <1>2, <1>4, <2>1, <2>3 DEF FoundPair, Placed, Rightly, Pair
<1>10. CASE x.open /\ x \in lacking /\ At(x.season, x.number, top) = {} /\ i \in later(x, q)
  <2>1. PICK s \in continuationSeasonNumbers(x.season, q) : i \in At(s, x.number, getTmdbSeason(s, q))
    BY <1>10 DEF later
  <2>2. s \in Seasons /\ s > x.season /\ getTmdbSeason(s, q) \in Int
    BY <2>1, HeardIs DEF continuationSeasonNumbers
  <2>3. i \in 1 .. title.last /\ Season(i) = s /\ x.number = NumberIn(s, i)
    BY <1>3, <2>1, <2>2, AtIs
  <2>4. ASSUME Placed(q), x.n <= title.total
        PROVE  i = title.base + x.n
    <3>1. NumberIn(s, i) \in 1 .. i
      BY <1>3, <2>3, NumberIs
    <3>2. ~(x.number >= Open)
      BY <1>3, <2>3, <3>1 DEF Open
    <3>3. x.season = Season(title.base + 1) /\ OpenEnded
      BY <1>1, <1>10, <3>2 DEF Target
    <3>4. x.number = NumberIn(x.season, title.base + x.n)
      BY <1>1, <1>5, <2>4 DEF Target, Placed
    <3>5. ~LastSeason
      <4>1. s <= Len(title.first) /\ Len(title.first) \in Nat /\ s \in Nat
        BY <1>3, <2>2, TitleFacts DEF Seasons
      <4> QED BY <2>2, <3>3, <4>1 DEF LastSeason
    <3>6. ~(OneSeason /\ "tmdb" \notin q.down)
      <4>1. title.total \in Nat /\ x.n \in 1 .. title.total
        BY <1>3, <1>4, <2>4, TitleRange
      <4>2. OneSeason => At(x.season, x.number, World("show")) # {}
        BY <2>1, <3>3, <3>4, <4>1, NoneBehind
      <4> QED BY <1>7, <1>10, <4>2
    <3>7. title.absolute
      BY <2>4, <3>3, <3>5, <3>6 DEF Placed
    <3> QED BY <1>3, <1>4, <2>3, <3>4, <3>7 DEF NumberIn
  <2> QED BY <1>2, <1>4, <2>3, <2>4 DEF FoundPair, Rightly, Pair
<1> QED BY <1>8, <1>9, <1>10

(* What the mappings lead to.                                              *)
LEMMA SoughtAre ==
    ASSUME WorldOK, NEW q, Heard(q), NEW nums \in SUBSET (Nat \ {0})
    PROVE  LET r == ResolveEpisodesWithTitles(nums, q) IN
           (\A p \in r.found : FoundPair(p, q)) /\ r.forced \subseteq Seasons
<1> DEFINE reqs == requested(nums, q)  lacking == missed(reqs, q)  stale == staleSeasons(lacking, q)
           r == ResolveEpisodesWithTitles(nums, q)
<1>1. \A x \in reqs : Target(x)
  BY TargetsAre
<1>2. stale \subseteq Seasons
  BY <1>1 DEF missed, staleSeasons, Target
<1>3. r = Resolved(reqs, lacking, q)
  BY DEF ResolveEpisodesWithTitles, Sought
<1> HIDE DEF reqs, lacking, r
<1>4. /\ r.found = {} \/ r.found = episodes(reqs, lacking, stale, q)
      /\ r.forced = {} \/ r.forced = stale
  BY <1>3 DEF Resolved, Nothing
<1> HIDE DEF stale
<1>5. \A p \in episodes(reqs, lacking, stale, q) : FoundPair(p, q)
  BY <1>1, EpisodesAre DEF lacking, stale
<1> QED BY <1>2, <1>4, <1>5 DEF r

-----------------------------------------------------------------------------
(* What the title alone leads to.                                          *)
(* How many episodes of a season are listed.                               *)
LEMMA CountIs ==
    ASSUME WorldOK, NEW q, Heard(q), NEW s \in Seasons
    PROVE  /\ Count(s, q) \in Nat /\ Count(s, q) <= Last(s) - title.first[s] + 1
           /\ Last(s) <= getTmdbShow(q) => Count(s, q) = Last(s) - title.first[s] + 1
<1> DEFINE top == getTmdbShow(q)
<1>1. /\ title.first[s] \in Nat \ {0} /\ Last(s) \in Nat /\ title.first[s] <= Last(s) /\ top \in Int
  BY TitleFacts, SeasonEnds, HeardIs DEF WorldOK
<1> HIDE DEF top
<1>2. PICK e \in Int : /\ e <= Last(s) /\ In(s, top) = title.first[s] .. e
                       /\ Last(s) <= top => e = Last(s)
  <2>1. CASE top < Last(s)
    BY <1>1, <2>1 DEF In
  <2>2. CASE ~(top < Last(s))
    BY <1>1, <2>2 DEF In
  <2> QED BY <2>1, <2>2
<1>3. Cardinality(In(s, top)) = IF title.first[s] > e THEN 0 ELSE e - title.first[s] + 1
  <2>1. title.first[s] \in Int
    BY <1>1
  <2>2. Cardinality(title.first[s] .. e) = IF title.first[s] > e THEN 0 ELSE e - title.first[s] + 1
    BY <2>1, FS_Interval
  <2> QED BY <1>2, <2>2, Zenon
<1>4. Count(s, q) = Cardinality(In(s, top))
  BY DEF Count, top
<1> QED BY <1>1, <1>2, <1>3, <1>4 DEF top

(* A title that a search finds where it is is looked for in the show's     *)
(* first season.                                                           *)
LEMMA FirstIsPicked ==
    ASSUME WorldOK, NEW q, Heard(q), NEW known \in {0, title.total}, directSeasons(q) # {}
    PROVE  /\ pickDirectSeason(known, q) \in Seasons
           /\ title.search /\ SearchFinds => pickDirectSeason(known, q) = 1
<1> DEFINE D == directSeasons(q)  match == {s \in D : Count(s, q) = known}  start == pickDirectSeason(known, q)
<1>1. /\ Seasons \subseteq Nat \ {0} /\ 1 \in Seasons /\ title.first[1] = 1 /\ title.marker \in Nat
      /\ title.total \in Nat \ {0} /\ \A s \in Seasons : title.first[s] \in Nat \ {0}
      /\ Seasons = 1 .. Len(title.first) /\ Len(title.first) \in Nat
  BY TitleFacts DEF WorldOK, Seasons
<1>2. D \subseteq Seasons
  BY DEF directSeasons
<1>3. 1 \in D
  <2>1. PICK s \in Seasons : In(s, getTmdbShow(q)) # {}
    BY DEF directSeasons
  <2>2. getTmdbShow(q) \in Int
    BY HeardIs
  <2>3. PICK i \in Int : title.first[s] <= i /\ i <= getTmdbShow(q)
    BY <2>1, <2>2, InIs DEF WorldOK
  <2>4. 1 <= Last(1) /\ 1 <= getTmdbShow(q)
    BY <1>1, <2>2, <2>3, SeasonEnds DEF WorldOK
  <2>5. 1 \in In(1, getTmdbShow(q))
    BY <1>1, <2>2, <2>4, InIs DEF WorldOK
  <2> QED BY <1>1, <2>5 DEF directSeasons
<1>4. Least(D) \in D /\ \A s \in D : Least(D) <= s
  <2> HIDE DEF D
  <2> QED BY <1>1, <1>2, <1>3, LeastOf
<1>5. Least(D) = 1
  <2> HIDE DEF D
  <2>1. Least(D) \in Nat \ {0} /\ Least(D) <= 1
    BY <1>1, <1>2, <1>3, <1>4, Zenon
  <2> QED BY <2>1
<1>6. start = IF title.marker \in D THEN title.marker
              ELSE IF known > 0 /\ Cardinality(match) = 1 THEN CHOOSE s \in match : TRUE ELSE Least(D)
  BY DEF pickDirectSeason
<1>7. ASSUME Cardinality(match) = 1
      PROVE  match = {CHOOSE s \in match : TRUE}
  <2>1. IsFiniteSet(Seasons)
    BY <1>1, FS_Interval
  <2>2. match \subseteq Seasons
    BY <1>2
  <2> HIDE DEF match
  <2>3. IsFiniteSet(match)
    BY <2>1, <2>2, FS_Subset
  <2>4. PICK m : match = {m}
    BY <1>7, <2>3, FS_Singleton
  <2> QED BY <2>4
<1>8. ASSUME title.search, SearchFinds, known > 0, NEW s \in match
      PROVE  s = 1 \/ 1 \in match
  <2>1. s \in Seasons /\ Count(s, q) = title.total /\ s \in Nat \ {0}
    BY <1>1, <1>2, <1>8
  <2>2. CASE Last(1) = title.total
    <3>1. SUFFICES ASSUME s # 1
                   PROVE  Count(1, q) = title.total
      BY <1>3, <1>8
    <3>2. Last(1) < title.first[s] /\ Last(1) \in Nat
      BY <1>1, <2>1, <3>1, SeasonEnds DEF WorldOK
    <3>3. In(s, getTmdbShow(q)) # {} /\ getTmdbShow(q) \in Int
      BY HeardIs DEF directSeasons
    <3>4. PICK i \in Int : title.first[s] <= i /\ i <= getTmdbShow(q)
      BY <2>1, <3>3, InIs DEF WorldOK
    <3>5. title.first[s] \in Nat /\ Last(1) <= getTmdbShow(q)
      BY <1>1, <2>1, <3>2, <3>3, <3>4
    <3> QED BY <1>1, <2>2, <3>2, <3>5, CountIs
  <2>3. CASE \A t \in Seasons \ {1} : Last(t) - title.first[t] + 1 < title.total
    <3>1. Count(s, q) <= Last(s) - title.first[s] + 1 /\ Last(s) \in Nat /\ title.first[s] \in Nat
      BY <1>1, <2>1, CountIs, SeasonEnds DEF WorldOK
    <3> QED BY <1>1, <2>1, <2>3, <3>1
  <2> QED BY <1>8, <2>2, <2>3 DEF SearchFinds
<1> HIDE DEF D, match, start
<1>9. start \in Seasons
  <2>1. match \subseteq D
    BY DEF match
  <2>2. Cardinality(match) = 1 => (CHOOSE s \in match : TRUE) \in match
    BY <1>7
  <2> QED BY <1>2, <1>4, <1>6, <2>1, <2>2
<1>10. ASSUME title.search, SearchFinds
       PROVE  start = 1
  <2>1. title.marker \in D => title.marker = 1
    BY <1>1, <1>2, <1>10 DEF SearchFinds
  <2>2. ASSUME known > 0, Cardinality(match) = 1
        PROVE  (CHOOSE s \in match : TRUE) = 1
    <3> DEFINE c == CHOOSE s \in match : TRUE
    <3>1. match = {c}
      BY <1>7, <2>2
    <3> HIDE DEF c
    <3>2. c = 1 \/ 1 \in match
      BY <1>8, <1>10, <2>2, <3>1
    <3>3. c = 1
      BY <3>1, <3>2
    <3> QED BY <3>3 DEF c
  <2> QED BY <1>5, <1>6, <2>1, <2>2
<1> QED BY <1>9, <1>10 DEF start

LEMMA DirectAre ==
    ASSUME WorldOK, NEW q, Heard(q), NEW known \in {0, title.total}, NEW nums \in SUBSET (Nat \ {0})
    PROVE  LET r == ResolveEpisodesDirect(nums, known, q) IN
           (\A p \in r.found : FoundPair(p, q)) /\ r.forced \subseteq Seasons
<1> DEFINE start == pickDirectSeason(known, q)
           slots == assignDirectSlots(start, nums, q)
           entry(i) == At(Season(i), i - title.first[Season(i)] + 1, World("show"))
           found == UNION {{<<x[1], i>> : i \in entry(x[2])} : x \in slots}
           needed == {Season(x[2]) : x \in slots}
           r == ResolveEpisodesDirect(nums, known, q)
<1>1. /\ title \in Title /\ title.base \in Nat /\ title.total \in Nat /\ title.last \in Nat
      /\ title.absolute \in BOOLEAN /\ 1 \in Seasons /\ title.first[1] = 1
      /\ \A s \in Seasons : title.first[s] \in Nat \ {0}
      /\ listed \in Nat
  BY TitleFacts DEF WorldOK
<1>2. /\ getTmdbShow(q) \in Int /\ getTmdbShow(q) <= title.base + listed /\ World("show") \in Int
      /\ resolveTmdbIDByTitle(q) => title.search
  BY <1>1, HeardIs, WorldIs
<1>3. ASSUME NEW x \in slots
      PROVE  /\ \E n \in nums : x = <<n, title.first[start] + n - 1>>
             /\ x[2] \in 1 .. title.last /\ x[2] <= getTmdbShow(q) /\ Season(x[2]) \in Seasons
  <2>1. /\ x \in {<<n, title.first[start] + n - 1>> : n \in nums}
        /\ \E s \in Seasons : x[2] \in In(s, getTmdbShow(q))
    BY DEF assignDirectSlots, directSeasons
  <2>2. x[2] \in 1 .. title.last /\ x[2] <= getTmdbShow(q)
    BY <1>1, <1>2, <2>1, InIs
  <2> QED BY <1>1, <2>1, <2>2, SeasonIs
<1>4. ASSUME NEW x \in slots, NEW i \in entry(x[2]), directSeasons(q) # {}, resolveTmdbIDByTitle(q)
      PROVE  FoundPair(<<x[1], i>>, q)
  <2>1. PICK n \in nums : x = <<n, title.first[start] + n - 1>>
    BY <1>3
  <2> DEFINE j == x[2]  s == Season(j)
  <2>2. j \in 1 .. title.last /\ s \in Seasons /\ title.first[s] <= j /\ j <= getTmdbShow(q)
    BY <1>1, <1>3, SeasonIs
  <2>3. i \in 1 .. title.last /\ NumberIn(s, i) = j - title.first[s] + 1
    BY <1>1, <1>2, <1>4, <2>2, AtIs
  <2>4. ASSUME SearchFinds, n <= title.total
        PROVE  i = title.base + n
    <3>1. title.base = 0 /\ (title.absolute => OneSeason)
      BY <1>2, <1>4, <2>4 DEF SearchFinds
    <3>2. start = 1
      BY <1>2, <1>4, <2>4, FirstIsPicked
    <3>3. j = n
      BY <1>1, <2>1, <3>2
    <3>4. CASE ~title.absolute
      BY <1>1, <2>2, <2>3, <3>1, <3>3, <3>4 DEF NumberIn
    <3>5. CASE title.absolute
      <4>1. title.first[s] \notin 2 .. title.total
        BY <1>1, <3>1, <3>5, <2>2 DEF OneSeason
      <4>2. title.first[s] = 1
        <5>1. title.first[s] <= title.total /\ title.first[s] \in Nat \ {0}
          BY <1>1, <2>2, <2>4, <3>3
        <5> HIDE DEF s
        <5> QED BY <1>1, <4>1, <5>1
      <4>3. NumberIn(s, i) = i
        BY <3>5 DEF NumberIn
      <4> HIDE DEF s, j
      <4> QED BY <1>1, <2>2, <2>3, <3>1, <3>3, <4>2, <4>3
    <3> QED BY <3>4, <3>5
  <2>5. x[1] = n /\ n \in Nat \ {0}
    BY <2>1
  <2> QED BY <2>3, <2>4, <2>5 DEF FoundPair, Placed, Rightly, Pair
<1>5. r.found = {} \/ (r.found = found /\ directSeasons(q) # {} /\ resolveTmdbIDByTitle(q))
  BY DEF ResolveEpisodesDirect, Nothing
<1>6. r.forced = {} \/ r.forced = needed
  BY DEF ResolveEpisodesDirect, Nothing
<1>7. needed \subseteq Seasons
  BY <1>3
<1>8. ASSUME NEW p \in r.found
      PROVE  FoundPair(p, q)
  <2>1. p \in found /\ directSeasons(q) # {} /\ resolveTmdbIDByTitle(q)
    BY <1>5, <1>8
  <2>2. PICK x \in slots : \E i \in entry(x[2]) : p = <<x[1], i>>
    BY <2>1
  <2> HIDE DEF slots
  <2> QED BY <1>4, <2>1, <2>2
<1> QED BY <1>6, <1>7, <1>8

(* What both lead to.                                                      *)
LEMMA ResolvedAre ==
    ASSUME WorldOK, NEW q, Heard(q), NEW known \in {0, title.total}, NEW nums \in SUBSET (Nat \ {0})
    PROVE  LET r == resolveEpisodes(nums, known, q) IN
           (\A p \in r.found : FoundPair(p, q)) /\ r.forced \subseteq Seasons
<1> DEFINE result == ResolveEpisodesWithTitles(nums, q)
           direct == IF Named(q) /\ FetchAniZipEpisodes(q) = 0 THEN ResolveEpisodesDirect(nums, known, q) ELSE Nothing
<1>1. (\A p \in result.found : FoundPair(p, q)) /\ result.forced \subseteq Seasons
  BY SoughtAre
<1>2. (\A p \in direct.found : FoundPair(p, q)) /\ direct.forced \subseteq Seasons
  BY DirectAre DEF Nothing
<1>3. /\ resolveEpisodes(nums, known, q).found = Over(result.found, direct.found)
      /\ resolveEpisodes(nums, known, q).forced = result.forced \union direct.forced
  BY DEF resolveEpisodes
<1> HIDE DEF result, direct
<1> QED BY <1>1, <1>2, <1>3 DEF Over

-----------------------------------------------------------------------------
(* Every step keeps the types, and the episodes found right.               *)
RightInv == \A p \in episodeCache.episodes \union body.shown : RightPair(p)

(* What AniList answered five minutes ago or less covers what had aired    *)
(* by then.                                                                *)
PastOK ==
    /\ past \in [1 .. AniListFresh -> Nat] /\ \A i \in 1 .. AniListFresh : past[i] <= aired
    /\ store["anilist"] # Absent =>
          \A i \in 1 .. AniListFresh : Age("anilist") < i => past[i] <= store["anilist"].value

Inv == TypeInv /\ RightInv /\ PastOK

(* What a source answers only grows as the title airs and is catalogued.   *)
LEMMA WorldGrows ==
    ASSUME WorldOK, UNCHANGED title, aired' \in Nat, aired <= aired', bridged' \in Nat, bridged <= bridged',
           listed' \in Nat, listed <= listed'
    PROVE  /\ Keys' = Keys /\ \A k \in Keys : World(k) <= World(k)'
           /\ \A k \in {"fribb", "search"} : World(k)' = World(k)
           /\ (\A p : RightPair(p)' <=> RightPair(p)) /\ Pair' = Pair
<1>1. Keys' = Keys /\ Pair' = Pair
  BY DEF Keys, Seasons, Pair
<1>2. title.base \in Nat /\ title.total \in Nat
  BY TitleRange DEF WorldOK
<1>3. ASSUME NEW k
      PROVE  World(k) <= World(k)' /\ (k \in {"fribb", "search"} => World(k)' = World(k))
  BY <1>2 DEF World, WorldOK, Err
<1>4. Findable' <=> Findable
  BY DEF Findable, SearchFinds, LastSeason, OneSeason, OpenEnded, Seasons, Last, Season
<1>5. ASSUME NEW p
      PROVE  RightPair(p)' <=> RightPair(p)
  BY <1>4 DEF RightPair, Rightly, Pair
<1> QED BY <1>1, <1>3, <1>5

(* What was read stays an answer.                                          *)
LEMMA StoreKept ==
    ASSUME StoreOK, UNCHANGED store, Keys' = Keys, \A k \in Keys : World(k) \in Int /\ World(k)' \in Int /\ World(k) <= World(k)',
           \A k \in {"fribb", "search"} : World(k)' = World(k)
    PROVE  StoreOK'
<1>1. \A k \in Keys : store'[k] = Absent \/ Remembered(k)'
  <2> SUFFICES ASSUME NEW k \in Keys, store[k] # Absent
               PROVE  Remembered(k)'
    BY DEF Absent
  <2>1. Remembered(k)
    BY DEF StoreOK
  <2> QED BY <2>1 DEF Remembered
<1> QED BY <1>1 DEF StoreOK

LEMMA InitInv ==
    ASSUME Init
    PROVE  Inv
<1>1. WorldOK
  BY TitleFacts DEF Init, WorldOK
<1>2. StoreOK
  BY DEF Init, StoreOK, Absent, Entry, Err
<1>3. CachesOK /\ RightInv
  BY Lifetimes DEF Init, CachesOK, RightInv, NoBody, Source
<1>4. PastOK
  BY DEF Init, PastOK, Keys, SourceKeys
<1> QED BY <1>1, <1>2, <1>3, <1>4 DEF Inv, TypeInv

LEMMA WorldStep ==
    ASSUME Inv, air \/ verify \/ list
    PROVE  Inv'
<1>1. /\ UNCHANGED <<title, past, store, episodeCache, body>>
      /\ aired' \in Nat /\ aired <= aired' /\ bridged' \in Nat /\ bridged <= bridged'
      /\ listed' \in Nat /\ listed <= listed'
      /\ bridged' <= aired' /\ aired' <= title.total /\ title.base + listed' <= title.last
  <2>1. title.total \in Nat /\ title.base \in Nat /\ title.last \in Nat
    BY TitleRange DEF Inv, TypeInv, WorldOK
  <2>2. CASE air
    BY <2>1, <2>2 DEF air, Inv, TypeInv, WorldOK
  <2>3. CASE verify
    BY <2>1, <2>3 DEF verify, Inv, TypeInv, WorldOK
  <2>4. CASE list
    BY <2>1, <2>4 DEF list, Inv, TypeInv, WorldOK
  <2> QED BY <2>2, <2>3, <2>4
<1>2. WorldOK'
  BY <1>1 DEF WorldOK, Inv, TypeInv
<1>3. /\ Keys' = Keys /\ \A k \in Keys : World(k) <= World(k)'
      /\ \A k \in {"fribb", "search"} : World(k)' = World(k)
      /\ (\A p : RightPair(p)' <=> RightPair(p)) /\ Pair' = Pair
  BY <1>1, WorldGrows DEF Inv, TypeInv
<1>4. \A k \in Keys : World(k) \in Int /\ World(k)' \in Int
  <2>1. /\ title.base \in Nat /\ title.total \in Nat /\ title.last \in Nat
        /\ aired \in Nat /\ bridged \in Nat /\ listed \in Nat
    BY TitleRange DEF Inv, TypeInv, WorldOK
  <2> QED BY <1>1, <2>1 DEF World, Err
<1>5. StoreOK'
  BY <1>1, <1>3, <1>4, StoreKept DEF Inv, TypeInv
<1>6. CachesOK'
  BY <1>1, <1>3 DEF CachesOK, Inv, TypeInv
<1>7. RightInv'
  BY <1>1, <1>3 DEF RightInv, Inv
<1>8. PastOK'
  <2>1. aired \in Nat /\ \A i \in 1 .. AniListFresh : past[i] \in Nat
    BY DEF Inv, TypeInv, WorldOK, PastOK
  <2> QED BY <1>1, <2>1 DEF PastOK, Inv, Age, TTL, Absent
<1> QED BY <1>2, <1>5, <1>6, <1>7, <1>8 DEF Inv, TypeInv

(* The steps that leave the world alone.                                   *)
LEMMA WorldSame ==
    ASSUME Inv, UNCHANGED <<title, aired, bridged, listed>>
    PROVE  /\ WorldOK' /\ Keys' = Keys /\ (\A k : World(k)' = World(k))
           /\ (\A p : RightPair(p)' <=> RightPair(p)) /\ Pair' = Pair
<1>1. WorldOK'
  BY DEF Inv, TypeInv, WorldOK
<1>2. \A k : World(k)' = World(k)
  BY DEF World
<1>3. Keys' = Keys /\ (\A p : RightPair(p)' <=> RightPair(p)) /\ Pair' = Pair
  BY WorldGrows DEF Inv, TypeInv, WorldOK
<1> QED BY <1>1, <1>2, <1>3

LEMMA TickStep ==
    ASSUME Inv, tick
    PROVE  Inv'
<1>1. /\ UNCHANGED <<title, aired, bridged, listed>>
      /\ store' = [k \in Keys |-> Older(store[k], Absent)] /\ body' = Older(body, NoBody)
      /\ episodeCache' = Older(episodeCache, [episodeCache EXCEPT !.left = 0])
      /\ past' = [i \in DOMAIN past |-> IF i = 1 THEN aired ELSE past[i - 1]]
  BY DEF tick
<1>2. /\ WorldOK' /\ Keys' = Keys /\ (\A k : World(k)' = World(k))
      /\ (\A p : RightPair(p)' <=> RightPair(p)) /\ Pair' = Pair
  BY <1>1, WorldSame
<1>3. ASSUME NEW k \in Keys
      PROVE  store'[k] \in Entry /\ (store'[k] = Absent \/ Remembered(k)')
  <2>1. store'[k] = Older(store[k], Absent) /\ store[k] \in Entry /\ TTL(k) \in Nat
    BY <1>1, WorldIs DEF Inv, TypeInv, StoreOK
  <2>2. CASE store[k].left > 1
    <3>1. store'[k].value = store[k].value /\ store'[k].left = store[k].left - 1 /\ store'[k] \in Entry
      BY <2>1, <2>2 DEF Older, Entry
    <3>2. Remembered(k)
      BY <2>2 DEF Inv, TypeInv, StoreOK, Absent
    <3> QED BY <1>2, <2>1, <2>2, <3>1, <3>2 DEF Remembered, Entry
  <2>3. CASE ~(store[k].left > 1)
    BY <2>1, <2>3 DEF Older, Absent, Entry, Err
  <2> QED BY <2>2, <2>3
<1>4. StoreOK'
  BY <1>1, <1>2, <1>3 DEF StoreOK
<1>5. CachesOK'
  <2>1. episodeCache \in [episodes : SUBSET Pair, left : 0 .. EntryTTL]
        /\ body \in [count : {body.count}, shown : SUBSET Pair, left : 0 .. BodyTTL, down : SUBSET Source]
    BY DEF Inv, TypeInv, CachesOK
  <2>2. episodeCache' \in [episodes : SUBSET Pair, left : 0 .. EntryTTL]
    BY <1>1, <2>1, Lifetimes DEF Older
  <2>3. body' \in [count : {body'.count}, shown : SUBSET Pair, left : 0 .. BodyTTL, down : SUBSET Source]
    <3>1. CASE body.left > 1
      BY <1>1, <2>1, <3>1, Lifetimes DEF Older
    <3>2. CASE ~(body.left > 1)
      BY <1>1, <3>2, Lifetimes DEF Older, NoBody
    <3> QED BY <3>1, <3>2
  <2> QED BY <1>2, <2>2, <2>3 DEF CachesOK
<1>6. RightInv'
  <2>1. episodeCache'.episodes \subseteq episodeCache.episodes /\ body'.shown \subseteq body.shown
    BY <1>1 DEF Older, NoBody, Inv, TypeInv, CachesOK
  <2> QED BY <1>2, <2>1 DEF RightInv, Inv
<1>7. PastOK'
  <2>1. /\ aired \in Nat /\ past \in [1 .. AniListFresh -> Nat] /\ AniListFresh \in Nat \ {0}
        /\ \A i \in 1 .. AniListFresh : past[i] <= aired
        /\ "anilist" \in Keys /\ store["anilist"] \in Entry /\ TTL("anilist") \in Nat
    BY WorldIs, Lifetimes DEF Inv, TypeInv, WorldOK, StoreOK, PastOK, SourceKeys
  <2>2. /\ past' \in [1 .. AniListFresh -> Nat]
        /\ \A i \in 1 .. AniListFresh : past'[i] = IF i = 1 THEN aired ELSE past[i - 1]
    BY <1>1, <2>1
  <2>3. \A i \in 1 .. AniListFresh : past'[i] <= aired'
    BY <1>1, <2>1, <2>2
  <2>4. ASSUME store'["anilist"] # Absent, NEW i \in 1 .. AniListFresh, Age("anilist")' < i
        PROVE  past'[i] <= store'["anilist"].value
    <3>1. store'["anilist"] = Older(store["anilist"], Absent) /\ TTL("anilist")' = TTL("anilist")
      BY <1>1, <2>1 DEF TTL
    <3>2. /\ store["anilist"].left > 1 /\ store'["anilist"].value = store["anilist"].value
          /\ store'["anilist"].left = store["anilist"].left - 1
      BY <2>1, <2>4, <3>1 DEF Older, Entry
    <3>3. store["anilist"] # Absent /\ store["anilist"].left <= TTL("anilist")
      BY <2>1, <3>2 DEF Absent, Inv, TypeInv, StoreOK, Remembered
    <3>4. Age("anilist") \in Nat /\ Age("anilist") < i - 1
      BY <2>1, <2>4, <3>1, <3>2, <3>3 DEF Age, Entry
    <3>5. i - 1 \in 1 .. AniListFresh /\ i # 1
      BY <2>1, <3>4
    <3>6. past[i - 1] <= store["anilist"].value
      BY <3>3, <3>4, <3>5 DEF PastOK, Inv
    <3> QED BY <2>2, <3>2, <3>5, <3>6
  <2> QED BY <2>2, <2>3, <2>4 DEF PastOK
<1> QED BY <1>2, <1>4, <1>5, <1>6, <1>7 DEF Inv, TypeInv

LEMMA EvictStep ==
    ASSUME Inv, evictEpisodeCacheIfNeeded
    PROVE  Inv'
<1>1. /\ UNCHANGED <<title, aired, bridged, listed, past, store, body>>
      /\ episodeCache' = [episodes |-> {}, left |-> 0]
  BY DEF evictEpisodeCacheIfNeeded
<1>2. /\ WorldOK' /\ Keys' = Keys /\ (\A k : World(k)' = World(k))
      /\ (\A p : RightPair(p)' <=> RightPair(p)) /\ Pair' = Pair
  BY <1>1, WorldSame
<1>3. StoreOK'
  BY <1>1, <1>2 DEF StoreOK, Remembered, Inv, TypeInv, Absent
<1>4. CachesOK'
  BY <1>1, <1>2, Lifetimes DEF CachesOK, Inv, TypeInv
<1>5. RightInv'
  BY <1>1, <1>2 DEF RightInv, Inv
<1>6. PastOK'
  BY <1>1 DEF PastOK, Inv, Age, TTL, Absent
<1> QED BY <1>2, <1>3, <1>4, <1>5, <1>6 DEF Inv, TypeInv

LEMMA GetEpisodesStep ==
    ASSUME Inv, NEW down \in SUBSET Source, GetEpisodes(down)
    PROVE  Inv'
<1> DEFINE q == Request(down)  nums == 1 .. episodeCount(q)  wanted == Wanted(nums, q)
           res == IF wanted = {} THEN Nothing ELSE resolveEpisodes(wanted, knownTotal(q), q)
<1>1. Answers(nums, res, q) /\ UNCHANGED <<title, aired, bridged, listed, past>>
  BY Zenon DEF GetEpisodes
<1>2. /\ WorldOK' /\ Keys' = Keys /\ (\A k : World(k)' = World(k))
      /\ (\A p : RightPair(p)' <=> RightPair(p)) /\ Pair' = Pair
  BY <1>1, WorldSame
<1>3. WorldOK /\ Heard(q) /\ q.down = down
  BY RequestHears DEF Inv, TypeInv
<1>4. nums \in SUBSET (Nat \ {0})
  OBVIOUS
<1>5. knownTotal(q) \in {0, title.total}
  BY DEF knownTotal
<1> HIDE DEF q, nums
<1>6. wanted \in SUBSET (Nat \ {0})
  BY <1>4 DEF Wanted
<1> HIDE DEF wanted
<1>7. (\A p \in res.found : RightPair(p)) /\ res.forced \subseteq Seasons
  <2>1. (\A p \in res.found : FoundPair(p, q)) /\ res.forced \subseteq Seasons
    BY <1>3, <1>5, <1>6, ResolvedAre DEF Nothing
  <2> HIDE DEF res
  <2> QED BY <2>1, FoundIsRight
<1> HIDE DEF res
<1>8. ASSUME NEW k \in Keys
      PROVE  store'[k] \in Entry /\ (store'[k] = Absent \/ Remembered(k)')
  <2>1. /\ store[k] \in Entry /\ (store[k] = Absent \/ Remembered(k))
        /\ World(k) \in Int /\ World(k) >= Err /\ TTL(k) \in Nat \ {0}
    BY <1>3, WorldIs, TitleRange DEF Inv, TypeInv, StoreOK, WorldOK, Err
  <2>2. CASE \E s \in res.forced : k = SeasonKey[s]
    <3>1. PICK s \in Seasons : k = SeasonKey[s]
      BY <1>7, <2>2
    <3>2. store'[k] = [value |-> World(k), left |-> FreshTTL]
      BY <1>1, <2>2 DEF Answers
    <3>3. World(k) \in Nat /\ TTL(k) = LongTTL /\ k \notin {"fribb", "search"}
      <4>1. title.base \in Nat /\ listed \in Nat /\ Seasons \subseteq DOMAIN SeasonKey
        BY <1>3, TitleFacts DEF WorldOK
      <4>2. SeasonKey[s] \notin SourceKeys
        BY <4>1, EpisodeListAssumption
      <4>3. World(k) = title.base + listed /\ TTL(k) = LongTTL
        BY <1>3, <3>1, WorldIs
      <4> QED BY <3>1, <4>1, <4>2, <4>3 DEF SourceKeys
    <3>4. FreshTTL \in 1 .. TTL(k)
      BY <3>3, Lifetimes
    <3> QED BY <1>2, <3>2, <3>3, <3>4 DEF Remembered, Entry
  <2>3. CASE ~\E s \in res.forced : k = SeasonKey[s]
    <3>1. store'[k] = store[k] \/ (World(k) # Err /\ store'[k] = [value |-> World(k), left |-> TTL(k)])
      BY <1>1, <2>3 DEF Answers, Cached
    <3> QED BY <1>2, <2>1, <3>1 DEF Remembered, Entry, Err
  <2> QED BY <2>2, <2>3
<1>9. StoreOK'
  <2>1. DOMAIN store' = Keys /\ store' = [k \in Keys |-> store'[k]]
    BY <1>1 DEF Answers
  <2> QED BY <1>2, <1>8, <2>1 DEF StoreOK
<1>10. /\ \A p \in GetCachedEpisodes(nums) : p \in episodeCache.episodes
       /\ body' = Rendered(nums, res.found, q)
       /\ \/ episodeCache' = [episodes |-> Over(episodeCache.episodes, res.found), left |-> EntryTTL]
          \/ UNCHANGED episodeCache
  BY <1>1 DEF Answers, GetCachedEpisodes, setCachedEpisodes
<1>11. \A p \in episodeCache'.episodes \union body'.shown : RightPair(p)
  <2>1. \A p \in episodeCache.episodes : RightPair(p)
    BY DEF Inv, RightInv
  <2>2. \A p \in body'.shown : RightPair(p)
    BY <1>7, <1>10, <2>1 DEF Rendered, Over
  <2>3. \A p \in episodeCache'.episodes : RightPair(p)
    BY <1>7, <1>10, <2>1 DEF Over
  <2> QED BY <2>2, <2>3
<1>12. RightInv'
  BY <1>2, <1>11 DEF RightInv
<1>13. CachesOK'
  <2>1. episodeCache'.episodes \in SUBSET Pair /\ body'.shown \in SUBSET Pair
    BY <1>11 DEF RightPair
  <2>2. episodeCache' \in [episodes : SUBSET Pair, left : 0 .. EntryTTL]
    BY <1>10, <2>1, Lifetimes DEF Inv, TypeInv, CachesOK
  <2>3. body' \in [count : {body'.count}, shown : SUBSET Pair, left : 0 .. BodyTTL, down : SUBSET Source]
    BY <1>3, <1>10, <2>1, Lifetimes DEF Rendered
  <2> QED BY <1>2, <2>2, <2>3 DEF CachesOK
<1>14. PastOK'
  <2>1. /\ "anilist" \in Keys /\ World("anilist") = aired /\ TTL("anilist") \in Nat /\ aired \in Nat
        /\ Seasons \subseteq DOMAIN SeasonKey
    BY <1>3, WorldIs, TitleFacts DEF SourceKeys, WorldOK
  <2>2. \A s \in res.forced : SeasonKey[s] # "anilist"
    BY <1>7, <2>1, EpisodeListAssumption DEF SourceKeys
  <2>3. \/ store'["anilist"] = store["anilist"]
        \/ store'["anilist"] = [value |-> aired, left |-> TTL("anilist")]
    BY <1>1, <2>1, <2>2 DEF Answers, Cached
  <2>4. CASE store'["anilist"] = store["anilist"]
    BY <1>1, <2>4 DEF PastOK, Inv, Age, TTL, Absent
  <2>5. CASE store'["anilist"] = [value |-> aired, left |-> TTL("anilist")]
    BY <1>1, <2>1, <2>5 DEF PastOK, Inv
  <2> QED BY <2>3, <2>4, <2>5
<1> QED BY <1>2, <1>9, <1>12, <1>13, <1>14 DEF Inv, TypeInv

LEMMA InvHolds == Spec => []Inv
<1>1. ASSUME Inv, [Next]_vars
      PROVE  Inv'
  <2>1. CASE \E down \in SUBSET Source : GetEpisodes(down)
    BY <1>1, <2>1, GetEpisodesStep
  <2>2. CASE tick
    BY <1>1, <2>2, TickStep
  <2>3. CASE air \/ verify \/ list
    BY <1>1, <2>3, WorldStep
  <2>4. CASE evictEpisodeCacheIfNeeded
    BY <1>1, <2>4, EvictStep
  <2>5. CASE UNCHANGED vars
    <3>1. UNCHANGED <<title, aired, bridged, listed, past, store, episodeCache, body>>
      BY <2>5 DEF vars
    <3>2. /\ WorldOK' /\ Keys' = Keys /\ (\A k : World(k)' = World(k))
          /\ (\A p : RightPair(p)' <=> RightPair(p)) /\ Pair' = Pair
      BY <1>1, <3>1, WorldSame
    <3>3. StoreOK'
      BY <1>1, <3>1, <3>2 DEF StoreOK, Remembered, Inv, TypeInv, Absent
    <3>4. CachesOK' /\ RightInv'
      BY <1>1, <3>1, <3>2 DEF CachesOK, RightInv, Inv, TypeInv
    <3>5. PastOK'
      BY <1>1, <3>1 DEF PastOK, Inv, Age, TTL, Absent
    <3> QED BY <3>2, <3>3, <3>4, <3>5 DEF Inv, TypeInv
  <2> QED BY <1>1, <2>1, <2>2, <2>3, <2>4, <2>5 DEF Next
<1> QED BY <1>1, InitInv, PTL DEF Spec

(* The state always has its type: no source is ahead of what has aired or  *)
(* of the title, no answer is remembered that a source did not give, none  *)
(* counts for longer than its lifetime, and only episodes of the show are  *)
(* ever cached or shown.                                                   *)
THEOREM TypeCorrect == Spec => []TypeOK
<1>1. ASSUME Inv
      PROVE  TypeOK
  <2>1. /\ bridged <= aired /\ aired <= title.total /\ title.base + listed <= title.last
        /\ \A i \in 1 .. AniListFresh : past[i] \in 0 .. aired
    BY <1>1 DEF Inv, TypeInv, WorldOK, PastOK
  <2>2. ASSUME NEW k \in Keys
        PROVE  store[k].left \in 0 .. TTL(k) /\ store[k].value \in Err .. title.last
    <3>1. World(k) \in Err .. title.last /\ TTL(k) \in Nat \ {0} /\ title.last \in Nat
      BY <1>1, WorldIs, TitleFacts DEF Inv, TypeInv, WorldOK
    <3> QED BY <1>1, <3>1 DEF Inv, TypeInv, StoreOK, Remembered, Absent, Err
  <2>3. episodeCache.episodes \union body.shown \subseteq Nat \X (1 .. title.last)
    BY <1>1 DEF Inv, TypeInv, CachesOK, Pair
  <2>4. episodeCache.left \in 0 .. EntryTTL /\ body.left \in 0 .. BodyTTL
    BY <1>1 DEF Inv, TypeInv, CachesOK
  <2> QED BY <2>1, <2>2, <2>3, <2>4 DEF TypeOK
<1> QED BY <1>1, InvHolds, PTL

(* Of a title that can be found where it is none of its episodes is ever   *)
(* shown as another one: whatever aired, was verified and was listed when, *)
(* whatever failed, and whatever the caches still hold from before.        *)
THEOREM ShownRight == Spec => []RightEpisode
<1>1. ASSUME Inv
      PROVE  RightEpisode
  BY <1>1 DEF Inv, RightInv, RightPair, RightEpisode, Findable
<1> QED BY <1>1, InvHolds, PTL

-----------------------------------------------------------------------------
(* How many episodes are listed.                                           *)
LEMMA AnibridgeMaxIs ==
    ASSUME WorldOK, NEW q, Heard(q)
    PROVE  AnibridgeMaxEpisode(q) \in Nat
<1> DEFINE b == getMapping(q)
           shows == {m \in extractTmdbShowMappings(b) : m.src.to # Open}
           S == {0} \union {m.src.to : m \in shows} \union {m.dst.to : m \in shows}
<1>1. /\ title \in Title /\ title.base \in Nat /\ title.total \in Nat /\ title.last \in Nat
      /\ title.base + title.total <= title.last /\ title.bridge \in {"none", "nested", "show", "open"}
      /\ b \in Int /\ b <= title.total
  BY TitleFacts, HeardIs DEF WorldOK
<1> HIDE DEF b
<1>2. ASSUME NEW m \in shows
      PROVE  m.src.to \in 0 .. title.last /\ m.dst.to \in 0 .. title.last
  <2>1. b >= 1 /\ title.bridge = "show"
    <3>1. m \in extractTmdbShowMappings(b) /\ m.src.to # Open
      OBVIOUS
    <3>2. ~(b < 1 \/ title.bridge \in {"none", "nested"})
      BY <1>1, <3>1, NoShowMappings, Zenon
    <3>3. FromFirst.src.to = Open
      BY <1>1, FromFirstRight DEF rng
    <3>4. b >= 1 /\ title.bridge = "open" => m = FromFirst
      BY <3>1, <3>2 DEF extractTmdbShowMappings
    <3> QED BY <1>1, <3>1, <3>2, <3>3, <3>4
  <2> DEFINE lo(s) == Least(Verified(b, s))  hi(s) == Greatest(Verified(b, s))
  <2>2. PICK s \in Seasons : /\ Verified(b, s) # {}
                             /\ m = Mapping(s, rng(lo(s), hi(s)), rng(Number(title.base + lo(s)), Number(title.base + hi(s))))
    BY <2>1 DEF extractTmdbShowMappings
  <2>3. hi(s) \in Nat \ {0} /\ hi(s) <= b
    BY <1>1, <2>2, VerifiedIs
  <2> HIDE DEF lo, hi
  <2>4. title.base + hi(s) \in 1 .. title.last
    BY <1>1, <2>3
  <2>5. Number(title.base + hi(s)) \in 0 .. title.last
    <3>1. Number(title.base + hi(s)) \in 1 .. title.base + hi(s)
      BY <1>1, <2>4, NumberIs
    <3> QED BY <1>1, <2>4, <3>1
  <2> QED BY <1>1, <2>2, <2>3, <2>5 DEF Mapping, rng
<1> HIDE DEF shows
<1>3. S \in SUBSET (0 .. title.last) /\ S # {}
  BY <1>1, <1>2
<1> HIDE DEF S
<1>4. Greatest(S) \in Nat
  <2>1. Greatest(S) \in S
    BY <1>1, <1>3, GreatestOf
  <2>2. Greatest(S) \in 0 .. title.last
    BY <1>3, <2>1, Zenon
  <2> QED BY <2>2
<1> QED BY <1>1, <1>4 DEF AnibridgeMaxEpisode, S, shows, b

LEMMA DirectCountIs ==
    ASSUME WorldOK, NEW q, Heard(q)
    PROVE  DirectSeasonEpisodeCount(q) \in Nat
<1>1. ASSUME directSeasons(q) # {}
      PROVE  Count(pickDirectSeason(0, q), q) \in Nat
  BY <1>1, FirstIsPicked, CountIs
<1> QED BY <1>1 DEF DirectSeasonEpisodeCount

(* The count covers what AniList says has aired.                           *)
LEMMA CountCovers ==
    ASSUME WorldOK, NEW q, Heard(q), Named(q)
    PROVE  /\ episodeCount(q) \in Nat
           /\ title.known \/ title.dated => q.heard["anilist"] <= episodeCount(q)
<1> DEFINE said == q.heard["anilist"]
<1>1. /\ title.total \in Nat \ {0} /\ said \in Int /\ said <= title.total /\ said # Err
      /\ title.known \in BOOLEAN /\ title.dated \in BOOLEAN
  <2>1. said <= aired /\ said \in Int /\ aired <= title.total /\ aired \in Nat
    BY HeardIs DEF WorldOK
  <2>2. title.total \in Nat \ {0} /\ title.known \in BOOLEAN /\ title.dated \in BOOLEAN
    BY TitleFacts DEF WorldOK
  <2> QED BY <2>1, <2>2 DEF Named
<1>2. said \in Nat
  <2>1. "anilist" \in Keys
    BY WorldIs DEF SourceKeys
  <2>2. World("anilist") = aired /\ aired \in Nat
    BY WorldIs DEF WorldOK
  <2> QED BY <1>1, <2>1, <2>2 DEF Heard, Err
<1>3. CASE knownTotal(q) > 0
  <2>1. knownTotal(q) = title.total
    BY <1>3 DEF knownTotal
  <2> QED BY <1>1, <1>3, <2>1 DEF episodeCount
<1>4. CASE ~(knownTotal(q) > 0)
  <2> DEFINE abMax == AnibridgeMaxEpisode(q)
             count == IF title.dated THEN Max2(abMax, said) ELSE abMax
             least == IF count = 0 THEN Assumed ELSE count
  <2>1. abMax \in Nat /\ DirectSeasonEpisodeCount(q) \in Nat
    BY AnibridgeMaxIs, DirectCountIs
  <2> HIDE DEF abMax, said
  <2>2. count \in Nat /\ (title.dated => said <= count)
    BY <1>2, <2>1 DEF Max2
  <2> HIDE DEF count
  <2>3. least \in Nat \ {0} /\ (title.dated => said <= least)
    BY <1>2, <2>2, Lifetimes
  <2> HIDE DEF least
  <2>4. aniListCount(q) \in {least, Max2(least, DirectSeasonEpisodeCount(q))}
    BY DEF aniListCount, least, count, abMax, said
  <2>5. aniListCount(q) \in Nat \ {0} /\ (title.dated => said <= aniListCount(q))
    BY <1>2, <2>1, <2>3, <2>4 DEF Max2
  <2>6. ~title.known
    BY <1>1, <1>4 DEF knownTotal
  <2> QED BY <1>4, <2>5, <2>6 DEF episodeCount, said
<1> QED BY <1>3, <1>4

(* A step that gives an answer, and what it is an answer to.               *)
Answered(down) == body'.left = BodyTTL /\ body.left = 0 /\ body'.down = down

LEMMA AnswerIs ==
    ASSUME Inv, [Next]_vars, NEW down, Answered(down)
    PROVE  down \in SUBSET Source /\ GetEpisodes(down)
<1>1. BodyTTL \in Nat \ {0}
  BY Lifetimes
<1>2. body'.left # body.left
  BY <1>1 DEF Answered
<1>3. ASSUME NEW d \in SUBSET Source, GetEpisodes(d)
      PROVE  d = down
  <2>1. body'.down = d
    BY <1>3 DEF GetEpisodes, Answers, Rendered, Request
  <2> QED BY <2>1 DEF Answered
<1>4. ~tick
  <2>1. tick => body' = NoBody
    BY DEF tick, Older, Answered
  <2> QED BY <1>1, <2>1 DEF Answered, NoBody
<1>5. ~air /\ ~verify /\ ~list /\ ~evictEpisodeCacheIfNeeded /\ ~UNCHANGED vars
  BY <1>2 DEF air, verify, list, evictEpisodeCacheIfNeeded, vars
<1> QED BY <1>3, <1>4, <1>5 DEF Next

(* What a request is told by AniList while it is up had not aired only     *)
(* within the last five minutes.                                           *)
LEMMA ToldLate ==
    ASSUME Inv, NEW down, "anilist" \notin down
    PROVE  LET q == Request(down)
           IN  Named(q) /\ past[AniListFresh] <= q.heard["anilist"]
<1>1. /\ "anilist" \in Keys /\ World("anilist") = aired /\ aired \in Nat /\ World("anilist") # Err
      /\ AniListFresh \in 1 .. AniListFresh
  BY WorldIs, Lifetimes DEF Inv, TypeInv, WorldOK, SourceKeys, Err
<1>2. Up("anilist", down)
  BY DEF Up, SourceOf
<1>3. Request(down).heard["anilist"] = Read("anilist", down) /\ Named(Request(down))
  BY <1>1, <1>2, RequestHears DEF Inv, Named
<1>4. CASE Fresh("anilist")
  <2>1. store["anilist"] # Absent /\ Age("anilist") < AniListFresh
    BY <1>4 DEF Fresh, Absent
  <2> QED BY <1>1, <1>3, <1>4, <2>1 DEF Read, PastOK, Inv
<1>5. CASE ~Fresh("anilist")
  BY <1>1, <1>2, <1>3, <1>5 DEF Read, PastOK, Inv
<1> QED BY <1>3, <1>4, <1>5

(* An answer given while AniList is up lists every episode that had aired  *)
(* five minutes ago, whichever other sources are down or behind, and       *)
(* whatever is remembered, of a title whose length or next airing AniList  *)
(* gives.                                                                  *)
THEOREM AiredAreListed == Spec => AiredListed
<1>1. ASSUME Inv, [Next]_vars, NEW down, Answered(down), "anilist" \notin down, title.known \/ title.dated
      PROVE  past[AniListFresh] <= body'.count
  <2> DEFINE q == Request(down)
  <2>1. GetEpisodes(down)
    BY <1>1, AnswerIs
  <2>2. body'.count = Cardinality(1 .. episodeCount(q))
    BY <2>1 DEF GetEpisodes, Answers, Rendered
  <2>3. WorldOK /\ Heard(q) /\ Named(q) /\ past[AniListFresh] <= q.heard["anilist"]
    BY <1>1, RequestHears, ToldLate DEF Inv, TypeInv
  <2>4. q.heard["anilist"] \in Int /\ past[AniListFresh] \in Nat
    BY <1>1, <2>3, HeardIs, Lifetimes DEF Inv, PastOK
  <2> HIDE DEF q
  <2>5. episodeCount(q) \in Nat /\ q.heard["anilist"] <= episodeCount(q)
    BY <1>1, <2>3, CountCovers
  <2>6. Cardinality(1 .. episodeCount(q)) = episodeCount(q)
    BY <2>5, FS_Interval
  <2> QED BY <2>2, <2>3, <2>4, <2>5, <2>6
<1>2. ASSUME Inv, [Next]_vars
      PROVE  [body'.left = BodyTTL /\ body.left = 0 /\ "anilist" \notin body'.down
              /\ (title.known \/ title.dated)
                => past[AniListFresh] <= body'.count]_vars
  BY <1>1, <1>2 DEF Answered
<1> QED BY <1>2, InvHolds, PTL DEF Spec, AiredListed

(* With a following season behind a title in one season, what a request    *)
(* finds while TMDB is up is right too, however old the lists it has of    *)
(* the seasons are.                                                        *)
THEOREM FoundAreRight == Spec => FoundRight
<1>1. ASSUME Inv, [Next]_vars, NEW down, Answered(down), "tmdb" \notin down, SearchFinds,
             OpenEnded => title.absolute \/ OneSeason,
             NEW x \in body'.shown \ episodeCache.episodes
      PROVE  Rightly(x)
  <2> DEFINE q == Request(down)  nums == 1 .. episodeCount(q)  wanted == Wanted(nums, q)
             res == IF wanted = {} THEN Nothing ELSE resolveEpisodes(wanted, knownTotal(q), q)
  <2>1. GetEpisodes(down)
    BY <1>1, AnswerIs
  <2>2. body'.shown = Over(GetCachedEpisodes(nums), res.found)
    <3>1. body' = Rendered(nums, res.found, q)
      BY <2>1, Zenon DEF GetEpisodes, Answers
    <3> HIDE DEF res
    <3> QED BY <3>1 DEF Rendered
  <2>3. x \in res.found
    <3> HIDE DEF res
    <3> QED BY <1>1, <2>2 DEF Over, GetCachedEpisodes
  <2>4. WorldOK /\ Heard(q) /\ q.down = down
    BY <1>1, RequestHears DEF Inv, TypeInv
  <2>5. knownTotal(q) \in {0, title.total} /\ wanted \in SUBSET (Nat \ {0})
    BY DEF knownTotal, Wanted
  <2>6. FoundPair(x, q)
    <3> HIDE DEF q, wanted
    <3> QED BY <2>3, <2>4, <2>5, ResolvedAre DEF Nothing
  <2>7. Placed(q)
    <3> HIDE DEF q
    <3> QED BY <1>1, <2>4 DEF Placed
  <2> QED BY <2>6, <2>7 DEF FoundPair
<1>2. ASSUME Inv, [Next]_vars
      PROVE  [body'.left = BodyTTL /\ body.left = 0 /\ "tmdb" \notin body'.down
              /\ SearchFinds /\ (OpenEnded => title.absolute \/ OneSeason)
                => \A x \in body'.shown \ episodeCache.episodes : Rightly(x)]_vars
  BY <1>1, <1>2 DEF Answered
<1> QED BY <1>2, InvHolds, PTL DEF Spec, FoundRight

-----------------------------------------------------------------------------
(* What heals.  With every source up, an episode of the season the title   *)
(* begins in has its place in that season, if any source tells where.      *)
There(x, n) ==
    x.n = n /\ x.season = Season(title.base + 1) /\ x.number = NumberIn(x.season, title.base + n)

(* The only mapping that covers a number says where it is.                 *)
LEMMA OneCovers ==
    ASSUME title \in Title, NEW M, NEW n \in 1 .. title.total, NEW m, Covering(M, n) = {m},
           m.season = Season(title.base + 1), m.src.from \in Nat, m.src.from <= n,
           m.dst.from = NumberIn(m.season, title.base + m.src.from)
    PROVE  selectTmdbMappingForEpisode(M, n) # NoTarget /\ There(selectTmdbMappingForEpisode(M, n), n)
<1> DEFINE x == selectTmdbMappingForEpisode(M, n)  c == CHOOSE c \in Covering(M, n) : TRUE
<1>1. Cardinality(Covering(M, n)) = 1
  BY FS_Singleton
<1>2. c = m
  OBVIOUS
<1>3. x = [n |-> n, season |-> c.season, number |-> mapEpisodeNumber(c, n), open |-> c.src.to = Open]
  BY <1>1 DEF selectTmdbMappingForEpisode
<1> HIDE DEF c
<1>4. x.n = n /\ x.season = m.season /\ x.number = mapEpisodeNumber(m, n)
  BY <1>2, <1>3
<1>5. mapEpisodeNumber(m, n) = m.dst.from + n - m.src.from
  <2>1. m \in Covering(M, n)
    OBVIOUS
  <2> QED BY <2>1 DEF Covering, mapEpisodeNumber
<1>6. /\ title.base \in Nat /\ title.total \in Nat /\ title.last \in Nat
      /\ title.base + title.total <= title.last /\ title.base + 1 \in 1 .. title.last
  BY TitleRange
<1>7. m.season \in Seasons
  BY <1>6, SeasonIs
<1>8. NumberIn(m.season, title.base + m.src.from) + n - m.src.from = NumberIn(m.season, title.base + n)
  BY <1>7, NumbersRun
<1> HIDE DEF x
<1> QED BY <1>4, <1>5, <1>8 DEF There, NoTarget, x

(* Past the end of all mappings the one that kept pace says it.            *)
LEMMA OneContinues ==
    ASSUME title \in Title, NEW M, NEW n \in 1 .. title.total, NEW m, Covering(M, n) = {}, Extended(M, n) = {m},
           m.season = Season(title.base + 1), m.src.to \in Nat,
           m.dst.from = NumberIn(m.season, title.base + 1)
    PROVE  selectTmdbMappingForEpisode(M, n) # NoTarget /\ There(selectTmdbMappingForEpisode(M, n), n)
<1> DEFINE x == selectTmdbMappingForEpisode(M, n)
           c == CHOOSE c \in Extended(M, n) : \A y \in Extended(M, n) : c.src.to >= y.src.to
<1>1. Cardinality(Covering(M, n)) # 1
  BY FS_EmptySet
<1>2. c = m
  OBVIOUS
<1>3. x = [n |-> n, season |-> c.season, number |-> n + c.dst.from - c.src.from, open |-> FALSE]
  BY <1>1 DEF selectTmdbMappingForEpisode
<1>4. m.src.from = 1
  <2>1. m \in Extended(M, n)
    OBVIOUS
  <2> QED BY <2>1 DEF Extended, identityAlignedContinuation
<1> HIDE DEF c
<1>5. x.n = n /\ x.season = m.season /\ x.number = n + m.dst.from - 1
  BY <1>2, <1>3, <1>4
<1>6. /\ title.base \in Nat /\ title.total \in Nat /\ title.last \in Nat
      /\ title.base + title.total <= title.last /\ title.base + 1 \in 1 .. title.last
  BY TitleRange
<1>7. m.season \in Seasons
  BY <1>6, SeasonIs
<1>8. /\ NumberIn(m.season, title.base + 1) + n - 1 = NumberIn(m.season, title.base + n)
      /\ NumberIn(m.season, title.base + 1) \in Int
  BY <1>7, NumbersRun
<1> HIDE DEF x
<1> QED BY <1>5, <1>8 DEF There, NoTarget, x

LEMMA FirstSeason ==
    ASSUME title \in Title
    PROVE  Season(1) = 1 /\ \A i \in Nat : NumberIn(1, i) = i
<1>1. /\ 1 \in Seasons /\ title.first[1] = 1 /\ title.last \in Nat /\ title.base \in Nat
      /\ title.total \in Nat \ {0} /\ title.base + title.total <= title.last /\ title.absolute \in BOOLEAN
  BY TitleFacts
<1>2. 1 <= Last(1)
  BY <1>1, SeasonEnds
<1> QED BY <1>1, <1>2, SeasonIs DEF NumberIn

(* By the form of the mappings: from the title's first episode on,         *)
LEMMA FoundFromFirst ==
    ASSUME title \in Title, NEW n \in 1 .. title.total
    PROVE  selectTmdbMappingForEpisode({FromFirst}, n) # NoTarget /\ There(selectTmdbMappingForEpisode({FromFirst}, n), n)
<1> DEFINE m == FromFirst
<1>1. /\ title.base \in Nat /\ title.total \in Nat /\ title.last \in Nat /\ title.base + title.total <= title.last
      /\ title.last < Open /\ title.base + 1 \in 1 .. title.last
  BY TitleRange
<1>2. /\ m.src.from = 1 /\ m.src.to = Open /\ m.dst.to = Open /\ m.season = Season(title.base + 1)
      /\ m.dst.from = Number(title.base + 1)
  BY DEF FromFirst, Mapping, rng
<1>3. m.dst.from = NumberIn(m.season, title.base + 1) /\ m.dst.from \in Nat \ {0}
  BY <1>1, <1>2, NumberIs
<1> HIDE DEF m
<1>4. mapEpisodeNumber(m, n) # 0
  BY <1>1, <1>2, <1>3 DEF mapEpisodeNumber, Size, Open
<1>5. Covering({m}, n) = {m}
  BY <1>4 DEF Covering
<1>6. m.src.from \in Nat /\ m.src.from <= n /\ m.dst.from = NumberIn(m.season, title.base + m.src.from)
  BY <1>2, <1>3
<1> QED BY <1>2, <1>5, <1>6, OneCovers DEF m

(* by the ranges below another id, or the number itself,                   *)
LEMMA FoundNested ==
    ASSUME title \in Title, title.base = 0, NEW b \in Int, b <= title.total, NEW nums \in SUBSET (Nat \ {0}),
           NEW n \in 1 .. title.total, n \in nums
    PROVE  LET x == selectTmdbMappingForEpisode(extractNestedRanges(b, nums), n)
           IN  x # NoTarget /\ There(x, n)
<1> DEFINE M == extractNestedRanges(b, nums)
<1>1. title.total \in Nat /\ title.total < Open /\ title.base + 1 = 1
  BY TitleRange DEF Open
<1>2. Season(title.base + 1) = 1 /\ \A i \in Nat : NumberIn(1, i) = i /\ title.base + i = i
  BY <1>1, FirstSeason
<1>3. CASE b >= 1 /\ title.bridge = "nested"
  <2> DEFINE m == Mapping(1, rng(1, b), rng(1, b))
  <2>1. M = {m}
    BY <1>3 DEF extractNestedRanges
  <2>2. m.season = 1 /\ m.src.from = 1 /\ m.src.to = b /\ m.dst.from = 1 /\ m.dst.to = b
    BY DEF Mapping, rng
  <2>3. Size(m.src) = b /\ Size(m.dst) = b
    BY <1>1, <1>3, <2>2 DEF Size, Open
  <2> HIDE DEF m, M
  <2>4. CASE n <= b
    <3>1. mapEpisodeNumber(m, n) # 0
      BY <1>3, <2>2, <2>3, <2>4 DEF mapEpisodeNumber
    <3>2. Covering({m}, n) = {m}
      BY <3>1 DEF Covering
    <3>3. m.src.from \in Nat /\ m.src.from <= n /\ m.dst.from = NumberIn(m.season, title.base + m.src.from)
      BY <1>2, <2>2
    <3> QED BY <1>2, <2>1, <2>2, <3>2, <3>3, OneCovers DEF M
  <2>5. CASE ~(n <= b)
    <3>1. mapEpisodeNumber(m, n) = 0
      BY <2>2, <2>5 DEF mapEpisodeNumber
    <3>2. Covering({m}, n) = {}
      BY <3>1 DEF Covering
    <3>3. identityAlignedContinuation(m) /\ n > m.src.to
      BY <1>1, <1>3, <2>2, <2>3, <2>5 DEF identityAlignedContinuation, Open
    <3>4. Extended({m}, n) = {m}
      BY <3>3 DEF Extended
    <3>5. m.src.to \in Nat /\ m.dst.from = NumberIn(m.season, title.base + 1)
      BY <1>2, <1>3, <2>2
    <3> QED BY <1>2, <2>1, <2>2, <3>2, <3>4, <3>5, OneContinues DEF M
  <2> QED BY <2>4, <2>5
<1>4. CASE ~(b >= 1 /\ title.bridge = "nested")
  <2> DEFINE m(k) == Mapping(1, rng(k, k), rng(k, k))
  <2>1. M = {m(k) : k \in nums}
    BY <1>4 DEF extractNestedRanges
  <2>2. \A k : /\ m(k).season = 1 /\ m(k).src.from = k /\ m(k).src.to = k
               /\ m(k).dst.from = k /\ m(k).dst.to = k
    BY DEF Mapping, rng
  <2> HIDE DEF m, M
  <2>3. ASSUME NEW k \in nums, k # n
        PROVE  mapEpisodeNumber(m(k), n) = 0
    <3>1. ~(k <= n /\ n <= k)
      BY <2>3
    <3> QED BY <2>2, <3>1 DEF mapEpisodeNumber
  <2>4. mapEpisodeNumber(m(n), n) # 0
    <3>1. Size(m(n).dst) = 1
      BY <1>1, <2>2 DEF Size, Open
    <3> QED BY <2>2, <3>1 DEF mapEpisodeNumber
  <2>5. Covering(M, n) = {m(n)}
    BY <2>1, <2>3, <2>4 DEF Covering
  <2>6. /\ m(n).season = Season(title.base + 1) /\ m(n).src.from \in Nat /\ m(n).src.from <= n
        /\ m(n).dst.from = NumberIn(m(n).season, title.base + m(n).src.from)
    BY <1>2, <2>2
  <2> QED BY <2>5, <2>6, OneCovers DEF M
<1> QED BY <1>3, <1>4

(* or by the ranges of the verified episodes, season by season.            *)
LEMMA FoundShows ==
    ASSUME title \in Title, title.bridge = "show", NEW b \in Int, 1 <= b, b <= title.total,
           NEW n \in 1 .. title.total, Season(title.base + n) = Season(title.base + 1)
    PROVE  LET x == selectTmdbMappingForEpisode(extractTmdbShowMappings(b), n)
           IN  /\ extractTmdbShowMappings(b) # {}
               /\ x # NoTarget /\ There(x, n)
<1> DEFINE M == extractTmdbShowMappings(b)  z == Season(title.base + 1)
           lo(s) == Least(Verified(b, s))  hi(s) == Greatest(Verified(b, s))
           m(s) == Mapping(s, rng(lo(s), hi(s)), rng(Number(title.base + lo(s)), Number(title.base + hi(s))))
           Has(s) == Verified(b, s) # {}
<1>1. /\ title.base \in Nat /\ title.total \in Nat /\ title.last \in Nat /\ title.base + title.total <= title.last
      /\ title.last < Open /\ title.base + 1 \in 1 .. title.last /\ z \in Seasons
  <2>1. /\ title.base \in Nat /\ title.total \in Nat /\ title.last \in Nat /\ title.base + title.total <= title.last
        /\ title.last < Open /\ title.base + 1 \in 1 .. title.last
    BY TitleRange
  <2> QED BY <2>1, SeasonIs
<1>2. M = {m(s) : s \in {y \in Seasons : Has(y)}}
  BY DEF extractTmdbShowMappings
<1>3. Has(z)
  <2>1. 1 \in Verified(b, z)
    BY DEF Verified
  <2> QED BY <2>1
<1> HIDE DEF z
<1>4. ASSUME NEW s \in Seasons, Has(s)
      PROVE  /\ lo(s) \in Nat \ {0} /\ hi(s) \in Nat /\ lo(s) <= hi(s) /\ hi(s) <= b
             /\ Season(title.base + lo(s)) = s /\ Season(title.base + hi(s)) = s
             /\ \A k \in 1 .. b : Season(title.base + k) = s <=> lo(s) <= k /\ k <= hi(s)
  BY <1>4, VerifiedIs
<1>5. \A s : /\ m(s).season = s /\ m(s).src.from = lo(s) /\ m(s).src.to = hi(s)
             /\ m(s).dst.from = Number(title.base + lo(s)) /\ m(s).dst.to = Number(title.base + hi(s))
  BY DEF Mapping, rng
<1> HIDE DEF M, m, lo, hi, Has
<1>6. lo(z) = 1
  <2>1. 1 \in 1 .. b /\ Season(title.base + 1) = z
    BY DEF z
  <2>2. lo(z) <= 1 /\ lo(z) \in Nat \ {0}
    BY <1>1, <1>3, <1>4, <2>1
  <2> QED BY <2>2
<1>7. /\ m(z).dst.from = NumberIn(z, title.base + 1) /\ m(z).dst.to = NumberIn(z, title.base + hi(z))
      /\ m(z).dst.from \in Nat \ {0} /\ m(z).dst.to \in Nat /\ m(z).dst.to < Open
  <2>1. hi(z) \in Nat /\ 1 <= hi(z) /\ hi(z) <= b /\ Season(title.base + hi(z)) = z
    BY <1>1, <1>3, <1>4, <1>6
  <2>2. title.base + hi(z) \in 1 .. title.last
    BY <1>1, <2>1
  <2>3. /\ Number(title.base + 1) = NumberIn(z, title.base + 1) /\ Number(title.base + 1) \in 1 .. title.base + 1
        /\ Number(title.base + hi(z)) = NumberIn(z, title.base + hi(z))
        /\ Number(title.base + hi(z)) \in 1 .. title.base + hi(z)
    BY <1>1, <2>1, <2>2, NumberIs DEF z
  <2> QED BY <1>1, <1>5, <1>6, <2>1, <2>2, <2>3 DEF Open
<1>8. Size(m(z).dst) = hi(z) /\ Size(m(z).src) = hi(z)
  <2>1. hi(z) \in Nat /\ 1 <= hi(z) /\ hi(z) < Open
    BY <1>1, <1>3, <1>4, <1>6 DEF Open
  <2>2. NumberIn(z, title.base + 1) + hi(z) - 1 = NumberIn(z, title.base + hi(z)) /\ NumberIn(z, title.base + 1) \in Int
    BY <1>1, <2>1, NumbersRun
  <2> QED BY <1>5, <1>6, <1>7, <2>1, <2>2 DEF Size, Open
<1>9. M # {}
  BY <1>1, <1>2, <1>3
<1>10. ASSUME NEW s \in Seasons, Has(s), s # z
       PROVE  mapEpisodeNumber(m(s), n) = 0
  <2>1. ~(lo(s) <= n /\ n <= hi(s))
    <3>1. Season(title.base + n) = z
      BY DEF z
    <3>2. lo(s) \in Nat /\ hi(s) \in Nat /\ hi(s) <= b
      BY <1>4, <1>10
    <3>3. n \in 1 .. b => ~(lo(s) <= n /\ n <= hi(s))
      BY <1>4, <1>10, <3>1
    <3> QED BY <3>2, <3>3
  <2> QED BY <1>5, <2>1 DEF mapEpisodeNumber
<1>11. m(z).season = z /\ m(z).src.from = 1 /\ m(z).src.to = hi(z) /\ hi(z) \in Nat /\ hi(z) < Open
  BY <1>1, <1>3, <1>4, <1>5, <1>6 DEF Open
<1>12. CASE n <= hi(z)
  <2>1. mapEpisodeNumber(m(z), n) # 0
    BY <1>7, <1>8, <1>11, <1>12 DEF mapEpisodeNumber
  <2>2. Covering(M, n) = {m(z)}
    BY <1>1, <1>2, <1>3, <1>10, <2>1 DEF Covering
  <2>3. /\ m(z).season = Season(title.base + 1) /\ m(z).src.from \in Nat /\ m(z).src.from <= n
        /\ m(z).dst.from = NumberIn(m(z).season, title.base + m(z).src.from)
    BY <1>7, <1>11 DEF z
  <2> QED BY <1>9, <2>2, <2>3, OneCovers DEF M
<1>13. CASE ~(n <= hi(z))
  <2>1. mapEpisodeNumber(m(z), n) = 0
    BY <1>11, <1>13 DEF mapEpisodeNumber
  <2>2. Covering(M, n) = {}
    BY <1>2, <1>10, <2>1 DEF Covering
  <2>3. m(z) \in Extended(M, n)
    <3>1. identityAlignedContinuation(m(z)) /\ n > m(z).src.to
      BY <1>7, <1>8, <1>11, <1>13 DEF identityAlignedContinuation, Open
    <3> QED BY <1>1, <1>2, <1>3, <3>1 DEF Extended
  <2>4. ASSUME NEW s \in Seasons, Has(s), s # z
        PROVE  m(s) \notin Extended(M, n)
    <3>1. lo(s) # 1
      BY <1>4, <2>4 DEF z
    <3> QED BY <1>5, <3>1 DEF Extended, identityAlignedContinuation
  <2>5. Extended(M, n) = {m(z)}
    BY <1>2, <2>3, <2>4 DEF Extended
  <2>6. m(z).season = Season(title.base + 1) /\ m(z).src.to \in Nat /\ m(z).dst.from = NumberIn(m(z).season, title.base + 1)
    BY <1>7, <1>11 DEF z
  <2> QED BY <1>9, <2>2, <2>5, <2>6, OneContinues DEF M
<1> QED BY <1>12, <1>13

(* With every source up, every source that knows something says it.        *)
LEMMA AllHeard ==
    ASSUME TypeInv
    PROVE  LET q == Request({}) IN
           /\ Heard(q) /\ q.down = {} /\ Named(q) /\ getMapping(q) = Read("mapping", {})
           /\ getTmdbShow(q) # Err /\ \A s \in Seasons : getTmdbSeason(s, q) # Err
           /\ title.search => resolveTmdbIDByTitle(q)
           /\ title.fribb => q.heard["fribb"] = 1
<1> DEFINE q == Request({})
<1>1. \A k : Up(k, {})
  BY DEF Up
<1>2. /\ Heard(q) /\ q.down = {}
      /\ \A k \in Keys : q.heard[k] = Read(k, {})
      /\ \A k \in Keys : World(k) # Err => q.heard[k] # Err
  BY <1>1, RequestHears
<1>3. /\ SourceKeys \subseteq Keys /\ \A s \in Seasons : SeasonKey[s] \in Keys
      /\ World("anilist") # Err
      /\ World("show") # Err /\ \A s \in Seasons : World(SeasonKey[s]) # Err
      /\ title.search => World("search") = 1
      /\ title.fribb => World("fribb") = 1
  <2>1. title.base \in Nat /\ listed \in Nat /\ aired \in Nat
    BY TitleRange DEF TypeInv, WorldOK
  <2> QED BY <2>1, WorldIs DEF TypeInv, Err
<1> HIDE DEF q
<1>4. Named(q) /\ getMapping(q) = Read("mapping", {})
  BY <1>2, <1>3 DEF Named, getMapping, SourceKeys
<1>5. getTmdbShow(q) # Err /\ \A s \in Seasons : getTmdbSeason(s, q) # Err
  BY <1>2, <1>3 DEF getTmdbShow, getTmdbSeason, SourceKeys
<1>6. title.search => resolveTmdbIDByTitle(q)
  BY <1>2, <1>3 DEF Heard, resolveTmdbIDByTitle, SourceKeys, Err
<1>7. title.fribb => q.heard["fribb"] = 1
  BY <1>2, <1>3 DEF Heard, SourceKeys, Err
<1> QED BY <1>2, <1>4, <1>5, <1>6, <1>7 DEF q

(* So every wanted episode of the season the title begins in is asked for. *)
LEMMA AskedFor ==
    ASSUME TypeInv, Mappable, NEW nums \in SUBSET (Nat \ {0}), NEW n \in 1 .. title.total, n \in nums,
           Season(title.base + n) = Season(title.base + 1)
    PROVE  \E x \in requested(nums, Request({})) : There(x, n)
<1> DEFINE q == Request({})  M == Mappings(nums, q)  x == selectTmdbMappingForEpisode(M, n)
           shows == extractTmdbShowMappings(getMapping(q))
<1>1. /\ WorldOK /\ title \in Title
      /\ Heard(q) /\ q.down = {} /\ Named(q) /\ getMapping(q) = Read("mapping", {})
      /\ title.search => resolveTmdbIDByTitle(q)
      /\ title.fribb => q.heard["fribb"] = 1
  BY AllHeard DEF TypeInv, WorldOK
<1> HIDE DEF q
<1>2. getMapping(q) \in Int /\ getMapping(q) <= title.total
  BY <1>1, HeardIs, TitleRange DEF WorldOK
<1>3. CASE title.bridge = "show" /\ getMapping(q) >= 1
  <2>1. shows # {} /\ selectTmdbMappingForEpisode(shows, n) # NoTarget /\ There(selectTmdbMappingForEpisode(shows, n), n)
    BY <1>1, <1>2, <1>3, FoundShows
  <2>2. M = shows
    BY <2>1 DEF Mappings
  <2> QED BY <2>1, <2>2 DEF requested, q
<1>4. CASE title.bridge = "open" /\ getMapping(q) >= 1
  <2>1. shows = {FromFirst}
    BY <1>2, <1>4 DEF extractTmdbShowMappings
  <2>2. M = {FromFirst}
    BY <2>1 DEF Mappings
  <2> QED BY <1>1, <2>2, FoundFromFirst DEF requested, q
<1>5. CASE ~(title.bridge \in {"show", "open"} /\ getMapping(q) >= 1)
  <2>1. shows = {}
    <3>1. title.bridge \in {"none", "nested", "show", "open"}
      BY <1>1, TitleFacts
    <3> QED BY <1>2, <1>5, <3>1, NoShowMappings
  <2>2. CASE title.fribb
    <3>1. M = {FromFirst}
      BY <1>1, <2>1, <2>2 DEF Mappings, getFribbMappings, fribbToMappings
    <3> QED BY <1>1, <3>1, FoundFromFirst DEF requested, q
  <2>3. CASE ~title.fribb
    <3>1. title.search /\ title.base = 0
      BY <1>1, <1>5, <2>3 DEF Mappable
    <3>2. getFribbMappings(q) = {}
      BY <1>1, <2>3, HeardIs DEF getFribbMappings, fribbToMappings
    <3>3. M = extractNestedRanges(getMapping(q), nums)
      BY <1>1, <2>1, <3>1, <3>2 DEF Mappings
    <3>4. x # NoTarget /\ There(x, n)
      BY <1>1, <1>2, <3>1, <3>3, FoundNested
    <3> QED BY <3>4 DEF requested, q
  <2> QED BY <2>2, <2>3
<1> QED BY <1>3, <1>4, <1>5

(* What is asked for and listed is found.                                  *)
LEMMA Found ==
    ASSUME TypeInv, NEW nums \in SUBSET (Nat \ {0}), NEW n \in 1 .. title.total, n <= listed,
           Season(title.base + n) = Season(title.base + 1),
           NEW x \in requested(nums, Request({})), There(x, n)
    PROVE  n \in Numbers(ResolveEpisodesWithTitles(nums, Request({})).found)
<1> DEFINE q == Request({})  reqs == requested(nums, q)  lacking == missed(reqs, q)
           stale == staleSeasons(lacking, q)  one == resolveOne(x, lacking, stale, q)
           active == {y.season : y \in reqs}  pending == {y \in lacking : y.open}
           found == episodes(reqs, lacking, stale, q)
<1>1. /\ WorldOK /\ title \in Title /\ Heard(q) /\ q.down = {}
      /\ getTmdbShow(q) # Err /\ \A s \in Seasons : getTmdbSeason(s, q) # Err
  BY AllHeard DEF TypeInv, WorldOK
<1>2. /\ title.base \in Nat /\ title.total \in Nat /\ title.last \in Nat /\ title.base + title.total <= title.last
      /\ title.base + n \in 1 .. title.last /\ title.base + 1 \in 1 .. title.last /\ listed \in Nat
      /\ World("show") = title.base + listed
  <2>1. World("show") = title.base + listed /\ listed \in Nat
    BY <1>1, WorldIs DEF WorldOK
  <2>2. /\ title.base \in Nat /\ title.total \in Nat /\ title.last \in Nat
        /\ title.base + title.total <= title.last
    BY <1>1, TitleRange
  <2> QED BY <2>1, <2>2
<1> HIDE DEF q
<1>3. x \in reqs /\ \A y \in reqs : y.season \in Seasons
  BY <1>1, TargetsAre DEF q, Target
<1>4. x.season \in Seasons /\ getTmdbSeason(x.season, q) \in Int
  BY <1>1, <1>3, HeardIs
<1> HIDE DEF reqs
<1>5. ~(\E s \in active : getTmdbSeason(s, q) = Err) /\ reqs # {}
  BY <1>1, <1>3
<1>6. ResolveEpisodesWithTitles(nums, q).found = found
  <2>1. ResolveEpisodesWithTitles(nums, q) = Resolved(reqs, lacking, q)
    BY DEF ResolveEpisodesWithTitles, Sought, reqs
  <2> HIDE DEF lacking
  <2> QED BY <1>1, <1>5, <2>1 DEF Resolved
<1>7. At(x.season, x.number, World("show")) # {}
  <2>1. /\ title.first[x.season] <= title.base + n /\ title.base + n <= Last(x.season)
    BY <1>2, <1>1, SeasonIs DEF There
  <2>2. title.base + n \in In(x.season, World("show"))
    BY <1>1, <1>2, <1>4, <2>1, InIs
  <2> QED BY <1>1, <1>2, <1>4, <2>2, AtIs DEF There
<1>8. x \in lacking => x.season \in stale
  BY <1>1 DEF staleSeasons
<1>9. x \notin lacking => At(x.season, x.number, getTmdbSeason(x.season, q)) # {}
  BY <1>3 DEF missed
<1> HIDE DEF lacking, stale
<1>10. one # {} /\ one \in SUBSET Nat
  <2> DEFINE top == IF x.season \in stale THEN World("show") ELSE getTmdbSeason(x.season, q)
             own == At(x.season, x.number, top)
  <2>1. own # {} /\ top \in Int
    BY <1>2, <1>4, <1>7, <1>8, <1>9
  <2>2. own \in SUBSET Nat
    <3> HIDE DEF top
    <3>1. own \subseteq 1 .. title.last
      BY <1>1, <1>4, <2>1, AtIs
    <3> QED BY <3>1
  <2>3. one = own
    BY <2>1 DEF resolveOne
  <2> QED BY <2>1, <2>2, <2>3
<1> HIDE DEF one
<1>11. Least(one) \in one /\ \A k \in one : Least(one) <= k
  BY <1>10, LeastOf
<1>12. <<x.n, Least(one)>> \in found
  BY <1>3, <1>11 DEF episodes, one
<1> HIDE DEF found
<1>13. n \in Numbers(found)
  BY <1>12 DEF Numbers, There
<1> QED BY <1>6, <1>13 DEF q

(* An answer given with every source up shows each episode of the title's  *)
(* first season that is on TMDB, once any source tells where to look: what *)
(* earlier requests left in the caches, whole or in part, cannot hide it.  *)
THEOREM BareEpisodesHeal == Spec => Healed
<1>1. ASSUME Inv, [Next]_vars, Answered({}), aired < title.total, Mappable,
             NEW n \in 1 .. body'.count, n <= listed, n <= title.total,
             Season(title.base + n) = Season(title.base + 1)
      PROVE  n \in Numbers(body'.shown)
  <2> DEFINE q == Request({})  nums == 1 .. episodeCount(q)  wanted == Wanted(nums, q)
             res == IF wanted = {} THEN Nothing ELSE resolveEpisodes(wanted, knownTotal(q), q)
  <2>1. GetEpisodes({})
    BY <1>1, AnswerIs
  <2>2. body' = Rendered(nums, res.found, q)
    BY <2>1, Zenon DEF GetEpisodes, Answers
  <2>3. WorldOK /\ Heard(q) /\ Named(q)
    BY <1>1, AllHeard DEF Inv, TypeInv
  <2>4. episodeCount(q) \in Nat /\ Cardinality(nums) = episodeCount(q)
    <3>1. episodeCount(q) \in Nat
      BY <2>3, CountCovers
    <3> QED BY <3>1, FS_Interval
  <2>5. n \in nums /\ nums \in SUBSET (Nat \ {0})
    BY <1>1, <2>2, <2>4 DEF Rendered
  <2>6. n \in 1 .. title.total
    BY <1>1, <2>5, TitleRange DEF Inv, TypeInv, WorldOK
  <2> HIDE DEF nums
  <2>7. CASE n \in Numbers(GetCachedEpisodes(nums))
    BY <2>2, <2>7 DEF Rendered, Over, Numbers
  <2>8. CASE n \notin Numbers(GetCachedEpisodes(nums))
    <3>1. n \in wanted /\ wanted \in SUBSET (Nat \ {0})
      <4>1. airing(q)
        <5>1. q.heard["anilist"] \in Int /\ q.heard["anilist"] <= aired /\ aired \in Nat /\ title.total \in Nat
          BY <2>3, HeardIs, TitleRange DEF WorldOK
        <5> QED BY <1>1, <2>3, <5>1 DEF airing
      <4> QED BY <2>5, <2>8, <4>1 DEF Wanted
    <3> HIDE DEF wanted
    <3>2. \E x \in requested(wanted, q) : There(x, n)
      BY <1>1, <2>6, <3>1, AskedFor DEF Inv
    <3>3. n \in Numbers(ResolveEpisodesWithTitles(wanted, q).found)
      BY <1>1, <2>6, <3>1, <3>2, Found DEF Inv
    <3>4. n \in Numbers(res.found)
      BY <3>1, <3>3 DEF resolveEpisodes, Over, Numbers
    <3> HIDE DEF res
    <3> QED BY <2>2, <3>4 DEF Rendered, Over, Numbers
  <2> QED BY <2>7, <2>8
<1>2. ASSUME Inv, [Next]_vars
      PROVE  [body'.left = BodyTTL /\ body.left = 0 /\ body'.down = {}
              /\ aired < title.total /\ Mappable
                => \A n \in 1 .. body'.count :
                     n <= listed /\ n <= title.total /\ Season(title.base + n) = Season(title.base + 1)
                     => n \in Numbers(body'.shown)]_vars
  BY <1>1, <1>2 DEF Answered
<1> QED BY <1>2, InvHolds, PTL DEF Spec, Healed

=============================================================================
