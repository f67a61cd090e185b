--------------------------- MODULE PlaybackProofs ---------------------------
(***************************************************************************)
(* Proofs about Playback for any pages, any sites and scenes of the six    *)
(* providers, any number of requests, and any lifetimes and capacities.    *)
(***************************************************************************)
EXTENDS Playback, FiniteSetTheorems, WellFoundedInduction, TLAPS

-----------------------------------------------------------------------------
(* Induction over the numbers and over the subsets of a finite set, with   *)
(* sets in the place of the predicates.                                    *)
LEMMA LessThan == \A x, y \in Nat : <<y, x>> \in OpToRel(<, Nat) <=> y < x
<1> SUFFICES ASSUME NEW x \in Nat, NEW y \in Nat
             PROVE  <<y, x>> \in {p \in Nat \X Nat : p[1] < p[2]} <=> y < x
  BY Zenon DEF OpToRel
<1> QED OBVIOUS

LEMMA LeastNumber ==
    ASSUME NEW S \in SUBSET Nat, S # {}
    PROVE  \E x \in S : \A y \in S : x <= y
<1>1. \E x \in S : \A y \in S : ~(<<y, x>> \in OpToRel(<, Nat))
  BY NatLessThanWellFounded, WFMin, Zenon
<1>2. \E x \in S : \A y \in S : ~(y < x)
  BY <1>1, LessThan, Zenon
<1> QED BY <1>2

LEMMA GreatestNumber ==
    ASSUME NEW n \in Nat, NEW S \in SUBSET (1 .. n), S # {}
    PROVE  \E x \in S : \A y \in S : x >= y
<1> DEFINE T == {n - x : x \in S}
<1>1. T \in SUBSET Nat /\ T # {}
  <2>1. \A x \in S : n - x \in Nat
    OBVIOUS
  <2> QED BY <2>1
<1> HIDE DEF T
<1>2. PICK m \in T : \A y \in T : m <= y
  BY <1>1, LeastNumber
<1>3. PICK x \in S : m = n - x
  BY <1>2 DEF T
<1>4. \A y \in S : n - y \in T
  BY DEF T
<1> QED BY <1>2, <1>3, <1>4

LEMMA Numbers ==
    ASSUME NEW S, 0 \in S, \A n \in Nat : n \in S => n + 1 \in S
    PROVE  \A n \in Nat : n \in S
<1> SUFFICES ASSUME NEW n \in Nat, n \notin S PROVE FALSE
  OBVIOUS
<1> DEFINE T == Nat \ S
<1>1. T \in SUBSET Nat /\ T # {}
  OBVIOUS
<1>2. PICK x \in T : \A y \in T : x <= y
  BY <1>1, LeastNumber
<1>3. x - 1 \in Nat /\ x - 1 \notin T
  BY <1>2
<1> QED BY <1>2, <1>3

(* What holds of a set once it holds of it without one of its elements.    *)
LEMMA Subsets ==
    ASSUME NEW S, IsFiniteSet(S), NEW P, {} \in P,
           \A s \in SUBSET S : s # {} => \E x \in s : s \ {x} \in P => s \in P
    PROVE  S \in P
<1> DEFINE N == {n \in Nat : \A s \in SUBSET S : Cardinality(s) = n => s \in P}
<1>1. 0 \in N
  BY FS_Subset, FS_EmptySet
<1>2. ASSUME NEW n \in Nat, n \in N PROVE n + 1 \in N
  <2> SUFFICES ASSUME NEW s \in SUBSET S, Cardinality(s) = n + 1 PROVE s \in P
    OBVIOUS
  <2>1. IsFiniteSet(s) /\ s # {}
    BY FS_Subset, FS_EmptySet
  <2>2. PICK x \in s : s \ {x} \in P => s \in P
    BY <2>1
  <2>3. Cardinality(s \ {x}) = Cardinality(s) - 1
    BY <2>1, FS_RemoveElement, Zenon
  <2>4. Cardinality(s \ {x}) = n
    BY <2>3
  <2>5. s \ {x} \in SUBSET S
    OBVIOUS
  <2> QED BY <1>2, <2>2, <2>4, <2>5
<1> HIDE DEF N
<1>3. \A n \in Nat : n \in N
  BY <1>1, <1>2, Numbers
<1>4. Cardinality(S) \in Nat
  BY FS_CardinalityType
<1> QED BY <1>3, <1>4 DEF N

(* The function a fold is defined by exists, and a fold ends where its     *)
(* operation stays.                                                        *)
Chooses(C, S) == \A s \in SUBSET S : s # {} => C[s] \in s

IsFold(g, F, C, base, S) ==
    /\ g[{}] = base
    /\ \A s \in SUBSET S : s # {} => g[s] = F[<<C[s], g[s \ {C[s]}]>>]

LEMMA FoldExists ==
    ASSUME NEW S, IsFiniteSet(S), NEW D, NEW base \in D, NEW F \in [S \X D -> D],
           NEW C, Chooses(C, S)
    PROVE  \E g \in [SUBSET S -> D] : IsFold(g, F, C, base, S)
<1> USE DEF Chooses
<1> DEFINE Dom(n) == {s \in SUBSET S : Cardinality(s) <= n}
           Is(g, n) == g = [s \in Dom(n) |-> IF s = {} THEN base ELSE F[<<C[s], g[s \ {C[s]}]>>]]
           N == {n \in Nat : \E g \in [Dom(n) -> D] : Is(g, n)}
<1>0. \A s \in SUBSET S : IsFiniteSet(s) /\ Cardinality(s) \in Nat
  BY FS_Subset, FS_CardinalityType
<1>1. 0 \in N
  <2>1. \A s \in Dom(0) : s = {}
    BY <1>0, FS_EmptySet
  <2> DEFINE g == [s \in Dom(0) |-> base]
  <2>2. g \in [Dom(0) -> D] /\ Is(g, 0)
    BY <2>1
  <2> QED BY <2>2
<1>2. ASSUME NEW n \in Nat, n \in N PROVE n + 1 \in N
  <2>1. PICK g \in [Dom(n) -> D] : Is(g, n)
    BY <1>2
  <2>2. \A s \in Dom(n + 1) : s # {} => s \ {C[s]} \in Dom(n) /\ C[s] \in S
    <3> SUFFICES ASSUME NEW s \in Dom(n + 1), s # {}
                 PROVE  s \ {C[s]} \in Dom(n) /\ C[s] \in S
      OBVIOUS
    <3>1. C[s] \in s /\ IsFiniteSet(s) /\ Cardinality(s) \in Nat
      BY <1>0
    <3>2. Cardinality(s \ {C[s]}) = Cardinality(s) - 1
      BY <3>1, FS_RemoveElement
    <3> QED BY <3>1, <3>2
  <2>3. Dom(n) \subseteq Dom(n + 1)
    BY <1>0
  <2> DEFINE h == [s \in Dom(n + 1) |-> IF s = {} THEN base ELSE F[<<C[s], g[s \ {C[s]}]>>]]
  <2> HIDE DEF Dom
  <2>4. h \in [Dom(n + 1) -> D]
    <3>1. \A s \in Dom(n + 1) : s # {} => F[<<C[s], g[s \ {C[s]}]>>] \in D
      BY <2>1, <2>2
    <3> QED BY <3>1
  <2>5. \A s \in Dom(n) : h[s] = g[s]
    BY <2>1, <2>3
  <2>6. \A s \in Dom(n + 1) : h[s] = IF s = {} THEN base ELSE F[<<C[s], h[s \ {C[s]}]>>]
    BY <2>2, <2>5
  <2>7. Is(h, n + 1)
    BY <2>6
  <2> HIDE DEF h, Is
  <2> QED BY <2>4, <2>7
<1> HIDE DEF N
<1>3. Cardinality(S) \in N
  BY <1>1, <1>2, Numbers, FS_CardinalityType
<1>4. Dom(Cardinality(S)) = SUBSET S
  <2>1. \A s \in SUBSET S : Cardinality(s) <= Cardinality(S)
    BY FS_Subset, Zenon
  <2> QED BY <2>1
<1> HIDE DEF Dom
<1>5. PICK g \in [Dom(Cardinality(S)) -> D] : Is(g, Cardinality(S))
  BY <1>3 DEF N
<1>6. g \in [SUBSET S -> D]
  BY <1>4, <1>5
<1>7. g[{}] = base /\ \A s \in SUBSET S : s # {} => g[s] = F[<<C[s], g[s \ {C[s]}]>>]
  BY <1>4, <1>5
<1> QED BY <1>6, <1>7, Zenon DEF IsFold

LEMMA FoldStays ==
    ASSUME NEW S, IsFiniteSet(S), NEW D, NEW f, f[{}] \in D,
           \A s \in SUBSET S : s # {} => \E x \in s : f[s \ {x}] \in D => f[s] \in D
    PROVE  f[S] \in D
<1> DEFINE P == {s \in SUBSET S : f[s] \in D}
<1>1. {} \in P
  OBVIOUS
<1>2. \A s \in SUBSET S : s # {} => \E x \in s : s \ {x} \in P => s \in P
  OBVIOUS
<1> HIDE DEF P
<1>3. S \in P
  BY <1>1, <1>2, Subsets
<1> QED BY <1>3 DEF P

-----------------------------------------------------------------------------
(* What the proofs use of the assumptions.                                 *)
LEMMA Bounds ==
    /\ HostTTL \in Nat /\ PlaylistTTL \in Nat
    /\ MaxDynamicEntries \in Nat \ {0} /\ MaxPlaylists \in Nat \ {0} /\ FillCap \in Nat \ {0}
    /\ MaxEntries \in Nat \ {0}
BY ProxyHostsAssumption, MediaProxyAssumption, PlaybackAssumption

LEMMA PagesSound ==
    /\ IsFiniteSet(Url)
    /\ \A u \in Url : Page[u].links \in Seq(Url)
BY MediaProxyAssumption

-----------------------------------------------------------------------------
(* Hosts are learnt one by one and playlists are read one by one: what no  *)
(* single one leads out of, no number of them leads out of.                *)
LEMMA LearnsWithin ==
    ASSUME NEW names, NEW n \in Nat, DOMAIN names = 1 .. n,
           NEW A, hosts \in A,
           \A i \in 1 .. n, l \in A : LearnHost(l, names[i]) \subseteq A
    PROVE  LearnHosts(names) \subseteq A
<1> DEFINE S == DOMAIN names
           D == SUBSET A
           op(i, lists) == UNION {LearnHost(l, names[i]) : l \in lists}
           C == [s \in SUBSET S |-> Max(s)]
           F == [x \in S \X D |-> op(x[1], x[2])]
           iter[s \in SUBSET S] == IF s = {} THEN {hosts} ELSE op(Max(s), iter[s \ {Max(s)}])
<1>1. IsFiniteSet(S)
  BY FS_Interval
<1>2. \A s \in SUBSET S : s # {} => C[s] \in s /\ Max(s) = C[s]
  <2> SUFFICES ASSUME NEW s \in SUBSET S, s # {} PROVE Max(s) \in s
    OBVIOUS
  <2>1. \E x \in s : \A y \in s : x >= y
    BY GreatestNumber
  <2> QED BY <2>1, Zenon DEF Max
<1>3. {hosts} \in D
  OBVIOUS
<1>4. \A i \in S, lists \in D : op(i, lists) \in D
  OBVIOUS
<1>5. F \in [S \X D -> D]
  BY <1>4
<1> HIDE DEF S, D, op, C, F, iter
<1>6. PICK g \in [SUBSET S -> D] : IsFold(g, F, C, {hosts}, S)
  <2>1. Chooses(C, S)
    BY <1>2 DEF Chooses
  <2> QED BY <1>1, <1>3, <1>5, <2>1, FoldExists, Zenon
<1>7. \A s \in SUBSET S : s # {} => g[s] = op(Max(s), g[s \ {Max(s)}])
  BY <1>2, <1>6 DEF F, IsFold
<1>8. g = [s \in SUBSET S |-> IF s = {} THEN {hosts} ELSE op(Max(s), g[s \ {Max(s)}])]
  BY <1>6, <1>7 DEF IsFold
<1>9. iter = [s \in SUBSET S |-> IF s = {} THEN {hosts} ELSE op(Max(s), iter[s \ {Max(s)}])]
  BY <1>8 DEF iter
<1>10. iter[{}] = {hosts} /\ \A s \in SUBSET S : s # {} => iter[s] = op(Max(s), iter[s \ {Max(s)}])
  BY <1>9
<1>11. \A s \in SUBSET S : s # {} => \E x \in s : iter[s \ {x}] \in D => iter[s] \in D
  <2> SUFFICES ASSUME NEW s \in SUBSET S, s # {}, iter[s \ {Max(s)}] \in D
               PROVE  iter[s] \in D
    BY <1>2
  <2>1. Max(s) \in S
    BY <1>2
  <2> QED BY <1>4, <1>10, <2>1
<1>12. iter[S] \in D
  <2>1. iter[{}] \in D
    BY <1>3, <1>10
  <2> QED BY <1>1, <1>11, <2>1, FoldStays, Zenon
<1>13. LearnHosts(names) = iter[S]
  BY DEF LearnHosts, FoldLeft, MapThenFoldSet, iter, op, S
<1> QED BY <1>12, <1>13 DEF D

LEMMA ReadWithin ==
    ASSUME NEW S, IsFiniteSet(S), NEW A, NEW size, NEW base, base \subseteq A,
           \A u \in S, l \in A : fetchPlaylistCapped(l, u, size) \subseteq A
    PROVE  ReadAll(S, size, base) \subseteq A
<1> DEFINE D == SUBSET A
           one(s) == CHOOSE x \in s : TRUE
           op(u, lists) == UNION {fetchPlaylistCapped(l, u, size) : l \in lists}
           C == [s \in SUBSET S |-> one(s)]
           F == [x \in S \X D |-> op(x[1], x[2])]
           iter[s \in SUBSET S] == IF s = {} THEN base ELSE op(one(s), iter[s \ {one(s)}])
<1>1. \A s \in SUBSET S : s # {} => C[s] \in s /\ one(s) = C[s]
  OBVIOUS
<1>2. base \in D
  OBVIOUS
<1>3. \A u \in S, lists \in D : op(u, lists) \in D
  OBVIOUS
<1>4. F \in [S \X D -> D]
  BY <1>3
<1> HIDE DEF D, one, op, C, F, iter
<1>5. PICK g \in [SUBSET S -> D] : IsFold(g, F, C, base, S)
  <2>1. Chooses(C, S)
    BY <1>1 DEF Chooses
  <2> QED BY <1>2, <1>4, <2>1, FoldExists, Zenon
<1>6. \A s \in SUBSET S : s # {} => g[s] = op(one(s), g[s \ {one(s)}])
  BY <1>1, <1>5 DEF F, IsFold
<1>7. g = [s \in SUBSET S |-> IF s = {} THEN base ELSE op(one(s), g[s \ {one(s)}])]
  BY <1>5, <1>6 DEF IsFold
<1>8. iter = [s \in SUBSET S |-> IF s = {} THEN base ELSE op(one(s), iter[s \ {one(s)}])]
  BY <1>7 DEF iter
<1>9. iter[{}] = base /\ \A s \in SUBSET S : s # {} => iter[s] = op(one(s), iter[s \ {one(s)}])
  BY <1>8
<1>10. \A s \in SUBSET S : s # {} => \E x \in s : iter[s \ {x}] \in D => iter[s] \in D
  <2> SUFFICES ASSUME NEW s \in SUBSET S, s # {}, iter[s \ {one(s)}] \in D
               PROVE  iter[s] \in D
    BY <1>1
  <2>1. one(s) \in S
    BY <1>1
  <2> QED BY <1>3, <1>9, <2>1
<1>11. iter[S] \in D
  <2>1. iter[{}] \in D
    BY <1>2, <1>9
  <2> QED BY <1>10, <2>1, FoldStays, Zenon
<1>12. ReadAll(S, size, base) = iter[S]
  BY DEF ReadAll, FoldSet, MapThenFoldSet, iter, op, one
<1> QED BY <1>11, <1>12 DEF D

(* Whatever the order, the capacity and the ages, a host that was not      *)
(* there before is one of those vouched for, and it is new.                *)
Learnt(names) == hosts \union {[host |-> h, age |-> 0] : h \in ToSet(names)}

LEMMA LearnsOnly ==
    ASSUME NEW names, NEW n \in Nat, DOMAIN names = 1 .. n
    PROVE  LearnHosts(names) \subseteq SUBSET Learnt(names)
<1> DEFINE A == SUBSET Learnt(names)
<1>1. hosts \in A
  BY DEF Learnt
<1>2. ASSUME NEW i \in 1 .. n, NEW l \in A, NEW r \in LearnHost(l, names[i])
      PROVE  r \in A
  <2>1. names[i] \in ToSet(names)
    BY DEF ToSet
  <2>2. [host |-> names[i], age |-> 0] \in Learnt(names)
    BY <2>1 DEF Learnt
  <2> HIDE DEF Learnt
  <2> QED BY <1>2, <2>2 DEF LearnHost
<1> HIDE DEF A
<1>3. LearnHosts(names) \subseteq A
  BY <1>1, <1>2, LearnsWithin
<1> QED BY <1>3 DEF A

-----------------------------------------------------------------------------
(* The inductive invariant.  What a request is about and that it has no    *)
(* answer before it is answered.                                           *)
Open == {"idle", "queued", "filling", "searching", "resolving"}

RequestSound(p) ==
    /\ step[p] \in Open => reply[p] = NoReply
    /\ step[p] \in {"queued", "filling"} => task[p] \in scene.plays
    /\ step[p] \in {"searching", "resolving"} => task[p].use \in {"find", "warm"} /\ task[p].ask \in scene.asks

RequestsSound ==
    /\ scene \in Scene
    /\ step \in [Proc -> Places]
    /\ DOMAIN task = Proc /\ DOMAIN reply = Proc /\ DOMAIN draft = Proc
    /\ \A p \in Proc : RequestSound(p)
    /\ warming \subseteq scene.asks

(* A slot is held by a request that fetches or has just done so, and by    *)
(* every one that fetches.                                                 *)
SlotsSound ==
    /\ slots \subseteq Proc /\ IsFiniteSet(slots) /\ Cardinality(slots) <= FillCap
    /\ \A p \in Proc : /\ step[p] = "filling" => p \in slots
                       /\ p \in slots => step[p] \in {"filling", "persist", "answered"}

(* What the four caches may hold, and no more of it than their capacity.   *)
Capped(list, cap) == IsFiniteSet(list) /\ Cardinality(list) <= cap

HostLists == {list \in SUBSET [host : Host, age : Nat] : Capped(list, MaxDynamicEntries)}
HostsSound == hosts \in HostLists /\ file \in HostLists /\ \A p \in Proc : draft[p] \in HostLists

Audios == {Page[u].audio : u \in Url} \union {Page[u].audio \ Page[u].far : u \in Url}
SoundBody(s, u, body) ==
    /\ body.cut \in BOOLEAN /\ body.size \in Nat /\ body.audio \in Audios
    /\ Spared(s, u) => ~body.cut
    /\ ~body.cut => body.audio = Page[u].audio
PlaylistRecords == [url : Url, age : Nat, size : Nat, cut : BOOLEAN, audio : Audios]
PlaylistEntries(s) == {e \in PlaylistRecords : SoundBody(s, e.url, e)}
PlaylistLists(s) == {list \in SUBSET PlaylistEntries(s) : Capped(list, MaxPlaylists)}
CacheSound == playlists \in PlaylistLists(scene)

ShowsSound ==
    /\ \A e \in shows : \E ask \in scene.asks : \E page \in Findable(scene, ask), n \in Nat :
          e = [lang |-> ShowOf(ask), page |-> page, age |-> n]
    /\ Capped(shows, MaxEntries)

(* What a provider may answer to what it is asked.                         *)
Results(ask) == {r \in UNION {ResolveOn(scene, page, ask) : page \in Findable(scene, ask)} : r.kind = "sources"}
ResolvedSound ==
    /\ \A e \in resolved : \E ask \in scene.asks : \E r \in Results(ask), n \in Nat :
          e = [ask |-> ask, result |-> r, age |-> n]
    /\ Capped(resolved, MaxEntries)

ServedSound == \A p \in Proc : reply[p].kind = "sources" =>
    task[p].ask \in scene.asks /\ reply[p] \in Results(task[p].ask)

IInv == /\ RequestsSound /\ SlotsSound /\ HostsSound /\ CacheSound /\ ShowsSound /\ ResolvedSound
        /\ PlaylistsSound /\ ServedSound

-----------------------------------------------------------------------------
(* What the proofs use of the providers: what they answer with, the        *)
(* language of it, and that a kept page is looked up by all that matters   *)
(* to the search.                                                          *)
LEMMA ScenesSound ==
    ASSUME NEW s \in Scene
    PROVE  /\ s.provider \in Providers
           /\ \A q \in s.plays : q.url \in Url
           /\ \A ask \in s.asks : \A page \in Findable(s, ask) : \A r \in ResolveOn(s, page, ask) :
                 r.learned \in Seq(Url)
BY ScenesAssumption, Zenon

Outcome(r, lang) == r.kind \in {"miss", "nothing", "sources"} /\ (r.kind = "sources" => r.lang = lang)

LEMMA AnimeGGOutcome ==
    ASSUME NEW site, NEW page, NEW episode, NEW lang
    PROVE  Outcome(GG!resolveOn(site, page, episode, lang), lang)
BY DEF Outcome, GG!resolveOn

LEMMA AniWavesOutcome ==
    ASSUME NEW site, NEW page, NEW episode, NEW lang
    PROVE  Outcome(AW!resolveOn(site, page, episode, lang), lang)
BY DEF Outcome, AW!resolveOn

LEMMA KaaOutcome ==
    ASSUME NEW site, NEW page, NEW episode, NEW lang, NEW draw
    PROVE  Outcome(KA!resolveOn(site, page, episode, lang, draw), lang)
BY DEF Outcome, KA!resolveOn

LEMMA MkissaOutcome ==
    ASSUME NEW site, NEW page, NEW episode, NEW lang
    PROVE  Outcome(MK!resolveOn(site, page, episode, lang), lang)
BY DEF Outcome, MK!resolveOn

LEMMA NovuscloudOutcome ==
    ASSUME NEW site, NEW episode, NEW lang
    PROVE  Outcome(NC!resolveMirror(site, episode, lang), lang)
BY DEF Outcome, NC!resolveMirror

LEMMA NiNOutcome ==
    ASSUME NEW site, NEW episode, NEW lang, NEW r \in NN!resolve(site, episode, lang)
    PROVE  Outcome(r, lang)
BY DEF Outcome, NN!resolve, NN!buildSourceResult

LEMMA ResultsSound ==
    ASSUME NEW s \in Scene, NEW ask, NEW page, NEW r \in ResolveOn(s, page, ask)
    PROVE  Outcome(r, ask.lang)
<1>1. s.provider \in Providers
  BY ScenesSound
<1>2. CASE s.provider = "animegg"
  <2>1. r = GG!resolveOn(s.site, page, ask.episode, ask.lang)
    BY <1>2 DEF ResolveOn
  <2> QED BY <2>1, AnimeGGOutcome, Zenon
<1>3. CASE s.provider = "aniwaves"
  <2>1. r = AW!resolveOn(s.site, page, ask.episode, ask.lang)
    BY <1>3 DEF ResolveOn
  <2> QED BY <2>1, AniWavesOutcome, Zenon
<1>4. CASE s.provider = "kaa"
  <2>1. \E draw \in {"page", "walk"} : r = KA!resolveOn(s.site, page, ask.episode, ask.lang, draw)
    BY <1>4 DEF ResolveOn
  <2> QED BY <2>1, KaaOutcome, Zenon
<1>5. CASE s.provider = "mkissa"
  <2>1. r = MK!resolveOn(s.site, page, ask.episode, ask.lang)
    BY <1>5 DEF ResolveOn
  <2> QED BY <2>1, MkissaOutcome, Zenon
<1>6. CASE s.provider = "nin"
  <2>1. r \in NN!resolve(s.site, ask.episode, ask.lang)
    BY <1>6 DEF ResolveOn
  <2> QED BY <2>1, NiNOutcome, Zenon
<1>7. CASE s.provider = "novuscloud"
  <2>1. r = NC!resolveMirror(s.site, ask.episode, ask.lang)
    BY <1>7 DEF ResolveOn
  <2> QED BY <2>1, NovuscloudOutcome, Zenon
<1> QED BY <1>1, <1>2, <1>3, <1>4, <1>5, <1>6, <1>7 DEF Providers

LEMMA SamePages ==
    ASSUME scene \in Scene, NEW a, NEW b, ShowOf(a) = ShowOf(b)
    PROVE  Findable(scene, a) = Findable(scene, b)
<1>1. scene.provider \in Providers
  BY ScenesSound
<1>2. Losable(scene, a) = Losable(scene, b)
  BY <1>1 DEF Providers, Losable, ShowOf
<1>3. \A lost : Select(scene, a, lost) = Select(scene, b, lost)
  BY <1>1 DEF Providers, Select, ShowOf
<1> QED BY <1>2, <1>3 DEF Findable

LEMMA SelectFindable ==
    ASSUME NEW ask, NEW lost \in Losses(ask), NEW page \in Select(scene, ask, lost)
    PROVE  page \in Findable(scene, ask)
<1>1. lost \in SUBSET Losable(scene, ask)
  BY DEF Losses
<1> QED BY <1>1 DEF Findable

(* A list that is capped stays so where an entry is put in the place of    *)
(* what had to go.                                                         *)
LEMMA Replaced ==
    ASSUME NEW cap \in Nat \ {0}, NEW list, Capped(list, cap), NEW mayGo \in SUBSET list,
           NEW room \in IF Cardinality(list) < cap THEN {list} ELSE {list \ {e} : e \in mayGo},
           NEW kept \in SUBSET room, NEW x
    PROVE  kept \subseteq list /\ Capped(kept \union {x}, cap)
<1>1. IsFiniteSet(list) /\ Cardinality(list) \in Nat /\ Cardinality(list) <= cap
  BY FS_CardinalityType DEF Capped
<1>2. room \subseteq list /\ IsFiniteSet(room) /\ Cardinality(room) \in Nat /\ Cardinality(room) < cap
  <2>1. CASE Cardinality(list) < cap
    BY <1>1, <2>1
  <2>2. CASE ~(Cardinality(list) < cap)
    <3>1. PICK e \in list : room = list \ {e}
      BY <2>2
    <3>2. IsFiniteSet(list \ {e}) /\ Cardinality(list \ {e}) = Cardinality(list) - 1
      BY <1>1, FS_RemoveElement, Zenon
    <3> QED BY <1>1, <3>1, <3>2
  <2> QED BY <2>1, <2>2
<1>3. IsFiniteSet(kept) /\ Cardinality(kept) <= Cardinality(room)
  BY <1>2, FS_Subset
<1>4. Cardinality(kept) \in Nat
  BY <1>3, FS_CardinalityType
<1>5. IsFiniteSet(kept \union {x}) /\ Cardinality(kept \union {x}) <= Cardinality(kept) + 1
  <2>1. IsFiniteSet(kept \union {x})
        /\ Cardinality(kept \union {x}) = IF x \in kept THEN Cardinality(kept) ELSE Cardinality(kept) + 1
    BY <1>3, FS_AddElement, Zenon
  <2> QED BY <1>4, <2>1
<1>6. Cardinality(kept \union {x}) \in Nat
  BY <1>5, FS_CardinalityType
<1> QED BY <1>2, <1>3, <1>4, <1>5, <1>6 DEF Capped

LEMMA CappedSubset ==
    ASSUME NEW cap \in Nat, NEW list, Capped(list, cap), NEW part \in SUBSET list
    PROVE  Capped(part, cap)
<1>1. IsFiniteSet(list) /\ Cardinality(list) \in Nat
  BY FS_CardinalityType DEF Capped
<1>2. IsFiniteSet(part) /\ Cardinality(part) <= Cardinality(list)
  BY <1>1, FS_Subset
<1>3. Cardinality(part) \in Nat
  BY <1>2, FS_CardinalityType
<1> QED BY <1>1, <1>2, <1>3 DEF Capped

LEMMA CappedEmpty == \A cap \in Nat : Capped({}, cap)
BY FS_EmptySet DEF Capped

LEMMA CappedImage ==
    ASSUME NEW cap \in Nat, NEW list, Capped(list, cap), NEW f, DOMAIN f = list
    PROVE  Capped({f[e] : e \in list}, cap)
<1> DEFINE T == {f[e] : e \in list}
           g == [e \in list |-> f[e]]
<1>1. IsFiniteSet(list) /\ Cardinality(list) \in Nat
  BY FS_CardinalityType DEF Capped
<1>2. g \in Surjection(list, T)
  BY DEF Surjection
<1> HIDE DEF T, g
<1>3. IsFiniteSet(T) /\ Cardinality(T) <= Cardinality(list)
  BY <1>1, <1>2, FS_Surjection, Zenon
<1>4. Cardinality(T) \in Nat
  BY <1>3, FS_CardinalityType
<1> QED BY <1>1, <1>3, <1>4 DEF Capped, T

-----------------------------------------------------------------------------
(* What requests are about.                                                *)
LEMMA RequestsInit == Init => RequestsSound
BY DEF Init, ProxyInit, SiteInit, RequestsSound, RequestSound, Places, Open

LEMMA SceneStays == [Next]_vars => scene' = scene
BY DEF Next, vars, world, Play, Ask, Work, Shed, tick, aging, restart, turn, clean, ofSite,
       resolveShow, resolveEpisode, bgRetryResolve, FindEpisodeSource

(* The steps of one request.                                               *)
Acts(p) == Play(p) \/ Ask(p) \/ Work(p) \/ Shed(p)

(* Nobody else's share in them changes.                                    *)
Alone(p) ==
    /\ step' \in [Proc -> Places]
    /\ DOMAIN task' = Proc /\ DOMAIN reply' = Proc /\ DOMAIN draft' = Proc
    /\ \A o \in Proc \ {p} : /\ step'[o] = step[o] /\ task'[o] = task[o]
                             /\ reply'[o] = reply[o] /\ draft'[o] = draft[o]

Changes(p, places) ==
    /\ \E place \in places : Go(p, place)
    /\ UNCHANGED task  \/ \E q : task' = [task EXCEPT ![p] = q]
    /\ UNCHANGED reply \/ \E r : Says(p, r)
    /\ UNCHANGED draft \/ \E list : draft' = [draft EXCEPT ![p] = list]

LEMMA ChangesAlone ==
    ASSUME RequestsSound, NEW p \in Proc, NEW places \in SUBSET Places, Changes(p, places)
    PROVE  Alone(p) /\ step'[p] \in places
<1>1. step' \in [Proc -> Places] /\ step'[p] \in places /\ \A o \in Proc \ {p} : step'[o] = step[o]
  BY DEF Changes, Go, RequestsSound
<1>2. DOMAIN task' = Proc /\ \A o \in Proc \ {p} : task'[o] = task[o]
  BY DEF Changes, RequestsSound
<1>3. DOMAIN reply' = Proc /\ \A o \in Proc \ {p} : reply'[o] = reply[o]
  BY DEF Changes, Says, RequestsSound
<1>4. DOMAIN draft' = Proc /\ \A o \in Proc \ {p} : draft'[o] = draft[o]
  BY DEF Changes, RequestsSound
<1> QED BY <1>1, <1>2, <1>3, <1>4 DEF Alone

LEMMA PlaysAlone ==
    ASSUME RequestsSound, NEW p \in Proc, Play(p)
    PROVE  Alone(p) /\ RequestSound(p)' /\ UNCHANGED warming
<1>1. PICK q \in scene.plays : Proxy(p, q)
  BY DEF Play
<1>2. UNCHANGED <<scene, warming>>
  BY DEF Play, ofSite, siteVars, world
<1>3. reply[p] = NoReply /\ task' = [task EXCEPT ![p] = q] /\ task'[p] = q
  BY <1>1 DEF Proxy, RequestsSound, RequestSound, Open
<1>4. ASSUME \E r : Says(p, r), \E place \in {"answered", "persist"} : Go(p, place),
             UNCHANGED draft \/ \E list : draft' = [draft EXCEPT ![p] = list]
      PROVE  Alone(p) /\ RequestSound(p)'
  <2>1. Changes(p, {"answered", "persist"})
    BY <1>3, <1>4 DEF Changes
  <2>2. Alone(p) /\ step'[p] \in {"answered", "persist"}
    BY <2>1, ChangesAlone DEF Places
  <2> QED BY <2>2 DEF RequestSound, Open
<1>5. ASSUME UNCHANGED <<reply, draft>>, \E place \in {"queued", "filling"} : Go(p, place)
      PROVE  Alone(p) /\ RequestSound(p)'
  <2>1. Changes(p, {"queued", "filling"})
    BY <1>3, <1>5 DEF Changes
  <2>2. Alone(p) /\ step'[p] \in {"queued", "filling"}
    BY <2>1, ChangesAlone DEF Places
  <2> QED BY <1>2, <1>3, <1>5, <2>2 DEF RequestSound
<1>6. ASSUME NEW e, serveRewrittenPlaylist(p, q.url, e, q.al)
      PROVE  Alone(p) /\ RequestSound(p)'
  BY <1>4, <1>6 DEF serveRewrittenPlaylist, Persist
<1> QED BY <1>1, <1>2, <1>4, <1>5, <1>6 DEF Proxy, cacheVars

(* The ways a call of a provider goes.                                     *)
Turns(p) ==
    \/ Go(p, "answered") /\ \E r : Says(p, r)
    \/ (Go(p, "resolving") \/ Go(p, "searching")) /\ UNCHANGED reply

LEMMA TurnsAlone ==
    ASSUME RequestsSound, NEW p \in Proc, Turns(p), UNCHANGED <<scene, draft>>, reply[p] = NoReply,
           task'[p].use \in {"find", "warm"} /\ task'[p].ask \in scene.asks,
           UNCHANGED task \/ \E q : task' = [task EXCEPT ![p] = q]
    PROVE  Alone(p) /\ RequestSound(p)'
<1>1. CASE Go(p, "answered") /\ \E r : Says(p, r)
  <2>1. Changes(p, {"answered"})
    BY <1>1 DEF Changes
  <2>2. Alone(p) /\ step'[p] = "answered"
    BY <2>1, ChangesAlone DEF Places
  <2> QED BY <2>2 DEF RequestSound, Open
<1>2. CASE (Go(p, "resolving") \/ Go(p, "searching")) /\ UNCHANGED reply
  <2>1. Changes(p, {"resolving", "searching"})
    BY <1>2 DEF Changes
  <2>2. Alone(p) /\ step'[p] \in {"resolving", "searching"}
    BY <2>1, ChangesAlone DEF Places
  <2> QED BY <1>2, <2>2 DEF RequestSound
<1> QED BY <1>1, <1>2 DEF Turns

LEMMA FromCacheTurns ==
    ASSUME NEW p, NEW ask, NEW noted, FromCache(p, ask, noted)
    PROVE  Turns(p)
BY DEF FromCache, Found, Turns

LEMMA FindTurns ==
    ASSUME scene \in Scene, NEW p, NEW ask, FindEpisodeSource(p, ask)
    PROVE  Turns(p)
<1>1. TurnedAway(p) => Turns(p)
  BY DEF TurnedAway, Found, Turns
<1>2. ASSUME SlugFirst(p, ask) PROVE Turns(p)
  BY <1>2, FromCacheTurns DEF SlugFirst, Turns
<1>3. scene.provider \in Providers
  BY ScenesSound
<1> QED
  BY <1>1, <1>2, <1>3, FromCacheTurns DEF FindEpisodeSource, CachedFirst, PauseFirst, ThrottleFirst, Providers

LEMMA FindsAlone ==
    ASSUME RequestsSound, NEW p \in Proc, Ask(p)
    PROVE  Alone(p) /\ RequestSound(p)' /\ UNCHANGED warming
<1>1. PICK ask \in scene.asks : FindEpisodeSource(p, ask)
  BY DEF Ask
<1>2. /\ UNCHANGED <<scene, warming, draft>> /\ reply[p] = NoReply
      /\ task' = [task EXCEPT ![p] = [use |-> "find", ask |-> ask]]
  BY <1>1 DEF FindEpisodeSource, world, Silent, RequestsSound, RequestSound, Open
<1>3. task'[p].use \in {"find", "warm"} /\ task'[p].ask \in scene.asks
  BY <1>2 DEF RequestsSound
<1>4. Turns(p)
  BY <1>1, FindTurns DEF RequestsSound
<1> QED BY <1>2, <1>3, <1>4, TurnsAlone

LEMMA WorksAlone ==
    ASSUME RequestsSound, NEW p \in Proc, Work(p) \/ Shed(p)
    PROVE  Alone(p) /\ RequestSound(p)' /\ warming' \subseteq scene.asks
<1>0. UNCHANGED scene
  BY SceneStays DEF Work, Shed, ofSite, world, resolveShow, resolveEpisode, bgRetryResolve
<1>1. ASSUME Changes(p, {"answered", "persist"}) PROVE Alone(p) /\ RequestSound(p)'
  <2>1. Alone(p) /\ step'[p] \in {"answered", "persist"}
    BY <1>1, ChangesAlone DEF Places
  <2> QED BY <2>1 DEF RequestSound, Open
<1>2. CASE ofSite /\ acquire(p)
  <2>1. Changes(p, {"filling"}) /\ UNCHANGED <<task, reply, warming>> /\ step[p] = "queued"
    BY <1>2 DEF acquire, ofSite, siteVars, Changes
  <2>2. Alone(p) /\ step'[p] = "filling"
    BY <2>1, ChangesAlone DEF Places
  <2> QED BY <1>0, <2>1, <2>2 DEF RequestsSound, RequestSound, Open
<1>3. CASE ofSite /\ fetch(p)
  <2>1. UNCHANGED <<task, warming>>
    BY <1>3 DEF fetch, ofSite, siteVars
  <2> DEFINE E == /\ \E place \in {"answered", "persist"} : Go(p, place)
                  /\ \E r : Says(p, r)
                  /\ UNCHANGED draft \/ \E list : draft' = [draft EXCEPT ![p] = list]
  <2>2. ASSUME NEW u PROVE Fails(p, u) => E
    BY DEF Fails
  <2>3. ASSUME NEW u, NEW cut PROVE Passes(p, u, cut) => E
    BY DEF Passes
  <2>4. ASSUME NEW u, NEW body, NEW al PROVE Serves(p, u, body, al) => E
    BY DEF Serves, serveRewrittenPlaylist, Persist
  <2>5. ASSUME NEW q, NEW got PROVE Key(p, q, got) => E
    BY <2>3 DEF Key
  <2> HIDE DEF E
  <2>6. E
    BY <1>3, <2>2, <2>3, <2>4, <2>5 DEF fetch, Hinted, Sniffed
  <2>7. Changes(p, {"answered", "persist"})
    BY <2>1, <2>6 DEF E, Changes
  <2> QED BY <1>1, <2>1, <2>7 DEF RequestsSound
<1>4. CASE ofSite /\ persistDynamicCDNEntries(p)
  <2>1. Changes(p, {"answered", "persist"}) /\ UNCHANGED warming
    BY <1>4 DEF persistDynamicCDNEntries, ofSite, siteVars, Changes
  <2> QED BY <1>1, <2>1 DEF RequestsSound
<1>5. CASE ofSite /\ done(p)
  <2>1. Changes(p, {"idle"}) /\ UNCHANGED warming /\ Says(p, NoReply)
    BY <1>5 DEF done, ofSite, siteVars, Changes
  <2>2. Alone(p) /\ step'[p] = "idle"
    BY <2>1, ChangesAlone DEF Places
  <2>3. reply'[p] = NoReply
    BY <2>1 DEF Says, RequestsSound
  <2> QED BY <2>1, <2>2, <2>3 DEF RequestsSound, RequestSound
<1>6. CASE Shed(p)
  <2>1. Changes(p, {"answered", "persist"}) /\ UNCHANGED warming
    BY <1>6 DEF Shed, shed, ofSite, siteVars, Changes
  <2> QED BY <1>1, <2>1 DEF RequestsSound
<1>7. CASE resolveShow(p)
  <2>1. UNCHANGED <<task, draft, warming>> /\ step[p] = "searching"
    BY <1>7 DEF resolveShow, FailsWith
  <2>2. Turns(p)
    BY <1>7, FromCacheTurns DEF resolveShow, FailsWith, Found, Turns
  <2> QED BY <1>0, <2>1, <2>2, TurnsAlone DEF RequestsSound, RequestSound, Open
<1>8. CASE resolveEpisode(p)
  <2>1. UNCHANGED task /\ step[p] = "resolving"
    BY <1>8 DEF resolveEpisode
  <2>2. task[p].ask \in scene.asks
    BY <2>1 DEF RequestsSound, RequestSound
  <2>3. ASSUME NEW kind PROVE Retried(p, kind) => warming' \subseteq scene.asks
    BY <2>2 DEF Retried, RequestsSound
  <2>4. ASSUME NEW kind, FailsWith(p, kind) PROVE Changes(p, {"answered", "persist"})
    BY <2>1, <2>4 DEF FailsWith, Found, Changes
  <2>5. ASSUME NEW page, NEW ask, Resolves(p, page, ask)
        PROVE  Changes(p, {"answered", "persist"}) /\ warming' \subseteq scene.asks
    BY <2>1, <2>3, <2>5 DEF Resolves, Persist, Changes
  <2>6. Changes(p, {"answered", "persist"}) /\ warming' \subseteq scene.asks
    BY <1>8, <2>3, <2>4, <2>5 DEF resolveEpisode, RequestsSound
  <2> QED BY <1>1, <2>6
<1>9. CASE bgRetryResolve(p)
  <2>1. PICK ask \in warming : task' = [task EXCEPT ![p] = [use |-> "warm", ask |-> ask]]
    BY <1>9 DEF bgRetryResolve
  <2>2. UNCHANGED <<draft, reply, warming>> /\ Go(p, "resolving") /\ reply[p] = NoReply
    BY <1>9 DEF bgRetryResolve, Silent, siteVars, RequestsSound, RequestSound, Open
  <2>3. task'[p].use \in {"find", "warm"} /\ task'[p].ask \in scene.asks
    BY <2>1 DEF RequestsSound
  <2>4. Turns(p)
    BY <2>2 DEF Turns
  <2> QED BY <1>0, <2>1, <2>2, <2>3, <2>4, TurnsAlone DEF RequestsSound
<1> QED BY <1>2, <1>3, <1>4, <1>5, <1>6, <1>7, <1>8, <1>9 DEF Work

LEMMA ActsAlone ==
    ASSUME RequestsSound, NEW p \in Proc, Acts(p)
    PROVE  Alone(p) /\ RequestSound(p)' /\ warming' \subseteq scene.asks
BY PlaysAlone, FindsAlone, WorksAlone DEF Acts, RequestsSound

(* The steps of no request.                                                *)
LEMMA Others == Next => (\E p \in Proc : Acts(p)) \/ tick \/ restart \/ turn \/ clean
BY DEF Next, Acts

LEMMA RequestsStep == RequestsSound /\ [Next]_vars => RequestsSound'
<1> SUFFICES ASSUME RequestsSound, [Next]_vars PROVE RequestsSound'
  OBVIOUS
<1>0. scene' = scene
  BY SceneStays
<1>1. ASSUME NEW p \in Proc, Acts(p) PROVE RequestsSound'
  <2>1. Alone(p) /\ RequestSound(p)' /\ warming' \subseteq scene.asks
    BY <1>1, ActsAlone
  <2>2. ASSUME NEW o \in Proc \ {p} PROVE RequestSound(o)'
    <3>1. step'[o] = step[o] /\ task'[o] = task[o] /\ reply'[o] = reply[o]
      BY <2>1 DEF Alone
    <3>2. RequestSound(o)
      BY DEF RequestsSound
    <3> QED BY <1>0, <3>1, <3>2 DEF RequestSound
  <2>3. \A o \in Proc : RequestSound(o)'
    BY <2>1, <2>2
  <2> QED BY <1>0, <2>1, <2>3 DEF RequestsSound, Alone
<1>2. CASE tick
  BY <1>0, <1>2 DEF tick, ProxyTick, procVars, RequestsSound, RequestSound
<1>3. CASE restart
  BY <1>0, <1>3 DEF restart, ProxyRestart, RequestsSound, RequestSound, Places
<1>4. CASE turn \/ clean \/ UNCHANGED vars
  BY <1>0, <1>4 DEF turn, clean, vars, proxyVars, procVars, siteVars, RequestsSound, RequestSound
<1> QED BY <1>1, <1>2, <1>3, <1>4, Others

-----------------------------------------------------------------------------
(* Slots.                                                                  *)
LEMMA SlotsInit == Init => SlotsSound
<1> SUFFICES ASSUME Init PROVE SlotsSound
  OBVIOUS
<1>1. slots = {} /\ step = [p \in Proc |-> "idle"]
  BY DEF Init, ProxyInit
<1>2. IsFiniteSet({}) /\ Cardinality({}) = 0
  BY FS_EmptySet
<1> QED BY <1>1, <1>2, Bounds DEF SlotsSound

LEMMA SlotTaken ==
    ASSUME SlotsSound, RequestsSound, NEW p \in Proc, Cardinality(slots) < FillCap,
           slots' = slots \union {p}, Go(p, "filling")
    PROVE  SlotsSound'
<1>1. IsFiniteSet(slots') /\ Cardinality(slots') <= Cardinality(slots) + 1
  <2>1. IsFiniteSet(slots \union {p})
        /\ Cardinality(slots \union {p}) = IF p \in slots THEN Cardinality(slots) ELSE Cardinality(slots) + 1
    BY FS_AddElement DEF SlotsSound
  <2>2. Cardinality(slots) \in Nat
    BY FS_CardinalityType DEF SlotsSound
  <2> QED BY <2>1, <2>2
<1>2. Cardinality(slots') <= FillCap
  BY <1>1, FS_CardinalityType, Bounds DEF SlotsSound
<1>3. /\ slots' \subseteq Proc
      /\ \A o \in Proc : /\ step'[o] = "filling" => o \in slots'
                         /\ o \in slots' => step'[o] \in {"filling", "persist", "answered"}
  BY DEF SlotsSound, RequestsSound, Go
<1> QED BY <1>1, <1>2, <1>3 DEF SlotsSound

LEMMA SlotKept ==
    ASSUME SlotsSound, RequestsSound, NEW p \in Proc, slots' = slots, Alone(p), step'[p] # "filling",
           p \in slots => step'[p] \in {"persist", "answered"}
    PROVE  SlotsSound'
<1>1. \A o \in Proc : /\ step'[o] = "filling" => o \in slots
                      /\ o \in slots => step'[o] \in {"filling", "persist", "answered"}
  BY DEF SlotsSound, RequestsSound, Alone
<1> QED BY <1>1 DEF SlotsSound

LEMMA SlotGiven ==
    ASSUME SlotsSound, RequestsSound, NEW p \in Proc, slots' = slots \ {p}, Alone(p), step'[p] # "filling"
    PROVE  SlotsSound'
<1>1. IsFiniteSet(slots') /\ Cardinality(slots') <= Cardinality(slots)
  BY FS_Subset DEF SlotsSound
<1>2. Cardinality(slots') <= FillCap
  BY <1>1, FS_CardinalityType, Bounds DEF SlotsSound
<1>3. /\ slots' \subseteq Proc
      /\ \A o \in Proc : /\ step'[o] = "filling" => o \in slots'
                         /\ o \in slots' => step'[o] \in {"filling", "persist", "answered"}
  BY DEF SlotsSound, RequestsSound, Alone
<1> QED BY <1>1, <1>2, <1>3 DEF SlotsSound

LEMMA SlotsAct ==
    ASSUME SlotsSound, RequestsSound, NEW p \in Proc, Acts(p)
    PROVE  SlotsSound'
<1>0. Alone(p)
  BY ActsAlone
<1>1. ASSUME UNCHANGED slots, step[p] \notin {"filling", "persist", "answered"},
             step'[p] # "filling"
      PROVE  SlotsSound'
  BY <1>0, <1>1, SlotKept DEF SlotsSound
<1>2. ASSUME UNCHANGED slots, step'[p] \in {"persist", "answered"} PROVE SlotsSound'
  BY <1>0, <1>2, SlotKept
<1>3. CASE Play(p)
  <2>1. PICK q \in scene.plays : Proxy(p, q)
    BY <1>3 DEF Play
  <2>2. step[p] = "idle"
    BY <2>1 DEF Proxy
  <2>3. CASE Cardinality(slots) < FillCap /\ slots' = slots \union {p} /\ Go(p, "filling")
    BY <2>3, SlotTaken
  <2>4. CASE UNCHANGED slots /\ \E place \in {"queued", "answered", "persist"} : Go(p, place)
    <3>1. step'[p] # "filling"
      BY <2>4 DEF Go, RequestsSound
    <3> QED BY <1>1, <2>2, <2>4, <3>1
  <2>5. ASSUME NEW e, serveRewrittenPlaylist(p, q.url, e, q.al) PROVE \E place \in {"answered", "persist"} : Go(p, place)
    BY <2>5 DEF serveRewrittenPlaylist, Persist
  <2> QED BY <2>1, <2>3, <2>4, <2>5 DEF Proxy
<1>4. CASE Ask(p)
  <2>1. PICK ask \in scene.asks : FindEpisodeSource(p, ask)
    BY <1>4 DEF Ask
  <2>2. step[p] = "idle" /\ UNCHANGED slots
    BY <2>1 DEF FindEpisodeSource, Silent
  <2>3. Turns(p)
    BY <2>1, FindTurns DEF RequestsSound
  <2>4. step'[p] # "filling"
    BY <2>3 DEF Turns, Go, RequestsSound
  <2> QED BY <1>1, <2>2, <2>4
<1>5. CASE Work(p) \/ Shed(p)
  <2>1. CASE ofSite /\ acquire(p)
    BY <2>1, SlotTaken DEF acquire
  <2>2. CASE ofSite /\ fetch(p)
    <3> DEFINE E == \E place \in {"answered", "persist"} : Go(p, place)
    <3>1. ASSUME NEW u PROVE Fails(p, u) => E
      BY DEF Fails
    <3>2. ASSUME NEW u, NEW cut PROVE Passes(p, u, cut) => E
      BY DEF Passes
    <3>3. ASSUME NEW u, NEW body, NEW al PROVE Serves(p, u, body, al) => E
      BY DEF Serves, serveRewrittenPlaylist, Persist
    <3>4. ASSUME NEW q, NEW got PROVE Key(p, q, got) => E
      BY <3>2 DEF Key
    <3> HIDE DEF E
    <3>5. E /\ UNCHANGED slots
      BY <2>2, <3>1, <3>2, <3>3, <3>4 DEF fetch, Hinted, Sniffed
    <3>6. step'[p] \in {"persist", "answered"}
      BY <3>5 DEF E, Go, RequestsSound
    <3> QED BY <1>2, <3>5, <3>6
  <2>3. CASE ofSite /\ persistDynamicCDNEntries(p)
    BY <1>2, <2>3 DEF persistDynamicCDNEntries, Go, RequestsSound
  <2>4. CASE ofSite /\ done(p)
    <3>1. step'[p] # "filling" /\ slots' = slots \ {p}
      BY <2>4 DEF done, Go, RequestsSound
    <3> QED BY <1>0, <3>1, SlotGiven
  <2>5. CASE Shed(p)
    BY <1>2, <2>5 DEF Shed, shed, Go, RequestsSound
  <2>6. CASE resolveShow(p)
    <3>1. UNCHANGED slots /\ step[p] = "searching"
      BY <2>6 DEF resolveShow
    <3>2. Turns(p)
      BY <2>6, FromCacheTurns DEF resolveShow, FailsWith, Found, Turns
    <3>3. step'[p] # "filling"
      BY <3>2 DEF Turns, Go, RequestsSound
    <3> QED BY <1>1, <3>1, <3>3
  <2>7. CASE resolveEpisode(p)
    <3>1. UNCHANGED slots /\ step[p] = "resolving"
      BY <2>7 DEF resolveEpisode
    <3>2. \E place \in {"answered", "persist"} : Go(p, place)
      BY <2>7 DEF resolveEpisode, FailsWith, Found, Resolves, Persist
    <3>3. step'[p] \in {"persist", "answered"}
      BY <3>2 DEF Go, RequestsSound
    <3> QED BY <1>2, <3>1, <3>3
  <2>8. CASE bgRetryResolve(p)
    <3>1. UNCHANGED slots /\ step[p] = "idle" /\ Go(p, "resolving")
      BY <2>8 DEF bgRetryResolve, Silent
    <3>2. step'[p] # "filling"
      BY <3>1 DEF Go, RequestsSound
    <3> QED BY <1>1, <3>1, <3>2
  <2> QED BY <1>5, <2>1, <2>2, <2>3, <2>4, <2>5, <2>6, <2>7, <2>8 DEF Work
<1> QED BY <1>3, <1>4, <1>5 DEF Acts

LEMMA SlotsStep == SlotsSound /\ RequestsSound /\ [Next]_vars => SlotsSound'
<1> SUFFICES ASSUME SlotsSound, RequestsSound, [Next]_vars PROVE SlotsSound'
  OBVIOUS
<1>1. CASE restart
  <2>1. slots' = {} /\ step' = [p \in Proc |-> "idle"]
    BY <1>1 DEF restart, ProxyRestart
  <2>2. IsFiniteSet({}) /\ Cardinality({}) = 0
    BY FS_EmptySet
  <2> QED BY <2>1, <2>2, Bounds DEF SlotsSound
<1>2. CASE tick \/ turn \/ clean \/ UNCHANGED vars
  <2>1. UNCHANGED <<slots, step>>
    BY <1>2 DEF tick, ProxyTick, turn, clean, vars, proxyVars, procVars
  <2> QED BY <2>1 DEF SlotsSound
<1> QED BY <1>1, <1>2, Others, SlotsAct

-----------------------------------------------------------------------------
(* Shows and results.                                                      *)
LEMMA PagesFound ==
    ASSUME RequestsSound, ShowsSound, NEW ask \in scene.asks, NEW lost \in Losses(ask), NEW page \in Pages(ask, lost)
    PROVE  page \in Findable(scene, ask)
<1>1. CASE loadShow(ask) # {}
  <2>1. PICK e \in shows : e.lang = ShowOf(ask) /\ page = e.page
    BY <1>1 DEF Pages, Kept, loadShow
  <2>2. PICK a \in scene.asks : \E x \in Findable(scene, a), n \in Nat : e = [lang |-> ShowOf(a), page |-> x, age |-> n]
    BY DEF ShowsSound
  <2>3. ShowOf(a) = ShowOf(ask) /\ page \in Findable(scene, a)
    BY <2>1, <2>2
  <2> QED BY <2>3, SamePages DEF RequestsSound
<1>2. CASE loadShow(ask) = {}
  BY <1>2, SelectFindable DEF Pages
<1> QED BY <1>1, <1>2

LEMMA StoresShow ==
    ASSUME ShowsSound, RequestsSound, UNCHANGED scene, NEW ask \in scene.asks, NEW page \in Findable(scene, ask),
           storeShow(ask, page)
    PROVE  ShowsSound'
<1> DEFINE kept == Unexpired(shows, ShowTTL)
           new  == [lang |-> ShowOf(ask), page |-> page, age |-> 0]
<1>1. PICK rest \in Stored(kept, kept) : shows' = {e \in rest : e.lang # ShowOf(ask)} \union {new}
  BY DEF storeShow
<1>2. kept \subseteq shows
  BY DEF Unexpired
<1>3. Capped(kept, MaxEntries)
  BY <1>2, CappedSubset, Bounds DEF ShowsSound
<1> HIDE DEF kept, new
<1> DEFINE stay == {e \in rest : e.lang # ShowOf(ask)}
<1>4. stay \subseteq kept /\ Capped(shows', MaxEntries)
  <2>1. stay \in SUBSET rest
    OBVIOUS
  <2>2. rest \in IF Cardinality(kept) < MaxEntries THEN {kept} ELSE {kept \ {e} : e \in kept}
    BY <1>1 DEF Stored
  <2>3. shows' = stay \union {new}
    BY <1>1
  <2> HIDE DEF stay
  <2>4. stay \subseteq rest /\ rest \subseteq kept
    BY <1>2, <2>1, <2>2
  <2>5. MaxEntries \in Nat \ {0} /\ kept \in SUBSET kept
    BY <1>2, Bounds
  <2>6. Capped(stay \union {new}, MaxEntries)
    BY <1>3, <2>1, <2>2, <2>5, Replaced, Zenon
  <2> QED BY <2>3, <2>4, <2>6
<1>5. \A e \in shows' : \E a \in scene.asks : \E x \in Findable(scene, a), n \in Nat :
          e = [lang |-> ShowOf(a), page |-> x, age |-> n]
  <2>1. \E a \in scene.asks : \E x \in Findable(scene, a), n \in Nat : new = [lang |-> ShowOf(a), page |-> x, age |-> n]
    BY DEF new
  <2> QED BY <1>1, <1>2, <1>4, <2>1 DEF ShowsSound
<1>6. \A a : ShowOf(a)' = ShowOf(a)
  BY DEF ShowOf
<1>7. \A a : Findable(scene, a)' = Findable(scene, a)
  OBVIOUS
<1> QED BY <1>4, <1>5, <1>6, <1>7 DEF ShowsSound

LEMMA StoresResolved ==
    ASSUME ResolvedSound, RequestsSound, UNCHANGED scene, NEW ask \in scene.asks, NEW result \in Results(ask),
           storeResolved(ask, result)
    PROVE  ResolvedSound'
<1> DEFINE ttl  == IF Strict THEN StrictResolveTTL ELSE ResolveTTL
           kept == Unexpired(resolved, ttl)
           may  == IF ByPage THEN kept ELSE Oldest(kept)
           new  == [ask |-> ask, result |-> result, age |-> 0]
<1>1. PICK rest \in Stored(kept, may) : resolved' = {e \in rest : e.ask # ask} \union {new}
  BY DEF storeResolved
<1>2. kept \subseteq resolved /\ may \in SUBSET kept
  BY DEF Unexpired, Oldest
<1>3. Capped(kept, MaxEntries)
  BY <1>2, CappedSubset, Bounds DEF ResolvedSound
<1> HIDE DEF ttl, kept, may, new
<1> DEFINE stay == {e \in rest : e.ask # ask}
<1>4. stay \subseteq kept /\ Capped(resolved', MaxEntries)
  <2>1. stay \in SUBSET rest
    OBVIOUS
  <2>2. rest \in IF Cardinality(kept) < MaxEntries THEN {kept} ELSE {kept \ {e} : e \in may}
    BY <1>1 DEF Stored
  <2>3. resolved' = stay \union {new}
    BY <1>1
  <2> HIDE DEF stay
  <2>4. stay \subseteq rest /\ rest \subseteq kept
    BY <1>2, <2>1, <2>2
  <2>5. MaxEntries \in Nat \ {0} /\ may \in SUBSET kept
    BY <1>2, Bounds
  <2>6. Capped(stay \union {new}, MaxEntries)
    BY <1>3, <2>1, <2>2, <2>5, Replaced, Zenon
  <2> QED BY <2>3, <2>4, <2>6
<1>5. \A e \in resolved' : \E a \in scene.asks : \E r \in Results(a), n \in Nat : e = [ask |-> a, result |-> r, age |-> n]
  <2>1. \E a \in scene.asks : \E r \in Results(a), n \in Nat : new = [ask |-> a, result |-> r, age |-> n]
    BY DEF new
  <2> QED BY <1>1, <1>2, <1>4, <2>1 DEF ResolvedSound
<1>6. \A a : Results(a)' = Results(a)
  BY DEF Results
<1> QED BY <1>4, <1>5, <1>6 DEF ResolvedSound

(* Time passes.                                                            *)
LEMMA AgesCapped ==
    ASSUME NEW cap \in Nat, NEW list, Capped(list, cap), NEW max
    PROVE  Capped(Ages(list, max), cap)
<1> DEFINE f == [e \in list |-> [e EXCEPT !.age = IF @ > max THEN @ ELSE @ + 1]]
<1>1. Ages(list, max) = {f[e] : e \in list}
  BY DEF Ages
<1>2. DOMAIN f = list
  OBVIOUS
<1> HIDE DEF f
<1> QED BY <1>1, <1>2, CappedImage

Later(e, max) == [e EXCEPT !.age = IF @ > max THEN @ ELSE @ + 1]

LEMMA AgesLater ==
    ASSUME NEW list, NEW max
    PROVE  Ages(list, max) = {Later(e, max) : e \in list}
BY DEF Ages, Later

LEMMA AgeGrows ==
    ASSUME NEW n \in Nat, NEW max
    PROVE  (IF n > max THEN n ELSE n + 1) \in Nat
OBVIOUS

LEMMA ShowsAge ==
    ASSUME ShowsSound, UNCHANGED scene, shows' = Ages(shows, ShowTTL)
    PROVE  ShowsSound'
<1>1. Capped(shows', MaxEntries)
  BY AgesCapped, Bounds DEF ShowsSound
<1>2. \A e \in shows' : \E a \in scene.asks : \E x \in Findable(scene, a), n \in Nat :
          e = [lang |-> ShowOf(a), page |-> x, age |-> n]
  <2>1. ASSUME NEW e \in shows
        PROVE  \E a \in scene.asks : \E x \in Findable(scene, a), n \in Nat :
                  Later(e, ShowTTL) = [lang |-> ShowOf(a), page |-> x, age |-> n]
    <3>0. PICK a \in scene.asks : \E x \in Findable(scene, a), n \in Nat : e = [lang |-> ShowOf(a), page |-> x, age |-> n]
      BY DEF ShowsSound
    <3>1. PICK x \in Findable(scene, a), n \in Nat : e = [lang |-> ShowOf(a), page |-> x, age |-> n]
      BY <3>0
    <3>2. Later(e, ShowTTL) = [lang |-> ShowOf(a), page |-> x, age |-> IF n > ShowTTL THEN n ELSE n + 1]
      BY <3>1 DEF Later
    <3> QED BY <3>2, AgeGrows
  <2> QED BY <2>1, AgesLater
<1>3. \A a : ShowOf(a)' = ShowOf(a)
  BY DEF ShowOf
<1> QED BY <1>1, <1>2, <1>3 DEF ShowsSound

LEMMA ResolvedAge ==
    ASSUME ResolvedSound, UNCHANGED scene, NEW ttl, resolved' = Ages(resolved, ttl)
    PROVE  ResolvedSound'
<1>1. Capped(resolved', MaxEntries)
  BY AgesCapped, Bounds DEF ResolvedSound
<1>2. \A e \in resolved' : \E a \in scene.asks : \E r \in Results(a), n \in Nat : e = [ask |-> a, result |-> r, age |-> n]
  <2>1. ASSUME NEW e \in resolved
        PROVE  \E a \in scene.asks : \E r \in Results(a), n \in Nat : Later(e, ttl) = [ask |-> a, result |-> r, age |-> n]
    <3>0. PICK a \in scene.asks : \E r \in Results(a), n \in Nat : e = [ask |-> a, result |-> r, age |-> n]
      BY DEF ResolvedSound
    <3>1. PICK r \in Results(a), n \in Nat : e = [ask |-> a, result |-> r, age |-> n]
      BY <3>0
    <3>2. Later(e, ttl) = [ask |-> a, result |-> r, age |-> IF n > ttl THEN n ELSE n + 1]
      BY <3>1 DEF Later
    <3> QED BY <3>2, AgeGrows
  <2> QED BY <2>1, AgesLater
<1>3. \A a : Results(a)' = Results(a)
  BY DEF Results
<1> QED BY <1>1, <1>2, <1>3 DEF ResolvedSound

LEMMA ShowsAct ==
    ASSUME ShowsSound, RequestsSound, UNCHANGED scene, NEW p \in Proc, Acts(p)
    PROVE  ShowsSound'
<1>1. ASSUME UNCHANGED shows PROVE ShowsSound'
  <2>1. \A a : ShowOf(a)' = ShowOf(a)
    BY DEF ShowOf
  <2> QED BY <1>1, <2>1 DEF ShowsSound
<1>2. CASE resolveShow(p)
  <2>1. task[p].ask \in scene.asks
    BY <1>2 DEF resolveShow, RequestsSound, RequestSound
  <2>2. UNCHANGED shows \/ \E page \in Findable(scene, task[p].ask) : storeShow(task[p].ask, page)
    BY <1>2, SelectFindable DEF resolveShow, FailsWith
  <2> QED BY <1>1, <2>1, <2>2, StoresShow
<1>3. CASE resolveEpisode(p)
  <2>1. task[p].ask \in scene.asks
    BY <1>3 DEF resolveEpisode, RequestsSound, RequestSound
  <2>2. UNCHANGED shows \/ \E lost \in Losses(task[p].ask) : \E page \in Pages(task[p].ask, lost) :
           storeShow(task[p].ask, page)
    BY <1>3 DEF resolveEpisode, FailsWith, Resolves, KeepShow
  <2> QED BY <1>1, <2>1, <2>2, StoresShow, PagesFound
<1>4. CASE ~resolveShow(p) /\ ~resolveEpisode(p)
  <2>1. UNCHANGED shows
    BY <1>4 DEF Acts, Play, Ask, Work, Shed, ofSite, siteVars, FindEpisodeSource, bgRetryResolve
  <2> QED BY <1>1, <2>1
<1> QED BY <1>2, <1>3, <1>4

LEMMA ShowsStep == ShowsSound /\ RequestsSound /\ [Next]_vars => ShowsSound'
<1> SUFFICES ASSUME ShowsSound, RequestsSound, [Next]_vars PROVE ShowsSound'
  OBVIOUS
<1>0. UNCHANGED scene
  BY SceneStays
<1>1. CASE tick
  BY <1>0, <1>1, ShowsAge DEF tick, aging
<1>2. CASE restart
  <2>1. shows' = {}
    BY <1>2 DEF restart
  <2>2. Capped({}, MaxEntries)
    BY CappedEmpty, Bounds
  <2> QED BY <2>1, <2>2 DEF ShowsSound
<1>3. CASE turn \/ clean \/ UNCHANGED vars
  <2>1. UNCHANGED shows
    BY <1>3 DEF turn, clean, vars, siteVars
  <2>2. \A a : ShowOf(a)' = ShowOf(a)
    BY <1>0 DEF ShowOf
  <2> QED BY <1>0, <2>1, <2>2 DEF ShowsSound
<1> QED BY <1>0, <1>1, <1>2, <1>3, Others, ShowsAct

LEMMA ResolvedAct ==
    ASSUME ResolvedSound, ShowsSound, RequestsSound, UNCHANGED scene, NEW p \in Proc, Acts(p)
    PROVE  ResolvedSound'
<1>1. ASSUME UNCHANGED resolved PROVE ResolvedSound'
  <2>1. \A a : Results(a)' = Results(a)
    BY DEF Results
  <2> QED BY <1>1, <2>1 DEF ResolvedSound
<1>2. CASE resolveEpisode(p)
  <2>1. task[p].ask \in scene.asks
    BY <1>2 DEF resolveEpisode, RequestsSound, RequestSound
  <2>2. UNCHANGED resolved \/ \E lost \in Losses(task[p].ask) : \E page \in Pages(task[p].ask, lost) :
           \E result \in ResolveOn(scene, page, task[p].ask) :
              result.kind = "sources" /\ storeResolved(task[p].ask, result)
    BY <1>2 DEF resolveEpisode, FailsWith, Resolves
  <2>3. \A lost \in Losses(task[p].ask) : \A page \in Pages(task[p].ask, lost) : page \in Findable(scene, task[p].ask)
    BY <2>1, PagesFound
  <2>4. UNCHANGED resolved \/ \E result \in Results(task[p].ask) : storeResolved(task[p].ask, result)
    BY <2>2, <2>3 DEF Results
  <2> QED BY <1>1, <2>1, <2>4, StoresResolved
<1>3. CASE ~resolveEpisode(p)
  <2>1. UNCHANGED resolved
    BY <1>3 DEF Acts, Play, Ask, Work, Shed, ofSite, siteVars, FindEpisodeSource, resolveShow, FailsWith, bgRetryResolve
  <2> QED BY <1>1, <2>1
<1> QED BY <1>2, <1>3

LEMMA ResolvedStep == ResolvedSound /\ ShowsSound /\ RequestsSound /\ [Next]_vars => ResolvedSound'
<1> SUFFICES ASSUME ResolvedSound, ShowsSound, RequestsSound, [Next]_vars PROVE ResolvedSound'
  OBVIOUS
<1>0. UNCHANGED scene
  BY SceneStays
<1>1. CASE tick
  BY <1>0, <1>1, ResolvedAge DEF tick, aging
<1>2. CASE restart
  <2>1. resolved' = {}
    BY <1>2 DEF restart
  <2>2. Capped({}, MaxEntries)
    BY CappedEmpty, Bounds
  <2> QED BY <2>1, <2>2 DEF ResolvedSound
<1>3. CASE turn \/ clean \/ UNCHANGED vars
  <2>1. UNCHANGED resolved
    BY <1>3 DEF turn, clean, vars, siteVars
  <2>2. \A a : Results(a)' = Results(a)
    BY <1>0 DEF Results
  <2> QED BY <1>0, <2>1, <2>2 DEF ResolvedSound
<1> QED BY <1>0, <1>1, <1>2, <1>3, Others, ResolvedAct

-----------------------------------------------------------------------------
(* Answers.  What a step makes of the answer to a request: it leaves it,   *)
(* or answers with a playlist that has been read right, with what the      *)
(* provider resolves, or with nothing that is played.                      *)
AnswersPlaylist(p) ==
    /\ task'[p] \in scene.plays
    /\ \E body : /\ SoundBody(scene, task'[p].url, body)
                 /\ reply'[p] = [kind |-> "playlist", url |-> task'[p].url, cut |-> body.cut,
                                 audio |-> stripAudioRenditions(body.audio, task'[p].al)]

AnswersSources(p) == task'[p].ask \in scene.asks /\ reply'[p] \in Results(task'[p].ask)

Answers(p) ==
    \/ reply'[p] = reply[p] /\ (task'[p] = task[p] \/ reply[p] = NoReply)
    \/ reply'[p].kind \notin {"sources", "playlist"}
    \/ AnswersPlaylist(p) \/ AnswersSources(p)

LEMMA FromCacheAnswers ==
    ASSUME ResolvedSound, RequestsSound, NEW p \in Proc, NEW ask, NEW noted, FromCache(p, ask, noted)
    PROVE  reply'[p] = reply[p] \/ reply'[p] \in Results(ask)
<1>1. CASE UNCHANGED reply
  BY <1>1
<1>2. CASE \E e \in loadResolved(ask) : Found(p, e.result)
  <2>1. PICK e \in resolved : e.ask = ask /\ Says(p, e.result)
    BY <1>2 DEF loadResolved, Found
  <2>2. e.result \in Results(ask)
    BY <2>1 DEF ResolvedSound
  <2> QED BY <2>1, <2>2 DEF Says, RequestsSound
<1> QED BY <1>1, <1>2 DEF FromCache

LEMMA FindAnswers ==
    ASSUME ResolvedSound, RequestsSound, NEW p \in Proc, NEW ask \in scene.asks, FindEpisodeSource(p, ask)
    PROVE  Answers(p)
<1>1. reply[p] = NoReply /\ task'[p].ask = ask
  BY DEF FindEpisodeSource, RequestsSound, RequestSound, Open
<1>2. ASSUME TurnedAway(p) PROVE reply'[p].kind = "throttled"
  BY <1>2 DEF TurnedAway, Found, Says, RequestsSound
<1>3. ASSUME SlugFirst(p, ask) PROVE reply'[p] = reply[p] \/ reply'[p] \in Results(ask)
  BY <1>3, FromCacheAnswers DEF SlugFirst
<1>4. scene.provider \in Providers
  BY ScenesSound DEF RequestsSound
<1>5. reply'[p] = reply[p] \/ reply'[p] \in Results(ask) \/ TurnedAway(p)
  BY <1>3, <1>4, FromCacheAnswers DEF FindEpisodeSource, CachedFirst, PauseFirst, ThrottleFirst, Providers
<1> QED BY <1>1, <1>2, <1>5 DEF Answers, AnswersSources

LEMMA ServesAnswers ==
    ASSUME RequestsSound, NEW p \in Proc, NEW body, task'[p] \in scene.plays, SoundBody(scene, task'[p].url, body),
           serveRewrittenPlaylist(p, task'[p].url, body, task'[p].al)
    PROVE  AnswersPlaylist(p)
<1>1. reply'[p] = [kind |-> "playlist", url |-> task'[p].url, cut |-> body.cut,
                   audio |-> stripAudioRenditions(body.audio, task'[p].al)]
  BY DEF serveRewrittenPlaylist, Says, RequestsSound
<1> QED BY <1>1, Zenon DEF AnswersPlaylist

LEMMA PlayAnswers ==
    ASSUME CacheSound, RequestsSound, NEW p \in Proc, NEW q \in scene.plays, Proxy(p, q)
    PROVE  Answers(p)
<1>1. reply[p] = NoReply /\ task'[p] = q
  BY DEF Proxy, RequestsSound, RequestSound, Open
<1>2. ASSUME NEW e \in Cached(q), serveRewrittenPlaylist(p, q.url, e, q.al) PROVE Answers(p)
  <2>1. e \in playlists /\ e.url = q.url
    BY <1>2 DEF Cached, VODCacheGet
  <2>2. SoundBody(scene, q.url, e)
    BY <2>1 DEF CacheSound, PlaylistLists, PlaylistEntries
  <2> QED BY <1>1, <1>2, <2>2, ServesAnswers DEF Answers
<1>3. ASSUME NEW r, Says(p, r), r.kind \in {"forbidden", "key"} PROVE Answers(p)
  BY <1>3 DEF Says, RequestsSound, Answers
<1>4. UNCHANGED reply => Answers(p)
  BY <1>1 DEF Answers
<1> QED BY <1>2, <1>3, <1>4 DEF Proxy, Answer

LEMMA BodiesSound ==
    ASSUME NEW s, NEW u \in Url
    PROVE  /\ SoundBody(s, u, First(u, 2))
           /\ u \in FirstHops(s) => SoundBody(s, u, First(u, 1))
           /\ SoundBody(s, u, [Whole(u) EXCEPT !.cut = FALSE])
           /\ SoundBody(s, u, [Whole(u) EXCEPT !.cut = Page[u].size = 4])
<1> DEFINE T == [size |-> Page[u].size, cut |-> FALSE, audio |-> Page[u].audio]
<1>1. Whole(u) = T /\ Page[u].size \in 1 .. 4
  BY MediaProxyAssumption DEF Whole
<1>2. Page[u].audio \in Audios /\ Page[u].audio \ Page[u].far \in Audios
  BY DEF Audios
<1>3. ASSUME NEW c \in BOOLEAN, Spared(s, u) => ~c
      PROVE  SoundBody(s, u, [Whole(u) EXCEPT !.cut = c])
  <2>1. [T EXCEPT !.cut = c].cut = c /\ [T EXCEPT !.cut = c].audio = Page[u].audio
        /\ [T EXCEPT !.cut = c].size = Page[u].size
    OBVIOUS
  <2> QED BY <1>1, <1>2, <1>3, <2>1 DEF SoundBody
<1>4. SoundBody(s, u, Whole(u))
  BY <1>1, <1>2 DEF SoundBody
<1>5. ASSUME NEW n \in Nat, NEW audio \in Audios, ~Spared(s, u)
      PROVE  SoundBody(s, u, [size |-> n, cut |-> TRUE, audio |-> audio])
  BY <1>5 DEF SoundBody
<1>6. SoundBody(s, u, First(u, 2))
  <2>1. CASE Page[u].size <= 2
    BY <1>4, <2>1 DEF First
  <2>2. CASE ~(Page[u].size <= 2)
    <3>1. ~Spared(s, u) /\ First(u, 2) = [size |-> 2, cut |-> TRUE, audio |-> Page[u].audio]
      BY <1>1, <2>2 DEF First, Spared
    <3> QED BY <1>2, <1>5, <3>1
  <2> QED BY <2>1, <2>2
<1>7. ASSUME u \in FirstHops(s) PROVE SoundBody(s, u, First(u, 1))
  <2>1. CASE Page[u].size <= 1
    BY <1>4, <2>1 DEF First
  <2>2. CASE ~(Page[u].size <= 1)
    <3>1. ~Spared(s, u)
      BY <1>1, <1>7, <2>2 DEF Spared
    <3>2. First(u, 1) = [size |-> 1, cut |-> TRUE, audio |-> Page[u].audio \ Page[u].far]
      BY <2>2 DEF First
    <3> QED BY <1>2, <1>5, <3>1, <3>2
  <2> QED BY <2>1, <2>2
<1>8. SoundBody(s, u, [Whole(u) EXCEPT !.cut = FALSE])
  BY <1>3
<1>9. SoundBody(s, u, [Whole(u) EXCEPT !.cut = Page[u].size = 4])
  <2>1. (Page[u].size = 4) \in BOOLEAN /\ (Spared(s, u) => ~(Page[u].size = 4))
    BY <1>1 DEF Spared
  <2> QED BY <1>3, <2>1, Zenon
<1> QED BY <1>6, <1>7, <1>8, <1>9

(* A fetch serves a playlist it has read right, or leaves the hosts and    *)
(* the playlists alone.                                                    *)
LEMMA FetchServes ==
    ASSUME RequestsSound, NEW p \in Proc, fetch(p)
    PROVE  \/ \E body : SoundBody(scene, task[p].url, body) /\ Serves(p, task[p].url, body, task[p].al)
           \/ /\ UNCHANGED <<hostVars, playlists, draft>>
              /\ \E r : Says(p, r) /\ r.kind \in {"failed", "raw", "key"}
<1> DEFINE Sound == \E body : SoundBody(scene, task[p].url, body) /\ Serves(p, task[p].url, body, task[p].al)
           Plain == /\ UNCHANGED <<hostVars, playlists, draft>>
                    /\ \E r : Says(p, r) /\ r.kind \in {"failed", "raw", "key"}
<1>0. task[p].url \in Url
  BY ScenesSound DEF fetch, RequestsSound, RequestSound
<1>1. ASSUME NEW u, Fails(p, u) PROVE Plain
  BY <1>1 DEF Fails, Answer, cacheVars
<1>2. ASSUME NEW u, NEW cut, Passes(p, u, cut) PROVE Plain
  BY <1>2 DEF Passes, cacheVars
<1>3. ASSUME NEW got, Hinted(p, task[p], got), ~Fails(p, task[p].url) PROVE Sound
  <2>1. got # "head" /\ Serves(p, task[p].url, [Whole(task[p].url) EXCEPT !.cut = got = "head"], task[p].al)
    BY <1>3 DEF Hinted, classifyPlaylistResponse
  <2>2. [Whole(task[p].url) EXCEPT !.cut = got = "head"] = [Whole(task[p].url) EXCEPT !.cut = FALSE]
    BY <2>1
  <2>3. SoundBody(scene, task[p].url, [Whole(task[p].url) EXCEPT !.cut = got = "head"])
    BY <1>0, <2>2, BodiesSound
  <2> QED BY <2>1, <2>3, Zenon
<1>4. ASSUME NEW got, Sniffed(p, task[p], got) PROVE Sound \/ Plain
  <2>1. CASE got = "whole"
    <3>1. Serves(p, task[p].url, [Whole(task[p].url) EXCEPT !.cut = Page[task[p].url].size = 4], task[p].al)
      BY <1>4, <2>1 DEF Sniffed
    <3> QED BY <1>0, <3>1, BodiesSound, Zenon
  <2>2. CASE got # "whole"
    BY <1>2, <1>4, <2>2 DEF Sniffed
  <2> QED BY <2>1, <2>2
<1>5. ASSUME NEW got, Key(p, task[p], got) PROVE Plain
  BY <1>2, <1>5 DEF Key
<1> HIDE DEF Sound, Plain
<1>6. Sound \/ Plain
  BY <1>1, <1>2, <1>3, <1>4, <1>5 DEF fetch
<1> QED BY <1>6 DEF Sound, Plain

LEMMA FetchAnswers ==
    ASSUME RequestsSound, NEW p \in Proc, fetch(p)
    PROVE  Answers(p)
<1>1. task[p] \in scene.plays /\ task'[p] = task[p]
  BY DEF fetch, RequestsSound, RequestSound
<1>2. ASSUME NEW r, Says(p, r), r.kind \in {"failed", "raw", "key"} PROVE Answers(p)
  BY <1>2 DEF Says, RequestsSound, Answers
<1>3. ASSUME NEW body, SoundBody(scene, task[p].url, body), Serves(p, task[p].url, body, task[p].al) PROVE Answers(p)
  BY <1>1, <1>3, ServesAnswers DEF Serves, Answers
<1> QED BY <1>2, <1>3, FetchServes

LEMMA ResolveAnswers ==
    ASSUME ShowsSound, RequestsSound, NEW p \in Proc, resolveEpisode(p)
    PROVE  Answers(p)
<1>1. task[p].ask \in scene.asks /\ task'[p] = task[p]
  BY DEF resolveEpisode, RequestsSound, RequestSound
<1>2. ASSUME NEW kind \in {"miss", "network", "throttled", "late"}, FailsWith(p, kind) PROVE Answers(p)
  BY <1>2 DEF FailsWith, Found, Says, RequestsSound, Answers
<1>3. Upset \subseteq {"miss", "network", "throttled", "late"}
  BY DEF Upset
<1>4. ASSUME NEW lost \in Losses(task[p].ask), NEW page \in Pages(task[p].ask, lost),
             NEW result \in ResolveOn(scene, page, task[p].ask), Says(p, result)
      PROVE  Answers(p)
  <2>1. page \in Findable(scene, task[p].ask)
    BY <1>1, PagesFound
  <2>2. result.kind \in {"miss", "nothing", "sources"}
    BY ResultsSound DEF RequestsSound, Outcome
  <2>3. reply'[p] = result
    BY <1>4 DEF Says, RequestsSound
  <2>4. result.kind = "sources" => result \in Results(task[p].ask)
    BY <2>1 DEF Results
  <2> QED BY <1>1, <2>2, <2>3, <2>4 DEF Answers, AnswersSources
<1> QED BY <1>2, <1>3, <1>4 DEF resolveEpisode, Resolves

LEMMA ActAnswers ==
    ASSUME CacheSound, ShowsSound, ResolvedSound, RequestsSound, NEW p \in Proc, Acts(p)
    PROVE  Answers(p)
<1>1. CASE Play(p)
  BY <1>1, PlayAnswers DEF Play
<1>2. CASE Ask(p)
  BY <1>2, FindAnswers DEF Ask
<1>3. CASE fetch(p)
  BY <1>3, FetchAnswers
<1>4. CASE resolveEpisode(p)
  BY <1>4, ResolveAnswers
<1>5. CASE acquire(p) \/ persistDynamicCDNEntries(p)
  BY <1>5 DEF acquire, persistDynamicCDNEntries, Answers
<1>6. CASE done(p)
  BY <1>6 DEF done, Says, NoReply, RequestsSound, Answers
<1>7. CASE shed(p)
  BY <1>7 DEF shed, Says, Answer, RequestsSound, Answers
<1>8. CASE bgRetryResolve(p)
  <2>1. reply'[p] = reply[p] /\ reply[p] = NoReply
    BY <1>8 DEF bgRetryResolve, RequestsSound, RequestSound, Open
  <2> QED BY <2>1 DEF Answers
<1>9. CASE resolveShow(p)
  <2>1. task[p].ask \in scene.asks /\ task'[p] = task[p]
    BY <1>9 DEF resolveShow, RequestsSound, RequestSound
  <2>2. ASSUME NEW kind \in {"miss", "network", "throttled", "late"}, FailsWith(p, kind) PROVE Answers(p)
    BY <2>2 DEF FailsWith, Found, Says, RequestsSound, Answers
  <2>3. Upset \subseteq {"miss", "network", "throttled", "late"}
    BY DEF Upset
  <2>4. ASSUME NEW noted, FromCache(p, task[p].ask, noted) PROVE Answers(p)
    <3>1. reply'[p] = reply[p] \/ reply'[p] \in Results(task[p].ask)
      BY <2>4, FromCacheAnswers
    <3> QED BY <2>1, <3>1 DEF Answers, AnswersSources
  <2> QED BY <1>9, <2>2, <2>3, <2>4 DEF resolveShow
<1> QED BY <1>1, <1>2, <1>3, <1>4, <1>5, <1>6, <1>7, <1>8, <1>9 DEF Acts, Work, Shed

LEMMA PlaylistRight ==
    ASSUME NEW p, AnswersPlaylist(p), reply'[p].kind = "playlist"
    PROVE  /\ Spared(scene, reply'[p].url) => ~reply'[p].cut
           /\ ~reply'[p].cut =>
                 reply'[p].audio = IF task'[p].al \in Page[reply'[p].url].audio
                                   THEN {task'[p].al} ELSE Page[reply'[p].url].audio
<1>1. PICK body : /\ SoundBody(scene, task'[p].url, body)
                  /\ reply'[p] = [kind |-> "playlist", url |-> task'[p].url, cut |-> body.cut,
                                  audio |-> stripAudioRenditions(body.audio, task'[p].al)]
  BY DEF AnswersPlaylist
<1>2. /\ reply'[p].url = task'[p].url /\ reply'[p].cut = body.cut
      /\ reply'[p].audio = stripAudioRenditions(body.audio, task'[p].al)
  BY <1>1
<1> QED BY <1>1, <1>2 DEF SoundBody, stripAudioRenditions

LEMMA AnswersStep ==
    CacheSound /\ ShowsSound /\ ResolvedSound /\ RequestsSound /\ [Next]_vars => \A p \in Proc : Answers(p)
<1> SUFFICES ASSUME CacheSound, ShowsSound, ResolvedSound, RequestsSound, [Next]_vars, NEW o \in Proc
             PROVE  Answers(o)
  OBVIOUS
<1>1. ASSUME NEW p \in Proc, Acts(p) PROVE Answers(o)
  <2>1. CASE o = p
    BY <1>1, <2>1, ActAnswers
  <2>2. CASE o # p
    <3>1. reply'[o] = reply[o] /\ task'[o] = task[o]
      BY <1>1, <2>2, ActsAlone DEF Alone
    <3> QED BY <3>1 DEF Answers
  <2> QED BY <2>1, <2>2
<1>2. CASE restart
  <2>1. reply'[o] = NoReply
    BY <1>2 DEF restart, ProxyRestart
  <2> QED BY <2>1 DEF Answers, NoReply
<1>3. CASE tick \/ turn \/ clean \/ UNCHANGED vars
  <2>1. UNCHANGED <<reply, task>>
    BY <1>3 DEF tick, ProxyTick, turn, clean, vars, proxyVars, procVars
  <2> QED BY <2>1 DEF Answers
<1> QED BY <1>1, <1>2, <1>3, Others

LEMMA RepliesStep ==
    /\ PlaylistsSound /\ ServedSound /\ CacheSound /\ ShowsSound /\ ResolvedSound /\ RequestsSound
    /\ [Next]_vars
    => PlaylistsSound' /\ ServedSound'
<1> SUFFICES ASSUME PlaylistsSound, ServedSound, CacheSound, ShowsSound, ResolvedSound, RequestsSound, [Next]_vars
             PROVE  PlaylistsSound' /\ ServedSound'
  OBVIOUS
<1>0. UNCHANGED scene
  BY SceneStays
<1>1. \A a : Results(a)' = Results(a)
  BY <1>0 DEF Results
<1>2. \A p \in Proc : Answers(p)
  BY AnswersStep
<1>3. ASSUME NEW p \in Proc, reply'[p].kind = "playlist"
      PROVE  /\ Spared(scene, reply'[p].url) => ~reply'[p].cut
             /\ ~reply'[p].cut =>
                   reply'[p].audio = IF task'[p].al \in Page[reply'[p].url].audio
                                     THEN {task'[p].al} ELSE Page[reply'[p].url].audio
  <2>1. CASE reply'[p] = reply[p] /\ task'[p] = task[p]
    BY <1>3, <2>1 DEF PlaylistsSound
  <2>2. CASE AnswersPlaylist(p)
    BY <1>3, <2>2, PlaylistRight
  <2>3. ~(reply'[p] = reply[p] /\ reply[p] = NoReply) /\ ~AnswersSources(p)
    BY <1>3 DEF NoReply, AnswersSources, Results
  <2> QED BY <1>2, <1>3, <2>1, <2>2, <2>3 DEF Answers
<1>4. ASSUME NEW p \in Proc, reply'[p].kind = "sources"
      PROVE  task'[p].ask \in scene'.asks /\ reply'[p] \in Results(task'[p].ask)
  <2>1. CASE reply'[p] = reply[p] /\ task'[p] = task[p]
    BY <1>0, <1>4, <2>1 DEF ServedSound
  <2>2. CASE AnswersSources(p)
    BY <1>0, <2>2 DEF AnswersSources
  <2>3. AnswersPlaylist(p) => reply'[p].kind = "playlist"
    <3> SUFFICES ASSUME NEW body, reply'[p] = [kind |-> "playlist", url |-> task'[p].url, cut |-> body.cut,
                                               audio |-> stripAudioRenditions(body.audio, task'[p].al)]
                 PROVE  reply'[p].kind = "playlist"
      BY Zenon DEF AnswersPlaylist
    <3> QED OBVIOUS
  <2>4. ~(reply'[p] = reply[p] /\ reply[p] = NoReply) /\ ~AnswersPlaylist(p)
    BY <1>4, <2>3 DEF NoReply
  <2> QED BY <1>2, <1>4, <2>1, <2>2, <2>4 DEF Answers
<1>5. PlaylistsSound'
  <2>1. \A u : Spared(scene', u) = Spared(scene, u)
    BY <1>0
  <2> QED BY <1>3, <2>1 DEF PlaylistsSound
<1>6. ServedSound'
  BY <1>1, <1>4 DEF ServedSound
<1> QED BY <1>5, <1>6

-----------------------------------------------------------------------------
(* The cache of playlists.                                                 *)
LEMMA PlaylistKept ==
    ASSUME NEW s, NEW list \in PlaylistLists(s), NEW u \in Url, NEW body, SoundBody(s, u, body)
    PROVE  VODCacheSet(list, u, body) \subseteq PlaylistLists(s)
<1> SUFFICES ASSUME NEW l \in VODCacheSet(list, u, body) PROVE l \in PlaylistLists(s)
  OBVIOUS
<1> DEFINE new == [url |-> u, age |-> 0, size |-> body.size, cut |-> body.cut, audio |-> body.audio]
           may == Oldest(list)
<1>1. new \in PlaylistEntries(s)
  <2>1. new \in PlaylistRecords
    BY DEF PlaylistRecords, SoundBody
  <2>2. SoundBody(s, new.url, new)
    BY DEF SoundBody
  <2> QED BY <2>1, <2>2 DEF PlaylistEntries
<1>2. may \in SUBSET list /\ MaxPlaylists \in Nat \ {0} /\ Capped(list, MaxPlaylists)
  BY Bounds DEF Oldest, PlaylistLists
<1>3. CASE l = list
  BY <1>3
<1>4. CASE l # list
  <2>1. PICK room \in IF Cardinality(list) < MaxPlaylists THEN {list} ELSE {list \ {e} : e \in Oldest(list)} :
           l = {e \in room : e.url # u} \union {new}
    BY <1>4 DEF VODCacheSet
  <2> DEFINE kept == {e \in room : e.url # u}
  <2>2. kept \in SUBSET room
    OBVIOUS
  <2> HIDE DEF new, may, kept
  <2>3. room \in IF Cardinality(list) < MaxPlaylists THEN {list} ELSE {list \ {e} : e \in may}
    BY <2>1 DEF may
  <2>4. Capped(kept \union {new}, MaxPlaylists)
    BY <1>2, <2>2, <2>3, Replaced, Zenon
  <2>5. kept \subseteq list
    BY <2>2, <2>3
  <2>6. l = kept \union {new}
    BY <2>1 DEF kept
  <2> QED BY <1>1, <2>4, <2>5, <2>6 DEF PlaylistLists
<1> QED BY <1>3, <1>4

LEMMA PlaylistsAge ==
    ASSUME CacheSound
    PROVE  Ages(playlists, PlaylistTTL) \in PlaylistLists(scene)
<1>1. Capped(Ages(playlists, PlaylistTTL), MaxPlaylists)
  BY AgesCapped, Bounds DEF CacheSound, PlaylistLists
<1>2. ASSUME NEW e \in playlists PROVE Later(e, PlaylistTTL) \in PlaylistEntries(scene)
  <2>1. e \in PlaylistRecords /\ SoundBody(scene, e.url, e)
    BY DEF CacheSound, PlaylistLists, PlaylistEntries
  <2> DEFINE n == IF e.age > PlaylistTTL THEN e.age ELSE e.age + 1
  <2>2. n \in Nat
    BY <2>1, AgeGrows DEF PlaylistRecords
  <2>3. Later(e, PlaylistTTL) = [e EXCEPT !.age = n]
    BY DEF Later
  <2> HIDE DEF n
  <2>4. /\ [e EXCEPT !.age = n] \in PlaylistRecords /\ [e EXCEPT !.age = n].url = e.url
        /\ [e EXCEPT !.age = n].cut = e.cut /\ [e EXCEPT !.age = n].audio = e.audio
        /\ [e EXCEPT !.age = n].size = e.size
    BY <2>1, <2>2 DEF PlaylistRecords
  <2>5. SoundBody(scene, e.url, [e EXCEPT !.age = n])
    BY <2>1, <2>4 DEF SoundBody
  <2> QED BY <2>3, <2>4, <2>5 DEF PlaylistEntries
<1> QED BY <1>1, <1>2, AgesLater DEF PlaylistLists

LEMMA FetchKept ==
    ASSUME NEW list \in PlaylistLists(scene), NEW u \in Url, NEW size, SoundBody(scene, u, First(u, size))
    PROVE  fetchPlaylistCapped(list, u, size) \subseteq PlaylistLists(scene)
<1> DEFINE fresh == IF Caching THEN {e \in list : e.url = u => e.age <= PlaylistTTL} ELSE list
<1>1. fresh \in PlaylistLists(scene)
  <2>1. fresh \in SUBSET list
    OBVIOUS
  <2>2. Capped(list, MaxPlaylists) /\ list \in SUBSET PlaylistEntries(scene)
    BY DEF PlaylistLists
  <2> HIDE DEF fresh
  <2>3. Capped(fresh, MaxPlaylists)
    BY <2>1, <2>2, CappedSubset, Bounds
  <2> QED BY <2>1, <2>2, <2>3 DEF PlaylistLists
<1>2. fetchPlaylistCapped(list, u, size) \subseteq {fresh} \union VODCacheSet(fresh, u, First(u, size))
  BY DEF fetchPlaylistCapped
<1> HIDE DEF fresh
<1>3. VODCacheSet(fresh, u, First(u, size)) \subseteq PlaylistLists(scene)
  BY <1>1, PlaylistKept
<1> QED BY <1>1, <1>2, <1>3

LEMMA ProbedFirst ==
    ASSUME scene.provider # "animegg", NEW ask \in scene.asks, NEW page \in Findable(scene, ask),
           NEW r \in ResolveOn(scene, page, ask)
    PROVE  r.probed \subseteq FirstHops(scene)
<1> DEFINE R(a) == UNION {ResolveOn(scene, x, a) : x \in Findable(scene, a)}
           H(a) == UNION {y.probed : y \in R(a)}
<1>1. r \in R(ask)
  OBVIOUS
<1> HIDE DEF R
<1>2. r.probed \subseteq H(ask)
  BY <1>1
<1> HIDE DEF H
<1>3. FirstHops(scene) = UNION {H(a) : a \in scene.asks}
  BY DEF FirstHops, H, R
<1> QED BY <1>2, <1>3

LEMMA ProbesKept ==
    ASSUME CacheSound, scene.provider # "animegg", NEW ask \in scene.asks, NEW page \in Findable(scene, ask),
           NEW r \in ResolveOn(scene, page, ask)
    PROVE  AllProbed(r.probed) \subseteq PlaylistLists(scene)
<1> DEFINE heads == Playlists(r.probed)
           rest  == Playlists(Variants(r.probed))
           read  == ReadAll(heads, 1, {playlists})
<1>1. /\ heads \subseteq Url /\ IsFiniteSet(heads)
      /\ rest \subseteq Url /\ IsFiniteSet(rest)
  BY FS_Subset, PagesSound DEF Playlists
<1>2. heads \subseteq FirstHops(scene)
  BY ProbedFirst DEF Playlists
<1>3. {playlists} \subseteq PlaylistLists(scene)
  BY DEF CacheSound
<1>4. AllProbed(r.probed) = ReadAll(rest, 2, read)
  BY DEF AllProbed
<1> HIDE DEF heads, rest
<1>5. \A u \in heads, l \in PlaylistLists(scene) : fetchPlaylistCapped(l, u, 1) \subseteq PlaylistLists(scene)
  BY <1>1, <1>2, BodiesSound, FetchKept
<1>6. \A u \in rest, l \in PlaylistLists(scene) : fetchPlaylistCapped(l, u, 2) \subseteq PlaylistLists(scene)
  BY <1>1, BodiesSound, FetchKept
<1> DEFINE A == PlaylistLists(scene)
<1> HIDE DEF A
<1>7. read \subseteq A
  BY <1>1, <1>3, <1>5, ReadWithin DEF A
<1> HIDE DEF read
<1>8. ReadAll(rest, 2, read) \subseteq A
  BY <1>1, <1>6, <1>7, ReadWithin DEF A
<1> QED BY <1>4, <1>8 DEF A

LEMMA PlaylistsFewer ==
    ASSUME CacheSound, playlists' \subseteq playlists, scene' = scene
    PROVE  CacheSound'
BY CappedSubset, Bounds DEF CacheSound, PlaylistLists

LEMMA CacheStep == CacheSound /\ ShowsSound /\ RequestsSound /\ [Next]_vars => CacheSound'
<1> SUFFICES ASSUME CacheSound, ShowsSound, RequestsSound, [Next]_vars PROVE CacheSound'
  OBVIOUS
<1>0. scene' = scene
  BY SceneStays
<1>1. ASSUME playlists' \subseteq playlists PROVE CacheSound'
  BY <1>0, <1>1, PlaylistsFewer
<1>2. ASSUME NEW p \in Proc, Play(p) PROVE CacheSound'
  <2>1. playlists' \subseteq playlists
    BY <1>2 DEF Play, Proxy, Dropped, cacheVars
  <2> QED BY <1>1, <2>1
<1>3. ASSUME NEW p \in Proc, fetch(p) PROVE CacheSound'
  <2>1. task[p].url \in Url
    BY <1>3, ScenesSound DEF fetch, RequestsSound, RequestSound
  <2>2. CASE UNCHANGED playlists
    BY <1>1, <2>2
  <2>3. CASE \E body : SoundBody(scene, task[p].url, body) /\ Serves(p, task[p].url, body, task[p].al)
    <3>1. PICK body : SoundBody(scene, task[p].url, body) /\ playlists' \in VODCacheSet(playlists, task[p].url, body)
      BY <2>3 DEF Serves, Keep
    <3> QED BY <1>0, <2>1, <3>1, PlaylistKept DEF CacheSound
  <2> QED BY <1>3, <2>2, <2>3, FetchServes
<1>4. ASSUME NEW p \in Proc, resolveEpisode(p) PROVE CacheSound'
  <2>1. task[p].ask \in scene.asks
    BY <1>4 DEF resolveEpisode, RequestsSound, RequestSound
  <2>2. UNCHANGED playlists \/ \E lost \in Losses(task[p].ask) : \E page \in Pages(task[p].ask, lost) :
           \E result \in ResolveOn(scene, page, task[p].ask) :
              scene.provider # "animegg" /\ playlists' \in AllProbed(result.probed)
    BY <1>4 DEF resolveEpisode, Resolves, FailsWith
  <2>3. \A lost \in Losses(task[p].ask) : \A page \in Pages(task[p].ask, lost) : page \in Findable(scene, task[p].ask)
    BY <2>1, PagesFound
  <2> QED BY <1>0, <1>1, <2>1, <2>2, <2>3, ProbesKept DEF CacheSound
<1>5. ASSUME NEW p \in Proc, Acts(p), ~Play(p), ~fetch(p), ~resolveEpisode(p) PROVE CacheSound'
  <2>1. UNCHANGED playlists
    BY <1>5 DEF Acts, Ask, Work, Shed, FindEpisodeSource, acquire, persistDynamicCDNEntries, done, shed,
                resolveShow, FailsWith, bgRetryResolve, Silent, cacheVars
  <2> QED BY <1>1, <2>1
<1>6. CASE tick
  BY <1>0, <1>6, PlaylistsAge DEF tick, ProxyTick, CacheSound
<1>7. CASE restart \/ turn \/ clean \/ UNCHANGED vars
  <2>1. playlists' \subseteq playlists
    BY <1>7 DEF restart, ProxyRestart, turn, clean, vars, proxyVars, cacheVars
  <2> QED BY <1>1, <2>1
<1> QED BY <1>2, <1>3, <1>4, <1>5, <1>6, <1>7, Others

-----------------------------------------------------------------------------
(* Hosts.                                                                  *)
LEMMA HostKept ==
    ASSUME NEW list \in HostLists, NEW h \in Host
    PROVE  LearnHost(list, h) \subseteq HostLists
<1> SUFFICES ASSUME NEW l \in LearnHost(list, h) PROVE l \in HostLists
  OBVIOUS
<1> DEFINE new == [host |-> h, age |-> 0]
           may == Oldest(list)
<1>1. new \in [host : Host, age : Nat]
  OBVIOUS
<1>2. may \in SUBSET list /\ MaxDynamicEntries \in Nat \ {0} /\ Capped(list, MaxDynamicEntries)
  BY Bounds DEF Oldest, HostLists
<1>3. CASE l = list
  BY <1>3
<1>4. CASE l # list
  <2>1. PICK room \in IF Cardinality(list) < MaxDynamicEntries THEN {list} ELSE {list \ {e} : e \in Oldest(list)} :
           l = {e \in room : e.host # h} \union {new}
    BY <1>4 DEF LearnHost
  <2> DEFINE kept == {e \in room : e.host # h}
  <2>2. kept \in SUBSET room
    OBVIOUS
  <2> HIDE DEF new, may, kept
  <2>3. room \in IF Cardinality(list) < MaxDynamicEntries THEN {list} ELSE {list \ {e} : e \in may}
    BY <2>1 DEF may
  <2>4. Capped(kept \union {new}, MaxDynamicEntries)
    BY <1>2, <2>2, <2>3, Replaced, Zenon
  <2>5. kept \subseteq list
    BY <2>2, <2>3
  <2>6. l = kept \union {new}
    BY <2>1 DEF kept
  <2> QED BY <1>1, <2>4, <2>5, <2>6 DEF HostLists
<1> QED BY <1>3, <1>4

LEMMA HostsOf ==
    ASSUME NEW urls \in Seq(Url)
    PROVE  Hosts(urls) \in Seq(Host)
<1>1. \A u \in Url : Page[u].host \in Host
  BY MediaProxyAssumption
<1> QED BY <1>1 DEF Hosts

LEMMA VouchKept ==
    ASSUME HostsSound, NEW names \in Seq(Host)
    PROVE  LearnHosts(names) \subseteq HostLists
<1>1. DOMAIN names = 1 .. Len(names) /\ Len(names) \in Nat
  OBVIOUS
<1>2. hosts \in HostLists
  BY DEF HostsSound
<1>3. \A i \in 1 .. Len(names), l \in HostLists : LearnHost(l, names[i]) \subseteq HostLists
  BY HostKept
<1> HIDE DEF HostLists
<1> QED BY <1>1, <1>2, <1>3, LearnsWithin

(* Who teaches the hosts anything names them, and his own host is admitted *)
(* if it is a playlist.                                                    *)
Learns(p) ==
    \/ UNCHANGED hosts
    \/ \E names \in Seq(Host) : hosts' \in LearnHosts(names) /\ \A h \in ToSet(names) : Names(p, h)

LEMMA ServesLearn ==
    ASSUME RequestsSound, NEW p \in Proc, reply[p] = NoReply, NEW u \in Url, NEW body, NEW al,
           serveRewrittenPlaylist(p, u, body, al)
    PROVE  Learns(p)
<1>1. reply'[p].kind = "playlist" /\ reply'[p].url = u /\ reply'[p] # reply[p]
  BY DEF serveRewrittenPlaylist, Says, RequestsSound, NoReply
<1>2. CASE isAllowedProxyHost(Page[u].host)
  <2>1. hosts' \in LearnHosts(Hosts(Page[u].links))
    BY <1>2 DEF serveRewrittenPlaylist, VouchForLinks, Vouch
  <2>2. Hosts(Page[u].links) \in Seq(Host)
    BY HostsOf, PagesSound
  <2>3. \A h \in ToSet(Hosts(Page[u].links)) : Names(p, h)
    BY <1>1, <1>2 DEF Names
  <2> QED BY <2>1, <2>2, <2>3 DEF Learns
<1>3. CASE ~isAllowedProxyHost(Page[u].host)
  BY <1>3 DEF serveRewrittenPlaylist, VouchForLinks, Learns
<1> QED BY <1>2, <1>3

LEMMA ActLearns ==
    ASSUME RequestsSound, ShowsSound, NEW p \in Proc, Acts(p)
    PROVE  Learns(p)
<1>1. CASE Play(p)
  <2>1. PICK q \in scene.plays : Proxy(p, q)
    BY <1>1 DEF Play
  <2>2. reply[p] = NoReply /\ q.url \in Url
    BY <2>1, ScenesSound DEF Proxy, RequestsSound, RequestSound, Open
  <2>3. UNCHANGED hosts \/ \E e : serveRewrittenPlaylist(p, q.url, e, q.al)
    BY <2>1 DEF Proxy, hostVars
  <2> QED BY <2>2, <2>3, ServesLearn DEF Learns
<1>2. CASE fetch(p)
  <2>1. reply[p] = NoReply /\ task[p].url \in Url
    BY <1>2, ScenesSound DEF fetch, RequestsSound, RequestSound, Open
  <2>2. UNCHANGED hosts \/ \E body : serveRewrittenPlaylist(p, task[p].url, body, task[p].al)
    BY <1>2, FetchServes DEF Serves, hostVars
  <2> QED BY <2>1, <2>2, ServesLearn DEF Learns
<1>3. CASE resolveEpisode(p)
  <2>1. /\ reply[p] = NoReply /\ task[p].use \in {"find", "warm"} /\ task[p].ask \in scene.asks
        /\ scene \in Scene
    BY <1>3 DEF resolveEpisode, RequestsSound, RequestSound, Open
  <2>2. ASSUME NEW lost \in Losses(task[p].ask), NEW page \in Pages(task[p].ask, lost),
               NEW result \in ResolveOn(scene, page, task[p].ask), Says(p, result), Vouch(Hosts(result.learned))
        PROVE  Learns(p)
    <3>1. page \in Findable(scene, task[p].ask)
      BY <2>1, PagesFound
    <3>2. result.learned \in Seq(Url)
      BY <2>1, <3>1, ScenesSound
    <3>3. result # NoReply
      BY <2>1, ResultsSound DEF Outcome, NoReply
    <3>4. reply'[p] = result
      BY <2>2 DEF Says, RequestsSound
    <3>5. \A h \in ToSet(Hosts(result.learned)) : Names(p, h)
      BY <2>1, <3>3, <3>4 DEF Names
    <3> QED BY <2>2, <3>2, <3>5, HostsOf DEF Learns, Vouch
  <2>3. UNCHANGED hosts \/ \E lost \in Losses(task[p].ask) : \E page \in Pages(task[p].ask, lost) :
           \E result \in ResolveOn(scene, page, task[p].ask) : Says(p, result) /\ Vouch(Hosts(result.learned))
    BY <1>3 DEF resolveEpisode, FailsWith, Resolves
  <2> QED BY <2>2, <2>3 DEF Learns
<1>4. CASE ~Play(p) /\ ~fetch(p) /\ ~resolveEpisode(p)
  BY <1>4 DEF Acts, Ask, Work, Shed, FindEpisodeSource, acquire, persistDynamicCDNEntries, done, shed,
              resolveShow, FailsWith, bgRetryResolve, Silent, hostVars, Learns
<1> QED BY <1>1, <1>2, <1>3, <1>4

(* The file is what a request has noted of the hosts.                      *)
LEMMA ActWrites ==
    ASSUME RequestsSound, NEW p \in Proc, Acts(p)
    PROVE  file' \in {file, draft[p]} /\ draft'[p] \in {draft[p], hosts', {}}
<1>1. ASSUME NEW u, NEW body, NEW al, serveRewrittenPlaylist(p, u, body, al)
      PROVE  UNCHANGED file /\ draft'[p] \in {draft[p], hosts'}
  BY <1>1 DEF serveRewrittenPlaylist, Persist, RequestsSound
<1>2. CASE Play(p)
  <2>1. PICK q \in scene.plays : Proxy(p, q)
    BY <1>2 DEF Play
  <2>2. UNCHANGED <<file, draft>> \/ \E e : serveRewrittenPlaylist(p, q.url, e, q.al)
    BY <2>1 DEF Proxy, hostVars
  <2> QED BY <1>1, <2>2
<1>3. CASE fetch(p)
  <2>1. UNCHANGED <<file, draft>> \/ \E body : serveRewrittenPlaylist(p, task[p].url, body, task[p].al)
    BY <1>3, FetchServes DEF Serves, hostVars
  <2> QED BY <1>1, <2>1
<1>4. CASE resolveEpisode(p)
  BY <1>4 DEF resolveEpisode, FailsWith, Resolves, Persist, RequestsSound
<1>5. CASE persistDynamicCDNEntries(p)
  BY <1>5 DEF persistDynamicCDNEntries, RequestsSound
<1>6. CASE ~Play(p) /\ ~fetch(p) /\ ~resolveEpisode(p) /\ ~persistDynamicCDNEntries(p)
  BY <1>6 DEF Acts, Ask, Work, Shed, FindEpisodeSource, acquire, done, shed,
              resolveShow, FailsWith, bgRetryResolve, Silent, hostVars
<1> QED BY <1>2, <1>3, <1>4, <1>5, <1>6

LEMMA HostsAge ==
    ASSUME NEW list \in HostLists
    PROVE  Older(list) \in HostLists
<1> DEFINE f == [e \in list |-> [e EXCEPT !.age = Aged(@)]]
<1>1. Older(list) = {f[e] : e \in list}
  BY DEF Older
<1>2. Capped(list, MaxDynamicEntries)
  BY DEF HostLists
<1>3. Capped({f[e] : e \in list}, MaxDynamicEntries)
  <2>1. DOMAIN f = list
    OBVIOUS
  <2> HIDE DEF f
  <2> QED BY <1>2, <2>1, CappedImage, Bounds
<1>4. ASSUME NEW e \in list PROVE f[e] \in [host : Host, age : Nat]
  <2>1. e \in [host : Host, age : Nat]
    BY DEF HostLists
  <2>2. Aged(e.age) \in Nat
    BY <2>1 DEF Aged
  <2> QED BY <2>1, <2>2
<1> HIDE DEF f
<1> QED BY <1>1, <1>3, <1>4 DEF HostLists

LEMMA FewerHosts ==
    ASSUME NEW list \in HostLists, NEW part \in SUBSET list
    PROVE  part \in HostLists
BY CappedSubset, Bounds DEF HostLists

LEMMA NoHosts == {} \in HostLists
BY CappedEmpty, Bounds DEF HostLists

LEMMA RestartHosts ==
    ASSUME restart
    PROVE  /\ hosts' \subseteq file /\ file' \subseteq file
           /\ \A p \in Proc : draft'[p] = {}
BY DEF restart, ProxyRestart, ensureDynamicCDNLoaded

LEMMA HostsStep == HostsSound /\ RequestsSound /\ ShowsSound /\ [Next]_vars => HostsSound'
<1> SUFFICES ASSUME HostsSound, RequestsSound, ShowsSound, [Next]_vars PROVE HostsSound'
  OBVIOUS
<1>1. ASSUME NEW p \in Proc, Acts(p) PROVE HostsSound'
  <2>1. hosts' \in HostLists
    BY <1>1, ActLearns, VouchKept DEF Learns, HostsSound
  <2>2. file' \in {file, draft[p]} /\ draft'[p] \in {draft[p], hosts', {}}
    BY <1>1, ActWrites
  <2>3. \A o \in Proc \ {p} : draft'[o] = draft[o]
    BY <1>1, ActsAlone DEF Alone
  <2> QED BY <2>1, <2>2, <2>3, NoHosts DEF HostsSound
<1>2. CASE tick
  BY <1>2, HostsAge DEF tick, ProxyTick, HostsTick, procVars, HostsSound
<1>3. CASE restart
  BY <1>3, RestartHosts, FewerHosts, NoHosts DEF HostsSound
<1>4. CASE clean
  <2>1. hosts' \subseteq hosts /\ UNCHANGED <<file, draft>>
    BY <1>4 DEF clean, CleanupDynamicCDNEntries, procVars
  <2> QED BY <2>1, FewerHosts DEF HostsSound
<1>5. CASE turn \/ UNCHANGED vars
  <2>1. UNCHANGED <<hosts, file, draft>>
    BY <1>5 DEF turn, vars, proxyVars, hostVars, procVars
  <2> QED BY <2>1 DEF HostsSound
<1> QED BY <1>1, <1>2, <1>3, <1>4, <1>5, Others

LEMMA LearntNamed ==
    ASSUME HostsSound, NEW p \in Proc, Learns(p), NEW entry \in hosts'
    PROVE  entry \in hosts \/ Names(p, entry.host)
<1>1. CASE UNCHANGED hosts
  BY <1>1
<1>2. CASE \E names \in Seq(Host) : hosts' \in LearnHosts(names) /\ \A h \in ToSet(names) : Names(p, h)
  <2>1. PICK names \in Seq(Host) : hosts' \in LearnHosts(names) /\ \A h \in ToSet(names) : Names(p, h)
    BY <1>2
  <2>2. DOMAIN names = 1 .. Len(names) /\ Len(names) \in Nat
    OBVIOUS
  <2>3. LearnHosts(names) \subseteq SUBSET Learnt(names)
    BY <2>2, LearnsOnly
  <2>4. entry \in hosts \/ \E h \in ToSet(names) : entry = [host |-> h, age |-> 0]
    BY <2>1, <2>3 DEF Learnt
  <2> QED BY <2>1, <2>4
<1> QED BY <1>1, <1>2 DEF Learns

LEMMA VouchedStep ==
    HostsSound /\ RequestsSound /\ ShowsSound /\ [Next]_vars =>
    [\A entry \in hosts' : entry.age <= HostTTL =>
        \/ \E e \in hosts \union file : e.host = entry.host /\ e.age <= entry.age
        \/ \E p \in Proc : Names(p, entry.host)]_vars
<1> SUFFICES ASSUME HostsSound, RequestsSound, ShowsSound, Next, NEW entry \in hosts'
             PROVE  \/ \E e \in hosts \union file : e.host = entry.host /\ e.age <= entry.age
                    \/ \E p \in Proc : Names(p, entry.host)
  OBVIOUS
<1>1. \A e \in hosts \union file : e \in [host : Host, age : Nat]
  BY DEF HostsSound, HostLists
<1>2. ASSUME entry \in hosts \union file
      PROVE  \E e \in hosts \union file : e.host = entry.host /\ e.age <= entry.age
  <2>1. entry.age \in Nat
    BY <1>1, <1>2
  <2>2. entry.age <= entry.age
    BY <2>1
  <2> QED BY <1>2, <2>2
<1>3. ASSUME NEW p \in Proc, Acts(p) PROVE entry \in hosts \/ Names(p, entry.host)
  BY <1>3, ActLearns, LearntNamed
<1>4. CASE tick
  <2>1. PICK e \in hosts : entry = [e EXCEPT !.age = Aged(@)]
    BY <1>4 DEF tick, ProxyTick, HostsTick, Older
  <2>2. e \in [host : Host, age : Nat]
    BY <1>1
  <2>3. entry.host = e.host /\ entry.age = Aged(e.age)
    BY <2>1, <2>2
  <2>4. e.age <= Aged(e.age)
    BY <2>2 DEF Aged
  <2> QED BY <2>3, <2>4
<1>5. CASE restart
  BY <1>2, <1>5, RestartHosts
<1>6. CASE turn \/ clean
  <2>1. hosts' \subseteq hosts
    BY <1>6 DEF turn, proxyVars, hostVars, clean, CleanupDynamicCDNEntries
  <2> QED BY <1>2, <2>1
<1> QED BY <1>2, <1>3, <1>4, <1>5, <1>6, Others

-----------------------------------------------------------------------------
(* The invariant.                                                          *)
LEMMA InvInit == Init => IInv
<1> SUFFICES ASSUME Init PROVE IInv
  OBVIOUS
<1>1. /\ hosts = {} /\ file = {} /\ playlists = {} /\ shows = {} /\ resolved = {}
      /\ reply = [p \in Proc |-> NoReply] /\ draft = [p \in Proc |-> {}]
  BY DEF Init, ProxyInit, HostsInit, SiteInit
<1>2. HostsSound
  BY <1>1, NoHosts DEF HostsSound
<1>3. Capped({}, MaxPlaylists) /\ Capped({}, MaxEntries)
  BY CappedEmpty, Bounds
<1>4. CacheSound /\ ShowsSound /\ ResolvedSound
  BY <1>1, <1>3 DEF CacheSound, PlaylistLists, ShowsSound, ResolvedSound
<1>5. PlaylistsSound /\ ServedSound
  BY <1>1 DEF PlaylistsSound, ServedSound, NoReply
<1> QED BY <1>2, <1>4, <1>5, RequestsInit, SlotsInit DEF IInv

LEMMA InvStep == IInv /\ [Next]_vars => IInv'
BY RequestsStep, SlotsStep, HostsStep, CacheStep, ShowsStep, ResolvedStep, RepliesStep DEF IInv

(* Where every request is, what it has been asked and answered, what the   *)
(* four caches and the file hold and how much of it: for any number of     *)
(* requests, any pages, any scenes and any capacities.                     *)
THEOREM PlaybackInvariant == Spec => []IInv
BY InvInit, InvStep, PTL DEF Spec

(* A playlist that all of its readers read to its end, the first hop of a  *)
(* probe among them if a site leads one to it, is answered whole; and what *)
(* is answered whole is in the language that was asked for and in that one *)
(* alone, whoever read it first.                                           *)
THEOREM PlaylistsAreSound == Spec => []PlaylistsSound
<1>1. IInv => PlaylistsSound
  BY DEF IInv
<1> QED BY <1>1, PlaybackInvariant, PTL

(* A host comes to be admitted by a provider, or by a playlist whose own   *)
(* host is admitted, and nothing else makes it younger.                    *)
THEOREM HostsAreVouchedFor == Spec => Vouched
<1>1. IInv => HostsSound /\ RequestsSound /\ ShowsSound
  BY DEF IInv
<1>2. IInv /\ [Next]_vars =>
        [\A entry \in hosts' : entry.age <= HostTTL =>
            \/ \E e \in hosts \union file : e.host = entry.host /\ e.age <= entry.age
            \/ \E p \in Proc : Names(p, entry.host)]_vars
  BY <1>1, VouchedStep
<1> QED BY <1>2, PlaybackInvariant, PTL DEF Spec, Vouched

(* What is answered with sources is what the site resolves to for the very *)
(* episode and language that were asked for, whichever cache, retry or     *)
(* background task it has come by.                                         *)
THEOREM SourcesAreResolved == Spec => []ServedSound
<1>1. IInv => ServedSound
  BY DEF IInv
<1> QED BY <1>1, PlaybackInvariant, PTL

(* No cache outgrows its capacity, nor the fetches theirs; whoever fetches *)
(* holds a slot, and nobody else who has not just done so.                 *)
Bounded ==
    /\ Cardinality(slots) <= FillCap
    /\ Cardinality(hosts) <= MaxDynamicEntries /\ Cardinality(playlists) <= MaxPlaylists
    /\ Cardinality(shows) <= MaxEntries /\ Cardinality(resolved) <= MaxEntries
    /\ \A p \in Proc : /\ step[p] = "filling" => p \in slots
                       /\ p \in slots => step[p] \in {"filling", "persist", "answered"}

THEOREM CapacitiesHold == Spec => []Bounded
<1>1. IInv => Bounded
  BY DEF IInv, Bounded, SlotsSound, HostsSound, HostLists, CacheSound, PlaylistLists, ShowsSound, ResolvedSound, Capped
<1> QED BY <1>1, PlaybackInvariant, PTL

-----------------------------------------------------------------------------
(* The pauses, by themselves.                                              *)
PauseSound ==
    /\ strikes \in 0 .. MaxStrikes
    /\ left \in Int /\ left <= MaxPause
    /\ left # 0 => strikes > 0

LEMMA PauseBounds ==
    /\ BasePause \in Nat \ {0} /\ MaxPause \in Nat \ {0} /\ MaxStrikes \in Nat \ {0}
    /\ \A n \in Nat : pauseAfter(n + 1) \in Int /\ pauseAfter(n + 1) <= MaxPause
<1>1. BasePause \in Nat \ {0} /\ MaxPause \in Nat \ {0} /\ MaxStrikes \in Nat \ {0}
  BY PlaybackAssumption
<1>2. ASSUME NEW n \in Nat PROVE pauseAfter(n + 1) \in Int /\ pauseAfter(n + 1) <= MaxPause
  <2>1. n + 1 - 1 = n /\ BasePause * 2 ^ n \in Int
    BY <1>1
  <2>2. pauseAfter(n + 1) = Least(BasePause * 2 ^ n, MaxPause)
    BY <2>1 DEF pauseAfter
  <2> QED BY <1>1, <2>1, <2>2 DEF Least
<1> QED BY <1>1, <1>2

LEMMA SickSound ==
    ASSUME PauseSound, NEW longest, Sick(longest)
    PROVE  PauseSound'
<1>1. strikes \in Nat /\ pauseAfter(strikes + 1) \in Int /\ pauseAfter(strikes + 1) <= MaxPause
  BY PauseBounds DEF PauseSound
<1>2. strikes' \in 1 .. MaxStrikes
  BY PauseBounds DEF Sick, Least, PauseSound
<1>3. left' \in {left, pauseAfter(strikes + 1)}
  BY DEF Sick
<1> QED BY <1>1, <1>2, <1>3 DEF PauseSound

LEMMA HealthySound == Healthy => PauseSound'
BY PauseBounds DEF Healthy, PauseSound

LEMMA ThrottleSound ==
    ASSUME PauseSound, NEW kind, recordThrottle(kind)
    PROVE  PauseSound'
<1>1. CASE Healthy
  BY <1>1, HealthySound
<1>2. CASE UNCHANGED <<strikes, left>>
  BY <1>2 DEF PauseSound
<1>3. CASE strikes' = Least(strikes + 1, MaxStrikes) /\ left' = IF strikes > 0 THEN MaxPause ELSE left
  <2>1. strikes' \in 1 .. MaxStrikes
    BY <1>3, PauseBounds DEF Least, PauseSound
  <2> QED BY <1>3, <2>1, PauseBounds DEF PauseSound
<1> QED BY <1>1, <1>2, <1>3 DEF recordThrottle

LEMMA NoteSound ==
    ASSUME PauseSound, scene \in Scene, NEW lasted, NEW kind, Note(lasted, kind)
    PROVE  PauseSound'
<1>1. scene.provider \in Providers
  BY ScenesSound
<1>2. Healthy \/ UNCHANGED <<strikes, left>> \/ Sick(TRUE) \/ Sick(FALSE) \/ recordThrottle(kind)
  BY <1>1 DEF Note, noteOutageHealth, noteResolve, NoteMirror, Providers
<1>3. UNCHANGED <<strikes, left>> => PauseSound'
  BY DEF PauseSound
<1> QED BY <1>2, <1>3, HealthySound, SickSound, ThrottleSound

LEMMA PauseAct ==
    ASSUME PauseSound, RequestsSound, NEW p \in Proc, Acts(p)
    PROVE  PauseSound'
<1>0. scene \in Scene
  BY DEF RequestsSound
<1>1. Unnoted => PauseSound'
  BY DEF Unnoted, PauseSound
<1>2. ASSUME NEW ask, NEW lasted, NEW kind PROVE FromCache(p, ask, Note(lasted, kind)) => PauseSound'
  BY <1>0, <1>1, NoteSound DEF FromCache
<1>3. CASE Ask(p)
  <2>1. PICK ask \in scene.asks : FindEpisodeSource(p, ask)
    BY <1>3 DEF Ask
  <2>2. ASSUME SlugFirst(p, ask) PROVE PauseSound'
    BY <1>1, <1>2, <2>2 DEF SlugFirst
  <2>3. ASSUME CachedFirst(p, ask) PROVE PauseSound'
    BY <1>1, <2>3 DEF CachedFirst, FromCache
  <2>4. ASSUME PauseFirst(p, ask) PROVE PauseSound'
    BY <1>1, <1>2, <2>4 DEF PauseFirst
  <2>5. ASSUME ThrottleFirst(p, ask) PROVE PauseSound'
    BY <2>2, <2>5, ThrottleSound DEF ThrottleFirst
  <2>6. scene.provider \in Providers
    BY <1>0, ScenesSound
  <2> QED BY <2>1, <2>2, <2>3, <2>4, <2>5, <2>6 DEF FindEpisodeSource, Providers
<1>4. CASE resolveShow(p)
  BY <1>0, <1>2, <1>4, NoteSound DEF resolveShow, FailsWith
<1>5. CASE resolveEpisode(p)
  BY <1>0, <1>5, NoteSound DEF resolveEpisode, FailsWith, Resolves
<1>6. CASE ~Ask(p) /\ ~resolveShow(p) /\ ~resolveEpisode(p)
  BY <1>1, <1>6 DEF Acts, Play, Work, Shed, ofSite, siteVars, bgRetryResolve, Unnoted
<1> QED BY <1>3, <1>4, <1>5, <1>6

LEMMA PauseStep == PauseSound /\ RequestsSound /\ [Next]_vars => PauseSound'
<1> SUFFICES ASSUME PauseSound, RequestsSound, [Next]_vars PROVE PauseSound'
  OBVIOUS
<1>1. CASE tick
  BY <1>1, PauseBounds DEF tick, timers, PauseSound
<1>2. CASE restart
  BY <1>2, PauseBounds DEF restart, PauseSound
<1>3. CASE turn \/ clean \/ UNCHANGED vars
  BY <1>3 DEF turn, clean, vars, siteVars, PauseSound
<1> QED BY <1>1, <1>2, <1>3, Others, PauseAct

(* Whatever calls, background retries and probes report, and in whatever   *)
(* order they end: no pause outlasts the longest there is, and there is    *)
(* none without a strike, so that whatever clears the strikes ends it.     *)
THEOREM PausesAreBounded == Spec => []PauseSound
<1>1. Init => PauseSound
  BY PauseBounds DEF Init, SiteInit, PauseSound
<1>2. IInv => RequestsSound
  BY DEF IInv
<1> QED BY <1>1, <1>2, PauseStep, PlaybackInvariant, PTL DEF Spec

=============================================================================
