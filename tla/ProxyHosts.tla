----------------------------- MODULE ProxyHosts -----------------------------
(***************************************************************************)
(* The dynamic allowlist of the media proxy (internal/api/v1/              *)
(* proxy_allowlist.go): the hosts providers and trusted playlists have     *)
(* vouched for, their expiry, their eviction, and the file that brings     *)
(* them back after a restart.                                              *)
(***************************************************************************)
EXTENDS Integers, FiniteSets, Sequences, SequencesExt

CONSTANTS
    Host,
    Listed,           \* the hosts covered by defaultCDNSuffixes and the environment
    Nuisance,           \* hosts on the advertising list, and addresses that are not public
    HostTTL,            \* dynamicEntryTTL
    MaxDynamicEntries

ASSUME ProxyHostsAssumption ==
    /\ {HostTTL, MaxDynamicEntries} \subseteq Nat \ {0}
    /\ Listed \subseteq Host /\ Nuisance \subseteq Host

VARIABLES
    hosts,      \* dynamicCDNSuffixes: [host, age]
    file        \* dynamic_cdn.json: what was last written of it

hostVars == <<hosts, file>>

(* An age past the lifetime is not told apart any further.                 *)
Aged(age)    == IF age > HostTTL THEN age ELSE age + 1
Older(list)  == {[e EXCEPT !.age = Aged(@)] : e \in list}

HostsInit == hosts = {} /\ file = {}

dynamicEntryLive(list, h) == \E e \in list : e.host = h /\ e.age <= HostTTL
isAllowed(list, h)        == h \in Listed \/ dynamicEntryLive(list, h)
isAllowedProxyHost(h)     == isAllowed(hosts, h)

(* An entry that has expired is overwritten where it stands; at the cap    *)
(* the oldest goes, even for a host that is there already.  Of entries as  *)
(* old as each other, any may have been the first.                         *)
Oldest(list) == {e \in list : \A x \in list : x.age <= e.age}

LearnHost(list, h) ==
    IF h \in Nuisance \/ isAllowed(list, h) THEN {list}
    ELSE LET room == IF Cardinality(list) < MaxDynamicEntries THEN {list} ELSE {list \ {e} : e \in Oldest(list)} IN
         {{e \in r : e.host # h} \union {[host |-> h, age |-> 0]} : r \in room}

(* What is vouched for, by a provider or by a playlist.                    *)
LearnHosts(names) ==
    FoldLeft(LAMBDA lists, h : UNION {LearnHost(l, h) : l \in lists}, {hosts}, names)
Vouch(names) == hosts' \in LearnHosts(names)

ensureDynamicCDNLoaded(saved) == {e \in saved : e.age <= HostTTL}

CleanupDynamicCDNEntries ==
    /\ \E e \in hosts : e.age > HostTTL
    /\ hosts' = {e \in hosts : e.age <= HostTTL}
    /\ UNCHANGED file

HostsTick == hosts' = Older(hosts) /\ file' = Older(file)
=============================================================================
