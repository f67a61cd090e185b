--------------------------- MODULE NotifierProofs ---------------------------
(***************************************************************************)
(* Proofs about Notifier for every number of shows, episodes and failures, *)
(* and every choice of its delays that keeps the order the code gives      *)
(* them.                                                                   *)
(***************************************************************************)
EXTENDS Notifier, FiniteSetTheorems, TLAPS

CheckState == {"none", "pending", "notified", "dead"}
SendStage  == {"none", "ask", "insert"}
ShowStatus == {NoStatus, "RELEASING", "FINISHED"}

Check == [state : CheckState, wait : 0 .. Period + FirstDelay,
          left : -Window - 1 .. Period + GiveUp]

(* The constants are numbers, and in the order the code has them.          *)
LEMMA Numbers ==
    /\ Episodes \in Nat /\ Period \in Nat /\ FirstDelay \in Nat /\ Retry \in Nat
    /\ GiveUp \in Nat /\ Window \in Nat /\ SeenWindow \in Nat /\ Retention \in Nat
    /\ MaxUpsets \in Nat /\ MaxRows \in Nat
    /\ Episodes > 0 /\ Period > 1 /\ FirstDelay > 0 /\ Retry > 0 /\ GiveUp > 0 /\ Window > 0
    /\ SeenWindow > 0 /\ Retention > 0 /\ MaxRows > 0
    /\ Retry <= FirstDelay /\ FirstDelay <= GiveUp /\ Window <= GiveUp
BY NotifierAssumption

LEMMA StatusesDiffer == NoStatus # "RELEASING" /\ NoStatus # "FINISHED"
BY DEF NoStatus

LEMMA ShowsCounted == Cardinality(Show) \in Nat
BY NotifierAssumption, FS_CardinalityType

LEMMA NoCheckType == NoCheck \in Check
BY Numbers DEF NoCheck, Check, CheckState

(* What is kept of a check when its airtime is set, at most one look back. *)
LEMMA AddedType ==
    ASSUME NEW c \in Check, NEW a \in -SeenWindow - 1 .. Period
    PROVE  Added(c, a) \in Check
<1>1. CASE a + Window < 0
  BY <1>1 DEF Added
<1>2. CASE ~(a + Window < 0) /\ c = NoCheck
  <2>1. Larger(a + FirstDelay, 0) \in 0 .. Period + FirstDelay
    BY Numbers DEF Larger
  <2>2. a + GiveUp \in -Window - 1 .. Period + GiveUp
    BY <1>2, Numbers
  <2> QED BY <1>2, <2>1, <2>2 DEF Added, Check, CheckState
<1>3. CASE ~(a + Window < 0) /\ c # NoCheck
  <2>1. a + GiveUp \in -Window - 1 .. Period + GiveUp
    BY <1>3, Numbers
  <2> QED BY <1>3, <2>1 DEF Added, Check
<1> QED BY <1>1, <1>2, <1>3

LEMMA OlderType ==
    ASSUME NEW c \in Check
    PROVE  Older(c) \in Check
<1>1. Larger(c.wait - 1, 0) \in 0 .. Period + FirstDelay
  BY Numbers DEF Check, Larger
<1>2. Larger(c.left - 1, -Window - 1) \in -Window - 1 .. Period + GiveUp
  BY Numbers DEF Check, Larger
<1> QED BY <1>1, <1>2, NoCheckType DEF Older, Check

LEMMA ScheduledType ==
    ASSUME checks \in [Key -> Check], NEW s \in Show, NEW next,
           NEW a \in 0 .. Period, seenAge[s] \in 0 .. SeenWindow + 1
    PROVE  Scheduled(s, next, a) \in [Key -> Check]
<1>1. \A k \in Key : Added(checks[k], Larger(a, 0)) \in Check
  <2>1. Larger(a, 0) \in -SeenWindow - 1 .. Period
    BY Numbers DEF Larger
  <2> QED BY <2>1, AddedType
<1>2. \A k \in Key : Added(checks[k], -seenAge[s]) \in Check
  <2>1. -seenAge[s] \in -SeenWindow - 1 .. Period
    BY Numbers
  <2> QED BY <2>1, AddedType
<1> QED BY <1>1, <1>2, NoCheckType DEF Scheduled

-----------------------------------------------------------------------------
(* TypeOK with its parts named: what a step leaves for the proof to show.  *)
WorldOK ==
    /\ aired \in [Show -> 0 .. Episodes] /\ airsIn \in [Show -> 0 .. Period]
    /\ listed \in [Show -> 1 .. Episodes + 1]
    /\ ended \subseteq Show /\ playable \subseteq Key /\ marked \subseteq Show
TableOK == rows \in [Key -> 0 .. MaxRows]
BookOK ==
    /\ book \subseteq Show /\ status \in [Show -> ShowStatus]
    /\ seenNext \in [Show -> 0 .. Episodes] /\ seenAge \in [Show -> 0 .. SeenWindow + 1]
    /\ checks \in [Key -> Check] /\ refreshed \subseteq book \X book
LoopOK ==
    /\ \A k \in due : k \in Key /\ checks[k].state = "pending"
    /\ lookups \in 0 .. Cardinality(Show)
SendOK ==
    /\ sent \in [Key -> Never .. Retention - 1]
    /\ onDemand \in [Key -> SendStage] /\ scheduled \in [Key -> SendStage]
    /\ \A k \in Key : onDemand[k] # "none" => sent[k] # Never
UpsetsOK == upsets \in 0 .. MaxUpsets
PartsOK == WorldOK /\ TableOK /\ BookOK /\ LoopOK /\ SendOK /\ UpsetsOK

LEMMA TypeParts == TypeOK <=> PartsOK
BY DEF TypeOK, PartsOK, WorldOK, TableOK, BookOK, LoopOK, SendOK, UpsetsOK, Check, CheckState,
       ShowStatus, SendStage, Remembered

LEMMA PartsInit == Init => PartsOK
<1> SUFFICES ASSUME Init PROVE PartsOK
  OBVIOUS
<1>1. WorldOK
  BY Numbers DEF Init, WorldOK
<1>2. TableOK /\ UpsetsOK
  BY Numbers DEF Init, TableOK, UpsetsOK
<1>3. BookOK
  BY Numbers, NoCheckType DEF Init, BookOK, NoChecks, Unknown, ShowStatus
<1>4. LoopOK
  BY ShowsCounted DEF Init, LoopOK
<1>5. SendOK
  BY Numbers DEF Init, SendOK, NotSent, NoSends, Never, SendStage
<1> QED BY <1>1, <1>2, <1>3, <1>4, <1>5 DEF PartsOK

(* Parts that a step leaves alone.                                         *)
LEMMA PartsKept ==
    ASSUME PartsOK
    PROVE  /\ UNCHANGED worldVars => WorldOK'
           /\ UNCHANGED rows => TableOK'
           /\ UNCHANGED bookVars => BookOK'
           /\ UNCHANGED <<checks, loopVars>> => LoopOK'
           /\ UNCHANGED sendVars => SendOK'
           /\ UNCHANGED upsets => UpsetsOK'
BY DEF PartsOK, WorldOK, TableOK, BookOK, LoopOK, SendOK, UpsetsOK, worldVars, bookVars,
       loopVars, sendVars

LEMMA PartsStep == PartsOK /\ [Next]_vars => PartsOK'
<1> SUFFICES ASSUME PartsOK, [Next]_vars PROVE PartsOK'
  OBVIOUS
<1> USE PartsKept DEF PartsOK
<1>0. \A k \in Key : k[1] \in Show /\ k[2] \in 1 .. Episodes
  BY DEF Key
<1>a. \A what : upset(what) => UpsetsOK'
  BY Numbers DEF upset, UpsetsOK
<1>1. ASSUME NEW s \in Show, notice(s) \/ finish(s)
      PROVE  PartsOK'
  <2>1. WorldOK'
    BY <1>1, Numbers DEF notice, finish, WorldOK
  <2>2. UNCHANGED <<rows, bookVars, checks, loopVars, sendVars, upsets>>
    BY <1>1 DEF notice, finish, bookVars
  <2> QED BY <2>1, <2>2
<1>2. ASSUME NEW k \in Key, publish(k)
      PROVE  PartsOK'
  <2>1. WorldOK'
    BY <1>2 DEF publish, WorldOK
  <2>2. UNCHANGED <<rows, bookVars, checks, loopVars, sendVars, upsets>>
    BY <1>2 DEF publish, bookVars
  <2> QED BY <2>1, <2>2
<1>3. ASSUME NEW s \in Show, bookmark(s)
      PROVE  PartsOK'
  <2>1. WorldOK'
    BY <1>3 DEF bookmark, WorldOK
  <2>2. UNCHANGED <<rows, bookVars, checks, loopVars, sendVars>> /\ UpsetsOK'
    BY <1>3, <1>a DEF bookmark, bookVars
  <2> QED BY <2>1, <2>2
<1>4. CASE refreshBookmarks
  <2>1. BookOK'
    BY <1>4, NoCheckType, Numbers
       DEF refreshBookmarks, reconcile, fresh, ShowStatus, BookOK, WorldOK, worldVars
  <2>2. LoopOK'
    BY <1>4 DEF refreshBookmarks, LoopOK, loopVars
  <2> QED BY <1>4, <2>1, <2>2 DEF refreshBookmarks
<1>5. ASSUME NEW s \in Show, refreshOneAiring(s)
      PROVE  PartsOK'
  <2>1. due = {} /\ s \in book /\ due' = {} /\ book' = book
    BY <1>5 DEF refreshOneAiring, Stalest
  <2>2. refreshed' \subseteq book \X book
    <3>1. refreshed' = Stamped(s) \/ refreshed' = Unstamped(s)
      BY <1>5 DEF refreshOneAiring
    <3>2. LookedUp \subseteq book
      BY DEF LookedUp, BookOK
    <3> QED BY <2>1, <3>1, <3>2 DEF Stamped, Unstamped, BookOK
  <2>3. status' \in [Show -> ShowStatus]
    BY <1>5 DEF refreshOneAiring, ShowStatus, BookOK
  <2>4. NextAirsIn(s) \in 0 .. Period /\ listed[s] \in 1 .. Episodes + 1
    BY Numbers DEF NextAirsIn, WorldOK
  <2>5. checks' \in [Key -> Check]
    <3>1. checks' = checks \/ checks' = Scheduled(s, listed[s], NextAirsIn(s))
      BY <1>5 DEF refreshOneAiring
    <3> QED BY <2>4, <3>1, ScheduledType DEF BookOK
  <2>6. seenNext' \in [Show -> 0 .. Episodes] /\ seenAge' \in [Show -> 0 .. SeenWindow + 1]
    <3>1. \/ UNCHANGED <<seenNext, seenAge>>
          \/ /\ ~(listed[s] > Episodes) /\ seenNext' = [seenNext EXCEPT ![s] = listed[s]]
             /\ seenAge' = [seenAge EXCEPT ![s] = 0]
      BY <1>5 DEF refreshOneAiring
    <3>2. CASE UNCHANGED <<seenNext, seenAge>>
      BY <3>2 DEF BookOK
    <3>3. CASE /\ ~(listed[s] > Episodes) /\ seenNext' = [seenNext EXCEPT ![s] = listed[s]]
               /\ seenAge' = [seenAge EXCEPT ![s] = 0]
      <4>1. listed[s] \in 0 .. Episodes /\ 0 \in 0 .. SeenWindow + 1
        BY <2>4, <3>3, Numbers
      <4> QED BY <3>3, <4>1 DEF BookOK
    <3> QED BY <3>1, <3>2, <3>3
  <2>7. BookOK'
    BY <2>1, <2>2, <2>3, <2>5, <2>6 DEF BookOK
  <2>8. UpsetsOK'
    BY <1>5, <1>a DEF refreshOneAiring
  <2>9. LoopOK'
    BY <1>5, <2>1, ShowsCounted DEF refreshOneAiring, LoopOK
  <2> QED BY <1>5, <2>7, <2>8, <2>9 DEF refreshOneAiring
<1>6. CASE sweepDueChecks
  <2>0. Retry \in 0 .. Period + FirstDelay
    BY Numbers
  <2>1. checks' \in [Key -> Check]
    <3>1. \A c \in Check : [c EXCEPT !.wait = Retry] \in Check
      BY <2>0 DEF Check
    <3> QED BY <1>6, <3>1 DEF sweepDueChecks, BookOK
  <2>2. LoopOK'
    BY <1>6 DEF sweepDueChecks, Due, Check, BookOK, LoopOK
  <2> QED BY <1>6, <2>1, <2>2 DEF sweepDueChecks, BookOK
<1>7. ASSUME NEW k \in Key, probe(k)
      PROVE  PartsOK'
  <2>1. \/ checks' = checks
        \/ \E state \in CheckState : checks' = [checks EXCEPT ![k].state = state]
    BY <1>7 DEF probe, CheckState
  <2>2. BookOK'
    BY <1>7, <2>1 DEF BookOK, Check, probe
  <2>3. SendOK'
    BY <1>7 DEF probe, SendStage, SendOK
  <2>4. UpsetsOK'
    BY <1>7, <1>a DEF probe
  <2>5. LoopOK'
    BY <1>7, <2>1 DEF probe, LoopOK, BookOK
  <2> QED BY <1>7, <2>2, <2>3, <2>4, <2>5 DEF probe
<1>8. ASSUME NEW k \in Key, notifyEpisode(k)
      PROVE  PartsOK'
  <2>1. 0 \in Never .. Retention - 1 /\ 0 # Never
    BY Numbers DEF Never
  <2>2. SendOK'
    BY <1>8, <2>1 DEF notifyEpisode, SendOK, SendStage
  <2> QED BY <1>8, <2>2 DEF notifyEpisode, bookVars
<1>9. TableOK /\ (\E k \in Key : rows' = [rows EXCEPT ![k] = Smaller(@ + 1, MaxRows)]) => TableOK'
  BY Numbers DEF TableOK, Smaller
<1>10. ASSUME NEW k \in Key, askOnDemand(k) \/ insertOnDemand(k)
       PROVE  PartsOK'
  <2>1. SendOK'
    BY <1>10 DEF askOnDemand, insertOnDemand, SendOK, SendStage
  <2>2. TableOK'
    BY <1>9, <1>10 DEF askOnDemand, insertOnDemand
  <2> QED BY <1>10, <2>1, <2>2 DEF askOnDemand, insertOnDemand, bookVars
<1>11. ASSUME NEW k \in Key, askScheduled(k) \/ insertScheduled(k)
       PROVE  PartsOK'
  <2>1. SendOK'
    BY <1>11 DEF askScheduled, insertScheduled, SendOK, SendStage
  <2>2. TableOK'
    BY <1>9, <1>11 DEF askScheduled, insertScheduled
  <2> QED BY <1>11, <2>1, <2>2 DEF askScheduled, insertScheduled, bookVars
<1>12. ASSUME NEW k \in Key, failOnDemand(k)
       PROVE  PartsOK'
  <2>1. Never \in Never .. Retention - 1
    BY Numbers DEF Never
  <2>2. SendOK'
    BY <1>12, <2>1 DEF failOnDemand, SendOK, SendStage
  <2>3. TableOK' /\ UpsetsOK'
    BY <1>9, <1>12, <1>a DEF failOnDemand, lost, failed
  <2> QED BY <1>12, <2>2, <2>3 DEF failOnDemand, bookVars
<1>13. ASSUME NEW k \in Key, failScheduled(k)
       PROVE  PartsOK'
  <2>1. SendOK'
    BY <1>13 DEF failScheduled, SendOK, SendStage
  <2>2. TableOK' /\ UpsetsOK'
    BY <1>9, <1>13, <1>a DEF failScheduled, lost, failed
  <2> QED BY <1>13, <2>1, <2>2 DEF failScheduled, bookVars
<1>14. CASE restart
  <2>1. BookOK'
    BY <1>14, NoCheckType, Numbers DEF restart, BookOK, NoChecks, Unknown, ShowStatus, WorldOK
  <2>2. LoopOK'
    BY <1>14, ShowsCounted DEF restart, LoopOK
  <2>3. SendOK'
    BY <1>14, Numbers DEF restart, SendOK, NotSent, NoSends, Never, SendStage
  <2> QED BY <1>14, <1>a, <2>1, <2>2, <2>3 DEF restart
<1>15. CASE tick
  <2>1. checks' \in [Key -> Check]
    BY <1>14, <1>15, OlderType DEF tick, BookOK
  <2>2. WorldOK'
    BY <1>15, Numbers DEF tick, WorldOK, airs, Larger
  <2>3. seenAge' \in [Show -> 0 .. SeenWindow + 1]
    BY <1>15, Numbers DEF tick, BookOK, Smaller
  <2>4. BookOK'
    BY <1>15, <2>1, <2>3 DEF tick, BookOK
  <2>5. sent' \in [Key -> Never .. Retention - 1]
    BY <1>15, Numbers DEF tick, SendOK, Kept, Never
  <2>6. SendOK'
    BY <1>15, <2>5 DEF tick, SendOK, Rested
  <2>7. LoopOK'
    BY <1>15, ShowsCounted DEF tick, Rested, LoopOK
  <2>8. UpsetsOK'
    BY <1>15, <1>a DEF tick
  <2> QED BY <1>15, <2>2, <2>4, <2>6, <2>7, <2>8 DEF tick
<1>16. CASE UNCHANGED vars
  BY <1>16 DEF vars, bookVars
<1> QED BY <1>1, <1>2, <1>3, <1>4, <1>5, <1>6, <1>7, <1>8, <1>10, <1>11, <1>12,
           <1>13, <1>14, <1>15, <1>16 DEF Next, Loop, Send

(* The book, the checks and the table have their types; among others, an   *)
(* announcement that is running is remembered, and a sweep probes nothing  *)
(* but checks that are still open.                                         *)
THEOREM TypeCorrect == Spec => []TypeOK
<1> QED BY PartsInit, PartsStep, TypeParts, PTL DEF Spec

-----------------------------------------------------------------------------
(* What an announcement that is about to insert will add is counted as if  *)
(* it were there: it has read that the user has not been told.             *)
Inserting(stage) == IF stage = "insert" THEN 1 ELSE 0

TwiceInv ==
    \A k \in Key : rows[k] + Inserting(onDemand[k]) + Inserting(scheduled[k]) <= 2

LEMMA TwiceInit == Init => TwiceInv
BY DEF Init, TwiceInv, NoSends, Inserting

(* A step of one announcement, with the table as it leaves it.             *)
LEMMA TwiceMove ==
    ASSUME NEW n \in Nat, NEW m \in Nat, NEW a \in SendStage, NEW b \in SendStage,
           NEW other \in SendStage,
           n + Inserting(a) + Inserting(other) <= 2,
           \/ m = n /\ b # "insert"
           \/ m = n /\ n = 0
           \/ a = "insert" /\ b = "none" /\ m <= n + 1
    PROVE  m + Inserting(b) + Inserting(other) <= 2
BY DEF Inserting, SendStage

LEMMA TwiceStep == PartsOK /\ TwiceInv /\ [Next]_vars => TwiceInv'
<1> SUFFICES ASSUME PartsOK, TwiceInv, [Next]_vars PROVE TwiceInv'
  OBVIOUS
<1>0. /\ \A k \in Key : rows[k] \in Nat /\ Smaller(rows[k] + 1, MaxRows) \in Nat
                        /\ Smaller(rows[k] + 1, MaxRows) <= rows[k] + 1
      /\ rows \in [Key -> 0 .. MaxRows]
  BY Numbers DEF PartsOK, TableOK, Smaller
<1>1. onDemand \in [Key -> SendStage] /\ scheduled \in [Key -> SendStage]
  BY DEF PartsOK, SendOK
<1>2. \A n \in Nat, x \in SendStage, y \in SendStage :
         n + Inserting(x) + Inserting(y) = n + Inserting(y) + Inserting(x)
  BY DEF Inserting
<1>3. ASSUME UNCHANGED <<rows, onDemand, scheduled>>
      PROVE  TwiceInv'
  BY <1>3 DEF TwiceInv
(* One announcement of episode k goes from one stage to the next.          *)
<1>4. ASSUME NEW k \in Key, NEW b \in SendStage,
             onDemand' = [onDemand EXCEPT ![k] = b], scheduled' = scheduled,
             \/ rows' = rows /\ b # "insert"
             \/ rows' = rows /\ rows[k] = 0
             \/ /\ onDemand[k] = "insert" /\ b = "none"
                /\ rows' = [rows EXCEPT ![k] = Smaller(@ + 1, MaxRows)]
      PROVE  TwiceInv'
  <2>1. ASSUME NEW j \in Key, j # k
        PROVE  rows'[j] = rows[j] /\ onDemand'[j] = onDemand[j] /\ scheduled'[j] = scheduled[j]
    BY <1>0, <1>1, <1>4, <2>1
  <2>2. rows'[k] \in Nat /\ onDemand'[k] = b /\ scheduled'[k] = scheduled[k]
    BY <1>0, <1>1, <1>4
  <2>3. \/ rows'[k] = rows[k] /\ b # "insert"
        \/ rows'[k] = rows[k] /\ rows[k] = 0
        \/ onDemand[k] = "insert" /\ b = "none" /\ rows'[k] <= rows[k] + 1
    BY <1>0, <1>4
  <2>4. rows'[k] + Inserting(b) + Inserting(scheduled[k]) <= 2
    BY <1>0, <1>1, <2>2, <2>3, TwiceMove DEF TwiceInv
  <2> QED BY <2>1, <2>2, <2>4 DEF TwiceInv
<1>5. ASSUME NEW k \in Key, NEW b \in SendStage,
             scheduled' = [scheduled EXCEPT ![k] = b], onDemand' = onDemand,
             \/ rows' = rows /\ b # "insert"
             \/ rows' = rows /\ rows[k] = 0
             \/ /\ scheduled[k] = "insert" /\ b = "none"
                /\ rows' = [rows EXCEPT ![k] = Smaller(@ + 1, MaxRows)]
      PROVE  TwiceInv'
  <2>1. ASSUME NEW j \in Key, j # k
        PROVE  rows'[j] = rows[j] /\ onDemand'[j] = onDemand[j] /\ scheduled'[j] = scheduled[j]
    BY <1>0, <1>1, <1>5, <2>1
  <2>2. rows'[k] \in Nat /\ scheduled'[k] = b /\ onDemand'[k] = onDemand[k]
    BY <1>0, <1>1, <1>5
  <2>3. \/ rows'[k] = rows[k] /\ b # "insert"
        \/ rows'[k] = rows[k] /\ rows[k] = 0
        \/ scheduled[k] = "insert" /\ b = "none" /\ rows'[k] <= rows[k] + 1
    BY <1>0, <1>5
  <2>4. rows[k] + Inserting(scheduled[k]) + Inserting(onDemand[k]) <= 2
    BY <1>0, <1>1, <1>2 DEF TwiceInv
  <2>5. rows'[k] + Inserting(b) + Inserting(onDemand[k]) <= 2
    BY <1>0, <1>1, <2>2, <2>3, <2>4, TwiceMove
  <2>6. rows'[k] + Inserting(onDemand[k]) + Inserting(b) <= 2
    BY <1>1, <1>2, <2>2, <2>5
  <2> QED BY <2>1, <2>2, <2>6 DEF TwiceInv
<1>6. ASSUME NEW k \in Key, askOnDemand(k) \/ insertOnDemand(k) \/ failOnDemand(k)
      PROVE  TwiceInv'
  <2>1. PICK b \in SendStage :
          /\ onDemand' = [onDemand EXCEPT ![k] = b]
          /\ \/ rows' = rows /\ b # "insert"
             \/ rows' = rows /\ rows[k] = 0
             \/ /\ onDemand[k] = "insert" /\ b = "none"
                /\ rows' = [rows EXCEPT ![k] = Smaller(@ + 1, MaxRows)]
    BY <1>6 DEF askOnDemand, insertOnDemand, failOnDemand, lost, ToTell, SendStage
  <2>2. scheduled' = scheduled
    BY <1>6 DEF askOnDemand, insertOnDemand, failOnDemand
  <2> QED BY <1>4, <2>1, <2>2
<1>7. ASSUME NEW k \in Key, askScheduled(k) \/ insertScheduled(k) \/ failScheduled(k)
      PROVE  TwiceInv'
  <2>1. PICK b \in SendStage :
          /\ scheduled' = [scheduled EXCEPT ![k] = b]
          /\ \/ rows' = rows /\ b # "insert"
             \/ rows' = rows /\ rows[k] = 0
             \/ /\ scheduled[k] = "insert" /\ b = "none"
                /\ rows' = [rows EXCEPT ![k] = Smaller(@ + 1, MaxRows)]
    BY <1>7 DEF askScheduled, insertScheduled, failScheduled, lost, ToTell, SendStage
  <2>2. onDemand' = onDemand
    BY <1>7 DEF askScheduled, insertScheduled, failScheduled
  <2> QED BY <1>5, <2>1, <2>2
<1>8. ASSUME NEW k \in Key, notifyEpisode(k)
      PROVE  TwiceInv'
  BY <1>4, <1>8 DEF notifyEpisode, SendStage
<1>9. ASSUME NEW k \in Key, probe(k)
      PROVE  TwiceInv'
  <2>1. CASE scheduled' = [scheduled EXCEPT ![k] = "ask"]
    BY <1>5, <1>9, <2>1 DEF probe, SendStage
  <2> QED BY <1>3, <1>9, <2>1 DEF probe
<1>10. CASE restart
  <2>1. \A k \in Key : rows[k] <= 2
    BY <1>0 DEF TwiceInv, Inserting
  <2> QED BY <1>0, <1>10, <2>1 DEF restart, NoSends, TwiceInv, Inserting
<1>11. CASE refreshBookmarks \/ sweepDueChecks
  BY <1>3, <1>11 DEF refreshBookmarks, sweepDueChecks, sendVars
<1>12. ASSUME NEW s \in Show, refreshOneAiring(s) \/ notice(s) \/ finish(s) \/ bookmark(s)
       PROVE  TwiceInv'
  BY <1>3, <1>12 DEF refreshOneAiring, notice, finish, bookmark, sendVars
<1>13. ASSUME NEW k \in Key, publish(k)
       PROVE  TwiceInv'
  BY <1>3, <1>13 DEF publish, sendVars
<1>14. CASE tick \/ UNCHANGED vars
  BY <1>3, <1>14 DEF tick, vars, sendVars
<1> QED BY <1>6, <1>7, <1>8, <1>9, <1>10, <1>11, <1>12, <1>13, <1>14 DEF Next, Loop, Send

(* Nobody is told of an episode more than twice, whatever fails, is tried  *)
(* again or is lost by a restart.                                          *)
THEOREM ToldAtMostTwice == Spec => []AtMostTwice
<1>1. PartsOK /\ TwiceInv => AtMostTwice
  <2> SUFFICES ASSUME PartsOK, TwiceInv, NEW k \in Key PROVE rows[k] <= 2
    BY DEF AtMostTwice
  <2>1. rows[k] \in Nat
    BY Numbers DEF PartsOK, TableOK
  <2> QED BY <2>1 DEF TwiceInv, Inserting
<1> QED BY <1>1, PartsInit, PartsStep, TwiceInit, TwiceStep, PTL DEF Spec
-----------------------------------------------------------------------------
(* A check that sweeps may find due, and the time its episode has to air.  *)
Open(k)  == checks[k].state = "pending" /\ status[k[1]] = "RELEASING"
ToAir(k) == IF k[2] > aired[k[1]] THEN airsIn[k[1]] ELSE 0

Timed(c, toAir) ==
    /\ c.wait <= toAir + FirstDelay
    /\ c.left >= c.wait - FirstDelay

(* What AniList and the book say of a show: it only names an episode that  *)
(* comes next, FINISHED is for good, and a show not looked up since it     *)
(* joined the book has no checks.                                          *)
ShowsInv ==
    \A s \in Show :
        /\ listed[s] <= aired[s] + 1 /\ seenNext[s] <= listed[s]
        /\ aired[s] < Episodes => airsIn[s] > 0
        /\ status[s] = "FINISHED" => s \in ended
        /\ \A k \in Key : k[1] = s /\ checks[k] # NoCheck =>
              status[s] # NoStatus /\ k[2] <= aired[s] + 1

(* No open check waits past its give-up time by more than a first delay,   *)
(* even if its airtime is taken back to the last look before it.           *)
ChecksInv ==
    \A k \in Key : Open(k) =>
        IF k \in due THEN checks[k].wait = Retry /\ checks[k].left >= -FirstDelay
        ELSE Timed(checks[k], ToAir(k))

LEMMA ChecksInit == Init => ShowsInv /\ ChecksInv
<1> SUFFICES ASSUME Init PROVE ShowsInv /\ ChecksInv
  OBVIOUS
<1>1. \A s \in Show : listed[s] = 1 /\ aired[s] = 0 /\ seenNext[s] = 0 /\ airsIn[s] = Period
  BY DEF Init, Unknown
<1>2. \A s \in Show : status[s] # "FINISHED"
  BY StatusesDiffer DEF Init
<1>3. \A k \in Key : checks[k] = NoCheck /\ checks[k].state # "pending"
  BY DEF Init, NoChecks, NoCheck
<1> QED BY <1>1, <1>2, <1>3, Numbers DEF ShowsInv, ChecksInv, Open

(* Setting the airtime of an episode, still to come or in the past, keeps  *)
(* its check in time.                                                      *)
LEMMA AddedTimed ==
    ASSUME NEW c \in Check, NEW toAir \in Nat, NEW a \in Int,
           a = toAir \/ (toAir = 0 /\ a <= 0),
           c.state = "pending" => Timed(c, toAir),
           Added(c, a).state = "pending"
    PROVE  Timed(Added(c, a), toAir)
<1>1. CASE Added(c, a) = c
  BY <1>1
<1>2. CASE a + Window >= 0 /\ Added(c, a) =
             [state |-> "pending", wait |-> Larger(a + FirstDelay, 0), left |-> a + GiveUp]
  BY <1>2, Numbers DEF Timed, Larger
<1>3. CASE a > -Window /\ Added(c, a) = [c EXCEPT !.left = a + GiveUp]
  <2>1. /\ Added(c, a).wait = c.wait /\ Added(c, a).left = a + GiveUp
        /\ c.state = "pending" /\ c.wait \in Nat
    BY <1>3, Numbers DEF Check
  <2> QED BY <1>3, <2>1, Numbers DEF Timed
<1> QED BY <1>1, <1>2, <1>3, Numbers DEF Added

LEMMA OlderTimed ==
    ASSUME NEW c \in Check, NEW toAir \in Nat, NEW later \in Nat,
           c.state = "pending", Timed(c, toAir), c.wait # 0,
           later = toAir - 1 \/ (toAir = 0 /\ later = 0)
    PROVE  Timed(Older(c), later)
<1>1. c # NoCheck
  BY DEF NoCheck
<1>2. /\ Older(c).wait = Larger(c.wait - 1, 0)
      /\ Older(c).left = Larger(c.left - 1, -Window - 1)
  BY <1>1 DEF Older, Check
<1>3. c.wait \in Nat /\ c.left \in Int
  BY Numbers DEF Check
<1> QED BY <1>2, <1>3, Numbers DEF Timed, Larger

(* A look-up that finds the show airing sets the airtimes of its episodes. *)
LEMMA LookUpTimed ==
    ASSUME PartsOK, ShowsInv, ChecksInv, due = {}, NEW s \in Show, s \notin ended,
           listed[s] <= Episodes, NEW k \in Key,
           Scheduled(s, listed[s], NextAirsIn(s))[k].state = "pending",
           k[1] = s \/ status[k[1]] = "RELEASING"
    PROVE  Timed(Scheduled(s, listed[s], NextAirsIn(s))[k], ToAir(k))
<1> DEFINE next == listed[s]
           new  == Scheduled(s, next, NextAirsIn(s))[k]
<1>0. /\ checks[k] \in Check /\ status \in [Show -> ShowStatus] /\ next \in Nat
      /\ aired[s] \in Nat /\ airsIn[s] \in Nat /\ seenNext[s] \in Nat
      /\ seenAge[s] \in Nat /\ next <= aired[s] + 1
      /\ k[1] \in Show /\ k[2] \in Nat
  BY Numbers DEF PartsOK, BookOK, WorldOK, ShowsInv, Key
<1>1. NoCheck.state # "pending"
  BY DEF NoCheck
<1>2. k[1] = s => (checks[k].state = "pending" => Timed(checks[k], ToAir(k)))
  <2> SUFFICES ASSUME k[1] = s, checks[k].state = "pending" PROVE Timed(checks[k], ToAir(k))
    OBVIOUS
  <2>1. status[s] = "RELEASING"
    BY <1>0, <1>1 DEF ShowsInv, ShowStatus
  <2> QED BY <2>1 DEF ChecksInv, Open
<1>3. CASE k[1] = s /\ k[2] = next
  <2>1. NextAirsIn(s) \in Nat /\ Larger(NextAirsIn(s), 0) = NextAirsIn(s)
    BY <1>0 DEF NextAirsIn, Larger
  <2>2. ToAir(k) = NextAirsIn(s)
    BY <1>0, <1>3 DEF ToAir, NextAirsIn
  <2>3. new = Added(checks[k], NextAirsIn(s))
    BY <1>1, <1>3, <2>1 DEF Scheduled
  <2> QED BY <1>0, <1>2, <1>3, <2>1, <2>2, <2>3, AddedTimed
<1>4. CASE k[1] = s /\ k[2] # next /\ k[2] \in Passed(s, next)
  <2>1. k[2] < next
    BY <1>0, <1>4 DEF Passed
  <2>2. ToAir(k) = 0
    BY <1>0, <1>4, <2>1 DEF ToAir
  <2>3. new = Added(checks[k], -seenAge[s])
    BY <1>1, <1>4 DEF Scheduled
  <2>4. -seenAge[s] \in Int /\ -seenAge[s] <= 0
    BY <1>0
  <2> QED BY <1>0, <1>2, <1>4, <2>2, <2>3, <2>4, AddedTimed
<1>5. CASE ~(k[1] = s /\ (k[2] = next \/ k[2] \in Passed(s, next)))
  <2>1. new = checks[k]
    BY <1>1, <1>5 DEF Scheduled
  <2> QED BY <1>2, <2>1 DEF ChecksInv, Open
<1> QED BY <1>3, <1>4, <1>5

LEMMA ChecksStep == PartsOK /\ ShowsInv /\ ChecksInv /\ [Next]_vars => ShowsInv' /\ ChecksInv'
<1> SUFFICES ASSUME PartsOK, ShowsInv, ChecksInv, [Next]_vars PROVE ShowsInv' /\ ChecksInv'
  OBVIOUS
<1>0. /\ checks \in [Key -> Check] /\ status \in [Show -> ShowStatus]
      /\ seenNext \in [Show -> 0 .. Episodes] /\ seenAge \in [Show -> 0 .. SeenWindow + 1]
      /\ aired \in [Show -> 0 .. Episodes] /\ airsIn \in [Show -> 0 .. Period]
      /\ listed \in [Show -> 1 .. Episodes + 1]
      /\ \A k \in Key : k[1] \in Show /\ k[2] \in 1 .. Episodes
  BY DEF PartsOK, BookOK, WorldOK, Key
<1>1. NoCheck.state # "pending"
  BY DEF NoCheck
<1>2. ASSUME UNCHANGED <<aired, airsIn, listed, status, seenNext, checks>>, ended \subseteq ended'
      PROVE  ShowsInv'
  BY <1>2 DEF ShowsInv
<1>3. ASSUME UNCHANGED <<aired, airsIn, status, checks, due>>
      PROVE  ChecksInv'
  BY <1>3 DEF ChecksInv, Open, ToAir
<1>4. ASSUME UNCHANGED <<aired, airsIn, listed, ended, bookVars, due>>
      PROVE  ShowsInv' /\ ChecksInv'
  BY <1>2, <1>3, <1>4 DEF bookVars
<1>5. ASSUME NEW s \in Show, notice(s)
      PROVE  ShowsInv' /\ ChecksInv'
  <2>1. /\ UNCHANGED <<aired, airsIn, ended, bookVars, due>> /\ listed[s] <= aired[s]
        /\ listed' = [listed EXCEPT ![s] = aired[s] + 1]
    BY <1>5 DEF notice, loopVars
  <2>2. \A t \in Show : listed'[t] <= aired[t] + 1 /\ listed[t] <= listed'[t]
    BY <1>0, <2>1, Numbers DEF ShowsInv
  <2>3. \A t \in Show : seenNext[t] <= listed'[t]
    <3>1. \A t \in Show : seenNext[t] \in Int /\ listed[t] \in Int /\ listed'[t] \in Int
      BY <1>0, <2>1, Numbers
    <3> QED BY <2>2, <3>1 DEF ShowsInv
  <2>4. ShowsInv'
    BY <2>1, <2>2, <2>3 DEF ShowsInv, bookVars
  <2> QED BY <1>3, <2>1, <2>4 DEF bookVars
<1>6. ASSUME NEW s \in Show, finish(s)
      PROVE  ShowsInv' /\ ChecksInv'
  BY <1>2, <1>3, <1>6 DEF finish, bookVars, loopVars
<1>7. CASE refreshBookmarks
  <2>1. \A s \in Show : \/ status'[s] = status[s] /\ seenNext'[s] = seenNext[s]
                           /\ \A k \in Key : k[1] = s => checks'[k] = checks[k]
                        \/ status'[s] = NoStatus /\ seenNext'[s] = 0
                           /\ \A k \in Key : k[1] = s => checks'[k] = NoCheck
    BY <1>7 DEF refreshBookmarks, reconcile, fresh
  <2>2. UNCHANGED <<aired, airsIn, listed, ended, due>> /\ due = {}
    BY <1>7 DEF refreshBookmarks, worldVars, loopVars
  <2>3. ShowsInv'
    BY <1>0, <2>1, <2>2, StatusesDiffer, Numbers DEF ShowsInv
  <2>4. ChecksInv'
    BY <1>0, <1>1, <2>1, <2>2, StatusesDiffer DEF ChecksInv, Open, ToAir
  <2> QED BY <2>3, <2>4
<1>8. ASSUME NEW s \in Show, refreshOneAiring(s)
      PROVE  ShowsInv' /\ ChecksInv'
  <2>1. due = {} /\ UNCHANGED <<aired, airsIn, listed, ended, due>>
    BY <1>8 DEF refreshOneAiring, worldVars
  <2>2. CASE UNCHANGED <<status, seenNext, checks>>
    BY <1>2, <1>3, <2>1, <2>2
  <2>3. CASE /\ status' = [status EXCEPT ![s] = IF s \in ended THEN "FINISHED" ELSE "RELEASING"]
             /\ s \in ended \/ listed[s] > Episodes
             /\ UNCHANGED <<seenNext, checks>>
    <3>1. \A t \in Show : t # s => status'[t] = status[t]
      BY <1>0, <2>3
    <3>2. /\ status'[s] = "FINISHED" => s \in ended
          /\ status'[s] # NoStatus
          /\ status'[s] = "RELEASING" => s \notin ended
      BY <1>0, <2>3, StatusesDiffer
    <3>3. ShowsInv'
      BY <1>0, <2>1, <2>3, <3>1, <3>2 DEF ShowsInv
    <3>4. ASSUME NEW k \in Key, Open(k)'
          PROVE  Open(k)
      <4>1. checks[k].state = "pending" /\ checks[k] # NoCheck /\ k[1] \in Show
        BY <1>0, <1>1, <2>3, <3>4 DEF Open
      <4>2. k[1] = s => status[s] = "RELEASING"
        BY <1>0, <3>2, <3>4, <4>1 DEF ShowsInv, Open, ShowStatus
      <4> QED BY <3>1, <3>4, <4>1, <4>2 DEF Open
    <3> QED BY <2>1, <2>3, <3>3, <3>4 DEF ChecksInv, ToAir
  <2>4. CASE /\ status' = [status EXCEPT ![s] = "RELEASING"]
             /\ s \notin ended /\ listed[s] <= Episodes
             /\ checks' = Scheduled(s, listed[s], NextAirsIn(s))
             /\ seenNext' = [seenNext EXCEPT ![s] = listed[s]]
    <3>1. \A t \in Show : t # s => status'[t] = status[t] /\ seenNext'[t] = seenNext[t]
      BY <1>0, <2>4
    <3>2. status'[s] = "RELEASING" /\ seenNext'[s] = listed[s]
      BY <1>0, <2>4
    <3>3. ASSUME NEW k \in Key, checks'[k] # NoCheck
          PROVE  \/ k[1] # s /\ checks'[k] = checks[k]
                 \/ k[1] = s /\ k[2] <= aired[s] + 1
      <4>1. \A t \in Show : aired[t] \in Nat /\ listed[t] \in Nat
        BY <1>0, Numbers
      <4>2. CASE k[1] # s
        <5>1. Scheduled(s, listed[s], NextAirsIn(s))[k] = checks[k]
          BY <4>2 DEF Scheduled
        <5> QED BY <2>4, <4>2, <5>1
      <4>3. CASE k[1] = s /\ k[2] = listed[s]
        BY <4>3 DEF ShowsInv
      <4>4. CASE k[1] = s /\ k[2] \in Passed(s, listed[s])
        <5>1. k[2] <= listed[s] - 1 /\ k[2] \in Int
          BY <1>0, <4>1, <4>4 DEF Passed
        <5> QED BY <4>1, <4>4, <5>1 DEF ShowsInv
      <4>5. CASE k[1] = s /\ k[2] # listed[s] /\ k[2] \notin Passed(s, listed[s])
        <5>1. checks'[k] = checks[k]
          BY <2>4, <3>3, <4>5 DEF Scheduled
        <5> QED BY <3>3, <4>5, <5>1 DEF ShowsInv
      <4> QED BY <4>2, <4>3, <4>4, <4>5
    <3>4. ShowsInv'
      <4>1. listed[s] <= listed[s]
        BY <1>0
      <4> QED BY <2>1, <3>1, <3>2, <3>3, <4>1, StatusesDiffer DEF ShowsInv
    <3>5. ASSUME NEW k \in Key, Open(k)'
          PROVE  Timed(checks'[k], ToAir(k))
      BY <1>0, <2>1, <2>4, <3>1, <3>5, LookUpTimed DEF Open
    <3> QED BY <2>1, <3>4, <3>5 DEF ChecksInv, ToAir
  <2>5. listed[s] \in Int /\ Episodes \in Int
    BY <1>0, Numbers
  <2> QED BY <1>8, <2>2, <2>3, <2>4, <2>5 DEF refreshOneAiring
<1>9. CASE sweepDueChecks
  <2>1. /\ UNCHANGED <<aired, airsIn, listed, ended, status, seenNext>>
        /\ due = {} /\ due' = Due
        /\ checks' = [k \in Key |-> IF k \in Due THEN [checks[k] EXCEPT !.wait = Retry]
                                    ELSE checks[k]]
    BY <1>9 DEF sweepDueChecks, worldVars
  <2>2. \A k \in Key : /\ k \in Due => /\ checks'[k].wait = Retry
                                       /\ checks'[k].left = checks[k].left
                                       /\ checks[k].wait = 0 /\ Open(k)
                       /\ k \notin Due => checks'[k] = checks[k]
    BY <1>0, <2>1 DEF Due, Open, Check
  <2>3. ShowsInv'
    <3>1. \A k \in Due : checks[k] # NoCheck
      BY <1>1 DEF Due
    <3> QED BY <2>1, <2>2, <3>1 DEF ShowsInv, Due
  <2>4. \A k \in Due : checks[k].left >= -FirstDelay
    BY <1>0, <2>1, <2>2, Numbers DEF ChecksInv, Timed, Due
  <2> QED BY <2>1, <2>2, <2>3, <2>4 DEF ChecksInv, Open, ToAir
<1>10. ASSUME NEW k \in Key, probe(k)
       PROVE  ShowsInv' /\ ChecksInv'
  <2>1. /\ UNCHANGED <<aired, airsIn, listed, ended, status, seenNext>>
        /\ k \in due /\ due' = due \ {k}
        /\ \/ checks' = checks /\ ~Expired(checks[k])
           \/ \E state \in {"dead", "notified"} : checks' = [checks EXCEPT ![k].state = state]
    BY <1>10 DEF probe, worldVars
  <2>2. \A j \in Key : j # k => checks'[j] = checks[j]
    BY <1>0, <2>1
  <2>3. (checks'[k] = checks[k] /\ ~Expired(checks[k])) \/ checks'[k].state # "pending"
    BY <1>0, <2>1 DEF Check
  <2>4. checks[k] # NoCheck
    BY <1>1, <2>1 DEF PartsOK, LoopOK
  <2>5. ShowsInv'
    BY <2>1, <2>2, <2>4 DEF ShowsInv
  <2>6. ASSUME Open(k)'
        PROVE  Timed(checks'[k], ToAir(k))
    <3>1. checks'[k] = checks[k] /\ checks[k].left >= 0 /\ Open(k)
      BY <1>0, <2>1, <2>3, <2>6, Numbers DEF Open, Expired, Check
    <3>2. checks[k].wait = Retry
      BY <2>1, <3>1 DEF ChecksInv
    <3>3. ToAir(k) \in Nat
      BY <1>0, Numbers DEF ToAir
    <3> QED BY <1>0, <3>1, <3>2, <3>3, Numbers DEF Timed, Check
  <2>7. \A j \in Key : j # k /\ Open(j)' => Open(j)
    BY <2>1, <2>2 DEF Open
  <2> QED BY <2>1, <2>2, <2>5, <2>6, <2>7 DEF ChecksInv, ToAir
<1>11. CASE restart
  <2>1. /\ UNCHANGED <<aired, airsIn, listed, ended>>
        /\ \A s \in Show : status'[s] = NoStatus /\ seenNext'[s] = 0
        /\ \A k \in Key : checks'[k] = NoCheck
    BY <1>11 DEF restart, NoChecks, Unknown, worldVars
  <2>2. ShowsInv'
    BY <1>0, <2>1, StatusesDiffer, Numbers DEF ShowsInv
  <2> QED BY <1>1, <2>1, <2>2 DEF ChecksInv, Open
<1>12. CASE tick
  <2>1. /\ UNCHANGED <<listed, ended, status, seenNext, due>> /\ due = {} /\ Due = {}
        /\ aired'  = [s \in Show |-> IF airs(s) THEN aired[s] + 1 ELSE aired[s]]
        /\ airsIn' = [s \in Show |-> IF airs(s) THEN Period ELSE Larger(airsIn[s] - 1, 0)]
        /\ checks' = [k \in Key |-> Older(checks[k])]
    BY <1>12 DEF tick, Rested
  <2>2. \A k \in Key : checks'[k] # NoCheck => checks[k] # NoCheck
    BY <2>1 DEF Older
  <2>3. \A k \in Key : checks'[k].state = checks[k].state
    <3>1. \A c \in Check : Older(c).state = c.state
      BY DEF Older, Check
    <3> QED BY <1>0, <2>1, <3>1
  <2>4. \A s \in Show : /\ aired[s] <= aired'[s] /\ aired'[s] \in Nat /\ airsIn'[s] \in Nat
                        /\ aired'[s] < Episodes => airsIn'[s] > 0
    <3> SUFFICES ASSUME NEW s \in Show
                 PROVE  /\ aired[s] <= aired'[s] /\ aired'[s] \in Nat /\ airsIn'[s] \in Nat
                        /\ aired'[s] < Episodes => airsIn'[s] > 0
      OBVIOUS
    <3>1. aired[s] \in Nat /\ airsIn[s] \in Nat /\ (aired[s] < Episodes => airsIn[s] > 0)
      BY <1>0, Numbers DEF ShowsInv
    <3>2. CASE airs(s)
      BY <2>1, <3>1, <3>2, Numbers
    <3>3. CASE ~airs(s)
      BY <2>1, <3>1, <3>3, Numbers DEF airs, Larger
    <3> QED BY <3>2, <3>3
  <2>5. ShowsInv'
    <3>1. \A s \in Show : listed[s] \in Int /\ aired[s] \in Int
      BY <1>0, Numbers
    <3>2. \A s \in Show : listed[s] <= aired'[s] + 1
      BY <2>4, <3>1, Numbers DEF ShowsInv
    <3>3. ASSUME NEW k \in Key, checks'[k] # NoCheck
          PROVE  status'[k[1]] # NoStatus /\ k[2] <= aired'[k[1]] + 1
      <4>1. k[2] \in Int /\ k[1] \in Show
        BY <1>0, Numbers
      <4>2. status[k[1]] # NoStatus /\ k[2] <= aired[k[1]] + 1
        BY <2>2, <3>3, <4>1 DEF ShowsInv
      <4> QED BY <2>1, <2>4, <3>1, <4>1, <4>2
    <3> QED BY <2>1, <2>4, <3>2, <3>3 DEF ShowsInv
  <2>6. ASSUME NEW k \in Key, Open(k)'
        PROVE  Timed(checks'[k], ToAir(k)')
    <3>1. Open(k) /\ k \notin due /\ checks[k] # NoCheck
      BY <1>1, <2>1, <2>2, <2>3, <2>6 DEF Open
    <3>2. Timed(checks[k], ToAir(k)) /\ checks[k].wait # 0
      BY <2>1, <3>1 DEF ChecksInv, Due, Open
    <3>3. /\ k[1] \in Show /\ k[2] \in Nat /\ k[2] <= Episodes
          /\ aired[k[1]] \in Nat /\ airsIn[k[1]] \in Nat /\ airsIn'[k[1]] \in Nat
          /\ aired[k[1]] <= aired'[k[1]] /\ k[2] <= aired[k[1]] + 1 /\ aired'[k[1]] \in Nat
      BY <1>0, <2>4, <3>1, Numbers DEF ShowsInv
    <3>4. /\ ToAir(k) \in Nat /\ ToAir(k)' \in Nat
          /\ ToAir(k)' = ToAir(k) - 1 \/ (ToAir(k) = 0 /\ ToAir(k)' = 0)
      <4>1. CASE k[2] <= aired[k[1]]
        BY <3>3, <4>1 DEF ToAir
      <4>2. CASE k[2] > aired[k[1]] /\ airs(k[1])
        <5>1. aired'[k[1]] = aired[k[1]] + 1 /\ airsIn[k[1]] = 1
          BY <2>1, <3>3, <4>2 DEF airs
        <5> QED BY <3>3, <4>2, <5>1 DEF ToAir
      <4>3. CASE k[2] > aired[k[1]] /\ ~airs(k[1])
        <5>1. /\ aired'[k[1]] = aired[k[1]]
              /\ airsIn'[k[1]] = Larger(airsIn[k[1]] - 1, 0)
          BY <2>1, <3>3, <4>3
        <5>2. airsIn[k[1]] > 0
          BY <3>3, <4>3, Numbers DEF ShowsInv
        <5> QED BY <3>3, <4>3, <5>1, <5>2 DEF ToAir, Larger
      <4> QED BY <3>3, <4>1, <4>2, <4>3
    <3>5. Timed(Older(checks[k]), ToAir(k)')
      <4>1. checks[k] \in Check /\ checks[k].state = "pending"
        BY <1>0, <3>1 DEF Open
      <4> HIDE DEF ToAir
      <4> QED BY <3>2, <3>4, <4>1, OlderTimed
    <3> QED BY <2>1, <3>5
  <2> QED BY <2>1, <2>5, <2>6 DEF ChecksInv
<1>13. ASSUME NEW k \in Key, Send(k) \/ notifyEpisode(k) \/ publish(k)
       PROVE  UNCHANGED <<aired, airsIn, listed, ended, bookVars, due>>
  BY <1>13 DEF Send, askOnDemand, insertOnDemand, failOnDemand, askScheduled, insertScheduled,
               failScheduled, notifyEpisode, publish, worldVars, loopVars
<1>14. ASSUME NEW s \in Show, bookmark(s)
       PROVE  UNCHANGED <<aired, airsIn, listed, ended, bookVars, due>>
  BY <1>14 DEF bookmark, loopVars
<1>15. CASE UNCHANGED vars
  BY <1>4, <1>15 DEF vars, worldVars, loopVars
<1> QED BY <1>4, <1>5, <1>6, <1>7, <1>8, <1>9, <1>10, <1>11, <1>12, <1>13, <1>14, <1>15
        DEF Next, Loop

(* Probing comes to its end with the give-up time, whatever goes wrong.    *)
THEOREM NoProbingForEver == Spec => []ProbingEnds
<1>1. PartsOK /\ ChecksInv => ProbingEnds
  <2> SUFFICES ASSUME PartsOK, ChecksInv, NEW k \in Key, Open(k)
               PROVE  checks[k].left >= -FirstDelay
    BY DEF ProbingEnds, Open
  <2>1. checks[k].left \in Int /\ checks[k].wait \in Nat
    BY Numbers DEF PartsOK, BookOK, Check
  <2> QED BY <2>1, Numbers DEF ChecksInv, Timed
<1> QED BY <1>1, PartsInit, PartsStep, ChecksInit, ChecksStep, PTL DEF Spec
-----------------------------------------------------------------------------
(* As long as nothing goes wrong, every tick looks up every show, the      *)
(* order of the look-ups being a round: the shows looked up in this tick   *)
(* are the last of the order.                                              *)
Round(L) ==
    /\ Cardinality(L) = lookups
    /\ \A s \in L : <<s, s>> \in refreshed
    /\ \A s \in L, t \in Show : <<s, t>> \in refreshed => t \in L

(* What a look-up of this tick has seen of a show with episodes to come.   *)
Seen(s) ==
    /\ seenNext[s] > 0 /\ seenAge[s] = 0
    /\ airsIn[s] <= 1 => seenNext[s] = aired[s] + 1

Lag(s)    == listed[s] >= aired[s] /\ (airsIn[s] <= 1 => listed[s] > aired[s])
Looked(s) == seenNext[s] >= aired[s] /\ seenAge[s] <= 1

(* The check of the episode to come waits for its airtime, that of the     *)
(* last one that aired is in time, until its announcement is under way.    *)
NextKey(s) == <<s, aired[s] + 1>>
LastKey(s) == <<s, aired[s]>>

Ahead(c, airsInTicks) ==
    /\ c.state = "pending"
    /\ c.wait = airsInTicks + FirstDelay /\ c.left = airsInTicks + GiveUp

InTime(c, since) ==
    /\ c.state = "pending"
    /\ c.left >= GiveUp - since - 1 /\ c.wait <= Larger(FirstDelay - since, Retry)

Upcoming(s) ==
    IF seenNext[s] = aired[s] + 1 THEN Ahead(checks[NextKey(s)], airsIn[s])
    ELSE checks[NextKey(s)] = NoCheck

Current(s) ==
    aired[s] > 0 /\ Period - airsIn[s] + 1 < GiveUp =>
        \/ rows[LastKey(s)] > 0 \/ scheduled[LastKey(s)] # "none"
        \/ InTime(checks[LastKey(s)], Period - airsIn[s])

Followed(s) == Lag(s) /\ Looked(s) /\ Upcoming(s) /\ Current(s)

EndedInv == \A s \in ended : aired[s] = Episodes

LookUps ==
    \E L \in SUBSET Show : Round(L) /\ \A s \in L : aired[s] < Episodes => Seen(s)

PursuitInv ==
    upsets = 0 =>
        /\ book = Show /\ marked = Show /\ LookUps
        /\ \A s \in Show : aired[s] < Episodes => Followed(s)

(* The numbers of a show, and the episodes around its last airing.         *)
LEMMA ShowNumbers ==
    ASSUME PartsOK, ShowsInv, NEW s \in Show
    PROVE  /\ aired[s] \in Nat /\ airsIn[s] \in Nat /\ listed[s] \in Nat
           /\ seenNext[s] \in Nat /\ seenAge[s] \in Nat
           /\ aired[s] <= Episodes /\ airsIn[s] <= Period
           /\ listed[s] >= 1 /\ listed[s] <= aired[s] + 1 /\ seenNext[s] <= listed[s]
           /\ aired[s] < Episodes => airsIn[s] > 0 /\ NextKey(s) \in Key
           /\ aired[s] > 0 => LastKey(s) \in Key
<1>1. /\ aired[s] \in Nat /\ airsIn[s] \in Nat /\ listed[s] \in Nat
      /\ seenNext[s] \in Nat /\ seenAge[s] \in Nat
      /\ aired[s] <= Episodes /\ airsIn[s] <= Period /\ listed[s] >= 1
  BY Numbers DEF PartsOK, WorldOK, BookOK
<1>2. /\ listed[s] <= aired[s] + 1 /\ seenNext[s] <= listed[s]
      /\ aired[s] < Episodes => airsIn[s] > 0
  BY DEF ShowsInv
<1>3. aired[s] < Episodes => aired[s] + 1 \in 1 .. Episodes
  BY <1>1, Numbers
<1>4. aired[s] > 0 => aired[s] \in 1 .. Episodes
  BY <1>1, Numbers
<1> QED BY <1>1, <1>2, <1>3, <1>4 DEF Key, NextKey, LastKey

LEMMA EndedInit == Init => EndedInv
BY DEF Init, EndedInv

LEMMA EndedStep == PartsOK /\ ShowsInv /\ EndedInv /\ [Next]_vars => EndedInv'
<1> SUFFICES ASSUME PartsOK, ShowsInv, EndedInv, [Next]_vars PROVE EndedInv'
  OBVIOUS
<1>1. ASSUME NEW s \in Show, finish(s)
      PROVE  EndedInv'
  <2>1. aired[s] = Episodes
    BY <1>1, ShowNumbers, Numbers DEF finish
  <2> QED BY <1>1, <2>1 DEF finish, EndedInv
<1>2. CASE tick
  <2>1. \A s \in ended : s \in Show /\ ~airs(s)
    BY Numbers DEF PartsOK, WorldOK, EndedInv, airs
  <2> QED BY <1>2, <2>1 DEF tick, EndedInv
<1>3. CASE UNCHANGED <<aired, ended>>
  BY <1>3 DEF EndedInv
<1>4. ASSUME NEW k \in Key, Send(k) \/ notifyEpisode(k) \/ publish(k) \/ probe(k)
      PROVE  UNCHANGED <<aired, ended>>
  BY <1>4 DEF Send, askOnDemand, insertOnDemand, failOnDemand, askScheduled, insertScheduled,
              failScheduled, notifyEpisode, publish, probe, worldVars
<1>5. ASSUME NEW s \in Show, notice(s) \/ bookmark(s) \/ refreshOneAiring(s)
      PROVE  UNCHANGED <<aired, ended>>
  BY <1>5 DEF notice, bookmark, refreshOneAiring, worldVars
<1>6. ASSUME refreshBookmarks \/ sweepDueChecks \/ restart \/ UNCHANGED vars
      PROVE  UNCHANGED <<aired, ended>>
  BY <1>6 DEF refreshBookmarks, sweepDueChecks, restart, vars, worldVars
<1> QED BY <1>1, <1>2, <1>3, <1>4, <1>5, <1>6 DEF Next, Loop

LEMMA PursuitInit == Init => PursuitInv
<1> SUFFICES ASSUME Init PROVE PursuitInv
  OBVIOUS
<1>1. LookUps
  <2>1. Round({})
    BY FS_EmptySet DEF Init, Round
  <2> QED BY <2>1 DEF LookUps
<1>2. ASSUME NEW s \in Show
      PROVE  Followed(s)
  <2>1. /\ aired[s] = 0 /\ airsIn[s] = Period /\ listed[s] = 1
        /\ seenNext[s] = 0 /\ seenAge[s] = 0
    BY DEF Init, Unknown
  <2>2. <<s, 1>> \in Key /\ checks[<<s, 1>>] = NoCheck
    BY Numbers DEF Init, NoChecks, Key
  <2> QED BY <2>1, <2>2, Numbers DEF Followed, Lag, Looked, Upcoming, Current, NextKey
<1>3. book = Show /\ marked = Show
  BY DEF Init
<1> QED BY <1>1, <1>2, <1>3 DEF PursuitInv

(* What a step that leaves the clock, AniList and the checks of a show's   *)
(* last episodes alone has to keep: the announcement, if it was under way. *)
LEMMA FollowedKept ==
    ASSUME NEW s \in Show, Followed(s),
           UNCHANGED <<aired, airsIn, listed, seenNext, seenAge>>,
           checks'[NextKey(s)] = checks[NextKey(s)],
           checks'[LastKey(s)] = checks[LastKey(s)],
           rows[LastKey(s)] > 0 /\ aired[s] > 0 => rows'[LastKey(s)] > 0,
           scheduled[LastKey(s)] # "none" /\ aired[s] > 0
               => rows'[LastKey(s)] > 0 \/ scheduled'[LastKey(s)] # "none"
    PROVE  Followed(s)'
<1>1. (Lag(s) /\ Looked(s) /\ Upcoming(s))'
  BY DEF Followed, Lag, Looked, Upcoming, NextKey
<1>2. Current(s)'
  BY DEF Followed, Current, LastKey
<1> QED BY <1>1, <1>2 DEF Followed

LEMMA LookUpsKept ==
    ASSUME LookUps, UNCHANGED <<aired, airsIn, seenNext, seenAge, refreshed, lookups>>
    PROVE  LookUps'
BY DEF LookUps, Round, Seen

(* A look-up while nothing is wrong: it moves both checks along with what  *)
(* AniList names.                                                          *)
LEMMA FollowedLookUp ==
    ASSUME PartsOK, ShowsInv, NEW s \in Show, aired[s] < Episodes, Followed(s),
           UNCHANGED <<aired, airsIn, listed, rows, scheduled>>,
           seenNext'[s] = listed[s], seenAge'[s] = 0,
           checks' = Scheduled(s, listed[s], NextAirsIn(s))
    PROVE  Followed(s)' /\ Seen(s)'
<1> DEFINE next == listed[s]
           A    == aired[s]
           in   == airsIn[s]
<1>1. /\ A \in Nat /\ in \in Nat /\ next \in Nat /\ seenNext[s] \in Nat /\ seenAge[s] \in Nat
      /\ next >= 1 /\ next <= A + 1 /\ seenNext[s] <= next /\ in > 0 /\ in <= Period
      /\ NextKey(s) \in Key /\ (A > 0 => LastKey(s) \in Key)
  BY ShowNumbers
<1>2. /\ next = A \/ next = A + 1
      /\ in <= 1 => next = A + 1
      /\ seenNext[s] >= A /\ seenAge[s] <= 1
      /\ Upcoming(s) /\ Current(s)
  BY <1>1 DEF Followed, Lag, Looked
<1>3. Lag(s)' /\ Looked(s)' /\ Seen(s)'
  BY <1>1, <1>2 DEF Lag, Looked, Seen
<1>4. \A k \in Key : checks[k] \in Check
  BY DEF PartsOK, BookOK
<1>5. Upcoming(s)'
  <2>1. NextKey(s)' = NextKey(s) /\ NextKey(s)[1] = s /\ NextKey(s)[2] = A + 1
    BY DEF NextKey
  <2>2. CASE next = A + 1
    <3>1. NextAirsIn(s) = in /\ Larger(in, 0) = in
      BY <1>1, <2>2 DEF NextAirsIn, Larger
    <3>2. Ahead(Added(checks[NextKey(s)], in), in)
      <4>1. CASE seenNext[s] = A + 1
        <5>1. Ahead(checks[NextKey(s)], in) /\ checks[NextKey(s)] # NoCheck
          BY <1>2, <4>1 DEF Upcoming, Ahead, NoCheck
        <5>2. Added(checks[NextKey(s)], in) = [checks[NextKey(s)] EXCEPT !.left = in + GiveUp]
          BY <1>1, <5>1, Numbers DEF Added
        <5> QED BY <1>1, <1>4, <5>1, <5>2 DEF Ahead, Check
      <4>2. CASE seenNext[s] # A + 1
        <5>1. checks[NextKey(s)] = NoCheck
          BY <1>2, <4>2 DEF Upcoming
        <5>2. Larger(in + FirstDelay, 0) = in + FirstDelay /\ ~(in + Window < 0)
          BY <1>1, Numbers DEF Larger
        <5> QED BY <5>1, <5>2 DEF Ahead, Added
      <4> QED BY <4>1, <4>2
    <3>3. ~TooOld(Added(checks[NextKey(s)], in))
      BY <1>1, <3>2, Numbers DEF TooOld, Ahead
    <3>4. checks'[NextKey(s)] = Added(checks[NextKey(s)], in)
      BY <1>1, <2>1, <2>2, <3>1, <3>3 DEF Scheduled
    <3> QED BY <1>1, <2>1, <2>2, <3>2, <3>4 DEF Upcoming
  <2>3. CASE next = A
    <3>1. checks[NextKey(s)] = NoCheck
      BY <1>1, <1>2, <2>3 DEF Upcoming
    <3>2. A + 1 # next /\ A + 1 \notin Passed(s, next)
      BY <1>1, <2>3 DEF Passed
    <3>3. checks'[NextKey(s)] = NoCheck
      BY <1>1, <2>1, <3>1, <3>2 DEF Scheduled
    <3> QED BY <1>1, <2>1, <2>3, <3>3 DEF Upcoming
  <2> QED BY <1>2, <2>2, <2>3
<1>6. Current(s)'
  <2>0. LastKey(s)' = LastKey(s) /\ LastKey(s)[1] = s /\ LastKey(s)[2] = A
    BY DEF LastKey
  <2> SUFFICES ASSUME A > 0, Period - in + 1 < GiveUp,
                      InTime(checks[LastKey(s)], Period - in)
               PROVE  InTime(checks'[LastKey(s)], Period - in)
    BY <1>2, <2>0 DEF Current
  <2> DEFINE c == checks[LastKey(s)]
  <2>1. c \in Check /\ c # NoCheck
    BY <1>1, <1>4 DEF InTime, NoCheck
  <2>2. c.left > 0 /\ c.wait \in Nat /\ c.left \in Int
    BY <1>1, <2>1, Numbers DEF InTime, Check
  <2>3. \A a \in {0, -seenAge[s]} :
           InTime(Added(c, a), Period - in) /\ ~TooOld(Added(c, a))
    <3> SUFFICES ASSUME NEW a \in {0, -seenAge[s]}
                 PROVE  InTime(Added(c, a), Period - in) /\ ~TooOld(Added(c, a))
      OBVIOUS
    <3>1. a \in Int /\ a >= -1
      BY <1>1, <1>2
    <3>2. CASE a > -Window
      <4>1. Added(c, a) = [c EXCEPT !.left = a + GiveUp]
        BY <2>1, <3>1, <3>2, Numbers DEF Added
      <4>2. /\ Added(c, a).state = c.state /\ Added(c, a).wait = c.wait
            /\ Added(c, a).left = a + GiveUp
        BY <2>1, <4>1 DEF Check
      <4> QED BY <1>1, <3>1, <4>2, Numbers DEF InTime, TooOld
    <3>3. CASE ~(a > -Window)
      <4>1. Added(c, a) = c
        BY <2>1, <3>1, <3>3, Numbers DEF Added
      <4> QED BY <2>2, <4>1, Numbers DEF TooOld
    <3> QED BY <3>2, <3>3
  <2>4. ~TooOld(c)
    BY <2>2, Numbers DEF TooOld
  <2>5. CASE next = A
    <3>1. NextAirsIn(s) = 0 /\ Larger(0, 0) = 0
      BY <1>1, <2>5 DEF NextAirsIn, Larger
    <3>2. checks'[LastKey(s)] = Added(c, 0)
      BY <1>1, <2>0, <2>3, <2>5, <3>1 DEF Scheduled
    <3> QED BY <2>3, <3>2
  <2>6. CASE next = A + 1
    <3>1. A # next
      BY <1>1, <2>6
    <3>2. CASE A \in Passed(s, next)
      <4>1. checks'[LastKey(s)] = Added(c, -seenAge[s])
        BY <1>1, <2>0, <2>3, <3>1, <3>2 DEF Scheduled
      <4> QED BY <2>3, <4>1
    <3>3. CASE A \notin Passed(s, next)
      <4>1. checks'[LastKey(s)] = c
        BY <1>1, <2>0, <2>4, <3>1, <3>3 DEF Scheduled
      <4> QED BY <4>1
    <3> QED BY <3>2, <3>3
  <2> QED BY <1>2, <2>5, <2>6
<1> QED BY <1>3, <1>5, <1>6 DEF Followed

(* A tick after the look-ups of the tick, with AniList in time.            *)
LEMMA FollowedTick ==
    ASSUME PartsOK, ShowsInv, NEW s \in Show, aired'[s] < Episodes,
           aired[s] < Episodes => Followed(s) /\ Seen(s) /\ ~late(s),
           aired'[s] = IF airs(s) THEN aired[s] + 1 ELSE aired[s],
           airsIn'[s] = IF airs(s) THEN Period ELSE Larger(airsIn[s] - 1, 0),
           seenAge'[s] = IF seenNext[s] = 0 THEN 0 ELSE Smaller(seenAge[s] + 1, SeenWindow + 1),
           \A k \in Key : checks'[k] = Older(checks[k]),
           \A k \in Key : scheduled[k] = "none",
           UNCHANGED <<listed, rows, seenNext>>
    PROVE  Followed(s)'
<1> DEFINE A  == aired[s]
           in == airsIn[s]
<1>0. A \in Nat /\ A < Episodes
  <2>1. A \in Nat
    BY ShowNumbers
  <2> QED BY <2>1, Numbers DEF airs
<1>1. /\ A \in Nat /\ in \in Nat /\ listed[s] \in Nat /\ seenNext[s] \in Nat
      /\ listed[s] <= A + 1 /\ in > 0 /\ in <= Period
      /\ NextKey(s) \in Key /\ (A > 0 => LastKey(s) \in Key)
  BY <1>0, ShowNumbers
<1>2. /\ Lag(s) /\ Looked(s) /\ Upcoming(s) /\ Current(s)
      /\ seenNext[s] > 0 /\ seenAge[s] = 0 /\ (in <= 1 => seenNext[s] = A + 1)
      /\ in <= 2 => listed[s] > A
  BY <1>0, <1>1 DEF Followed, Seen, late
<1>3. \A k \in Key : checks[k] \in Check
  BY DEF PartsOK, BookOK
<1>4. seenAge'[s] = 1
  BY <1>2, Numbers DEF Smaller
<1>5. Older(NoCheck) = NoCheck
  BY DEF Older
<1>6. \A k \in Key : checks[k].state = "pending" =>
         /\ checks'[k].state = "pending"
         /\ checks'[k].wait = Larger(checks[k].wait - 1, 0)
         /\ checks'[k].left = Larger(checks[k].left - 1, -Window - 1)
  <2>1. NoCheck.state # "pending"
    BY DEF NoCheck
  <2>2. \A c \in Check : c.state = "pending" =>
           /\ Older(c).state = "pending" /\ Older(c).wait = Larger(c.wait - 1, 0)
           /\ Older(c).left = Larger(c.left - 1, -Window - 1)
    BY <2>1 DEF Older, Check
  <2> QED BY <1>3, <2>2
<1>7. CASE airs(s)
  <2>1. in = 1 /\ aired'[s] = A + 1 /\ airsIn'[s] = Period /\ seenNext[s] = A + 1
    BY <1>1, <1>2, <1>7 DEF airs
  <2>2. Lag(s)' /\ Looked(s)'
    BY <1>1, <1>2, <1>4, <2>1, Numbers DEF Lag, Looked
  <2>3. Upcoming(s)'
    <3>1. NextKey(s)' = <<s, A + 2>> /\ <<s, A + 2>> \in Key
      BY <1>1, <2>1, Numbers DEF NextKey, Key
    <3>2. checks[<<s, A + 2>>] = NoCheck
      BY <1>1, <3>1 DEF ShowsInv
    <3>3. checks'[<<s, A + 2>>] = NoCheck
      BY <1>5, <3>1, <3>2
    <3>4. seenNext[s] # aired'[s] + 1
      BY <1>1, <2>1
    <3> QED BY <3>1, <3>3, <3>4 DEF Upcoming
  <2>4. InTime(checks'[NextKey(s)], 0)
    <3>1. Ahead(checks[NextKey(s)], 1)
      BY <1>2, <2>1 DEF Upcoming
    <3> QED BY <1>1, <1>6, <3>1, Numbers DEF Ahead, InTime, Larger
  <2>5. Current(s)'
    <3>1. LastKey(s)' = NextKey(s) /\ Period - airsIn'[s] = 0
      BY <2>1, Numbers DEF LastKey, NextKey
    <3> QED BY <2>4, <3>1 DEF Current
  <2> QED BY <2>2, <2>3, <2>5 DEF Followed
<1>8. CASE ~airs(s)
  <2>1. in >= 2 /\ aired'[s] = A /\ airsIn'[s] = in - 1
    BY <1>0, <1>1, <1>8 DEF airs, Larger
  <2>2. Lag(s)' /\ Looked(s)'
    BY <1>1, <1>2, <1>4, <2>1 DEF Lag, Looked
  <2>3. Upcoming(s)'
    <3>1. NextKey(s)' = NextKey(s)
      BY <2>1 DEF NextKey
    <3>2. CASE seenNext[s] = A + 1
      <4>1. Ahead(checks[NextKey(s)], in)
        BY <1>2, <3>2 DEF Upcoming
      <4>2. Ahead(checks'[NextKey(s)], in - 1)
        BY <1>1, <1>6, <2>1, <4>1, Numbers DEF Ahead, Larger
      <4> QED BY <2>1, <3>1, <3>2, <4>2 DEF Upcoming
    <3>3. CASE seenNext[s] # A + 1
      <4>1. checks[NextKey(s)] = NoCheck
        BY <1>2, <3>3 DEF Upcoming
      <4> QED BY <1>1, <1>5, <2>1, <3>1, <3>3, <4>1 DEF Upcoming
    <3> QED BY <3>2, <3>3
  <2>4. Current(s)'
    <3>1. LastKey(s)' = LastKey(s)
      BY <2>1 DEF LastKey
    <3> SUFFICES ASSUME A > 0, Period - (in - 1) + 1 < GiveUp, ~(rows[LastKey(s)] > 0)
                 PROVE  InTime(checks'[LastKey(s)], Period - (in - 1))
      BY <2>1, <3>1 DEF Current
    <3>2. InTime(checks[LastKey(s)], Period - in) /\ LastKey(s) \in Key
      BY <1>1, <1>2, Numbers DEF Current
    <3>3. checks[LastKey(s)].wait \in Nat /\ checks[LastKey(s)].left \in Int
      BY <1>3, <3>2, Numbers DEF Check
    <3>4. checks'[LastKey(s)].left >= GiveUp - (Period - (in - 1)) - 1
      BY <1>1, <1>6, <3>2, <3>3, Numbers DEF InTime, Larger
    <3>5. checks'[LastKey(s)].wait <= Larger(FirstDelay - (Period - (in - 1)), Retry)
      BY <1>1, <1>6, <3>2, <3>3, Numbers DEF InTime, Larger
    <3> QED BY <1>6, <3>2, <3>4, <3>5 DEF InTime
  <2> QED BY <2>2, <2>3, <2>4 DEF Followed
<1> QED BY <1>7, <1>8

(* The next look-up of a tick is of a show not looked up in it yet.        *)
LEMMA NextInRound ==
    ASSUME book = Show, lookups < Cardinality(Show), NEW s \in Stalest,
           NEW L \in SUBSET Show, Round(L),
           refreshed' = Stamped(s), lookups' = lookups + 1
    PROVE  s \in Show /\ s \notin L /\ Round(L \union {s})'
<1>1. s \in Show
  BY DEF Stalest
<1>2. s \notin L
  <2> SUFFICES ASSUME s \in L PROVE FALSE
    OBVIOUS
  <2>1. s \in LookedUp
    BY <1>1 DEF Round, LookedUp
  <2>2. \A t \in Show : <<s, t>> \in refreshed
    BY <2>1 DEF Stalest
  <2>3. L = Show
    BY <2>2 DEF Round
  <2>4. Cardinality(Show) = lookups
    BY <2>3 DEF Round
  <2> QED BY <2>4, ShowsCounted
<1>3. Cardinality(L \union {s}) = lookups + 1
  <2>1. IsFiniteSet(L)
    BY NotifierAssumption, FS_Subset
  <2> QED BY <1>2, <2>1, FS_AddElement DEF Round
<1>4. \A t \in L \union {s} : <<t, t>> \in refreshed'
  BY <1>2 DEF Stamped, Unstamped, Round
<1>5. ASSUME NEW t \in L \union {s}, NEW u \in Show, <<t, u>> \in refreshed'
      PROVE  u \in L \union {s}
  <2>1. CASE u = s
    BY <2>1
  <2>2. CASE u # s
    <3>1. t # s /\ <<t, u>> \in refreshed
      BY <1>5, <2>2 DEF Stamped, Unstamped
    <3> QED BY <1>5, <3>1 DEF Round
  <2> QED BY <2>1, <2>2
<1> QED BY <1>1, <1>2, <1>3, <1>4, <1>5 DEF Round

LEMMA PursuitStep ==
    ASSUME Missing = {}, PartsOK, ShowsInv, ChecksInv, EndedInv, PursuitInv, [Next]_vars
    PROVE  PursuitInv'
<1> SUFFICES ASSUME upsets' = 0 PROVE PursuitInv'
  BY DEF PursuitInv
<1>1. \A what : ~upset(what)
  BY Numbers DEF upset, PartsOK, UpsetsOK
<1>2. upsets = 0
  <2>1. upsets' = upsets
    BY <1>1 DEF Next, Loop, Send, notice, finish, publish, bookmark, refreshBookmarks,
                refreshOneAiring, sweepDueChecks, probe, notifyEpisode, askOnDemand,
                askScheduled, insertOnDemand, insertScheduled, failOnDemand, failScheduled,
                failed, restart, tick, vars
  <2> QED BY <2>1
<1>3. /\ book = Show /\ marked = Show /\ LookUps
      /\ \A s \in Show : aired[s] < Episodes => Followed(s)
  BY <1>2 DEF PursuitInv
<1>4. /\ checks \in [Key -> Check] /\ scheduled \in [Key -> SendStage]
      /\ rows \in [Key -> 0 .. MaxRows]
  BY DEF PartsOK, BookOK, SendOK, TableOK
<1>5. \A s \in Show : aired[s] < Episodes => s \notin ended
  BY Numbers DEF EndedInv
<1>6. \A k \in Key : rows[k] \in Nat /\ Smaller(rows[k] + 1, MaxRows) > 0
  BY <1>4, Numbers DEF Smaller
(* A step that is not the clock's and leaves AniList and the look-ups.     *)
<1>7. ASSUME UNCHANGED <<book, marked, aired, airsIn, seenNext, seenAge, refreshed, lookups>>,
             \A s \in Show : aired[s] < Episodes => Followed(s)'
      PROVE  PursuitInv'
  BY <1>3, <1>7, LookUpsKept DEF PursuitInv
<1>8. ASSUME UNCHANGED <<book, marked, aired, airsIn, listed, seenNext, seenAge, refreshed, lookups>>,
             \A s \in Show : aired[s] < Episodes =>
                /\ checks'[NextKey(s)] = checks[NextKey(s)]
                /\ checks'[LastKey(s)] = checks[LastKey(s)],
             \A k \in Key : /\ rows[k] > 0 => rows'[k] > 0
                            /\ scheduled[k] # "none" => rows'[k] > 0 \/ scheduled'[k] # "none"
      PROVE  PursuitInv'
  <2>1. ASSUME NEW s \in Show, aired[s] < Episodes
        PROVE  Followed(s)'
    <3>1. aired[s] > 0 => LastKey(s) \in Key
      BY ShowNumbers
    <3> QED BY <1>3, <1>8, <2>1, <3>1, FollowedKept
  <2> QED BY <1>7, <1>8, <2>1
<1>9. ASSUME NEW s \in Show, notice(s)
      PROVE  PursuitInv'
  <2>1. /\ UNCHANGED <<book, marked, aired, airsIn, seenNext, seenAge, refreshed, lookups,
                       checks, rows, scheduled>>
        /\ listed' = [listed EXCEPT ![s] = aired[s] + 1]
    BY <1>9 DEF notice, bookVars, loopVars, sendVars
  <2>2. ASSUME NEW t \in Show, aired[t] < Episodes
        PROVE  Followed(t)'
    <3>1. listed'[t] = listed[t] \/ listed'[t] = aired[t] + 1
      BY <2>1 DEF PartsOK, WorldOK
    <3>2. Followed(t) /\ aired[t] \in Nat
      BY <1>3, <2>2, ShowNumbers
    <3>3. Lag(t)'
      BY <2>1, <3>1, <3>2 DEF Followed, Lag
    <3>4. (Looked(t) /\ Upcoming(t) /\ Current(t))'
      BY <2>1, <3>2 DEF Followed, Looked, Upcoming, Current, NextKey, LastKey
    <3> QED BY <3>3, <3>4 DEF Followed
  <2> QED BY <1>7, <2>1, <2>2
<1>10. ASSUME NEW s \in Show, finish(s)
       PROVE  PursuitInv'
  BY <1>8, <1>10 DEF finish, bookVars, loopVars, sendVars
<1>11. ASSUME NEW k \in Key, publish(k) \/ notifyEpisode(k) \/ askOnDemand(k)
       PROVE  PursuitInv'
  BY <1>8, <1>11 DEF publish, notifyEpisode, askOnDemand, worldVars, bookVars, loopVars, sendVars
<1>12. ASSUME NEW k \in Key, insertOnDemand(k) \/ insertScheduled(k)
       PROVE  PursuitInv'
  <2>1. /\ UNCHANGED <<worldVars, bookVars, loopVars>>
        /\ rows' = [rows EXCEPT ![k] = Smaller(@ + 1, MaxRows)]
        /\ scheduled' = scheduled \/ scheduled' = [scheduled EXCEPT ![k] = "none"]
    BY <1>12 DEF insertOnDemand, insertScheduled
  <2>2. \A j \in Key : /\ rows[j] > 0 => rows'[j] > 0
                       /\ scheduled[j] # "none" => rows'[j] > 0 \/ scheduled'[j] # "none"
    BY <1>4, <1>6, <2>1
  <2> QED BY <1>8, <2>1, <2>2 DEF worldVars, bookVars, loopVars
<1>13. ASSUME NEW k \in Key, askScheduled(k)
       PROVE  PursuitInv'
  <2>1. /\ UNCHANGED <<worldVars, rows, bookVars, loopVars>>
        /\ scheduled' = [scheduled EXCEPT ![k] =
                            IF k[1] \notin ended /\ ToTell(k) THEN "insert" ELSE "none"]
    BY <1>13 DEF askScheduled
  <2>2. ASSUME NEW s \in Show, aired[s] < Episodes, aired[s] > 0, LastKey(s) = k
        PROVE  rows[k] > 0 \/ scheduled'[k] # "none"
    <3>1. k[1] = s
      BY <2>2 DEF LastKey
    <3>2. k[1] \notin ended /\ k[1] \in marked
      BY <1>3, <1>5, <2>2, <3>1
    <3>3. rows[k] > 0 \/ ToTell(k)
      BY <1>6, <3>2 DEF ToTell
    <3> QED BY <1>4, <2>1, <3>2, <3>3
  <2>3. ASSUME NEW s \in Show, aired[s] < Episodes
        PROVE  Followed(s)'
    <3>1. aired[s] > 0 /\ scheduled[LastKey(s)] # "none"
             => rows'[LastKey(s)] > 0 \/ scheduled'[LastKey(s)] # "none"
      <4>1. aired[s] > 0 => LastKey(s) \in Key
        BY ShowNumbers
      <4>2. CASE LastKey(s) = k
        BY <2>1, <2>2, <2>3, <4>2
      <4>3. CASE LastKey(s) # k
        BY <1>4, <2>1, <4>1, <4>3
      <4> QED BY <4>2, <4>3
    <3> QED BY <1>3, <2>1, <2>3, <3>1, FollowedKept DEF worldVars, bookVars
  <2> QED BY <1>7, <2>1, <2>3 DEF worldVars, bookVars, loopVars
<1>14. ASSUME NEW k \in Key, failOnDemand(k) \/ failScheduled(k)
       PROVE  FALSE
  BY <1>1, <1>14 DEF failOnDemand, failScheduled, failed
<1>15. ASSUME NEW s \in Show, bookmark(s)
       PROVE  FALSE
  BY <1>1, <1>15 DEF bookmark
<1>16. ~restart /\ ~refreshBookmarks
  BY <1>1, <1>3 DEF restart, refreshBookmarks
<1>17. ASSUME NEW s \in Show, refreshOneAiring(s)
       PROVE  PursuitInv'
  <2>1. /\ s \in Stalest /\ lookups < Cardinality(Show) /\ lookups' = lookups + 1
        /\ refreshed' = Stamped(s)
        /\ UNCHANGED <<worldVars, rows, book, scheduled>>
        /\ IF s \in ended \/ listed[s] > Episodes
           THEN UNCHANGED <<seenNext, seenAge, checks>>
           ELSE /\ checks'   = Scheduled(s, listed[s], NextAirsIn(s))
                /\ seenNext' = [seenNext EXCEPT ![s] = listed[s]]
                /\ seenAge'  = [seenAge EXCEPT ![s] = 0]
    BY <1>1, <1>17 DEF refreshOneAiring, sendVars
  <2>2. UNCHANGED <<aired, airsIn, listed, marked>>
    BY <2>1 DEF worldVars
  <2>3. ASSUME aired[s] < Episodes
        PROVE  /\ checks' = Scheduled(s, listed[s], NextAirsIn(s))
               /\ seenNext' = [seenNext EXCEPT ![s] = listed[s]]
               /\ seenAge' = [seenAge EXCEPT ![s] = 0]
    <3>1. listed[s] <= Episodes
      BY <2>3, ShowNumbers, Numbers
    <3>2. ~(listed[s] > Episodes)
      BY <3>1, ShowNumbers, Numbers
    <3> QED BY <1>5, <2>1, <2>3, <3>2
  <2>4. aired[s] < Episodes => Followed(s)' /\ Seen(s)'
    <3> SUFFICES ASSUME aired[s] < Episodes PROVE Followed(s)' /\ Seen(s)'
      OBVIOUS
    <3>1. seenNext'[s] = listed[s] /\ seenAge'[s] = 0
      BY <2>3 DEF PartsOK, BookOK
    <3> QED BY <1>3, <2>1, <2>2, <2>3, <3>1, FollowedLookUp
  <2>5. ASSUME NEW t \in Show, t # s
        PROVE  /\ seenNext'[t] = seenNext[t] /\ seenAge'[t] = seenAge[t]
               /\ \A k \in Key : k[1] = t => checks'[k] = checks[k]
    BY <2>1, <2>5 DEF Scheduled, PartsOK, BookOK
  <2>6. ASSUME NEW t \in Show, t # s, aired[t] < Episodes
        PROVE  Followed(t)'
    <3>1. NextKey(t) \in Key /\ (aired[t] > 0 => LastKey(t) \in Key)
      BY <2>6, ShowNumbers
    <3>2. Followed(t)
      BY <1>3, <2>6
    <3>3. (Lag(t) /\ Looked(t))'
      BY <2>2, <2>5, <2>6, <3>2 DEF Followed, Lag, Looked
    <3>4. Upcoming(t)'
      BY <2>2, <2>5, <2>6, <3>1, <3>2 DEF Followed, Upcoming, NextKey
    <3>5. Current(t)'
      BY <2>1, <2>2, <2>5, <2>6, <3>1, <3>2 DEF Followed, Current, LastKey
    <3> QED BY <3>3, <3>4, <3>5 DEF Followed
  <2>7. LookUps'
    <3>1. PICK L \in SUBSET Show :
             Round(L) /\ \A t \in L : aired[t] < Episodes => Seen(t)
      BY <1>3 DEF LookUps
    <3>2. s \notin L /\ Round(L \union {s})'
      BY <1>3, <2>1, <3>1, NextInRound
    <3>3. ASSUME NEW t \in L \union {s}, aired[t] < Episodes
          PROVE  Seen(t)'
      <4>1. CASE t = s
        BY <2>4, <3>3, <4>1
      <4>2. CASE t # s
        BY <2>2, <2>5, <3>1, <3>3, <4>2 DEF Seen
      <4> QED BY <4>1, <4>2
    <3> QED BY <2>2, <3>1, <3>2, <3>3 DEF LookUps
  <2> QED BY <1>3, <2>1, <2>2, <2>4, <2>6, <2>7 DEF PursuitInv
<1>18. CASE sweepDueChecks
  <2>1. /\ UNCHANGED <<worldVars, rows, book, seenNext, seenAge, refreshed, lookups, scheduled>>
        /\ checks' = [k \in Key |-> IF k \in Due THEN [checks[k] EXCEPT !.wait = Retry]
                                    ELSE checks[k]]
    BY <1>18 DEF sweepDueChecks, sendVars
  <2>2. \A k \in Key : /\ k \in Due => /\ checks[k].state = "pending" /\ checks[k].wait = 0
                                       /\ checks'[k].state = checks[k].state
                                       /\ checks'[k].left = checks[k].left
                                       /\ checks'[k].wait = Retry
                       /\ k \notin Due => checks'[k] = checks[k]
    BY <1>4, <2>1 DEF Due, Check
  <2>3. ASSUME NEW s \in Show, aired[s] < Episodes
        PROVE  Followed(s)'
    <3>0. UNCHANGED <<aired, airsIn, listed>>
      BY <2>1 DEF worldVars
    <3>1. /\ NextKey(s) \in Key /\ (aired[s] > 0 => LastKey(s) \in Key)
          /\ airsIn[s] \in Nat /\ airsIn[s] <= Period
      BY <2>3, ShowNumbers
    <3>2. Followed(s)
      BY <1>3, <2>3
    <3>3. (Lag(s) /\ Looked(s))'
      BY <2>1, <3>0, <3>2 DEF Followed, Lag, Looked
    <3>4. NextKey(s) \notin Due
      <4> SUFFICES ASSUME NextKey(s) \in Due PROVE FALSE
        OBVIOUS
      <4>1. checks[NextKey(s)] # NoCheck
        BY <2>2, <3>1 DEF NoCheck
      <4>2. Ahead(checks[NextKey(s)], airsIn[s])
        BY <3>2, <4>1 DEF Followed, Upcoming
      <4> QED BY <2>2, <3>1, <4>2, Numbers DEF Ahead
    <3>5. Upcoming(s)'
      BY <2>1, <2>2, <3>0, <3>1, <3>2, <3>4 DEF Followed, Upcoming, NextKey
    <3>6. Current(s)'
      <4>1. LastKey(s)' = LastKey(s)
        BY <3>0 DEF LastKey
      <4>2. ASSUME aired[s] > 0, InTime(checks[LastKey(s)], Period - airsIn[s])
            PROVE  InTime(checks'[LastKey(s)], Period - airsIn[s])
        <5>1. Retry <= Larger(FirstDelay - (Period - airsIn[s]), Retry)
          BY <3>1, Numbers DEF Larger
        <5> QED BY <2>2, <3>1, <4>2, <5>1 DEF InTime
      <4> QED BY <2>1, <3>0, <3>2, <4>1, <4>2 DEF Followed, Current
    <3> QED BY <3>3, <3>5, <3>6 DEF Followed
  <2> QED BY <1>7, <2>1, <2>3 DEF worldVars
<1>19. ASSUME NEW k \in Key, probe(k)
       PROVE  PursuitInv'
  <2>1. /\ UNCHANGED <<worldVars, rows, book, seenNext, seenAge, refreshed, lookups>>
        /\ k \in due
        /\ \/ Expired(checks[k]) /\ scheduled' = scheduled
           \/ scheduled' = [scheduled EXCEPT ![k] = "ask"]
           \/ UNCHANGED <<checks, scheduled>>
        /\ \A j \in Key : j # k => checks'[j] = checks[j]
    BY <1>4, <1>19 DEF probe
  <2>2. UNCHANGED <<aired, airsIn, listed>>
    BY <2>1 DEF worldVars
  <2>3. ASSUME NEW s \in Show, aired[s] < Episodes
        PROVE  Followed(s)'
    <3>1. /\ NextKey(s) \in Key /\ (aired[s] > 0 => LastKey(s) \in Key)
          /\ aired[s] \in Nat /\ airsIn[s] \in Nat /\ airsIn[s] <= Period /\ airsIn[s] > 0
      BY <2>3, ShowNumbers
    <3>2. Followed(s)
      BY <1>3, <2>3
    <3>3. (Lag(s) /\ Looked(s))'
      BY <2>1, <2>2, <3>2 DEF Followed, Lag, Looked
    <3>4. NextKey(s) # k
      <4> SUFFICES ASSUME NextKey(s) = k PROVE FALSE
        OBVIOUS
      <4>1. checks[k].state = "pending" /\ checks[k] # NoCheck /\ k[1] = s
        <5>1. checks[k].state = "pending"
          BY <2>1 DEF PartsOK, LoopOK
        <5> QED BY <5>1 DEF NoCheck, NextKey
      <4>2. Ahead(checks[k], airsIn[s])
        BY <3>2, <4>1 DEF Followed, Upcoming
      <4>3. status[s] = "RELEASING"
        BY <1>5, <2>3, <4>1 DEF ShowsInv, PartsOK, BookOK, ShowStatus
      <4>4. checks[k].wait = Retry
        BY <2>1, <4>1, <4>3 DEF ChecksInv, Open
      <4> QED BY <3>1, <4>2, <4>4, Numbers DEF Ahead
    <3>5. Upcoming(s)'
      BY <2>1, <2>2, <3>1, <3>2, <3>4 DEF Followed, Upcoming, NextKey
    <3>6. Current(s)'
      <4>1. LastKey(s)' = LastKey(s)
        BY <2>2 DEF LastKey
      <4>2. CASE LastKey(s) # k
        <5>1. aired[s] > 0 => /\ checks'[LastKey(s)] = checks[LastKey(s)]
                              /\ scheduled'[LastKey(s)] = scheduled[LastKey(s)]
          BY <1>4, <2>1, <3>1, <4>2
        <5> QED BY <2>1, <2>2, <3>2, <4>1, <5>1 DEF Followed, Current
      <4>3. CASE LastKey(s) = k
        <5> SUFFICES ASSUME aired[s] > 0, Period - airsIn[s] + 1 < GiveUp, ~(rows[k] > 0),
                            scheduled'[k] = "none"
                     PROVE  InTime(checks'[k], Period - airsIn[s])
          BY <2>1, <2>2, <4>1, <4>3 DEF Current
        <5>1. scheduled'[k] # "ask"
          OBVIOUS
        <5>2. scheduled' = scheduled
          BY <1>4, <2>1, <5>1
        <5>3. InTime(checks[k], Period - airsIn[s])
          BY <3>2, <4>3, <5>2 DEF Followed, Current
        <5>4. ~Expired(checks[k])
          <6>1. checks[k].left \in Int
            BY <1>4, Numbers DEF Check
          <6> QED BY <3>1, <5>3, <6>1, Numbers DEF InTime, Expired
        <5>5. checks' = checks
          BY <1>4, <2>1, <5>1, <5>4
        <5> QED BY <5>3, <5>5
      <4> QED BY <4>2, <4>3
    <3> QED BY <3>3, <3>5, <3>6 DEF Followed
  <2> QED BY <1>7, <2>1, <2>3 DEF worldVars
<1>20. CASE tick
  <2>1. /\ aired'  = [s \in Show |-> IF airs(s) THEN aired[s] + 1 ELSE aired[s]]
        /\ airsIn' = [s \in Show |-> IF airs(s) THEN Period ELSE Larger(airsIn[s] - 1, 0)]
        /\ seenAge' = [s \in Show |-> IF seenNext[s] = 0 THEN 0
                                      ELSE Smaller(seenAge[s] + 1, SeenWindow + 1)]
        /\ checks' = [k \in Key |-> Older(checks[k])]
        /\ lookups' = 0 /\ UNCHANGED <<listed, marked, rows, book, seenNext, refreshed>>
        /\ \A s \in Show : ~late(s)
        /\ \A k \in Key : scheduled[k] = "none"
        /\ book = {} \/ lookups = Cardinality(Show)
    BY <1>1, <1>20 DEF tick, Rested
  <2>2. LookUps'
    <3>1. Round({})'
      BY <2>1, FS_EmptySet DEF Round
    <3> QED BY <3>1 DEF LookUps
  <2>3. \A s \in Show : aired[s] < Episodes => Seen(s)
    <3> SUFFICES ASSUME Show # {} PROVE \A s \in Show : aired[s] < Episodes => Seen(s)
      OBVIOUS
    <3>1. PICK L \in SUBSET Show :
             Round(L) /\ \A t \in L : aired[t] < Episodes => Seen(t)
      BY <1>3 DEF LookUps
    <3>2. Cardinality(L) = Cardinality(Show)
      BY <1>3, <2>1, <3>1 DEF Round
    <3>3. L = Show
      BY <3>2, NotifierAssumption, FS_Subset
    <3> QED BY <3>1, <3>3
  <2>4. \A s \in Show : aired'[s] < Episodes => Followed(s)'
    BY <1>3, <2>1, <2>3, FollowedTick
  <2> QED BY <1>3, <2>1, <2>2, <2>4 DEF PursuitInv
<1>21. CASE UNCHANGED vars
  BY <1>8, <1>21 DEF vars, worldVars, bookVars, loopVars, sendVars
<1> QED BY <1>9, <1>10, <1>11, <1>12, <1>13, <1>14, <1>15, <1>16, <1>17, <1>18, <1>19,
           <1>20, <1>21 DEF Next, Loop, Send

(* An episode that has just aired is pursued until the user has been told, *)
(* if no look-up fails for good: for every number of shows, whose look-ups *)
(* take their turns, and every pair of delays.                             *)
THEOREM NewEpisodesPursued ==
    ASSUME Missing = {}
    PROVE  Spec => []AiredPursued
<1>1. PartsOK /\ ShowsInv /\ PursuitInv => AiredPursued
  <2> SUFFICES ASSUME PartsOK, ShowsInv, PursuitInv, upsets = 0, NEW k \in NotLast,
                      JustAired(k), rows[k] = 0
               PROVE  Pursued(k)
    BY DEF AiredPursued
  <2> DEFINE s == k[1]
  <2>1. s \in Show /\ k = LastKey(s) /\ k[2] >= 1 /\ aired[s] < Episodes /\ k \in Key
    BY Numbers DEF NotLast, Key, JustAired, LastKey
  <2>2. aired[s] > 0 /\ airsIn[s] \in Nat /\ airsIn[s] <= Period
    BY <2>1, ShowNumbers DEF JustAired
  <2>3. Current(s)
    BY <2>1 DEF PursuitInv, Followed
  <2>4. scheduled[k] # "none" \/ InTime(checks[k], Period - airsIn[s])
    BY <2>1, <2>2, <2>3 DEF Current, JustAired, SinceAired
  <2>5. checks[k].left \in Int
    BY <2>1, Numbers DEF PartsOK, BookOK, Check
  <2>6. InTime(checks[k], Period - airsIn[s]) => ~Expired(checks[k])
    BY <2>2, <2>5, Numbers DEF InTime, Expired, JustAired, SinceAired
  <2> QED BY <2>4, <2>6 DEF Pursued, InTime, SinceAired
<1>2. PartsOK /\ ShowsInv /\ ChecksInv /\ EndedInv /\ PursuitInv /\ [Next]_vars => PursuitInv'
  BY PursuitStep
<1> QED BY <1>1, <1>2, PartsInit, PartsStep, ChecksInit, ChecksStep, EndedInit, EndedStep,
           PursuitInit, PTL DEF Spec
=============================================================================
