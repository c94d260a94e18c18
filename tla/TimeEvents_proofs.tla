-------------------------- MODULE TimeEvents_proofs --------------------------
(***************************************************************************)
(* The timer list and the restarting scan, for any number of timers, any   *)
(* delays and any clock: the list runs from the newest timer to the        *)
(* oldest, a finalizer runs once, the scan reads only nodes of the list,   *)
(* passes over no timer that is due, and only a timer's own return value   *)
(* moves its due time.                                                     *)
(***************************************************************************)
EXTENDS TimeEvents, TLAPS

-----------------------------------------------------------------------------
(***************************************************************************)
(* The pairs of seconds and milliseconds behave as the number of           *)
(* milliseconds they stand for, for every length of a second.              *)
(***************************************************************************)
\* Division with remainder, as evGetTime and evAddMillisecondsToNow use it.
LEMMA SplitSum ==
  ASSUME NEW x \in Nat
  PROVE  /\ x \div MsPerSec \in Nat
         /\ x % MsPerSec \in 0 .. MsPerSec - 1
         /\ x = (x \div MsPerSec) * MsPerSec + (x % MsPerSec)
  BY TimeAssumption

\* A second more is MsPerSec milliseconds more.
LEMMA Distribute ==
  ASSUME NEW a \in Int, NEW b \in Int
  PROVE  (a + b) * MsPerSec = a * MsPerSec + b * MsPerSec
  BY TimeAssumption

\* evGetTime loses nothing of the clock.
LEMMA ClockIsMoment ==
  ASSUME NEW n \in Nat
  PROVE  evGetTime(n) \in Moment /\ Total(evGetTime(n)) = n
  BY SplitSum DEF evGetTime, Moment, Total

\* evAddMillisecondsToNow carries into the seconds correctly: the pair it
\* stores is well formed and stands for exactly msec milliseconds from now.
THEOREM AddIsSum ==
  ASSUME NEW n \in Nat, NEW msec \in Nat
  PROVE  /\ evAddMillisecondsToNow(n, msec) \in Moment
         /\ Total(evAddMillisecondsToNow(n, msec)) = n + msec
<1> DEFINE cur == evGetTime(n)
           ds  == msec \div MsPerSec
           dm  == msec % MsPerSec
<1>1. /\ cur \in Moment /\ Total(cur) = n
      /\ ds \in Nat /\ dm \in 0 .. MsPerSec - 1 /\ msec = ds * MsPerSec + dm
  BY SplitSum, ClockIsMoment
<1>2. /\ MsPerSec \in Nat \ {0}
      /\ cur.sec \in Nat /\ cur.ms \in 0 .. MsPerSec - 1
      /\ n = cur.sec * MsPerSec + cur.ms
  BY <1>1, TimeAssumption DEF Moment, Total
<1> HIDE DEF cur, ds, dm
<1>3. evAddMillisecondsToNow(n, msec) =
        IF cur.ms + dm >= MsPerSec
          THEN [sec |-> cur.sec + ds + 1, ms |-> cur.ms + dm - MsPerSec]
          ELSE [sec |-> cur.sec + ds, ms |-> cur.ms + dm]
  <2>1. CASE cur.ms + dm >= MsPerSec
    BY <1>1, <1>2, <2>1 DEF evAddMillisecondsToNow, cur, ds, dm
  <2>2. CASE ~(cur.ms + dm >= MsPerSec)
    BY <1>1, <1>2, <2>2 DEF evAddMillisecondsToNow, cur, ds, dm
  <2> QED BY <2>1, <2>2
<1>4. (cur.sec + ds) * MsPerSec = cur.sec * MsPerSec + ds * MsPerSec
  BY <1>1, <1>2, Distribute
<1>5. (cur.sec + ds + 1) * MsPerSec = cur.sec * MsPerSec + ds * MsPerSec + MsPerSec
  BY <1>1, <1>2, <1>4, Distribute
<1>6. CASE cur.ms + dm >= MsPerSec
  BY <1>1, <1>2, <1>3, <1>5, <1>6 DEF Moment, Total
<1>7. CASE ~(cur.ms + dm >= MsPerSec)
  BY <1>1, <1>2, <1>3, <1>4, <1>7 DEF Moment, Total
<1> QED BY <1>6, <1>7

\* The comparison of two pairs, field by field, is the comparison of the
\* milliseconds they stand for.
THEOREM BeforeIsLess ==
  ASSUME NEW a \in Moment, NEW b \in Moment
  PROVE  Before(a, b) <=> Total(a) < Total(b)
<1>1. /\ a.sec \in Nat /\ b.sec \in Nat
      /\ a.ms \in 0 .. MsPerSec - 1 /\ b.ms \in 0 .. MsPerSec - 1
  BY DEF Moment
<1>2. MsPerSec \in Nat \ {0}
  BY TimeAssumption
<1>3. ASSUME NEW x \in Nat, NEW y \in Nat, x < y
      PROVE  x * MsPerSec + MsPerSec <= y * MsPerSec
  <2>1. (x + 1) * MsPerSec <= y * MsPerSec
    BY <1>2, <1>3
  <2>2. (x + 1) * MsPerSec = x * MsPerSec + 1 * MsPerSec
    BY <1>3, Distribute
  <2> QED BY <1>2, <2>1, <2>2
<1>4. a.sec * MsPerSec \in Int /\ b.sec * MsPerSec \in Int
  BY <1>1, <1>2
<1>5. CASE a.sec < b.sec
  BY <1>1, <1>2, <1>3, <1>4, <1>5 DEF Before, Total
<1>6. CASE a.sec = b.sec
  BY <1>1, <1>2, <1>4, <1>6 DEF Before, Total
<1>7. CASE b.sec < a.sec
  BY <1>1, <1>2, <1>3, <1>4, <1>7 DEF Before, Total
<1> QED BY <1>1, <1>5, <1>6, <1>7

\* The test of processTimeEvents says whether the clock has reached the time.
THEOREM DueIsReached ==
  ASSUME NEW n \in Nat, NEW when \in Moment
  PROVE  IsDue(n, when) <=> Total(when) <= n
<1>1. evGetTime(n) \in Moment /\ Total(evGetTime(n)) = n
  BY ClockIsMoment
<1>2. IsDue(n, when) <=> ~Before(evGetTime(n), when)
  <2>1. /\ evGetTime(n).sec \in Int /\ evGetTime(n).ms \in Int
        /\ when.sec \in Int /\ when.ms \in Int
    BY <1>1 DEF Moment
  <2> QED BY <2>1 DEF IsDue, Before
<1>3. Total(when) \in Int
  BY TimeAssumption DEF Total, Moment
<1> QED BY <1>1, <1>2, <1>3, BeforeIsLess

-----------------------------------------------------------------------------
\* The list after evDeleteTimeEvent: the nodes behind p move up.
LEMMA RemovedAt ==
  ASSUME NEW S, NEW s \in Seq(S), NEW p \in DOMAIN s
  PROVE  /\ RemoveAt(s, p) \in Seq(S)
         /\ Len(RemoveAt(s, p)) = Len(s) - 1
         /\ \A q \in 1 .. Len(s) - 1 :
              RemoveAt(s, p)[q] = IF q < p THEN s[q] ELSE s[q + 1]
<1> DEFINE a == SubSeq(s, 1, p - 1)
           b == SubSeq(s, p + 1, Len(s))
<1>0. p \in 1 .. Len(s) /\ Len(s) \in Nat
  OBVIOUS
<1>1. a \in Seq(S) /\ Len(a) = p - 1 /\ \A q \in 1 .. p - 1 : a[q] = s[q]
  BY <1>0
<1>2. b \in Seq(S) /\ Len(b) = Len(s) - p /\ \A q \in 1 .. Len(s) - p : b[q] = s[p + q]
  BY <1>0
<1>3. RemoveAt(s, p) = a \o b
  BY DEF RemoveAt
<1> HIDE DEF a, b
<1>4. a \o b \in Seq(S) /\ Len(a \o b) = Len(s) - 1
  BY <1>0, <1>1, <1>2
<1>5. ASSUME NEW q \in 1 .. Len(s) - 1
      PROVE  (a \o b)[q] = IF q < p THEN s[q] ELSE s[q + 1]
  <2>1. CASE q < p
    BY <2>1, <1>0, <1>1, <1>2
  <2>2. CASE ~(q < p)
    <3>1. (a \o b)[q] = b[q - (p - 1)]
      BY <2>2, <1>0, <1>1, <1>2
    <3>2. q - (p - 1) \in 1 .. Len(s) - p /\ p + (q - (p - 1)) = q + 1
      BY <2>2, <1>0
    <3>3. b[q - (p - 1)] = s[p + (q - (p - 1))]
      BY <1>2, <3>2
    <3> QED BY <2>2, <1>0, <3>1, <3>2, <3>3
  <2> QED BY <2>1, <2>2
<1> QED BY <1>3, <1>4, <1>5

\* The list after evCreateTimeEvent: the nodes move down.
LEMMA LinkedAtHead ==
  ASSUME NEW S, NEW s \in Seq(S), NEW e \in S
  PROVE  /\ <<e>> \o s \in Seq(S)
         /\ Len(<<e>> \o s) = Len(s) + 1
         /\ \A q \in 1 .. Len(s) + 1 : (<<e>> \o s)[q] = IF q = 1 THEN e ELSE s[q - 1]
OBVIOUS

-----------------------------------------------------------------------------
\* te reaches a node of the list while the pass reads it; only a callback can
\* find that its own node has been freed.
TePlace ==
  /\ phase = "scan" => te = NULL \/ te \in Pending
  /\ phase = "callback" => te = FREED \/ te \in Pending
  /\ phase \in {"idle", "finalizer"} => te = NULL

\* The timers in front of te have been passed over: none of them that is old
\* enough is due.  The list being ordered, they are those with a higher id.
PassedAreLater ==
  phase = "scan" =>
    /\ scanStart <= now
    /\ \A p \in DOMAIN timeEventHead :
         (te = NULL \/ timeEventHead[p].id > te) /\ timeEventHead[p].id <= maxId
           => Total(timeEventHead[p].when) > scanStart

ListInv == TimeTypeOK /\ NewestFirst /\ FinalizedOnce

TimeInv == ListInv /\ TePlace /\ PassedAreLater

-----------------------------------------------------------------------------
\* A pending timer has one node, and At finds it.
LEMMA NodeOf ==
  ASSUME NewestFirst, timeEventHead \in Seq(TimeEvent), timeEventNextId \in Nat,
         NEW p \in DOMAIN timeEventHead
  PROVE  /\ timeEventHead[p].id \in Pending /\ At(timeEventHead[p].id) = p
         /\ timeEventHead[p].id \in Ids
<1> DEFINE i == timeEventHead[p].id
           a == At(i)
<1>1. a \in DOMAIN timeEventHead /\ timeEventHead[a].id = i
  BY DEF At
<1> HIDE DEF a
<1>2. /\ p \in Nat /\ a \in Nat /\ i \in Nat /\ i < timeEventNextId
  <2>1. p \in Nat /\ a \in Nat /\ timeEventHead[p] \in TimeEvent
    BY <1>1
  <2> QED BY <2>1 DEF TimeEvent, NewestFirst
<1>3. ~(a < p) /\ ~(p < a)
  BY <1>1, <1>2 DEF NewestFirst
<1>4. a = p
  BY <1>2, <1>3
<1>5. i \in Ids
  BY <1>2 DEF Ids
<1> QED BY <1>4, <1>5 DEF Pending, a

\* And the other way round.
LEMMA NodeAt ==
  ASSUME timeEventHead \in Seq(TimeEvent), NEW i \in Pending
  PROVE  /\ At(i) \in DOMAIN timeEventHead /\ timeEventHead[At(i)].id = i
         /\ i \in Nat /\ timeEventHead[At(i)] \in TimeEvent
<1>1. \E p \in DOMAIN timeEventHead : timeEventHead[p].id = i
  BY DEF Pending
<1>2. At(i) \in DOMAIN timeEventHead /\ timeEventHead[At(i)].id = i
  BY <1>1 DEF At
<1>3. timeEventHead[At(i)] \in TimeEvent
  BY <1>2
<1> QED BY <1>2, <1>3 DEF TimeEvent

\* A new timer keeps the order, and nobody has finalized it.
LEMMA LinkKeepsList ==
  ASSUME ListInv, NEW msec \in Delays, NEW fin \in BOOLEAN, evCreateTimeEvent(msec, fin)
  PROVE  ListInv' /\ Pending' = Pending \cup {timeEventNextId}
<1> DEFINE new == [id |-> timeEventNextId, when |-> evAddMillisecondsToNow(now, msec),
                   fin |-> fin]
<1>0. timeEventNextId \in Nat /\ timeEventHead \in Seq(TimeEvent)
  BY DEF ListInv, TimeTypeOK
<1>1. new \in TimeEvent
  BY <1>0, AddIsSum, TimerAssumption DEF TimeEvent, ListInv, TimeTypeOK
<1>2. timeEventHead' = <<new>> \o timeEventHead /\ timeEventNextId' = timeEventNextId + 1
  BY DEF evCreateTimeEvent, Link
<1>3. new.id = timeEventNextId
  OBVIOUS
<1> HIDE DEF new
<1>4. /\ timeEventHead' \in Seq(TimeEvent)
      /\ Len(timeEventHead') = Len(timeEventHead) + 1
      /\ \A q \in 1 .. Len(timeEventHead) + 1 :
           timeEventHead'[q] = IF q = 1 THEN new ELSE timeEventHead[q - 1]
  BY <1>0, <1>1, <1>2, LinkedAtHead
<1>5. DOMAIN timeEventHead' = 1 .. Len(timeEventHead) + 1
  BY <1>4
<1>6. Pending' = Pending \cup {timeEventNextId}
  <2>1. ASSUME NEW q \in DOMAIN timeEventHead
        PROVE  q + 1 \in DOMAIN timeEventHead' /\ timeEventHead'[q + 1] = timeEventHead[q]
    BY <1>0, <1>4, <1>5
  <2>2. 1 \in DOMAIN timeEventHead' /\ timeEventHead'[1].id = timeEventNextId
    BY <1>0, <1>3, <1>4, <1>5
  <2>3. ASSUME NEW q \in DOMAIN timeEventHead', q # 1
        PROVE  q - 1 \in DOMAIN timeEventHead /\ timeEventHead'[q] = timeEventHead[q - 1]
    BY <1>0, <1>4, <1>5, <2>3
  <2> QED BY <2>1, <2>2, <2>3 DEF Pending
<1>7. NewestFirst'
  <2>1. ASSUME NEW q \in DOMAIN timeEventHead'
        PROVE  timeEventHead'[q].id < timeEventNextId + 1
    <3>1. CASE q = 1
      BY <1>0, <1>3, <1>4, <1>5, <3>1
    <3>2. CASE q # 1
      <4>1. q - 1 \in DOMAIN timeEventHead /\ timeEventHead'[q] = timeEventHead[q - 1]
        BY <1>0, <1>4, <1>5, <3>2
      <4>2. timeEventHead[q - 1].id < timeEventNextId /\ timeEventHead[q - 1] \in TimeEvent
        BY <1>0, <4>1 DEF ListInv, NewestFirst
      <4> QED BY <1>0, <4>1, <4>2 DEF TimeEvent
    <3> QED BY <3>1, <3>2
  <2>2. ASSUME NEW q \in DOMAIN timeEventHead', NEW r \in DOMAIN timeEventHead', q < r
        PROVE  timeEventHead'[q].id > timeEventHead'[r].id
    <3>1. r - 1 \in DOMAIN timeEventHead /\ timeEventHead'[r] = timeEventHead[r - 1]
      BY <1>0, <1>4, <1>5, <2>2
    <3>2. CASE q = 1
      <4>1. timeEventHead[r - 1].id < timeEventNextId /\ timeEventHead[r - 1] \in TimeEvent
        BY <1>0, <3>1 DEF ListInv, NewestFirst
      <4>2. timeEventHead'[q].id = timeEventNextId
        BY <1>0, <1>3, <1>4, <1>5, <3>2
      <4> QED BY <1>0, <3>1, <4>1, <4>2 DEF TimeEvent
    <3>3. CASE q # 1
      <4>1. q - 1 \in DOMAIN timeEventHead /\ timeEventHead'[q] = timeEventHead[q - 1]
        BY <1>0, <1>4, <1>5, <3>3
      <4>2. q - 1 < r - 1
        BY <2>2, <1>5, <1>0
      <4> QED BY <3>1, <4>1, <4>2 DEF ListInv, NewestFirst
    <3> QED BY <3>2, <3>3
  <2> QED BY <1>2, <2>1, <2>2 DEF NewestFirst
<1>8. /\ Ids' = 0 .. timeEventNextId
      /\ calls' = [i \in 0 .. timeEventNextId |->
                     IF i = timeEventNextId THEN 0 ELSE calls[i]]
  BY <1>0, <1>2 DEF Ids, evCreateTimeEvent
<1>9. calls' \in [Ids' -> Nat] /\ FinalizedOnce'
  BY <1>0, <1>6, <1>8 DEF ListInv, TimeTypeOK, FinalizedOnce, Ids
<1>10. te' \in Nat \cup {NULL, FREED}
  BY <1>0 DEF evCreateTimeEvent, ListInv, TimeTypeOK
<1>11. TimeTypeOK'
  BY <1>0, <1>2, <1>4, <1>9, <1>10 DEF evCreateTimeEvent, ListInv, TimeTypeOK
<1> QED BY <1>6, <1>7, <1>9, <1>11 DEF ListInv

\* A timer that leaves the list is finalized for the first time.
LEMMA UnlinkKeepsList ==
  ASSUME ListInv, NEW p \in DOMAIN timeEventHead, Unlink(p), timeEventNextId' = timeEventNextId
  PROVE  /\ timeEventHead' \in Seq(TimeEvent) /\ calls' \in [Ids' -> Nat]
         /\ NewestFirst' /\ FinalizedOnce'
         /\ Pending' = Pending \ {timeEventHead[p].id}
<1>0. timeEventNextId \in Nat /\ timeEventHead \in Seq(TimeEvent) /\ p \in 1 .. Len(timeEventHead)
  BY DEF ListInv, TimeTypeOK
<1>1. timeEventHead' = RemoveAt(timeEventHead, p)
  BY DEF Unlink
<1>2. /\ timeEventHead' \in Seq(TimeEvent)
      /\ DOMAIN timeEventHead' = 1 .. Len(timeEventHead) - 1
      /\ \A q \in 1 .. Len(timeEventHead) - 1 :
           timeEventHead'[q] = IF q < p THEN timeEventHead[q] ELSE timeEventHead[q + 1]
  <2>1. /\ RemoveAt(timeEventHead, p) \in Seq(TimeEvent)
        /\ Len(RemoveAt(timeEventHead, p)) = Len(timeEventHead) - 1
        /\ \A q \in 1 .. Len(timeEventHead) - 1 :
             RemoveAt(timeEventHead, p)[q] = IF q < p THEN timeEventHead[q]
                                                     ELSE timeEventHead[q + 1]
    BY <1>0, RemovedAt
  <2> QED BY <1>1, <2>1
<1> DEFINE old(q) == IF q < p THEN q ELSE q + 1
<1>3. ASSUME NEW q \in DOMAIN timeEventHead'
      PROVE  /\ old(q) \in DOMAIN timeEventHead /\ old(q) # p
             /\ timeEventHead'[q] = timeEventHead[old(q)]
  BY <1>0, <1>2
<1>4. ASSUME NEW q \in DOMAIN timeEventHead', NEW r \in DOMAIN timeEventHead', q < r
      PROVE  old(q) < old(r)
  BY <1>0, <1>2, <1>4
<1>5. ASSUME NEW r \in DOMAIN timeEventHead, r # p
      PROVE  \E q \in DOMAIN timeEventHead' : old(q) = r
  <2>1. CASE r < p
    <3>1. r \in DOMAIN timeEventHead' /\ old(r) = r
      BY <1>0, <1>2, <2>1
    <3> QED BY <3>1
  <2>2. CASE ~(r < p)
    <3>1. r - 1 \in DOMAIN timeEventHead' /\ old(r - 1) = r
      BY <1>0, <1>2, <1>5, <2>2
    <3> QED BY <3>1
  <2> QED BY <2>1, <2>2
<1>6. \A r \in DOMAIN timeEventHead : r # p => timeEventHead[r].id # timeEventHead[p].id
  BY <1>0, NodeOf DEF ListInv
<1> HIDE DEF old
<1>7. Pending' = Pending \ {timeEventHead[p].id}
  BY <1>3, <1>5, <1>6 DEF Pending
<1>8. NewestFirst'
  BY <1>3, <1>4 DEF ListInv, NewestFirst
<1> DEFINE i == timeEventHead[p].id
<1>9. i \in Ids /\ i \in Pending /\ Ids' = Ids
  BY <1>0, NodeOf DEF ListInv, Ids
<1>10. /\ calls \in [Ids -> Nat]
       /\ calls' = [calls EXCEPT ![i] = IF timeEventHead[p].fin THEN @ + 1 ELSE @]
  BY DEF ListInv, TimeTypeOK, Unlink
<1> HIDE DEF i
<1>11. calls' \in [Ids' -> Nat]
  BY <1>9, <1>10
<1>12. FinalizedOnce'
  BY <1>7, <1>9, <1>10 DEF ListInv, FinalizedOnce, i
<1> QED BY <1>2, <1>7, <1>8, <1>11, <1>12

\* A timer that is set to run again keeps its place.
LEMMA RearmKeepsList ==
  ASSUME ListInv, NEW i \in Pending, NEW msec \in Nat, timeEventHead' = Rearmed(i, msec),
         UNCHANGED <<timeEventNextId, calls>>
  PROVE  /\ timeEventHead' \in Seq(TimeEvent)
         /\ DOMAIN timeEventHead' = DOMAIN timeEventHead
         /\ \A p \in DOMAIN timeEventHead :
              /\ timeEventHead'[p].id = timeEventHead[p].id
              /\ timeEventHead'[p].fin = timeEventHead[p].fin
              /\ timeEventHead'[p].when = IF p = At(i) THEN evAddMillisecondsToNow(now, msec)
                                                       ELSE timeEventHead[p].when
         /\ NewestFirst' /\ FinalizedOnce' /\ Pending' = Pending
<1> DEFINE w == evAddMillisecondsToNow(now, msec)
           a == At(i)
<1>0. timeEventHead \in Seq(TimeEvent) /\ now \in Nat
  BY DEF ListInv, TimeTypeOK
<1>1. w \in Moment
  BY <1>0, AddIsSum
<1>2. a \in DOMAIN timeEventHead
  BY <1>0, NodeAt
<1>3. timeEventHead' = [timeEventHead EXCEPT ![a].when = w]
  BY DEF Rearmed
<1> HIDE DEF a, w
<1>4. timeEventHead' = [timeEventHead EXCEPT ![a] = [timeEventHead[a] EXCEPT !.when = w]]
  BY <1>3
<1> DEFINE node == [timeEventHead[a] EXCEPT !.when = w]
<1>5. /\ node \in TimeEvent /\ node.when = w
      /\ node.id = timeEventHead[a].id /\ node.fin = timeEventHead[a].fin
  <2>1. timeEventHead[a] \in TimeEvent
    BY <1>0, <1>2
  <2> QED BY <1>1, <2>1 DEF TimeEvent
<1> HIDE DEF node
<1>6. timeEventHead' = [timeEventHead EXCEPT ![a] = node]
  BY <1>4 DEF node
<1>7. timeEventHead' \in Seq(TimeEvent) /\ DOMAIN timeEventHead' = DOMAIN timeEventHead
  BY <1>0, <1>2, <1>5, <1>6
<1>8. ASSUME NEW p \in DOMAIN timeEventHead
      PROVE  /\ timeEventHead'[p].id = timeEventHead[p].id
             /\ timeEventHead'[p].fin = timeEventHead[p].fin
             /\ timeEventHead'[p].when = IF p = a THEN w ELSE timeEventHead[p].when
  BY <1>0, <1>2, <1>5, <1>6
<1>9. Pending' = Pending
  BY <1>7, <1>8 DEF Pending
<1>10. NewestFirst' /\ FinalizedOnce'
  BY <1>7, <1>8, <1>9 DEF ListInv, NewestFirst, FinalizedOnce, Ids
<1> QED BY <1>7, <1>8, <1>9, <1>10 DEF a, w

-----------------------------------------------------------------------------
\* Restarting at the head of the list passes over nothing.
LEMMA RestartIsSafe ==
  ASSUME timeEventHead' \in Seq(TimeEvent), NewestFirst', now' = now, now \in Nat,
         StartScan(timeEventHead')
  PROVE  /\ TePlace' /\ PassedAreLater'
         /\ phase' = "scan" /\ scanStart' \in Nat /\ id' = NULL
         /\ te' \in Nat \cup {NULL, FREED}
<1>0. phase' = "scan" /\ scanStart' = now /\ te' = HeadOf(timeEventHead') /\ id' = NULL
  BY DEF StartScan
<1>1. CASE timeEventHead' = <<>>
  <2>1. te' = NULL /\ DOMAIN timeEventHead' = {}
    BY <1>0, <1>1 DEF HeadOf
  <2> QED BY <1>0, <2>1 DEF TePlace, PassedAreLater
<1>2. CASE timeEventHead' # <<>>
  <2>1. 1 \in DOMAIN timeEventHead'
    BY <1>2
  <2>2. te' = timeEventHead'[1].id /\ timeEventHead'[1] \in TimeEvent
    BY <1>0, <1>2, <2>1 DEF HeadOf
  <2>3. te' \in Nat /\ te' \in Pending'
    BY <2>1, <2>2 DEF TimeEvent, Pending
  <2>4. ASSUME NEW p \in DOMAIN timeEventHead'
        PROVE  timeEventHead'[p].id <= te'
    <3>1. timeEventHead'[p] \in TimeEvent /\ (p = 1 \/ 1 < p)
      BY <2>1
    <3> QED BY <2>1, <2>2, <3>1 DEF NewestFirst, TimeEvent
  <2>5. te' # NULL
    BY <2>3 DEF NULL
  <2>6. ASSUME NEW p \in DOMAIN timeEventHead'
        PROVE  ~(timeEventHead'[p].id > te')
    <3>1. timeEventHead'[p] \in TimeEvent
      OBVIOUS
    <3> QED BY <2>3, <2>4, <3>1 DEF TimeEvent
  <2> QED BY <1>0, <2>3, <2>5, <2>6 DEF TePlace, PassedAreLater
<1> QED BY <1>1, <1>2

\* No pass is under way: te is not looked at.
LEMMA NoScan ==
  ASSUME phase' # "scan"
  PROVE  PassedAreLater'
BY DEF PassedAreLater

\* What user code does to the list.
LEMMA UserKeepsInv ==
  ASSUME TimeInv, UserCall
  PROVE  TimeInv'
<1>0. UserCode /\ phase' = phase /\ UNCHANGED <<now, maxId, id, scanStart>>
  BY DEF UserCall, evCreateTimeEvent, evCreateTimeEventFails, evDeleteTimeEvent
<1>1. PassedAreLater'
  BY <1>0, NoScan DEF UserCode
<1>2. ASSUME NEW msec \in Delays, NEW fin \in BOOLEAN, evCreateTimeEvent(msec, fin)
      PROVE  TimeInv'
  <2>1. ListInv' /\ Pending' = Pending \cup {timeEventNextId}
    BY <1>2, LinkKeepsList DEF TimeInv
  <2>2. te' = te \/ (te = FREED /\ te' = timeEventNextId)
    BY <1>2 DEF evCreateTimeEvent
  <2>3. TePlace'
    BY <1>0, <2>1, <2>2 DEF TimeInv, TePlace, UserCode, NULL, FREED
  <2> QED BY <1>1, <2>1, <2>3 DEF TimeInv
<1>3. CASE evCreateTimeEventFails
  <2>0. timeEventNextId \in Nat /\ timeEventHead \in Seq(TimeEvent)
    BY DEF TimeInv, ListInv, TimeTypeOK
  <2>1. /\ timeEventNextId' = timeEventNextId + 1 /\ Ids' = 0 .. timeEventNextId
        /\ UNCHANGED <<timeEventHead, te>> /\ Pending' = Pending
        /\ calls' = [i \in 0 .. timeEventNextId |->
                       IF i = timeEventNextId THEN 0 ELSE calls[i]]
    BY <1>3, <2>0 DEF evCreateTimeEventFails, Ids, Pending
  <2>2. NewestFirst'
    <3>1. \A p \in DOMAIN timeEventHead : timeEventHead[p].id \in Nat
      <4> TAKE p \in DOMAIN timeEventHead
      <4>1. timeEventHead[p] \in TimeEvent
        BY <2>0
      <4> QED BY <4>1 DEF TimeEvent
    <3> QED BY <2>0, <2>1, <3>1 DEF TimeInv, ListInv, NewestFirst
  <2>3. calls' \in [Ids' -> Nat] /\ FinalizedOnce'
    BY <2>0, <2>1 DEF TimeInv, ListInv, TimeTypeOK, FinalizedOnce, Ids
  <2>4. TimeTypeOK'
    BY <1>0, <2>0, <2>1, <2>3 DEF TimeInv, ListInv, TimeTypeOK
  <2>5. TePlace'
    BY <1>0, <2>1 DEF TimeInv, TePlace
  <2> QED BY <1>1, <2>2, <2>3, <2>4, <2>5 DEF TimeInv, ListInv
<1>4. ASSUME NEW i \in Ids, evDeleteTimeEvent(i)
      PROVE  TimeInv'
  <2>1. PICK p \in DOMAIN timeEventHead : timeEventHead[p].id = i /\ Unlink(p)
    BY <1>4 DEF evDeleteTimeEvent
  <2>2. UNCHANGED timeEventNextId /\ te' = IF te = i THEN FREED ELSE te
    BY <1>4 DEF evDeleteTimeEvent
  <2>3. /\ timeEventHead' \in Seq(TimeEvent) /\ calls' \in [Ids' -> Nat]
        /\ NewestFirst' /\ FinalizedOnce' /\ Pending' = Pending \ {i}
    BY <2>1, <2>2, UnlinkKeepsList DEF TimeInv
  <2>4. i \in Pending /\ i \in Nat
    BY <2>1, NodeAt DEF TimeInv, ListInv, TimeTypeOK, Pending
  <2>5. TimeTypeOK'
    BY <1>0, <2>2, <2>3 DEF TimeInv, ListInv, TimeTypeOK
  <2>6. TePlace'
    BY <1>0, <2>2, <2>3, <2>4 DEF TimeInv, TePlace, UserCode, NULL, FREED
  <2> QED BY <1>1, <2>3, <2>5, <2>6 DEF TimeInv, ListInv
<1> QED BY <1>2, <1>3, <1>4 DEF UserCall

\* One node further: a timer that is not fired was created by this pass or is
\* not due.
LEMMA SkipKeepsInv ==
  ASSUME TimeInv, SkipTimer
  PROVE  TimeInv'
<1>0. /\ phase = "scan" /\ te \in Pending /\ ~Eligible(te) /\ te' = NextTimer(te)
      /\ UNCHANGED <<timeEventHead, timeEventNextId, now, phase, maxId, id, scanStart, calls>>
  BY DEF SkipTimer, TimeInv, TePlace
<1>1. /\ timeEventHead \in Seq(TimeEvent) /\ timeEventNextId \in Nat /\ now \in Nat
      /\ NewestFirst /\ maxId \in Nat \cup {-1} /\ scanStart \in Nat
  BY DEF TimeInv, ListInv, TimeTypeOK
<1> DEFINE a == At(te)
<1>2. a \in DOMAIN timeEventHead /\ timeEventHead[a].id = te /\ te \in Nat
      /\ timeEventHead[a] \in TimeEvent
  BY <1>0, <1>1, NodeAt
<1>3. Pending' = Pending /\ scanStart <= now
  BY <1>0 DEF Pending, TimeInv, PassedAreLater
<1>4. te <= maxId => Total(timeEventHead[a].when) > scanStart
  <2> SUFFICES ASSUME te <= maxId PROVE Total(timeEventHead[a].when) > scanStart
    OBVIOUS
  <2>1. timeEventHead[a].when \in Moment
    BY <1>2 DEF TimeEvent
  <2>2. ~IsDue(now, timeEventHead[a].when)
    BY <1>0 DEF Eligible
  <2>3. ~(Total(timeEventHead[a].when) <= now)
    BY <1>1, <2>1, <2>2, DueIsReached
  <2>4. Total(timeEventHead[a].when) \in Int
    BY <2>1, TimeAssumption DEF Moment, Total
  <2> QED BY <1>1, <1>3, <2>3, <2>4
<1>5. \A p \in DOMAIN timeEventHead :
        p <= a => (timeEventHead[p].id <= maxId => Total(timeEventHead[p].when) > scanStart)
  <2> SUFFICES ASSUME NEW p \in DOMAIN timeEventHead, p <= a,
                      timeEventHead[p].id <= maxId
               PROVE  Total(timeEventHead[p].when) > scanStart
    OBVIOUS
  <2>1. CASE p = a
    BY <1>2, <1>4, <2>1
  <2>2. CASE p # a
    <3>1. p < a
      BY <1>1, <1>2, <2>2
    <3>2. timeEventHead[p].id > te
      BY <1>1, <1>2, <3>1 DEF NewestFirst
    <3> QED BY <1>0, <3>2 DEF TimeInv, PassedAreLater
  <2> QED BY <2>1, <2>2
<1>6. CASE a = Len(timeEventHead)
  <2>1. te' = NULL
    BY <1>0, <1>6 DEF NextTimer
  <2>2. \A p \in DOMAIN timeEventHead : p <= a
    BY <1>1, <1>6
  <2>3. TePlace' /\ PassedAreLater'
    BY <1>0, <1>3, <1>5, <2>1, <2>2 DEF TePlace, PassedAreLater
  <2>4. ListInv'
    BY <1>0, <1>3, <2>1 DEF TimeInv, ListInv, TimeTypeOK, NewestFirst, FinalizedOnce, Ids
  <2> QED BY <2>3, <2>4 DEF TimeInv
<1>7. CASE a # Len(timeEventHead)
  <2>1. a + 1 \in DOMAIN timeEventHead /\ te' = timeEventHead[a + 1].id
    BY <1>0, <1>1, <1>2, <1>7 DEF NextTimer
  <2>2. timeEventHead[a + 1] \in TimeEvent
    BY <1>1, <2>1
  <2>3. te' \in Nat /\ te' \in Pending
    BY <2>1, <2>2 DEF TimeEvent, Pending
  <2>4. ASSUME NEW p \in DOMAIN timeEventHead, timeEventHead[p].id > te'
        PROVE  p <= a
    <3>1. p \in Nat /\ a \in Nat /\ timeEventHead[p] \in TimeEvent
      BY <1>1, <1>2
    <3>2. ~(a + 1 < p) /\ p # a + 1
      BY <2>1, <2>3, <2>4, <3>1, <1>1 DEF NewestFirst, TimeEvent
    <3> QED BY <3>1, <3>2
  <2>5. te' # NULL
    BY <2>3 DEF NULL
  <2>6. TePlace' /\ PassedAreLater'
    BY <1>0, <1>3, <1>5, <2>3, <2>4, <2>5 DEF TePlace, PassedAreLater
  <2>7. ListInv'
    BY <1>0, <1>3, <2>3 DEF TimeInv, ListInv, TimeTypeOK, NewestFirst, FinalizedOnce, Ids
  <2> QED BY <2>6, <2>7 DEF TimeInv
<1> QED BY <1>6, <1>7

\* The pass begins, fires a timer, ends; the clock moves.
LEMMA PassKeepsInv ==
  ASSUME TimeInv, BeginPass \/ FireTimer \/ EndPass \/ FinalizerReturns
  PROVE  TimeInv'
<1>0. /\ UNCHANGED <<timeEventHead, timeEventNextId, now, calls>>
      /\ timeEventHead \in Seq(TimeEvent) /\ now \in Nat /\ timeEventNextId \in Nat
  BY DEF BeginPass, FireTimer, EndPass, FinalizerReturns, TimeInv, ListInv, TimeTypeOK
<1>1. NewestFirst' /\ FinalizedOnce' /\ Pending' = Pending /\ Ids' = Ids
  BY <1>0 DEF TimeInv, ListInv, NewestFirst, FinalizedOnce, Pending, Ids
<1>2. CASE BeginPass \/ FinalizerReturns
  <2>1. StartScan(timeEventHead')
    BY <1>0, <1>2 DEF BeginPass, FinalizerReturns, Rescan, StartScan
  <2>2. maxId' \in Nat \cup {-1}
    BY <1>0, <1>2 DEF BeginPass, FinalizerReturns, TimeInv, ListInv, TimeTypeOK
  <2>3. /\ TePlace' /\ PassedAreLater' /\ phase' = "scan" /\ scanStart' \in Nat
        /\ id' = NULL /\ te' \in Nat \cup {NULL, FREED}
    BY <1>0, <1>1, <2>1, RestartIsSafe
  <2>4. TimeTypeOK'
    BY <1>0, <1>1, <2>2, <2>3 DEF TimeInv, ListInv, TimeTypeOK
  <2> QED BY <1>1, <2>3, <2>4 DEF TimeInv, ListInv
<1>3. CASE FireTimer
  <2>1. /\ te \in Pending /\ te \in Nat /\ phase' = "callback" /\ id' = te
        /\ UNCHANGED <<te, maxId, scanStart>>
    BY <1>0, <1>3, NodeAt DEF FireTimer, TimeInv, TePlace
  <2>2. TimeTypeOK' /\ TePlace' /\ PassedAreLater'
    BY <1>0, <1>1, <2>1 DEF TimeInv, ListInv, TimeTypeOK, TePlace, PassedAreLater
  <2> QED BY <1>1, <2>2 DEF TimeInv, ListInv
<1>4. CASE EndPass
  <2>1. /\ phase' = "idle" /\ maxId' = -1 /\ scanStart' = 0 /\ te = NULL
        /\ UNCHANGED <<te, id>>
    BY <1>4 DEF EndPass
  <2>2. TimeTypeOK' /\ TePlace' /\ PassedAreLater'
    BY <1>0, <1>1, <2>1 DEF TimeInv, ListInv, TimeTypeOK, TePlace, PassedAreLater
  <2> QED BY <1>1, <2>2 DEF TimeInv, ListInv
<1> QED BY <1>2, <1>3, <1>4

\* timeProc returns a delay.
LEMMA AgainKeepsInv ==
  ASSUME TimeInv, NEW msec \in Returns, TimerAgain(msec)
  PROVE  TimeInv'
<1>0. /\ phase = "callback" /\ Rescan(timeEventHead')
      /\ UNCHANGED <<timeEventNextId, now, maxId, calls>>
      /\ timeEventHead \in Seq(TimeEvent) /\ now \in Nat /\ msec \in Nat
  BY TimerAssumption DEF TimerAgain, TimeInv, ListInv, TimeTypeOK
<1>1. timeEventHead' \in Seq(TimeEvent) /\ NewestFirst' /\ FinalizedOnce' /\ Ids' = Ids
  <2>1. CASE te = FREED
    BY <1>0, <2>1 DEF TimerAgain, TimeInv, ListInv, NewestFirst, FinalizedOnce, Pending, Ids
  <2>2. CASE te # FREED
    <3>1. te \in Pending /\ timeEventHead' = Rearmed(te, msec)
      BY <1>0, <2>2 DEF TimerAgain, TimeInv, TePlace
    <3> QED BY <1>0, <3>1, RearmKeepsList DEF TimeInv, Ids
  <2> QED BY <2>1, <2>2
<1>2. /\ TePlace' /\ PassedAreLater' /\ phase' = "scan" /\ scanStart' \in Nat
      /\ id' = NULL /\ te' \in Nat \cup {NULL, FREED}
  BY <1>0, <1>1, RestartIsSafe DEF Rescan
<1>3. TimeTypeOK'
  BY <1>0, <1>1, <1>2 DEF TimeInv, ListInv, TimeTypeOK
<1> QED BY <1>1, <1>2, <1>3 DEF TimeInv, ListInv

\* timeProc returns EVENT_NOMORE.
LEMMA NoMoreKeepsInv ==
  ASSUME TimeInv, TimerNoMore
  PROVE  TimeInv'
<1>0. /\ phase = "callback" /\ UNCHANGED <<timeEventNextId, now, maxId>>
      /\ timeEventHead \in Seq(TimeEvent) /\ now \in Nat
  BY DEF TimerNoMore, TimeInv, ListInv, TimeTypeOK
<1>1. /\ timeEventHead' \in Seq(TimeEvent) /\ calls' \in [Ids' -> Nat]
      /\ NewestFirst' /\ FinalizedOnce'
  <2>1. CASE UNCHANGED <<timeEventHead, calls>>
    BY <1>0, <2>1 DEF TimeInv, ListInv, TimeTypeOK, NewestFirst, FinalizedOnce, Pending, Ids
  <2>2. ASSUME NEW p \in DOMAIN timeEventHead, Unlink(p)
        PROVE  /\ timeEventHead' \in Seq(TimeEvent) /\ calls' \in [Ids' -> Nat]
               /\ NewestFirst' /\ FinalizedOnce'
    BY <1>0, <2>2, UnlinkKeepsList DEF TimeInv
  <2> QED BY <2>1, <2>2 DEF TimerNoMore
<1>2. CASE StartScan(timeEventHead')
  <2>1. /\ TePlace' /\ PassedAreLater' /\ phase' = "scan" /\ scanStart' \in Nat
        /\ id' = NULL /\ te' \in Nat \cup {NULL, FREED}
    BY <1>0, <1>1, <1>2, RestartIsSafe
  <2>2. TimeTypeOK'
    BY <1>0, <1>1, <2>1 DEF TimeInv, ListInv, TimeTypeOK
  <2> QED BY <1>1, <2>1, <2>2 DEF TimeInv, ListInv
<1>3. CASE phase' = "finalizer" /\ te' = NULL /\ id' = NULL /\ scanStart' = scanStart
  <2>1. TePlace' /\ PassedAreLater'
    BY <1>3 DEF TePlace, PassedAreLater
  <2>2. TimeTypeOK'
    BY <1>0, <1>1, <1>3 DEF TimeInv, ListInv, TimeTypeOK
  <2> QED BY <1>1, <2>1, <2>2 DEF TimeInv, ListInv
<1>4. StartScan(timeEventHead') \/ (phase' = "finalizer" /\ te' = NULL /\ id' = NULL
                                     /\ scanStart' = scanStart)
  BY DEF TimerNoMore, Rescan
<1> QED BY <1>2, <1>3, <1>4

\* The clock moves on, or is set; scanStart follows it down.
LEMMA ClockKeepsInv ==
  ASSUME TimeInv, Tick \/ (\E t \in ClockSettings : ClockSet(t)) \/ UNCHANGED timeVars
  PROVE  TimeInv'
<1>0. UNCHANGED <<timeEventHead, timeEventNextId, phase, te, maxId, id, calls>>
  BY DEF Tick, ClockSet, timeVars
<1>1. /\ now \in Nat /\ scanStart \in Nat /\ now' \in Nat /\ scanStart' \in Nat
      /\ scanStart' <= scanStart
      /\ phase = "scan" => scanStart' <= now'
  BY TimerAssumption DEF Tick, ClockSet, timeVars, TimeInv, ListInv, TimeTypeOK, PassedAreLater
<1>2. ListInv' /\ TePlace'
  BY <1>0, <1>1 DEF TimeInv, ListInv, TimeTypeOK, NewestFirst, FinalizedOnce, TePlace,
                    Pending, Ids
<1>3. \A p \in DOMAIN timeEventHead : Total(timeEventHead[p].when) \in Int
  <2> TAKE p \in DOMAIN timeEventHead
  <2>1. timeEventHead[p] \in TimeEvent
    BY DEF TimeInv, ListInv, TimeTypeOK
  <2> QED BY <2>1, TimeAssumption DEF TimeEvent, Moment, Total
<1>4. PassedAreLater'
  BY <1>0, <1>1, <1>3 DEF TimeInv, PassedAreLater
<1> QED BY <1>2, <1>4 DEF TimeInv

\* The program starts in the invariant.
LEMMA InitGivesInv == TimeInit => TimeInv
<1> SUFFICES ASSUME TimeInit PROVE TimeInv
  OBVIOUS
<1>1. timeEventHead \in Seq(TimeEvent) /\ DOMAIN timeEventHead = {} /\ Pending = {}
  BY DEF TimeInit, Pending
<1>2. Ids = {} /\ calls \in [Ids -> Nat]
  BY DEF TimeInit, Ids
<1>3. TimeTypeOK
  BY <1>1, <1>2 DEF TimeInit, TimeTypeOK
<1> QED BY <1>1, <1>2, <1>3 DEF TimeInit, TimeInv, ListInv, NewestFirst, FinalizedOnce,
                                TePlace, PassedAreLater

\* Every step keeps it.
LEMMA NextKeepsInv ==
  ASSUME TimeInv, [TimeNext]_timeVars
  PROVE  TimeInv'
<1>1. CASE CallbackReturns
  BY <1>1, AgainKeepsInv, NoMoreKeepsInv, PassKeepsInv DEF CallbackReturns
<1>2. CASE Scan
  BY <1>2, SkipKeepsInv, PassKeepsInv DEF Scan
<1>3. CASE UserCall \/ BeginPass
  BY <1>3, UserKeepsInv, PassKeepsInv
<1>4. CASE Tick \/ (\E t \in ClockSettings : ClockSet(t)) \/ UNCHANGED timeVars
  BY <1>4, ClockKeepsInv
<1> QED BY <1>1, <1>2, <1>3, <1>4 DEF TimeNext

-----------------------------------------------------------------------------
\* The invariant holds whatever the timers, their delays and the clock.
THEOREM TimeInvariant == TimeSpec => []TimeInv
BY InitGivesInv, NextKeepsInv, PTL DEF TimeSpec

\* The timers' variables keep their types.
THEOREM TimeTypeCorrect == TimeSpec => []TimeTypeOK
<1>1. TimeInv => TimeTypeOK
  BY DEF TimeInv, ListInv
<1> QED BY <1>1, TimeInvariant, PTL

\* The list runs from the newest timer to the oldest: no two nodes have an id.
THEOREM NewestFirstAlways == TimeSpec => []NewestFirst
<1>1. TimeInv => NewestFirst
  BY DEF TimeInv, ListInv
<1> QED BY <1>1, TimeInvariant, PTL

\* A finalizer runs at most once, and never before its timer has left the list.
THEOREM FinalizedOnceAlways == TimeSpec => []FinalizedOnce
<1>1. TimeInv => FinalizedOnce
  BY DEF TimeInv, ListInv
<1> QED BY <1>1, TimeInvariant, PTL

\* The scan of processTimeEvents reads nodes of the list only.
THEOREM ScanStaysInListAlways == TimeSpec => []ScanStaysInList
<1>1. TimeInv => ScanStaysInList
  BY DEF TimeInv, TePlace, ScanStaysInList
<1> QED BY <1>1, TimeInvariant, PTL

\* A pass ends only when no timer that existed when it began is due.
THEOREM NothingDueLeftAlways == TimeSpec => []NothingDueLeft
<1>1. TimeInv => NothingDueLeft
  <2> SUFFICES ASSUME TimeInv, phase = "scan", te = NULL, NEW i \in Pending, i <= maxId
               PROVE  Due(i) > scanStart
    BY DEF NothingDueLeft
  <2>1. At(i) \in DOMAIN timeEventHead /\ timeEventHead[At(i)].id = i
    BY NodeAt DEF TimeInv, ListInv, TimeTypeOK
  <2> QED BY <2>1 DEF TimeInv, PassedAreLater, Due
<1> QED BY <1>1, TimeInvariant, PTL

-----------------------------------------------------------------------------
(***************************************************************************)
(* The refinement.  What each change of the list does to the map from      *)
(* pending timers to their due times and finalizers.                       *)
(***************************************************************************)
NodesAreTimers ==
  \A p \in DOMAIN timeEventHead :
    /\ timeEventHead[p].id \in Pending
    /\ PendingTimers[timeEventHead[p].id] =
         [due |-> Total(timeEventHead[p].when), fin |-> timeEventHead[p].fin]

\* The map reads each node of the list.
LEMMA MapReadsNodes == ListInv => NodesAreTimers
<1> SUFFICES ASSUME ListInv, NEW p \in DOMAIN timeEventHead
             PROVE  /\ timeEventHead[p].id \in Pending
                    /\ PendingTimers[timeEventHead[p].id] =
                         [due |-> Total(timeEventHead[p].when), fin |-> timeEventHead[p].fin]
  BY DEF NodesAreTimers
<1> DEFINE i == timeEventHead[p].id
<1>1. i \in Pending /\ At(i) = p
  BY NodeOf DEF ListInv, TimeTypeOK
<1>2. PendingTimers[i] = [due |-> Due(i), fin |-> timeEventHead[At(i)].fin]
  BY <1>1 DEF PendingTimers
<1>3. Due(i) = Total(timeEventHead[p].when) /\ timeEventHead[At(i)].fin = timeEventHead[p].fin
  BY <1>1 DEF Due
<1> QED BY <1>1, <1>2, <1>3

\* Also after a step.
LEMMA MapReadsNodesAfter == ListInv' => NodesAreTimers'
<1>1. (ListInv => NodesAreTimers)'
  BY MapReadsNodes, PTL
<1> QED BY <1>1

\* A new timer is added to the map.
LEMMA LinkAddsTimer ==
  ASSUME ListInv, NEW msec \in Delays, NEW fin \in BOOLEAN, evCreateTimeEvent(msec, fin)
  PROVE  PendingTimers' = [i \in Pending \cup {timeEventNextId} |->
                             IF i = timeEventNextId THEN [due |-> now + msec, fin |-> fin]
                                                    ELSE PendingTimers[i]]
<1> DEFINE new == [id |-> timeEventNextId, when |-> evAddMillisecondsToNow(now, msec),
                   fin |-> fin]
           list == timeEventHead
<1>0. /\ timeEventNextId \in Nat /\ list \in Seq(TimeEvent) /\ now \in Nat /\ msec \in Nat
      /\ timeEventNextId \notin Pending
  BY TimerAssumption DEF ListInv, TimeTypeOK, NewestFirst, Pending
<1>1. ListInv' /\ Pending' = Pending \cup {timeEventNextId}
  BY LinkKeepsList
<1>2. NodesAreTimers /\ NodesAreTimers'
  BY <1>1, MapReadsNodes, MapReadsNodesAfter
<1>3. list' = <<new>> \o list
  BY DEF evCreateTimeEvent, Link
<1>4. /\ new \in TimeEvent /\ new.id = timeEventNextId /\ new.fin = fin
      /\ Total(new.when) = now + msec
  BY <1>0, AddIsSum DEF TimeEvent
<1> HIDE DEF new
<1>5. /\ Len(list') = Len(list) + 1 /\ list' \in Seq(TimeEvent)
      /\ \A q \in 1 .. Len(list) + 1 : list'[q] = IF q = 1 THEN new ELSE list[q - 1]
  BY <1>0, <1>3, <1>4, LinkedAtHead
<1>6. PendingTimers'[timeEventNextId] = [due |-> now + msec, fin |-> fin]
  <2>1. 1 \in DOMAIN list' /\ list'[1] = new
    BY <1>0, <1>5
  <2> QED BY <1>2, <1>4, <2>1 DEF NodesAreTimers
<1>7. ASSUME NEW i \in Pending
      PROVE  PendingTimers'[i] = PendingTimers[i] /\ i # timeEventNextId
  <2>1. PICK p \in DOMAIN list : list[p].id = i
    BY DEF Pending
  <2>2. p + 1 \in DOMAIN list' /\ list'[p + 1] = list[p]
    BY <1>0, <1>5
  <2> QED BY <1>0, <1>2, <2>1, <2>2 DEF NodesAreTimers
<1>8. PendingTimers' = [i \in Pending' |-> PendingTimers'[i]]
  BY DEF PendingTimers
<1> HIDE DEF list
<1> QED BY <1>1, <1>6, <1>7, <1>8

\* A timer that leaves the list leaves the map.
LEMMA UnlinkRemovesTimer ==
  ASSUME ListInv, ListInv', NEW p \in DOMAIN timeEventHead, Unlink(p),
         timeEventNextId' = timeEventNextId
  PROVE  /\ PendingTimers' = [j \in Pending \ {timeEventHead[p].id} |-> PendingTimers[j]]
         /\ calls' = [calls EXCEPT ![timeEventHead[p].id] =
                        IF PendingTimers[timeEventHead[p].id].fin THEN @ + 1 ELSE @]
<1> DEFINE i == timeEventHead[p].id
           list == timeEventHead
<1>0. list \in Seq(TimeEvent) /\ p \in 1 .. Len(list) /\ Len(list) \in Nat
  BY DEF ListInv, TimeTypeOK
<1>1. Pending' = Pending \ {i}
  BY UnlinkKeepsList
<1>2. NodesAreTimers /\ NodesAreTimers'
  BY MapReadsNodes, MapReadsNodesAfter
<1>3. list' = RemoveAt(list, p)
  BY DEF Unlink
<1>4. /\ RemoveAt(list, p) \in Seq(TimeEvent) /\ Len(RemoveAt(list, p)) = Len(list) - 1
      /\ \A q \in 1 .. Len(list) - 1 :
           RemoveAt(list, p)[q] = IF q < p THEN list[q] ELSE list[q + 1]
  BY <1>0, RemovedAt
<1>5. /\ DOMAIN list' = 1 .. Len(list) - 1
      /\ \A q \in 1 .. Len(list) - 1 : list'[q] = IF q < p THEN list[q] ELSE list[q + 1]
  BY <1>3, <1>4
<1>6. ASSUME NEW j \in Pending \ {i}
      PROVE  PendingTimers'[j] = PendingTimers[j]
  <2>1. PICK r \in DOMAIN list : list[r].id = j /\ r # p
    BY <1>6 DEF Pending
  <2>2. PICK q \in DOMAIN list' : list'[q] = list[r]
    <3>1. CASE r < p
      BY <1>0, <1>5, <3>1
    <3>2. CASE ~(r < p)
      <4>1. r - 1 \in DOMAIN list' /\ ~(r - 1 < p) /\ (r - 1) + 1 = r
        BY <1>0, <1>5, <2>1, <3>2
      <4> QED BY <1>5, <4>1
    <3> QED BY <3>1, <3>2
  <2>3. PendingTimers[list[r].id] = [due |-> Total(list[r].when), fin |-> list[r].fin]
    BY <1>2, <2>1 DEF NodesAreTimers
  <2>4. PendingTimers'[list'[q].id] = [due |-> Total(list'[q].when), fin |-> list'[q].fin]
    BY <1>2 DEF NodesAreTimers, Total
  <2> QED BY <2>1, <2>2, <2>3, <2>4
<1>7. PendingTimers' = [j \in Pending' |-> PendingTimers'[j]]
  BY DEF PendingTimers
<1>8. PendingTimers' = [j \in Pending \ {i} |-> PendingTimers[j]]
  BY <1>1, <1>6, <1>7
<1>9. PendingTimers[i].fin = list[p].fin
  <2>1. PendingTimers[i] = [due |-> Total(list[p].when), fin |-> list[p].fin]
    BY <1>2 DEF NodesAreTimers
  <2> QED BY <2>1
<1>10. calls' = [calls EXCEPT ![i] = IF list[p].fin THEN @ + 1 ELSE @]
  BY DEF Unlink
<1> QED BY <1>8, <1>9, <1>10

\* A timer set to run again changes its due time in the map, and no other.
LEMMA RearmMovesTimer ==
  ASSUME ListInv, ListInv', NEW i \in Pending, NEW msec \in Nat,
         timeEventHead' = Rearmed(i, msec), UNCHANGED <<timeEventNextId, calls>>
  PROVE  PendingTimers' = [j \in Pending |->
           IF j = i THEN [PendingTimers[j] EXCEPT !.due = now + msec] ELSE PendingTimers[j]]
<1> DEFINE list == timeEventHead
<1>0. list \in Seq(TimeEvent) /\ now \in Nat
  BY DEF ListInv, TimeTypeOK
<1>1. /\ Pending' = Pending /\ DOMAIN list' = DOMAIN list
      /\ \A p \in DOMAIN list :
           /\ list'[p].id = list[p].id /\ list'[p].fin = list[p].fin
           /\ list'[p].when = IF p = At(i) THEN evAddMillisecondsToNow(now, msec)
                                           ELSE list[p].when
  BY RearmKeepsList
<1>2. NodesAreTimers /\ NodesAreTimers'
  BY MapReadsNodes, MapReadsNodesAfter
<1>3. Total(evAddMillisecondsToNow(now, msec)) = now + msec
  BY <1>0, AddIsSum
<1>4. At(i) \in DOMAIN list /\ list[At(i)].id = i
  BY <1>0, NodeAt
<1>5. PendingTimers'[i] = [PendingTimers[i] EXCEPT !.due = now + msec]
  <2>1. PendingTimers'[i] = [due |-> now + msec, fin |-> list[At(i)].fin]
    BY <1>1, <1>2, <1>3, <1>4 DEF NodesAreTimers
  <2>2. PendingTimers[i] = [due |-> Total(list[At(i)].when), fin |-> list[At(i)].fin]
    BY <1>2, <1>4 DEF NodesAreTimers
  <2> QED BY <2>1, <2>2
<1>6. ASSUME NEW j \in Pending, j # i
      PROVE  PendingTimers'[j] = PendingTimers[j]
  <2>1. PICK r \in DOMAIN list : list[r].id = j /\ r # At(i)
    BY <1>4, <1>6 DEF Pending
  <2>2. PendingTimers[list[r].id] = [due |-> Total(list[r].when), fin |-> list[r].fin]
    BY <1>2, <2>1 DEF NodesAreTimers
  <2>3. PendingTimers'[list'[r].id] = [due |-> Total(list'[r].when), fin |-> list'[r].fin]
    BY <1>1, <1>2, <2>1 DEF NodesAreTimers, Total
  <2>4. list'[r].id = j /\ list'[r].when = list[r].when /\ list'[r].fin = list[r].fin
    BY <1>1, <2>1
  <2> QED BY <2>1, <2>2, <2>3, <2>4
<1>7. PendingTimers' = [j \in Pending' |-> PendingTimers'[j]]
  BY DEF PendingTimers
<1> HIDE DEF list
<1> QED BY <1>1, <1>5, <1>6, <1>7

-----------------------------------------------------------------------------
\* maxId is an id that has been given out; id is that of the callback running.
PassIds ==
  /\ maxId < timeEventNextId
  /\ IF phase = "callback" THEN id \in Nat ELSE id = NULL

\* Every step keeps these two.
LEMMA NextKeepsPassIds ==
  ASSUME TimeInv, PassIds, [TimeNext]_timeVars
  PROVE  PassIds'
<1>0. timeEventNextId \in Nat /\ maxId \in Nat \cup {-1} /\ timeEventHead \in Seq(TimeEvent)
  BY DEF TimeInv, ListInv, TimeTypeOK
<1>1. CASE UserCall
  <2>1. /\ UNCHANGED <<phase, maxId, id>>
        /\ timeEventNextId' \in {timeEventNextId, timeEventNextId + 1}
    BY <1>1 DEF UserCall, evCreateTimeEvent, evCreateTimeEventFails, evDeleteTimeEvent
  <2> QED BY <1>0, <2>1 DEF PassIds
<1>2. CASE BeginPass \/ FinalizerReturns \/ (\E msec \in Returns : TimerAgain(msec))
  BY <1>0, <1>2 DEF BeginPass, FinalizerReturns, TimerAgain, Rescan, StartScan, PassIds
<1>3. CASE TimerNoMore
  BY <1>3 DEF TimerNoMore, Rescan, StartScan, PassIds
<1>4. CASE FireTimer
  <2>1. te \in Pending
    BY <1>4 DEF FireTimer, TimeInv, TePlace
  <2>2. te \in Nat
    BY <1>0, <2>1, NodeAt
  <2> QED BY <1>4, <2>2 DEF FireTimer, PassIds
<1>5. CASE SkipTimer \/ EndPass \/ Tick \/ (\E t \in ClockSettings : ClockSet(t))
           \/ UNCHANGED timeVars
  BY <1>0, <1>5 DEF SkipTimer, EndPass, Tick, ClockSet, timeVars, PassIds
<1> QED BY <1>1, <1>2, <1>3, <1>4, <1>5 DEF TimeNext, Scan, CallbackReturns

-----------------------------------------------------------------------------
\* A step of the code is a step of the service, or leaves its variables alone.
\* First the calls of user code.
LEMMA UserStepRefines ==
  ASSUME TimeInv, PassIds, UserCall
  PROVE  Service!Next
<1>0. /\ timeEventNextId \in Nat /\ timeEventHead \in Seq(TimeEvent) /\ maxId \in Nat \cup {-1}
      /\ phase' = phase /\ UNCHANGED <<now, maxId, id, scanStart>> /\ ListInv
      /\ DOMAIN calls = 0 .. timeEventNextId - 1
  BY DEF UserCall, evCreateTimeEvent, evCreateTimeEventFails, evDeleteTimeEvent, TimeInv,
         ListInv, TimeTypeOK, Ids
<1>1. Stage # "serving" /\ Stage' = Stage
  BY <1>0 DEF UserCall, evCreateTimeEvent, evCreateTimeEventFails, evDeleteTimeEvent,
              UserCode, Stage
<1>2. DOMAIN PendingTimers = Pending
  BY DEF PendingTimers
<1>3. (0 .. timeEventNextId - 1) \cup {timeEventNextId} = 0 .. timeEventNextId
  BY <1>0
<1>4. ASSUME NEW msec \in Delays, NEW fin \in BOOLEAN, evCreateTimeEvent(msec, fin)
      PROVE  Service!Arm(msec, fin)
  <2>1. PendingTimers' = [i \in Pending \cup {timeEventNextId} |->
                            IF i = timeEventNextId THEN [due |-> now + msec, fin |-> fin]
                                                   ELSE PendingTimers[i]]
    BY <1>0, <1>4, LinkAddsTimer
  <2>2. Pending' = Pending \cup {timeEventNextId}
    BY <1>0, <1>4, LinkKeepsList
  <2>3. Cohort' = Cohort
    <3>1. ~(timeEventNextId <= maxId)
      BY <1>0 DEF PassIds
    <3>2. {i \in Pending' : i <= maxId} = {i \in Pending : i <= maxId}
      BY <2>2, <3>1
    <3> QED BY <1>0, <3>2 DEF Cohort
  <2>4. Service!NewId
    BY <1>0, <1>3, <1>4 DEF evCreateTimeEvent, Service!NewId
  <2> QED BY <1>0, <1>1, <1>2, <2>1, <2>3, <2>4 DEF Service!Arm
<1>5. CASE evCreateTimeEventFails
  <2>1. Pending' = Pending /\ PendingTimers' = PendingTimers
    BY <1>5 DEF evCreateTimeEventFails, Pending, PendingTimers, Due, At
  <2>2. Cohort' = Cohort
    BY <1>0, <2>1 DEF Cohort
  <2>3. Service!NewId
    BY <1>0, <1>3, <1>5 DEF evCreateTimeEventFails, Service!NewId
  <2> QED BY <1>0, <1>1, <2>1, <2>2, <2>3 DEF Service!ArmFails, Service!Next
<1>6. ASSUME NEW i \in Ids, evDeleteTimeEvent(i)
      PROVE  i \in Pending /\ Service!Cancel(i)
  <2>1. PICK p \in DOMAIN timeEventHead : timeEventHead[p].id = i /\ Unlink(p)
    BY <1>6 DEF evDeleteTimeEvent
  <2>2. timeEventNextId' = timeEventNextId /\ ListInv' /\ i \in Pending
    BY <1>6, <2>1, UserKeepsInv DEF evDeleteTimeEvent, TimeInv, Pending
  <2>3. /\ PendingTimers' = [j \in Pending \ {i} |-> PendingTimers[j]]
        /\ calls' = [calls EXCEPT ![i] = IF PendingTimers[i].fin THEN @ + 1 ELSE @]
    BY <1>0, <2>1, <2>2, UnlinkRemovesTimer
  <2>4. Pending' = Pending \ {i}
    BY <1>0, <2>1, <2>2, UnlinkKeepsList
  <2>5. Cohort' = Cohort \ {i}
    BY <1>0, <2>4 DEF Cohort
  <2>6. Service!Remove(i)
    BY <1>2, <2>3, <2>5 DEF Service!Remove
  <2> QED BY <1>0, <1>1, <2>2, <2>6 DEF Service!Cancel
<1> QED BY <1>2, <1>4, <1>5, <1>6 DEF UserCall, Service!Next

\* The pass itself.
LEMMA PassStepRefines ==
  ASSUME TimeInv, PassIds, BeginPass \/ Scan \/ FinalizerReturns
  PROVE  [Service!Next]_(Service!vars)
<1>0. /\ UNCHANGED <<timeEventHead, timeEventNextId, now, calls>>
      /\ timeEventHead \in Seq(TimeEvent) /\ now \in Nat /\ timeEventNextId \in Nat
      /\ maxId \in Nat \cup {-1}
  BY DEF BeginPass, Scan, SkipTimer, FireTimer, EndPass, FinalizerReturns, TimeInv, ListInv,
         TimeTypeOK
<1>1. Pending' = Pending /\ PendingTimers' = PendingTimers /\ DOMAIN PendingTimers = Pending
  BY <1>0 DEF Pending, PendingTimers, Due, At
<1>2. CASE BeginPass
  <2>1. \A i \in Pending : i \in Nat /\ i <= timeEventNextId - 1
    <3> TAKE i \in Pending
    <3>1. At(i) \in DOMAIN timeEventHead /\ timeEventHead[At(i)].id = i /\ i \in Nat
      BY <1>0, NodeAt
    <3> QED BY <1>0, <3>1 DEF TimeInv, ListInv, NewestFirst
  <2>2. /\ phase = "idle" /\ phase' = "scan" /\ maxId' = timeEventNextId - 1
        /\ id' = NULL /\ scanStart' = now
    BY <1>2 DEF BeginPass, StartScan
  <2>3. Cohort' = Pending /\ Stage = "idle" /\ Stage' = "serving"
    BY <1>1, <2>1, <2>2 DEF Cohort, Stage
  <2> QED BY <1>0, <1>1, <2>2, <2>3
          DEF Service!BeginPass, Service!Serve, Service!Next, Service!None, NULL
<1>3. CASE SkipTimer
  <2>1. UNCHANGED <<phase, maxId, id, scanStart>>
    BY <1>3 DEF SkipTimer
  <2>2. Cohort' = Cohort /\ Stage' = Stage
    BY <1>1, <2>1 DEF Cohort, Stage
  <2> QED BY <1>0, <1>1, <2>1, <2>2 DEF Service!vars
<1>4. CASE FireTimer
  <2>1. /\ phase = "scan" /\ te \in Pending /\ Eligible(te) /\ phase' = "callback" /\ id' = te
        /\ UNCHANGED <<maxId, scanStart>>
    BY <1>4 DEF FireTimer, TimeInv, TePlace
  <2>2. /\ Stage = "serving" /\ Stage' = "user" /\ Cohort' = Cohort
        /\ te \in Cohort
    BY <1>1, <2>1 DEF Stage, Cohort, Eligible
  <2>3. timeEventHead[At(te)] \in TimeEvent
    BY <1>0, <2>1, NodeAt
  <2>4. Due(te) <= now
    BY <1>0, <2>1, <2>3, DueIsReached DEF Eligible, Due, TimeEvent
  <2>5. PendingTimers[te].due = Due(te)
    BY <2>1 DEF PendingTimers
  <2>6. Service!Fire(te)
    BY <1>0, <1>1, <2>1, <2>2, <2>4, <2>5 DEF Service!Fire
  <2> QED BY <2>2, <2>6 DEF Service!Next
<1>5. CASE EndPass
  <2>1. /\ phase = "scan" /\ te = NULL /\ phase' = "idle" /\ scanStart' = 0
        /\ UNCHANGED id
    BY <1>5 DEF EndPass
  <2>2. Stage = "serving" /\ Stage' = "idle" /\ Cohort' = {}
    BY <2>1 DEF Stage, Cohort
  <2>3. ASSUME NEW i \in Cohort
        PROVE  PendingTimers[i].due > scanStart
    <3>1. i \in Pending /\ i <= maxId
      BY <2>1, <2>3 DEF Cohort
    <3>2. At(i) \in DOMAIN timeEventHead /\ timeEventHead[At(i)].id = i
      BY <1>0, <3>1, NodeAt
    <3>3. PendingTimers[i].due = Total(timeEventHead[At(i)].when)
      BY <3>1 DEF PendingTimers, Due
    <3> QED BY <2>1, <3>1, <3>2, <3>3 DEF TimeInv, PassedAreLater
  <2>4. Service!EndPass
    BY <1>0, <1>1, <2>1, <2>2, <2>3 DEF Service!EndPass
  <2> QED BY <2>4 DEF Service!Next
<1>6. CASE FinalizerReturns
  <2>1. /\ phase = "finalizer" /\ phase' = "scan" /\ id = NULL /\ id' = NULL
        /\ scanStart' = now /\ maxId' = maxId
    BY <1>6 DEF FinalizerReturns, Rescan, StartScan, PassIds
  <2>2. Stage = "user" /\ Stage' = "serving" /\ Cohort' = Cohort
    BY <1>1, <2>1 DEF Stage, Cohort
  <2>3. Service!FinalizerReturns
    BY <1>0, <1>1, <2>1, <2>2
       DEF Service!FinalizerReturns, Service!Serve, Service!None, NULL
  <2> QED BY <2>3 DEF Service!Next
<1> QED BY <1>2, <1>3, <1>4, <1>5, <1>6 DEF Scan

\* timeProc returns a delay: its own timer is armed again.
LEMMA AgainRefines ==
  ASSUME TimeInv, PassIds, ~RearmAfterSelfDelete, NEW msec \in Returns, TimerAgain(msec)
  PROVE  /\ Service!Again(msec)
         /\ id \in Pending /\ phase = "callback" /\ Pending' = Pending
         /\ PendingTimers' = [i \in Pending |->
              IF i = id THEN [PendingTimers[i] EXCEPT !.due = now + msec]
                        ELSE PendingTimers[i]]
<1>0. /\ ListInv /\ ListInv' /\ msec \in Nat
      /\ phase = "callback" /\ UNCHANGED <<timeEventNextId, now, maxId, calls>>
      /\ phase' = "scan" /\ id' = NULL /\ scanStart' = now
  BY AgainKeepsInv, TimerAssumption DEF TimerAgain, Rescan, StartScan, TimeInv
<1>1. id \in Nat /\ te = id
  BY <1>0 DEF TimerAgain, PassIds
<1>2. te # FREED /\ id # NULL
  BY <1>1 DEF FREED, NULL
<1>3. id \in Pending /\ timeEventHead' = Rearmed(id, msec)
  BY <1>0, <1>1, <1>2 DEF TimeInv, TePlace, TimerAgain
<1>4. PendingTimers' = [i \in Pending |->
         IF i = id THEN [PendingTimers[i] EXCEPT !.due = now + msec] ELSE PendingTimers[i]]
  BY <1>0, <1>3, RearmMovesTimer
<1>5. Pending' = Pending
  BY <1>0, <1>3, RearmKeepsList
<1>6. DOMAIN PendingTimers = Pending
  BY DEF PendingTimers
<1>7. Stage = "user" /\ Stage' = "serving" /\ Cohort' = Cohort
  BY <1>0, <1>5 DEF Stage, Cohort
<1>8. Service!Again(msec)
  BY <1>0, <1>2, <1>4, <1>6, <1>7
     DEF Service!Again, Service!Serve, Service!None, NULL
<1> QED BY <1>0, <1>3, <1>4, <1>5, <1>8

\* timeProc returns EVENT_NOMORE: its timer, if still pending, is removed.
LEMMA NoMoreRefines ==
  ASSUME TimeInv, PassIds, TimerNoMore
  PROVE  Service!NoMore
<1>0. /\ ListInv /\ ListInv' /\ phase = "callback"
      /\ UNCHANGED <<timeEventNextId, now, maxId>>
  BY NoMoreKeepsInv DEF TimerNoMore, TimeInv
<1>1. id \in Nat /\ id # Service!None /\ Stage = "user" /\ DOMAIN PendingTimers = Pending
  BY <1>0 DEF PassIds, Service!None, Stage, PendingTimers
<1>2. CASE id \notin Pending
  <2>1. /\ UNCHANGED <<timeEventHead, calls>>
        /\ phase' = "scan" /\ id' = NULL /\ scanStart' = now
    BY <1>2 DEF TimerNoMore, Rescan, StartScan, Pending
  <2>2. Pending' = Pending /\ PendingTimers' = PendingTimers
    BY <2>1 DEF Pending, PendingTimers, Due, At
  <2>3. Stage' = "serving" /\ Cohort' = Cohort
    BY <1>0, <2>1, <2>2 DEF Stage, Cohort
  <2> QED BY <1>0, <1>1, <1>2, <2>1, <2>2, <2>3
          DEF Service!NoMore, Service!Serve, Service!None, NULL
<1>3. CASE id \in Pending
  <2>1. PICK p \in DOMAIN timeEventHead :
          /\ timeEventHead[p].id = id /\ Unlink(p)
          /\ IF timeEventHead[p].fin
               THEN /\ phase' = "finalizer" /\ te' = NULL /\ id' = NULL
                    /\ UNCHANGED scanStart
               ELSE Rescan(timeEventHead')
    BY <1>3 DEF TimerNoMore
  <2>2. /\ PendingTimers' = [j \in Pending \ {id} |-> PendingTimers[j]]
        /\ calls' = [calls EXCEPT ![id] = IF PendingTimers[id].fin THEN @ + 1 ELSE @]
    BY <1>0, <2>1, UnlinkRemovesTimer
  <2>3. Pending' = Pending \ {id}
    BY <1>0, <2>1, UnlinkKeepsList
  <2>4. phase' \in {"finalizer", "scan"}
    BY <2>1 DEF Rescan, StartScan
  <2>5. Cohort' = Cohort \ {id}
    BY <1>0, <2>3, <2>4 DEF Cohort
  <2>6. Service!Remove(id)
    BY <1>1, <2>2, <2>5 DEF Service!Remove
  <2>7. PendingTimers[id].fin = timeEventHead[p].fin
    <3>1. PendingTimers[timeEventHead[p].id] =
            [due |-> Total(timeEventHead[p].when), fin |-> timeEventHead[p].fin]
      BY <1>0, MapReadsNodes DEF NodesAreTimers
    <3> QED BY <2>1, <3>1
  <2>8. IF PendingTimers[id].fin
          THEN id' = Service!None /\ UNCHANGED <<Stage, scanStart>>
          ELSE Service!Serve
    BY <1>1, <2>1, <2>7 DEF Service!None, NULL, Stage, Rescan, StartScan, Service!Serve
  <2> QED BY <1>0, <1>1, <1>3, <2>6, <2>8 DEF Service!NoMore
<1> QED BY <1>2, <1>3

\* The clock.
LEMMA ClockStepRefines ==
  ASSUME TimeInv, Tick \/ (\E t \in ClockSettings : ClockSet(t)) \/ UNCHANGED timeVars
  PROVE  [Service!Next]_(Service!vars)
<1>1. UNCHANGED <<timeEventHead, timeEventNextId, phase, te, maxId, id, calls>>
  BY DEF Tick, ClockSet, timeVars
<1>2. Pending' = Pending
  BY <1>1 DEF Pending
<1>3. PendingTimers' = PendingTimers /\ Stage' = Stage /\ Cohort' = Cohort
  BY <1>1, <1>2 DEF PendingTimers, Due, At, Stage, Cohort
<1>4. Stage = "serving" <=> phase = "scan"
  BY DEF Stage
<1>5. CASE Tick
  BY <1>1, <1>3, <1>5 DEF Tick, Service!Tick, Service!Next
<1>6. ASSUME NEW t \in ClockSettings, ClockSet(t)
      PROVE  Service!ClockSet(t)
  BY <1>1, <1>3, <1>4, <1>6 DEF ClockSet, Service!ClockSet
<1>7. CASE UNCHANGED timeVars
  BY <1>1, <1>3, <1>7 DEF timeVars, Service!vars
<1> QED BY <1>5, <1>6, <1>7 DEF Service!Next

\* Every step.
LEMMA StepRefines ==
  ASSUME TimeInv, PassIds, ~RearmAfterSelfDelete, [TimeNext]_timeVars
  PROVE  [Service!Next]_(Service!vars)
<1>1. CASE CallbackReturns
  BY <1>1, AgainRefines, NoMoreRefines, PassStepRefines DEF CallbackReturns, Service!Next
<1>2. CASE UserCall
  BY <1>2, UserStepRefines
<1>3. CASE BeginPass \/ Scan
  BY <1>3, PassStepRefines
<1>4. CASE Tick \/ (\E t \in ClockSettings : ClockSet(t)) \/ UNCHANGED timeVars
  BY <1>4, ClockStepRefines
<1> QED BY <1>1, <1>2, <1>3, <1>4 DEF TimeNext

\* List, pairs and restarting scan implement the timer service, for any number
\* of timers, any delays and a clock that jumps as it likes.
THEOREM TimersImplementService ==
  ASSUME ~RearmAfterSelfDelete
  PROVE  TimeSpec => ImplementsTimerService
<1>1. TimeInit => PassIds
  BY DEF TimeInit, PassIds
<1>2. TimeInit => Service!Init
  <2> SUFFICES ASSUME TimeInit PROVE Service!Init
    OBVIOUS
  <2>1. Pending = {}
    BY DEF TimeInit, Pending
  <2>2. PendingTimers = [i \in {} |-> 0]
    BY <2>1 DEF PendingTimers
  <2>3. Stage = "idle" /\ Cohort = {}
    BY DEF TimeInit, Stage, Cohort
  <2> QED BY <2>2, <2>3 DEF TimeInit, Service!Init, Service!None, NULL
<1>3. TimeInv /\ PassIds /\ [TimeNext]_timeVars
        => PassIds' /\ [Service!Next]_(Service!vars)
  BY NextKeepsPassIds, StepRefines
<1> QED BY <1>1, <1>2, <1>3, TimeInvariant, PTL
        DEF TimeSpec, ImplementsTimerService, Service!Spec

\* A timer's due time changes only when its own timeProc has returned a delay.
THEOREM OnlyOwnReturnRearmsAlways ==
  ASSUME ~RearmAfterSelfDelete
  PROVE  TimeSpec => OnlyOwnReturnRearms
<1>1. \A i \in Pending : PendingTimers[i].due = Due(i)
  BY DEF PendingTimers
<1>2. \A i \in Pending' : PendingTimers'[i].due = Due(i)'
  BY DEF PendingTimers
<1>3. ASSUME TimeInv, PassIds, [TimeNext]_timeVars,
             NEW i \in Pending \cap Pending', Due(i)' # Due(i)
      PROVE  phase = "callback" /\ id = i
  <2>0. TimeInv' /\ ListInv /\ ListInv'
    BY <1>3, NextKeepsInv DEF TimeInv
  <2>1. PendingTimers'[i].due # PendingTimers[i].due
    BY <1>1, <1>2, <1>3
  <2>2. ASSUME NEW msec \in Delays, NEW fin \in BOOLEAN, evCreateTimeEvent(msec, fin)
        PROVE  FALSE
    <3>1. PendingTimers' = [j \in Pending \cup {timeEventNextId} |->
                              IF j = timeEventNextId THEN [due |-> now + msec, fin |-> fin]
                                                     ELSE PendingTimers[j]]
      BY <2>0, <2>2, LinkAddsTimer
    <3>2. i # timeEventNextId
      BY <2>0 DEF ListInv, TimeTypeOK, NewestFirst, Pending
    <3> QED BY <2>1, <3>1, <3>2
  <2>3. ASSUME NEW p \in DOMAIN timeEventHead, Unlink(p), timeEventNextId' = timeEventNextId
        PROVE  FALSE
    <3>1. /\ PendingTimers' = [j \in Pending \ {timeEventHead[p].id} |-> PendingTimers[j]]
          /\ Pending' = Pending \ {timeEventHead[p].id}
      BY <2>0, <2>3, UnlinkRemovesTimer, UnlinkKeepsList
    <3> QED BY <1>3, <2>1, <3>1
  <2>4. CASE UNCHANGED timeEventHead
    BY <1>3, <2>4 DEF Due, At
  <2>5. ASSUME NEW msec \in Returns, TimerAgain(msec)
        PROVE  phase = "callback" /\ id = i
    <3>1. /\ phase = "callback"
          /\ PendingTimers' = [j \in Pending |->
               IF j = id THEN [PendingTimers[j] EXCEPT !.due = now + msec]
                         ELSE PendingTimers[j]]
      BY <1>3, <2>5, AgainRefines
    <3> QED BY <2>1, <3>1
  <2> QED
    BY <1>3, <2>2, <2>3, <2>4, <2>5
       DEF TimeNext, UserCall, CallbackReturns, Scan, evCreateTimeEventFails,
           evDeleteTimeEvent, BeginPass, SkipTimer, FireTimer, EndPass, TimerNoMore,
           FinalizerReturns, Tick, ClockSet, timeVars
<1>4. TimeInit => PassIds
  BY DEF TimeInit, PassIds
<1>5. TimeInv /\ PassIds /\ [TimeNext]_timeVars
        => /\ PassIds'
           /\ [\A i \in Pending \cap Pending' :
                 Due(i)' # Due(i) => phase = "callback" /\ id = i]_timeVars
  BY <1>3, NextKeepsPassIds
<1> QED BY <1>4, <1>5, TimeInvariant, PTL DEF TimeSpec, OnlyOwnReturnRearms
=============================================================================
