------------------------------ MODULE EventTime ------------------------------
(***************************************************************************)
(* The arithmetic on points in time of EventLoop (base/event/t_event.cpp). *)
(* The code keeps a point in time as a pair of seconds and milliseconds;   *)
(* here the clock itself is a number of milliseconds, split the way        *)
(* evGetTime splits a timeval, and a pair is a record [sec, ms].           *)
(* Delays are not negative.                                                *)
(***************************************************************************)
EXTENDS Integers

CONSTANTS
  MsPerSec,  \* milliseconds in a second (1000 in the code)
  IntHalf    \* the C type int holds -IntHalf .. IntHalf - 1 (2^31 in the code)

ASSUME TimeAssumption ==
  /\ MsPerSec \in Nat \ {0}
  /\ IntHalf \in Nat \ {0}

Moment == [sec : Nat, ms : 0 .. MsPerSec - 1]

\* The point in time a pair stands for, in milliseconds.
Total(when) == when.sec * MsPerSec + when.ms

evGetTime(now) == [sec |-> now \div MsPerSec, ms |-> now % MsPerSec]

evAddMillisecondsToNow_NoCarry(now, msec) ==  \* mutant: milliseconds not carried
  LET cur == evGetTime(now)
  IN [sec |-> cur.sec + (msec \div MsPerSec), ms |-> cur.ms + (msec % MsPerSec)]

evAddMillisecondsToNow(now, msec) ==
  LET cur == evGetTime(now)
      sec == cur.sec + (msec \div MsPerSec)
      ms  == cur.ms + (msec % MsPerSec)
  IN IF ms >= MsPerSec THEN [sec |-> sec + 1, ms |-> ms - MsPerSec]
                       ELSE [sec |-> sec, ms |-> ms]

\* The test of processTimeEvents: has `when` been reached?
IsDue(now, when) ==
  LET cur == evGetTime(now)
  IN \/ cur.sec > when.sec
     \/ cur.sec = when.sec /\ cur.ms >= when.ms

\* The comparison of evSearchNearestTimer.
Before(a, b) ==
  \/ a.sec < b.sec
  \/ a.sec = b.sec /\ a.ms < b.ms

\* Conversion of a long to int, as in the third argument of epoll_wait.
ToInt(x) == ((x + IntHalf) % (2 * IntHalf)) - IntHalf

(***************************************************************************)
(* The timeout evProcessEvents hands to epoll_wait when the nearest timer  *)
(* is set to `when`: the difference with borrow, each field then clamped   *)
(* to zero on its own, the sum converted to int.                           *)
(***************************************************************************)
PollTimeout_Unclamped(now, when) ==  \* mutant: negative seconds kept
  Total(when) - now

PollTimeout(now, when) ==
  LET cur    == evGetTime(now)
      borrow == when.ms < cur.ms
      sec    == when.sec - cur.sec - (IF borrow THEN 1 ELSE 0)
      ms     == when.ms - cur.ms + (IF borrow THEN MsPerSec ELSE 0)
  IN ToInt((IF sec < 0 THEN 0 ELSE sec) * MsPerSec + ms)
=============================================================================
