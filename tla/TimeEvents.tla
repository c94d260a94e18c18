----------------------------- MODULE TimeEvents -----------------------------
(***************************************************************************)
(* The timers of EventLoop (base/event/t_event.cpp): the linked list       *)
(* timeEventHead, evCreateTimeEvent, evDeleteTimeEvent and the pass over   *)
(* the list that processTimeEvents makes, interleaved with what the user's *)
(* callbacks do to the list while the pass is suspended in them, and with  *)
(* the wall clock.                                                         *)
(*                                                                         *)
(* A node is a record of the list; the code's pointer te is named by the   *)
(* id stored in the memory it reaches, NULL, or FREED once that memory has *)
(* been given back.  malloc may hand the freed node to the next timer, and *)
(* te then reaches that one.                                               *)
(*                                                                         *)
(* A finalizer called by evDeleteTimeEvent runs after the node has left    *)
(* the list and nothing but free() follows it, so what it calls is what    *)
(* its caller may call next; only the finalizer of a timer that returns    *)
(* EVENT_NOMORE needs a phase of its own, the pass being its caller.       *)
(***************************************************************************)
EXTENDS EventTime, SequencesExt

CONSTANTS
  Delays,     \* the msec arguments of evCreateTimeEvent
  Returns,    \* what timeProc returns besides EVENT_NOMORE
  MaxTimers,  \* bound on the timers ever created
  MaxNow,     \* bound on the clock
  ClockSettings,  \* what the clock may be set to, forwards or back
  RearmAfterSelfDelete  \* may a timeProc delete its own timer and ask to run again?

NULL  == -1
FREED == -2

ASSUME TimerAssumption ==
  /\ Delays \subseteq Nat
  /\ Returns \subseteq Nat
  /\ MaxTimers \in Nat
  /\ MaxNow \in Nat
  /\ ClockSettings \subseteq Nat
  /\ RearmAfterSelfDelete \in BOOLEAN

VARIABLES
  timeEventHead,    \* the list, newest timer first
  timeEventNextId,
  now,              \* the wall clock
  phase,            \* where processTimeEvents is, "idle" when not running
  te, maxId, id,    \* its local variables
  scanStart,        \* history: the earliest clock since te was set to the head
  calls             \* history: how often each timer's finalizer has run

timeVars == <<timeEventHead, timeEventNextId, now, phase, te, maxId, id,
              scanStart, calls>>

TimeEvent == [id : Nat, when : Moment, fin : BOOLEAN]

Ids     == 0 .. timeEventNextId - 1
Pending == {timeEventHead[p].id : p \in DOMAIN timeEventHead}

\* Position of the node with id i, and its due time in milliseconds.
At(i)  == CHOOSE p \in DOMAIN timeEventHead : timeEventHead[p].id = i
Due(i) == Total(timeEventHead[At(i)].when)

TimeInit ==
  /\ timeEventHead = <<>>
  /\ timeEventNextId = 0
  /\ now = 0
  /\ phase = "idle"
  /\ te = NULL /\ maxId = -1 /\ id = NULL
  /\ scanStart = 0
  /\ calls = [i \in {} |-> 0]

-----------------------------------------------------------------------------
\* The user's code runs: outside the pass, in a timeProc or in a finalizer.
UserCode == phase \in {"idle", "callback", "finalizer"}

HeadOf(list) == IF list = <<>> THEN NULL ELSE list[1].id

\* The new node becomes the head of the list.
Link_Last(list, node) == Append(list, node)  \* mutant: at the tail

Link(list, node) == <<node>> \o list

(***************************************************************************)
(* evCreateTimeEvent.  The id is taken before malloc, so a failed call     *)
(* uses one up.  `fin`: was a finalizer passed?                            *)
(***************************************************************************)
evCreateTimeEvent(msec, fin) ==
  LET new == [id   |-> timeEventNextId,
              when |-> evAddMillisecondsToNow(now, msec),
              fin  |-> fin]
  IN
  /\ UserCode /\ timeEventNextId < MaxTimers
  /\ timeEventNextId' = timeEventNextId + 1
  /\ timeEventHead' = Link(timeEventHead, new)
  /\ calls' = [i \in 0 .. timeEventNextId |->
                 IF i = timeEventNextId THEN 0 ELSE calls[i]]
  /\ te' \in {te} \cup (IF te = FREED THEN {timeEventNextId} ELSE {})
  /\ UNCHANGED <<now, phase, maxId, id, scanStart>>

evCreateTimeEventFails ==
  /\ UserCode /\ timeEventNextId < MaxTimers
  /\ timeEventNextId' = timeEventNextId + 1
  /\ calls' = [i \in 0 .. timeEventNextId |->
                 IF i = timeEventNextId THEN 0 ELSE calls[i]]
  /\ UNCHANGED <<timeEventHead, now, phase, te, maxId, id, scanStart>>

\* The node at position p leaves the list and its finalizer is called.
Unlink_HeadStays(p) ==  \* mutant: the head pointer is not moved on
  LET node == timeEventHead[p]
  IN /\ timeEventHead' = IF p = 1 THEN timeEventHead ELSE RemoveAt(timeEventHead, p)
     /\ calls' = [calls EXCEPT ![node.id] = IF node.fin THEN @ + 1 ELSE @]

Unlink(p) ==
  LET node == timeEventHead[p]
  IN /\ timeEventHead' = RemoveAt(timeEventHead, p)
     /\ calls' = [calls EXCEPT ![node.id] = IF node.fin THEN @ + 1 ELSE @]

\* evDeleteTimeEvent called by user code; an unknown id changes nothing.
evDeleteTimeEvent(i) ==
  /\ UserCode
  /\ \E p \in DOMAIN timeEventHead : timeEventHead[p].id = i /\ Unlink(p)
  /\ te' = IF te = i THEN FREED ELSE te
  /\ UNCHANGED <<timeEventNextId, now, phase, maxId, id, scanStart>>

-----------------------------------------------------------------------------
(***************************************************************************)
(* processTimeEvents.  The scan is not interrupted by user code, so te is  *)
(* in the list while phase is "scan".                                      *)
(***************************************************************************)
StartScan(list) ==
  /\ phase' = "scan"
  /\ te' = HeadOf(list)
  /\ id' = NULL
  /\ scanStart' = now

\* After every callback the scan starts over at the head.
Rescan_Continues(list) ==  \* mutant: goes on with the node that has fired
  /\ phase' = "scan" /\ te' = te /\ id' = NULL /\ scanStart' = now

Rescan(list) == StartScan(list)

BeginPass ==
  /\ phase = "idle"
  /\ maxId' = timeEventNextId - 1
  /\ StartScan(timeEventHead)
  /\ UNCHANGED <<timeEventHead, timeEventNextId, now, calls>>

\* Is timer i to be fired?  Not if it was created during this pass.
Eligible_Newest(i) == i < maxId /\ IsDue(now, timeEventHead[At(i)].when)  \* mutant
Eligible_Young(i)  == IsDue(now, timeEventHead[At(i)].when)  \* mutant: no maxId

Eligible(i) == i <= maxId /\ IsDue(now, timeEventHead[At(i)].when)

\* te->next
NextTimer_Same(i) == i  \* mutant: te is not moved on

NextTimer(i) ==
  IF At(i) = Len(timeEventHead) THEN NULL ELSE timeEventHead[At(i) + 1].id

SkipTimer ==
  /\ phase = "scan" /\ te # NULL /\ ~Eligible(te)
  /\ te' = NextTimer(te)
  /\ UNCHANGED <<timeEventHead, timeEventNextId, now, phase, maxId, id,
                 scanStart, calls>>

\* The timer at te is due: timeProc is called.
FireTimer ==
  /\ phase = "scan" /\ te # NULL /\ Eligible(te)
  /\ phase' = "callback"
  /\ id' = te
  /\ UNCHANGED <<timeEventHead, timeEventNextId, now, te, maxId, scanStart, calls>>

\* timeProc returns a delay: the node te reaches is set to run again.
Rearmed_Head(i, msec) ==  \* mutant: the head instead of the node te
  [timeEventHead EXCEPT ![1].when = evAddMillisecondsToNow(now, msec)]

Rearmed(i, msec) ==
  [timeEventHead EXCEPT ![At(i)].when = evAddMillisecondsToNow(now, msec)]

TimerAgain(msec) ==
  /\ phase = "callback"
  /\ te # id => RearmAfterSelfDelete
  /\ timeEventHead' = IF te = FREED THEN timeEventHead ELSE Rearmed(te, msec)
  /\ Rescan(timeEventHead')
  /\ UNCHANGED <<timeEventNextId, now, maxId, calls>>

\* timeProc returns EVENT_NOMORE: evDeleteTimeEvent(id), which finds nothing
\* if the callback has deleted its own timer.
TimerNoMore ==
  /\ phase = "callback"
  /\ \/ /\ id \notin Pending
        /\ Rescan(timeEventHead)
        /\ UNCHANGED <<timeEventHead, calls>>
     \/ \E p \in DOMAIN timeEventHead :
          /\ timeEventHead[p].id = id
          /\ Unlink(p)
          /\ IF timeEventHead[p].fin
               THEN /\ phase' = "finalizer" /\ te' = NULL /\ id' = NULL
                    /\ UNCHANGED scanStart
               ELSE Rescan(timeEventHead')
  /\ UNCHANGED <<timeEventNextId, now, maxId>>

FinalizerReturns ==
  /\ phase = "finalizer"
  /\ Rescan(timeEventHead)
  /\ UNCHANGED <<timeEventHead, timeEventNextId, now, maxId, calls>>

\* The locals of the pass are gone.
EndPass ==
  /\ phase = "scan" /\ te = NULL
  /\ phase' = "idle" /\ maxId' = -1 /\ scanStart' = 0
  /\ UNCHANGED <<timeEventHead, timeEventNextId, now, te, id, calls>>

\* The wall clock moves on at any time, in the middle of a pass too.
Tick ==
  /\ now < MaxNow
  /\ now' = now + 1
  /\ UNCHANGED <<timeEventHead, timeEventNextId, phase, te, maxId, id, scanStart, calls>>

\* gettimeofday jumps, by an administrator or by NTP.
ClockSet(t) ==
  /\ now' = t
  /\ scanStart' = IF phase = "scan" /\ t < scanStart THEN t ELSE scanStart
  /\ UNCHANGED <<timeEventHead, timeEventNextId, phase, te, maxId, id, calls>>

UserCall ==
  \/ \E msec \in Delays, fin \in BOOLEAN : evCreateTimeEvent(msec, fin)
  \/ evCreateTimeEventFails
  \/ \E i \in Ids : evDeleteTimeEvent(i)

CallbackReturns ==
  \/ \E msec \in Returns : TimerAgain(msec)
  \/ TimerNoMore
  \/ FinalizerReturns

Scan == SkipTimer \/ FireTimer \/ EndPass

TimeNext ==
  \/ UserCall \/ BeginPass \/ Scan \/ CallbackReturns \/ Tick
  \/ \E t \in ClockSettings : ClockSet(t)

TimeSpec == TimeInit /\ [][TimeNext]_timeVars

\* The loop's thread keeps running and the callbacks return.
TimeFairSpec == TimeSpec /\ WF_timeVars(Scan) /\ WF_timeVars(CallbackReturns)

-----------------------------------------------------------------------------
\* Every variable has its type.
TimeTypeOK ==
  /\ timeEventHead \in Seq(TimeEvent)
  /\ timeEventNextId \in Nat
  /\ now \in Nat /\ scanStart \in Nat
  /\ phase \in {"idle", "scan", "callback", "finalizer"}
  /\ te \in Nat \cup {NULL, FREED}
  /\ maxId \in Nat \cup {-1}
  /\ id \in Nat \cup {NULL}
  /\ calls \in [Ids -> Nat]

\* Ids are handed out once: the list runs from the newest timer to the
\* oldest, whatever was deleted in between, so evDeleteTimeEvent and te can
\* never mean two nodes.
NewestFirst ==
  /\ \A p \in DOMAIN timeEventHead : timeEventHead[p].id < timeEventNextId
  /\ \A p, q \in DOMAIN timeEventHead :
       p < q => timeEventHead[p].id > timeEventHead[q].id

\* The finalizer of a timer runs at most once, and never while the timer can
\* still fire, whether it is deleted by the user, by itself or by its return
\* value, or by two of them.
FinalizedOnce ==
  \A i \in Ids : calls[i] <= 1 /\ (i \in Pending => calls[i] = 0)

\* processTimeEvents reads nodes of the list only: while it scans, te is NULL
\* or in the list, whatever the callbacks have deleted before.
ScanStaysInList == phase = "scan" /\ te # NULL => te \in Pending

\* No timer is passed over: when the pass ends, every timer that existed when
\* it began is set to a time after the last restart of the scan, or after the
\* clock's lowest reading since if it has been set back.
NothingDueLeft ==
  phase = "scan" /\ te = NULL =>
    \A i \in Pending : i <= maxId => Due(i) > scanStart

\* A timer's due time changes only when its own timeProc has returned a delay
\* ("returns the time to the next call").
OnlyOwnReturnRearms ==
  [][\A i \in Pending \cap Pending' :
       Due(i)' # Due(i) => phase = "callback" /\ id = i]_timeVars

\* A pass comes to an end although its callbacks create and re-arm timers and
\* each of them restarts the scan, unless timers ask again and again to run
\* at once or the clock moves on again and again during the pass.
AgainAtOnce ==
  /\ phase = "callback" /\ phase' = "scan"
  /\ \E i \in Pending \cap Pending' : i = te /\ Due(i)' <= now

ClockMoves == phase # "idle" /\ now' > now

PassTerminates ==
  (phase = "scan" ~> phase = "idle")
    \/ []<><<AgainAtOnce \/ ClockMoves>>_timeVars

(***************************************************************************)
(* The list, the pairs of seconds and milliseconds and the restarting scan *)
(* implement the timer service of module TimerService.                     *)
(***************************************************************************)
PendingTimers ==
  [i \in Pending |-> [due |-> Due(i), fin |-> timeEventHead[At(i)].fin]]

Stage == CASE phase = "idle" -> "idle"
           [] phase = "scan" -> "serving"
           [] OTHER          -> "user"

Cohort == IF phase = "idle" THEN {} ELSE {i \in Pending : i <= maxId}

Service == INSTANCE TimerService WITH
  nextId <- timeEventNextId, pending <- PendingTimers, stage <- Stage,
  cohort <- Cohort, firing <- id, since <- scanStart

\* What the user of the timer calls may rely on, stated in TimerService.
ImplementsTimerService == Service!Spec
=============================================================================
