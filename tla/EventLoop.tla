------------------------------ MODULE EventLoop ------------------------------
(***************************************************************************)
(* The thread that runs evStart (base/event/t_event.cpp): one turn calls   *)
(* beforesleepProc, sleeps in epoll_wait until a descriptor is ready or    *)
(* the nearest timer is due, dispatches the reported descriptors and makes *)
(* a pass over the timers.  The descriptor table is module FileEvents, the *)
(* timers are module TimeEvents; this module adds the turn itself, what    *)
(* user code may do while the turn is suspended in it, and the kernel's    *)
(* side of epoll_wait.                                                     *)
(*                                                                         *)
(* evStart calls evProcessEvents(EVENT_ALL_EVENTS) only, so the branches   *)
(* of EVENT_DONT_WAIT and of a turn without timers are not reachable.      *)
(***************************************************************************)
EXTENDS FileEvents, TimeEvents

CONSTANTS
  Horizon  \* bound on the clock, passed only by a sleep under way; a timer asks
           \* for a later time only before it

Forever == -1

ASSUME LoopAssumption == Horizon \in Nat

VARIABLES
  pc,        \* where the thread is
  stop,      \* EventLoop::stop
  deadline,  \* when epoll_wait gives up, Forever if never
  fired,     \* the part of fired[] not yet dealt with; stale (history): its
             \* descriptor has been closed since
  bit,       \* the event of Head(fired) that is looked at
  rfired,    \* local variable of evProcessEvents
  ready      \* kernel: the condition of each descriptor

turnVars == <<pc, stop, deadline, fired, bit, rfired, ready>>
loopVars == <<fileVars, timeVars, turnVars>>

LoopInit ==
  /\ FileInit /\ TimeInit
  /\ pc = "outside" /\ stop = FALSE
  /\ deadline = 0
  /\ fired = <<>> /\ bit = READABLE /\ rfired = FALSE
  /\ ready = [fd \in Fds |-> {}]

-----------------------------------------------------------------------------
(***************************************************************************)
(* User code: before and after evStart, in beforesleepProc, in the handler *)
(* of a descriptor and in the callbacks of a timer.                        *)
(***************************************************************************)
InUserCode ==
  \/ pc \in {"outside", "before", "handler"}
  \/ pc = "times" /\ phase \in {"callback", "finalizer"}

UserTimeCall ==
  /\ InUserCode /\ UserCall
  /\ UNCHANGED <<fileVars, turnVars>>

UserFileCall ==
  /\ InUserCode
  /\ \E fd \in Fds :
       \/ \E mask \in Masks, proc \in Procs, data \in Datas :
            evCreateFileEvent(fd, mask, proc, data)
       \/ \E delmask \in Masks : evDeleteFileEvent(fd, delmask)
  /\ UNCHANGED <<timeVars, turnVars>>

UserOpens(fd) ==
  /\ InUserCode
  /\ OpenDescriptor(fd)
  /\ UNCHANGED <<timeVars, turnVars>>

\* The reports already copied to fired[] speak of the file that is now gone;
\* its number may be opened again before they are looked at.
UserCloses(fd) ==
  /\ InUserCode
  /\ CloseDescriptor(fd)
  /\ fired' = [k \in DOMAIN fired |->
                 IF fired[k].fd = fd THEN [fired[k] EXCEPT !.stale = TRUE]
                                     ELSE fired[k]]
  /\ ready' = [ready EXCEPT ![fd] = {}]
  /\ UNCHANGED <<timeVars, pc, stop, deadline, bit, rfired>>

\* User code reads or writes until the condition is gone.
UserDrains(fd) ==
  /\ InUserCode /\ ready[fd] # {}
  /\ \E b \in ready[fd] : ready' = [ready EXCEPT ![fd] = @ \ {b}]
  /\ UNCHANGED <<fileVars, timeVars, pc, stop, deadline, fired, bit, rfired>>

evStop ==
  /\ InUserCode
  /\ stop' = TRUE
  /\ UNCHANGED <<fileVars, timeVars, pc, deadline, fired, bit, rfired, ready>>

UserStep ==
  \/ UserTimeCall \/ UserFileCall \/ evStop
  \/ \E fd \in Fds : UserOpens(fd) \/ UserCloses(fd) \/ UserDrains(fd)

-----------------------------------------------------------------------------
\* evStart forgets an evStop that came before it.
evStart ==
  /\ pc = "outside"
  /\ stop' = FALSE /\ pc' = "before"
  /\ UNCHANGED <<fileVars, timeVars, deadline, fired, bit, rfired, ready>>

\* evSearchNearestTimer: the due time of the nearest timer.
NearestWhen_Newest == timeEventHead[1].when  \* mutant: the first node

NearestWhen ==
  LET p == CHOOSE p \in DOMAIN timeEventHead : \A q \in DOMAIN timeEventHead :
             ~Before(timeEventHead[q].when, timeEventHead[p].when)
  IN timeEventHead[p].when

\* beforesleepProc has returned; epoll_wait is called.  A negative timeout
\* means no timeout.
EnterPoll ==
  LET timeout == IF timeEventHead = <<>> THEN -1 ELSE PollTimeout(now, NearestWhen)
  IN
  /\ pc = "before"
  /\ deadline' = IF timeout < 0 THEN Forever ELSE now + timeout
  /\ pc' = "waiting"
  /\ UNCHANGED <<fileVars, timeVars, stop, fired, bit, rfired, ready>>

\* What epoll_wait reports of fd: the kernel always adds errors and hang-ups.
Report(fd) ==
  IF interest[fd] = {} THEN {} ELSE ready[fd] \cap (interest[fd] \cup {ERRABLE})

Reported == {fd \in Fds : Report(fd) # {}}

LeavePoll == pc' = "dispatch" /\ deadline' = 0

WakeWithEvents ==
  /\ pc = "waiting" /\ Reported # {}
  /\ \E order \in SetToSeqs(Reported) :
       fired' = [k \in DOMAIN order |->
                   [fd |-> order[k], mask |-> Report(order[k]), stale |-> FALSE]]
  /\ LeavePoll
  /\ UNCHANGED <<fileVars, timeVars, stop, bit, rfired, ready>>

WakeTimeout ==
  /\ pc = "waiting" /\ Reported = {}
  /\ deadline # Forever /\ now >= deadline
  /\ LeavePoll
  /\ UNCHANGED <<fileVars, timeVars, stop, fired, bit, rfired, ready>>

\* epoll_wait fails with EINTR: a turn without descriptors.
WakeInterrupted ==
  /\ pc = "waiting" /\ Reported = {}
  /\ LeavePoll
  /\ UNCHANGED <<fileVars, timeVars, stop, fired, bit, rfired, ready>>

-----------------------------------------------------------------------------
(***************************************************************************)
(* Dispatch.  Each report is looked at bit by bit, and the table is read   *)
(* again before each call because the previous handler may have changed it.*)
(***************************************************************************)
\* Is the handler of `bit` called?  A handler that serves both directions is
\* not called a second time for WRITABLE.
HandlerWanted_Unchecked ==  \* mutant: the table is not read again
  /\ bit \in Head(fired).mask
  /\ bit = WRITABLE => ~rfired

HandlerWanted ==
  LET fe == events[Head(fired).fd]
  IN /\ bit \in fe.mask \cap Head(fired).mask
     /\ bit = WRITABLE /\ rfired => fe.fileProc[WRITABLE] # fe.fileProc[READABLE]

NextBit_DropsBatch ==  \* mutant: the other reports are forgotten
  IF bit = ERRABLE
    THEN /\ fired' = <<>> /\ bit' = READABLE /\ rfired' = FALSE
    ELSE /\ bit' = IF bit = READABLE THEN WRITABLE ELSE ERRABLE
         /\ UNCHANGED <<fired, rfired>>

NextBit ==
  IF bit = ERRABLE
    THEN /\ fired' = Tail(fired) /\ bit' = READABLE /\ rfired' = FALSE
    ELSE /\ bit' = IF bit = READABLE THEN WRITABLE ELSE ERRABLE
         /\ UNCHANGED <<fired, rfired>>

CallHandler ==
  /\ pc = "dispatch" /\ fired # <<>> /\ HandlerWanted
  /\ pc' = "handler"
  /\ rfired' = (rfired \/ bit = READABLE)
  /\ UNCHANGED <<fileVars, timeVars, stop, deadline, fired, bit, ready>>

SkipBit ==
  /\ pc = "dispatch" /\ fired # <<>> /\ ~HandlerWanted
  /\ NextBit
  /\ UNCHANGED <<fileVars, timeVars, pc, stop, deadline, ready>>

HandlerReturns ==
  /\ pc = "handler"
  /\ NextBit
  /\ pc' = "dispatch"
  /\ UNCHANGED <<fileVars, timeVars, stop, deadline, ready>>

AllDispatched == fired = <<>>

StartTimes ==
  /\ pc = "dispatch" /\ AllDispatched
  /\ BeginPass
  /\ pc' = "times"
  /\ UNCHANGED <<fileVars, stop, deadline, fired, bit, rfired, ready>>

DuringTimes ==
  /\ pc = "times"
  /\ \/ SkipTimer \/ FireTimer \/ TimerNoMore \/ FinalizerReturns
     \/ \E msec \in Returns : (msec = 0 \/ now < Horizon) /\ TimerAgain(msec)
  /\ UNCHANGED <<fileVars, turnVars>>

\* while(!stop)
AfterTurn_Again == "before"  \* mutant: stop is not looked at

AfterTurn == IF stop THEN "outside" ELSE "before"

EndTimes ==
  /\ pc = "times"
  /\ EndPass
  /\ pc' = AfterTurn
  /\ UNCHANGED <<fileVars, stop, deadline, fired, bit, rfired, ready>>

Turn ==
  \/ EnterPoll \/ WakeWithEvents \/ WakeTimeout
  \/ CallHandler \/ SkipBit \/ HandlerReturns
  \/ StartTimes \/ DuringTimes \/ EndTimes

LoopStep == Turn \/ WakeInterrupted

-----------------------------------------------------------------------------
\* The kernel: an open descriptor becomes ready; the clock moves on.
BecomesReady(fd, b) ==
  /\ fd \in isOpen /\ b \notin ready[fd]
  /\ ready' = [ready EXCEPT ![fd] = @ \cup {b}]
  /\ UNCHANGED <<fileVars, timeVars, pc, stop, deadline, fired, bit, rfired>>

ClockTick ==
  /\ now < Horizon \/ (pc = "waiting" /\ now < deadline)
  /\ Tick
  /\ UNCHANGED <<fileVars, turnVars>>

LoopNext ==
  \/ UserStep \/ evStart \/ LoopStep \/ ClockTick
  \/ \E fd \in Fds, b \in UNION Masks : BecomesReady(fd, b)

LoopSpec == LoopInit /\ [][LoopNext]_loopVars

(***************************************************************************)
(* The thread is scheduled, handlers and callbacks return, and the clock   *)
(* does not stop.  No signal need ever interrupt a sleep.                  *)
(***************************************************************************)
LoopFairSpec == LoopSpec /\ WF_loopVars(Turn) /\ SF_loopVars(ClockTick)

-----------------------------------------------------------------------------
Dispatches == pc = "dispatch" /\ pc' = "handler"

\* "we check if the event is still valid": a handler is not called for a
\* report about a file that has been closed since.  The check looks at the
\* number only, so this is not so once an earlier handler of the batch has
\* opened the number again and registered it.
NoStaleDispatch == [][Dispatches => ~Head(fired).stale]_loopVars

\* What the check does give, whatever the earlier handlers of the batch have
\* deleted, closed, opened and registered: a handler is called only for a file
\* that is open, and for an event the kernel watches it for now.  A stale
\* report reaches no other registration than one made since.
HandlerIsWatched ==
  [][Dispatches => Head(fired).fd \in isOpen /\ bit \in interest[Head(fired).fd]]_loopVars

\* epoll_wait gives up when the nearest timer is due, whichever it is and
\* whatever borrow the pair of seconds and milliseconds needs.  If a timer is
\* overdue when the sleep begins, the sleep is at least shorter than a second.
Overdue == {i \in Pending : Due(i) < now}

SleepEndsInTime ==
  [][pc = "before" /\ pc' = "waiting" /\ Pending # {} =>
       /\ deadline' # Forever
       /\ IF Overdue = {} THEN \A i \in Pending : deadline' <= Due(i)
                          ELSE deadline' < now + MsPerSec]_loopVars

\* The pass over the timers goes on as long as one of them asks to run again
\* at once, or the clock moves on until one that asked for later is due again;
\* it looks neither at stop nor at the timers behind that one.
PassHeldUp == []<><<AgainAtOnce>>_timeVars \/ []<><<ClockMoves>>_timeVars

\* evStop called by a handler or by a callback of a timer ends evStart: the
\* turn is finished, unless timers hold its pass up, and no further one begins.
StopIsHonoured ==
  (stop /\ pc \in {"dispatch", "handler", "times"} ~> pc = "outside") \/ PassHeldUp

\* While the loop runs, a ready descriptor that stays registered and ready is
\* served, however busy the others are.
Wanted(fd, b) == pc # "outside" /\ b \in ready[fd] \cap interest[fd]
Serving(fd)   == pc = "handler" /\ Head(fired).fd = fd

ReadyIsServed ==
  \A fd \in Fds : \A b \in Bits : Wanted(fd, b) ~> Serving(fd) \/ ~Wanted(fd, b)

\* While the loop runs, every timer fires or is deleted, the ones that others
\* were created or re-armed in front of too: the sleep is never without end when
\* a timer is pending, and no pass leaves a due one behind unless it is held up.
TimerIsServed ==
  \/ \A i \in 0 .. MaxTimers - 1 :
       i \in Pending /\ pc # "outside"
         ~> i \notin Pending \/ (phase = "callback" /\ id = i) \/ pc = "outside"
  \/ PassHeldUp
=============================================================================
