------------------------------- MODULE Thread -------------------------------
(***************************************************************************)
(* One object of class Thread (base/thread/t_thread.cpp): its fields tid   *)
(* and threadStatus, written without a lock by the thread that owns the    *)
(* object and by the threads it starts, and the POSIX threads behind it.   *)
(*                                                                         *)
(* Thread i is the one made by the i-th Start; 0 is "no thread".  As glibc *)
(* does, pthread_create stores the new id before the thread runs.  What a  *)
(* pthread call does with 0 or with the id of a thread already joined is   *)
(* undefined: it fails at once or brings the process down, and the model   *)
(* notes the id in `dead`.                                                 *)
(***************************************************************************)
EXTENDS Integers

CONSTANTS
  MaxStarts,  \* bound on the threads started
  Timeouts    \* the arguments of Join(ms), in milliseconds

ASSUME ThreadAssumption ==
  /\ MaxStarts \in Nat
  /\ Timeouts \subseteq Nat \ {0}

VARIABLES
  tid, threadStatus,  \* the fields of the object
  place,      \* where each started thread is in run0/run1
  cancelled,  \* the threads pthread_cancel has been called for
  starts,     \* how many threads have been started
  owner,      \* what the owner of the object is doing
  target,     \* the id the owner's call has last read from tid
  ms, k,      \* argument and loop counter of Join(ms)
  joined,     \* history: Join() has returned since the last Start
  tidy,       \* history: the owner has always joined before it started again, and
              \* neither Cancle() nor Stop() has been called
  dead        \* history: the ids given to a pthread call that were not alive

childVars  == <<place, cancelled, starts>>
ownerVars  == <<owner, target, ms, k, joined, tidy, dead>>
threadVars == <<tid, threadStatus, childVars, ownerVars>>

Started == 1 .. starts
Places  == {"born", "marked", "running", "ran", "exited", "leaving", "ended", "joined"}

ThreadInit ==
  /\ tid = 0 /\ threadStatus = "NEW"
  /\ place = [i \in {} |-> "born"] /\ cancelled = {} /\ starts = 0
  /\ owner = "idle" /\ target = 0
  /\ ms = 0 /\ k = 0
  /\ joined = TRUE /\ tidy = TRUE /\ dead = {}

Alive(i) == i \in Started /\ place[i] # "joined"
InRun(i) == place[i] \in {"born", "marked", "running"}

-----------------------------------------------------------------------------
(***************************************************************************)
(* The started thread: run0 and run1.                                      *)
(***************************************************************************)
GoesTo(i, to) ==
  /\ place' = [place EXCEPT ![i] = to]
  /\ UNCHANGED <<cancelled, starts, owner, target, ms, k, joined, dead>>

Moves(i, from, to) == place[i] = from /\ GoesTo(i, to) /\ UNCHANGED tidy

SetsRunning(i) ==
  Moves(i, "born", "marked") /\ threadStatus' = "RUNNING" /\ UNCHANGED tid
StoresOwnId(i) ==
  Moves(i, "marked", "running") /\ tid' = i /\ UNCHANGED threadStatus
RunReturns(i) ==
  Moves(i, "running", "ran") /\ UNCHANGED <<tid, threadStatus>>
SetsExit(i) ==
  Moves(i, "ran", "exited") /\ threadStatus' = "EXIT" /\ UNCHANGED tid
ClearsId_MinusOne(i) ==  \* mutant: -1 for no thread
  Moves(i, "exited", "leaving") /\ tid' = -1 /\ UNCHANGED threadStatus
ClearsId_Keeps(i) ==     \* mutant: tid is left alone
  Moves(i, "exited", "leaving") /\ UNCHANGED <<tid, threadStatus>>

ClearsId(i) ==
  Moves(i, "exited", "leaving") /\ tid' = 0 /\ UNCHANGED threadStatus

Leaves_WithStatus(i) ==  \* mutant: threadStatus written last
  Moves(i, "leaving", "ended") /\ threadStatus' = "EXIT" /\ UNCHANGED tid

Leaves(i) ==
  Moves(i, "leaving", "ended") /\ UNCHANGED <<tid, threadStatus>>

\* run() calls Stop(): pthread_exit, nothing after run() in run1 happens.
Stop(i) ==
  /\ place[i] = "running"
  /\ GoesTo(i, "ended") /\ tidy' = FALSE
  /\ UNCHANGED <<tid, threadStatus>>

\* Asynchronous cancellation takes effect anywhere.
CancelTakesEffect(i) ==
  /\ i \in cancelled /\ place[i] \notin {"ended", "joined"}
  /\ Moves(i, place[i], "ended") /\ UNCHANGED <<tid, threadStatus>>

ChildStep(i) ==
  /\ owner # "crashed"
  /\ \/ SetsRunning(i) \/ StoresOwnId(i) \/ RunReturns(i)
     \/ SetsExit(i) \/ ClearsId(i) \/ Leaves(i)
     \/ Stop(i) \/ CancelTakesEffect(i)

-----------------------------------------------------------------------------
(***************************************************************************)
(* The owner of the object.                                                *)
(***************************************************************************)
Start ==
  /\ owner = "idle" /\ starts < MaxStarts
  /\ starts' = starts + 1
  /\ tid' = starts + 1
  /\ place' = [i \in 1 .. starts + 1 |-> IF i = starts + 1 THEN "born" ELSE place[i]]
  /\ joined' = FALSE /\ tidy' = (tidy /\ joined)
  /\ UNCHANGED <<threadStatus, cancelled, owner, target, ms, k, dead>>

\* A pthread call that is given an id which is not alive fails, and the owner
\* goes on, or it follows the dead id and crashes.
GivenDead(i, after) == dead' = dead \cup {i} /\ owner' \in {after, "crashed"}

\* pthread_cancel(i)
Cancels(i, after) ==
  IF Alive(i) THEN cancelled' = cancelled \cup {i} /\ owner' = after /\ UNCHANGED dead
              ELSE GivenDead(i, after) /\ UNCHANGED cancelled

\* Cancle(): pthread_cancel(tid), whatever tid holds.
Cancle ==
  /\ owner = "idle"
  /\ Cancels(tid, "idle") /\ tidy' = FALSE
  /\ UNCHANGED <<tid, threadStatus, place, starts, target, ms, k, joined>>

\* Join(): if(tid > 0) pthread_join(tid).  The race on tid is undefined; a
\* build reads it once or twice.
Join_IfRunning ==  \* mutant: threadStatus tested instead of tid
  /\ owner = "idle"
  /\ IF tid > 0 /\ threadStatus = "RUNNING"
       THEN owner' = "tested" /\ target' = tid /\ UNCHANGED joined
       ELSE joined' = TRUE /\ UNCHANGED <<owner, target>>
  /\ UNCHANGED <<tid, threadStatus, childVars, ms, k, tidy, dead>>

Join ==
  /\ owner = "idle"
  /\ IF tid > 0 THEN owner' = "tested" /\ target' = tid /\ UNCHANGED joined
                ELSE joined' = TRUE /\ UNCHANGED <<owner, target>>
  /\ UNCHANGED <<tid, threadStatus, childVars, ms, k, tidy, dead>>

JoinCalls ==
  /\ owner = "tested"
  /\ owner' = "join"
  /\ target' \in {target, tid}
  /\ UNCHANGED <<tid, threadStatus, childVars, ms, k, joined, tidy, dead>>

\* pthread_join(target) returns when the target has ended.
WaitFor(after) ==
  /\ IF Alive(target)
       THEN /\ place[target] = "ended"
            /\ place' = [place EXCEPT ![target] = "joined"]
            /\ owner' = after /\ UNCHANGED dead
       ELSE GivenDead(target, after) /\ UNCHANGED place
  /\ target' = 0
  /\ UNCHANGED <<tid, threadStatus, cancelled, starts, ms, k, tidy>>

JoinReturns ==
  /\ owner = "join"
  /\ WaitFor("idle")
  /\ joined' = (joined \/ owner' = "idle")

\* Join(ms), ms > 0: poll threadStatus, at most ms + 1 times.
TimedJoin(m) ==
  /\ owner = "idle" /\ tid # 0
  /\ owner' = "polling" /\ ms' = m
  /\ UNCHANGED <<tid, threadStatus, childVars, target, k, joined, tidy, dead>>

Sleeps ==
  /\ owner = "polling" /\ threadStatus # "EXIT" /\ k <= ms
  /\ k' = k + 1
  /\ UNCHANGED <<tid, threadStatus, childVars, owner, target, ms, joined, tidy, dead>>

TimedJoinReturns_OnExit ==  \* mutant: the loop has no other way out
  /\ owner = "polling" /\ threadStatus = "EXIT"
  /\ owner' = "idle" /\ ms' = 0 /\ k' = 0
  /\ UNCHANGED <<tid, threadStatus, childVars, target, joined, tidy, dead>>

TimedJoinReturns ==
  /\ owner = "polling" /\ (threadStatus = "EXIT" \/ k > ms)
  /\ owner' = "idle" /\ ms' = 0 /\ k' = 0
  /\ UNCHANGED <<tid, threadStatus, childVars, target, joined, tidy, dead>>

\* ~Thread(): if(tid > 0) { pthread_cancel(tid); pthread_join(tid); }.  The
\* cancel is given what the test has read or what tid holds by now, the join
\* what it holds after the cancel.
Destroy ==
  /\ owner = "idle"
  /\ IF tid > 0 THEN owner' = "condemned" /\ target' = tid
                ELSE owner' = "gone" /\ UNCHANGED target
  /\ UNCHANGED <<tid, threadStatus, childVars, ms, k, joined, tidy, dead>>

DestroyCancels ==
  /\ owner = "condemned"
  /\ \E i \in {target, tid} : Cancels(i, "cancelled")
  /\ UNCHANGED <<tid, threadStatus, place, starts, target, ms, k, joined, tidy>>

DestroyReadsAgain ==
  /\ owner = "cancelled"
  /\ owner' = "lastJoin" /\ target' = tid
  /\ UNCHANGED <<tid, threadStatus, childVars, ms, k, joined, tidy, dead>>

DestroyJoins_Skips ==  \* mutant: no pthread_join after the pthread_cancel
  /\ owner = "lastJoin" /\ owner' = "gone" /\ target' = 0
  /\ UNCHANGED <<tid, threadStatus, childVars, ms, k, joined, tidy, dead>>

DestroyJoins ==
  /\ owner = "lastJoin"
  /\ WaitFor("gone")
  /\ UNCHANGED joined

OwnerStep ==
  \/ Start \/ Cancle \/ Join \/ JoinCalls \/ JoinReturns
  \/ (\E m \in Timeouts : TimedJoin(m)) \/ Sleeps \/ TimedJoinReturns
  \/ Destroy \/ DestroyCancels \/ DestroyReadsAgain \/ DestroyJoins

ThreadNext == OwnerStep \/ \E i \in Started : ChildStep(i)

ThreadSpec == ThreadInit /\ [][ThreadNext]_threadVars

\* Started threads run, run() returns, and calls that can return do.
ThreadFairSpec ==
  /\ ThreadSpec
  /\ WF_threadVars(JoinCalls \/ JoinReturns) /\ WF_threadVars(Sleeps \/ TimedJoinReturns)
  /\ WF_threadVars(DestroyCancels \/ DestroyReadsAgain \/ DestroyJoins)
  /\ \A i \in 1 .. MaxStarts : WF_threadVars(i \in Started /\ ChildStep(i))

-----------------------------------------------------------------------------
\* Every variable has its type.
ThreadTypeOK ==
  /\ tid \in 0 .. starts /\ threadStatus \in {"NEW", "RUNNING", "EXIT"}
  /\ starts \in Nat
  /\ place \in [Started -> Places] /\ cancelled \subseteq Started
  /\ owner \in {"idle", "tested", "join", "polling", "condemned", "cancelled",
               "lastJoin", "gone", "crashed"}
  /\ target \in 0 .. starts
  /\ ms \in Nat /\ k \in Nat
  /\ joined \in BOOLEAN /\ tidy \in BOOLEAN
  /\ dead \subseteq 0 .. starts

\* if(tid > 0): an owner that joins before it starts again never gives a pthread
\* call the id of a thread that has been joined, although threads clear tid while
\* Join() and the destructor look at it two and three times.  What they can be
\* left with is 0, if the thread clears tid between two of those looks.
OnlyLiveIds == tidy => dead \subseteq {0}

\* When Join() has returned, run() has: also when it found tid already cleared,
\* when pthread_join was given the 0 stored meanwhile and came back at once, and
\* when the object has been started before.
JoinMeansFinished == tidy /\ joined => \A i \in Started : ~InRun(i)

\* When the destructor has returned, no thread writes the fields of the object
\* any more, also if it was in run() when the destructor began, or had cleared
\* tid before the destructor tested it or read it again.
NoWriteAfterDestroy ==
  [][tidy /\ owner = "gone" => UNCHANGED <<tid, threadStatus>>]_threadVars

\* "Wait for the thread to exit or for the timeout": when Join(ms) returns
\* before its loop ran out, the thread last started has finished run().
TimedJoinMeansFinished ==
  [][tidy /\ owner = "polling" /\ owner' = "idle" /\ k <= ms => ~InRun(starts)]_threadVars

\* Every call that waits returns, whatever the owner has done before, also when
\* the thread ends or clears tid while it is being waited for; only an id that is
\* not alive can bring it down.
CallsReturn ==
  owner \in {"tested", "join", "polling", "condemned", "cancelled", "lastJoin"}
    ~> owner \in {"idle", "gone"} \/ (owner = "crashed" /\ dead # {})

\* threadStatus speaks of the thread last started once that one has begun: an
\* earlier run never overwrites it, when the owner joined that run.
StatusIsLast ==
  tidy /\ starts > 0 /\ place[starts] \in {"marked", "running", "ran"}
    => threadStatus = "RUNNING"
=============================================================================
