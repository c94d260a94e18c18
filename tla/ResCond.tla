------------------------------- MODULE ResCond -------------------------------
(***************************************************************************)
(* The condition ResCond (base/thread/t_resalloc.cpp) used by threads that *)
(* hold its ResMtx through guards: wait, timeWait, signal and broadCast,   *)
(* each one call of the POSIX condition behind it, and the wall clock that *)
(* pthread_cond_timedwait compares its absolute time with.                 *)
(*                                                                         *)
(* As in glibc, a wait unlocks the mutex once, so a thread that has locked *)
(* a recursive mutex more often keeps it while it sleeps; and a wait may   *)
(* end although nobody has signalled.                                      *)
(***************************************************************************)
EXTENDS MtxAlloc

CONSTANTS
  Msecs,      \* the arguments of timeWait
  MsPerSec,   \* milliseconds in a second (1000 in the code)
  NsPerMs,    \* nanoseconds in a millisecond (10^6)
  Boot,       \* the clock when the program starts, in milliseconds since 1970
  MaxNow,     \* bound on the clock
  NestedWait  \* may a thread wait that has locked the mutex more than once?

ASSUME CondAssumption ==
  /\ Msecs \subseteq Nat
  /\ MsPerSec \in Nat \ {0} /\ NsPerMs \in Nat \ {0}
  /\ Boot \in Nat /\ MaxNow \in Nat
  /\ NestedWait \in BOOLEAN

VARIABLES
  until,     \* the absolute time a thread in timeWait has passed
  now        \* the wall clock, in milliseconds

condVars == <<mtxVars, until, now>>

TimeSpec == [sec : Nat, nsec : Nat]
Never    == [sec |-> 0, nsec |-> 0]

CondInit ==
  /\ MtxInit
  /\ until = [t \in Threads |-> Never]
  /\ now = Boot

Asleep == {t \in Threads : pc[t] \in {"wait", "timeWait"}}

-----------------------------------------------------------------------------
\* The argument of pthread_cond_timedwait as timeWait fills it in: a length of
\* time, where a time since 1970 is asked for, and nanoseconds of which a
\* millisecond has 1000.
timespecOf(msec) ==
  [sec |-> msec \div MsPerSec, nsec |-> (msec % MsPerSec) * 1000]

Reached(ts) ==
  \/ now \div MsPerSec > ts.sec
  \/ now \div MsPerSec = ts.sec /\ (now % MsPerSec) * NsPerMs >= ts.nsec

\* pthread_cond_wait gives the mutex back and sleeps, in one step.
FallsAsleep_Keeps(t, place) ==  \* mutant: the mutex is not given back
  /\ holder = t /\ pc[t] = "run"
  /\ depth > 1 => NestedWait
  /\ UNCHANGED mutexVars /\ Goto(t, place)

FallsAsleep(t, place) ==
  /\ holder = t /\ pc[t] = "run"
  /\ depth > 1 => NestedWait
  /\ Give /\ Goto(t, place)

wait(t) ==
  /\ FallsAsleep(t, "wait")
  /\ UNCHANGED <<isRecurs, mLock, call, until, now>>

timeWait(t, msec) ==
  /\ FallsAsleep(t, "timeWait")
  /\ until' = [until EXCEPT ![t] = timespecOf(msec)]
  /\ UNCHANGED <<isRecurs, mLock, call, now>>

\* One sleeper stops sleeping: signalled, timed out or for no reason.
Wake(t) ==
  /\ t \in Asleep
  /\ Goto(t, "relock")
  /\ until' = [until EXCEPT ![t] = Never]
  /\ UNCHANGED <<isRecurs, mutexVars, mLock, call, now>>

TimesOut(t) ==
  /\ pc[t] = "timeWait" /\ Reached(until[t])
  /\ Wake(t)

\* signal is a call of a running thread; without a sleeper it changes nothing.
Signals(t, s) == pc[t] = "run" /\ Wake(s)

broadCast(t) ==
  /\ pc[t] = "run" /\ Asleep # {}
  /\ pc' = [s \in Threads |-> IF s \in Asleep THEN "relock" ELSE pc[s]]
  /\ until' = [s \in Threads |-> Never]
  /\ UNCHANGED <<isRecurs, mutexVars, mLock, call, now>>

\* The wait returns when it has the mutex again.
WaitReturns_NoMutex(t) ==  \* mutant: not locked again
  /\ pc[t] = "relock"
  /\ Goto(t, "run")
  /\ UNCHANGED <<isRecurs, mutexVars, mLock, call, until, now>>

WaitReturns(t) ==
  /\ pc[t] = "relock" /\ Free(t)
  /\ Take(t) /\ Goto(t, "run")
  /\ UNCHANGED <<isRecurs, mLock, call, until, now>>

Tick ==
  /\ now < MaxNow
  /\ now' = now + 1
  /\ UNCHANGED <<mtxVars, until>>

GuardStep ==
  /\ \/ \E g \in Guards : GuardCall(g)
     \/ \E t \in Threads : LockReturns(t)
  /\ UNCHANGED <<until, now>>

CondStep(t) ==
  \/ wait(t)
  \/ \E msec \in Msecs : timeWait(t, msec)
  \/ \E s \in Threads : Signals(t, s)
  \/ broadCast(t)
  \/ TimesOut(t) \/ Wake(t) \/ WaitReturns(t)

CondNext == GuardStep \/ (\E t \in Threads : CondStep(t)) \/ Tick

CondSpec == CondInit /\ [][CondNext]_condVars

(***************************************************************************)
(* The mutex is handed on to whoever keeps asking for it, and a thread     *)
(* that has locked it gives it back: it unlocks its guards, and does not   *)
(* for ever lock another one before the last.  Nobody need ever signal,    *)
(* and no wait need ever end by itself.                                    *)
(***************************************************************************)
LastUnlock(g) == unlock(g) /\ depth = 1 /\ UNCHANGED <<until, now>>

CondFairSpec ==
  /\ CondSpec
  /\ \A t \in Threads :
       /\ SF_condVars(LockReturns(t) /\ UNCHANGED <<until, now>>)
       /\ SF_condVars(WaitReturns(t))
  /\ \A g \in Guards :
       /\ WF_condVars(unlock(g) /\ UNCHANGED <<until, now>>)
       /\ SF_condVars(LastUnlock(g))

-----------------------------------------------------------------------------
\* Every variable has its type.
CondTypeOK ==
  /\ isRecurs \in BOOLEAN
  /\ holder \in Threads \cup {NoThread} /\ depth \in Nat
  /\ mLock \in [Guards -> BOOLEAN]
  /\ pc \in [Threads -> {"run", "lock", "wait", "timeWait", "relock"}]
  /\ call \in [Threads -> Guards]
  /\ until \in [Threads -> TimeSpec]
  /\ now \in Nat

\* A guard believes it has locked the mutex exactly when it has: between the
\* calls a thread has locked the mutex once for each of its locked guards, and
\* while it waits for the condition once less, which the guard does not notice.
Away == {t \in Threads : pc[t] \in {"wait", "timeWait", "relock"}}

Locked(t) == (IF holder = t THEN depth ELSE 0) + (IF t \in Away THEN 1 ELSE 0)

GuardsMatchMutex == \A t \in Threads : Cardinality(GuardsOf(t)) = Locked(t)

(***************************************************************************)
(* Guards, mutex and condition implement a monitor: at most one thread at  *)
(* a time is between its first lock and its last unlock and not waiting.   *)
(***************************************************************************)
Room == INSTANCE Monitor WITH
  inside <- {t \in Threads \ Away : GuardsOf(t) # {}},
  asleep <- Away

\* What a user of the guards and the condition relies on, stated in Monitor.
ImplementsMonitor == Room!Spec

\* A thread that asks for the mutex, or whose wait for the condition is over,
\* gets it: no guard keeps it that has been unlocked or whose thread sleeps.
MutexIsGot ==
  \A t \in Threads : pc[t] \in {"lock", "relock"} ~> pc[t] = "run"
=============================================================================
