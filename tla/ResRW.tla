-------------------------------- MODULE ResRW --------------------------------
(***************************************************************************)
(* The read/write lock ResRW (base/thread/t_resalloc.cpp): a POSIX rwlock  *)
(* and the field wThr, which names the thread that holds it for writing so *)
(* that a second request of that thread can be refused instead of waiting  *)
(* for itself.                                                             *)
(*                                                                         *)
(* wThr is an ordinary field read and written by all threads, partly       *)
(* without the lock; each access is a step of its own.  It fits in a       *)
(* machine word, so that an access sees some value written before.         *)
(*                                                                         *)
(* The rwlock is that of glibc by default: readers pass waiting writers,   *)
(* one thread may read-lock it several times.  It may, but by POSIX need   *)
(* not, refuse a thread that holds it for writing.                         *)
(***************************************************************************)
EXTENDS Integers

CONSTANTS
  Threads,
  NoThread,       \* the 0 of wThr
  MaxReads,       \* bound on the read locks of one thread
  RwlockDetects,  \* does the rwlock return EDEADLK to its own writer?
  Upgrades,       \* may a thread that reads request to write?
  TriesToWrite    \* do threads call resTryW?

ASSUME RWAssumption ==
  /\ NoThread \notin Threads
  /\ MaxReads \in Nat
  /\ RwlockDetects \in BOOLEAN /\ Upgrades \in BOOLEAN /\ TriesToWrite \in BOOLEAN

VARIABLES
  writer, readers,  \* the rwlock: who writes, how often each thread reads
  wThr,             \* ResRW::wThr
  pc,               \* where each thread is, "run" outside the calls
  want,             \* what each thread requests: [write, timed]
  rez               \* how the last call of each thread ended

rwVars == <<writer, readers, wThr, pc, want, rez>>

Requests == [write : BOOLEAN, timed : BOOLEAN]

NoRequest == [write |-> FALSE, timed |-> FALSE]

RWInit ==
  /\ writer = NoThread
  /\ readers = [t \in Threads |-> 0]
  /\ wThr = NoThread
  /\ pc = [t \in Threads |-> "run"]
  /\ want = [t \in Threads |-> NoRequest]
  /\ rez = [t \in Threads |-> "OK"]

Goto(t, place)   == pc' = [pc EXCEPT ![t] = place]
Return(t, value) ==
  /\ Goto(t, "run")
  /\ rez' = [rez EXCEPT ![t] = value]
  /\ want' = [want EXCEPT ![t] = NoRequest]

CanRead  == writer = NoThread
CanWrite == writer = NoThread /\ \A t \in Threads : readers[t] = 0
Free(t)  == IF want[t].write THEN CanWrite ELSE CanRead
Holds(t) == writer = t \/ readers[t] > 0

-----------------------------------------------------------------------------
\* resRequestW and resRequestR: a call begins.
resRequest(t, write, timed) ==
  /\ pc[t] = "run"
  /\ write /\ readers[t] > 0 => Upgrades
  /\ ~write => readers[t] < MaxReads
  /\ want' = [want EXCEPT ![t] = [write |-> write, timed |-> timed]]
  /\ Goto(t, "check")
  /\ UNCHANGED <<writer, readers, wThr, rez>>

\* if(wThr && wThr == pthread_self()) rez = EDEADLK
CheckOwner_Anyone(t) ==  \* mutant: not compared with pthread_self()
  /\ pc[t] = "check"
  /\ IF wThr # NoThread THEN Return(t, "EDEADLK")
                        ELSE Goto(t, "wait") /\ UNCHANGED <<rez, want>>
  /\ UNCHANGED <<writer, readers, wThr>>

CheckOwner(t) ==
  /\ pc[t] = "check"
  /\ IF wThr = t THEN Return(t, "EDEADLK")
                 ELSE Goto(t, "wait") /\ UNCHANGED <<rez, want>>
  /\ UNCHANGED <<writer, readers, wThr>>

\* pthread_rwlock_wrlock, pthread_rwlock_rdlock and their timed forms.
LockForReading(t) ==
  /\ pc[t] = "wait" /\ ~want[t].write /\ CanRead
  /\ readers' = [readers EXCEPT ![t] = @ + 1]
  /\ Return(t, "OK")
  /\ UNCHANGED <<writer, wThr>>

LockForWriting(t) ==
  /\ pc[t] = "wait" /\ want[t].write /\ CanWrite
  /\ writer' = t
  /\ Goto(t, "mark")
  /\ UNCHANGED <<readers, wThr, want, rez>>

RwlockRefuses(t) ==
  /\ pc[t] = "wait" /\ RwlockDetects /\ writer = t
  /\ Return(t, "EDEADLK")
  /\ UNCHANGED <<writer, readers, wThr>>

TimesOut(t) ==
  /\ pc[t] = "wait" /\ want[t].timed /\ ~Free(t)
  /\ Return(t, "ETIMEDOUT")
  /\ UNCHANGED <<writer, readers, wThr>>

\* wThr = pthread_self()
MarkWriter(t) ==
  /\ pc[t] = "mark"
  /\ wThr' = t
  /\ Return(t, "OK")
  /\ UNCHANGED <<writer, readers>>

\* resTryW leaves wThr alone.
resTryW(t) ==
  /\ pc[t] = "run" /\ TriesToWrite
  /\ IF CanWrite THEN writer' = t /\ Return(t, "OK")
                 ELSE UNCHANGED writer /\ Return(t, "EBUSY")
  /\ UNCHANGED <<readers, wThr>>

resTryR(t) ==
  /\ pc[t] = "run" /\ readers[t] < MaxReads
  /\ IF CanRead THEN readers' = [readers EXCEPT ![t] = @ + 1] /\ Return(t, "OK")
                ELSE UNCHANGED readers /\ Return(t, "EBUSY")
  /\ UNCHANGED <<writer, wThr>>

\* resRelease: the lock is given back first ...
resRelease(t) ==
  /\ pc[t] = "run" /\ Holds(t)
  /\ IF writer = t
       THEN writer' = NoThread /\ UNCHANGED readers
       ELSE readers' = [readers EXCEPT ![t] = @ - 1] /\ UNCHANGED writer
  /\ Goto(t, "unmark")
  /\ UNCHANGED <<wThr, want, rez>>

\* ... then wThr is compared with the caller, and cleared a step later.
CompareMark(t) ==
  /\ pc[t] = "unmark"
  /\ IF wThr = t THEN Goto(t, "clear") /\ UNCHANGED <<rez, want>>
                 ELSE Return(t, "OK")
  /\ UNCHANGED <<writer, readers, wThr>>

ClearMark(t) ==
  /\ pc[t] = "clear"
  /\ wThr' = NoThread
  /\ Return(t, "OK")
  /\ UNCHANGED <<writer, readers>>

\* The steps inside a call that has begun.
InsideCall(t) ==
  \/ CheckOwner(t)
  \/ LockForReading(t) \/ LockForWriting(t) \/ RwlockRefuses(t) \/ TimesOut(t)
  \/ MarkWriter(t) \/ CompareMark(t) \/ ClearMark(t)

\* A thread calls the lock itself, not through a guard.
DirectCall(t) ==
  \/ \E write, timed \in BOOLEAN : resRequest(t, write, timed)
  \/ resTryW(t) \/ resTryR(t) \/ resRelease(t)

RWNext == \E t \in Threads : DirectCall(t) \/ InsideCall(t)

RWSpec == RWInit /\ [][RWNext]_rwVars

-----------------------------------------------------------------------------
\* Every variable has its type.
RWTypeOK ==
  /\ writer \in Threads \cup {NoThread}
  /\ readers \in [Threads -> Nat]
  /\ wThr \in Threads \cup {NoThread}
  /\ pc \in [Threads -> {"run", "check", "wait", "mark", "unmark", "clear"}]
  /\ want \in [Threads -> Requests]
  /\ rez \in [Threads -> {"OK", "EBUSY", "EDEADLK", "ETIMEDOUT"}]

\* wThr never names a thread that has finished giving the lock back, whatever
\* order the unlocked accesses of the others come in: no request is refused
\* with EDEADLK to a thread that does not hold the lock for writing.
MarkOnlyWriter ==
  \A t \in Threads : wThr = t => writer = t \/ pc[t] \in {"unmark", "clear"}

\* A request is refused with EDEADLK only to the thread that holds the lock
\* for writing at that moment.
RefusedOnlyToWriter ==
  [][\A t \in Threads : pc[t] \in {"check", "wait"} /\ pc'[t] = "run"
                          /\ rez'[t] = "EDEADLK" => writer = t]_rwVars
=============================================================================
