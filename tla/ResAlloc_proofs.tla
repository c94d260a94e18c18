--------------------------- MODULE ResAlloc_proofs --------------------------
(***************************************************************************)
(* Guards use the lock only through its calls: a run of ResAlloc is a run  *)
(* of ResRW, so what is proved of the lock holds under guards.  And what a *)
(* guard says of itself is consistent in every state.                      *)
(***************************************************************************)
EXTENDS ResAlloc, FiniteSetTheorems, TLAPS

-----------------------------------------------------------------------------
(***************************************************************************)
(* The lock alone: what the owner mark is worth, for any number of threads *)
(* and any order of their unlocked accesses to it.                         *)
(*                                                                         *)
(* MarkOnlyWriter is not inductive: a thread about to set the mark must    *)
(* have the lock for writing, which MarkerWrites adds.                     *)
(***************************************************************************)
MarkerWrites == \A t \in Threads : pc[t] = "mark" => writer = t

MarkInv == RWTypeOK /\ MarkerWrites /\ MarkOnlyWriter

\* It holds before the first call.
LEMMA RWInitMarkInv == RWInit => MarkInv
BY RWAssumption
DEF RWInit, MarkInv, RWTypeOK, MarkerWrites, MarkOnlyWriter, Requests, NoRequest

\* What a step of thread t may do to the places of the threads.
LEMMA GotoPlaces ==
  ASSUME RWTypeOK, NEW t \in Threads, NEW place, Goto(t, place)
  PROVE  /\ pc'[t] = place
         /\ \A s \in Threads : s # t => pc'[s] = pc[s]
BY DEF RWTypeOK, Goto

\* A call that returns keeps the types.
LEMMA ReturnTypes ==
  ASSUME RWTypeOK, NEW t \in Threads,
         NEW value \in {"OK", "EBUSY", "EDEADLK", "ETIMEDOUT"}, Return(t, value)
  PROVE  /\ pc' \in [Threads -> {"run", "check", "wait", "mark", "unmark", "clear"}]
         /\ want' \in [Threads -> Requests]
         /\ rez' \in [Threads -> {"OK", "EBUSY", "EDEADLK", "ETIMEDOUT"}]
BY DEF RWTypeOK, Return, Goto, Requests, NoRequest

\* The calls that begin or, for the two tries, are made in one step.
LEMMA DirectCallKeepsMarkInv ==
  ASSUME RWAssumption, MarkInv, NEW t \in Threads, DirectCall(t)
  PROVE  MarkInv'
<1> USE DEF MarkInv, RWTypeOK
<1>1. ASSUME NEW write \in BOOLEAN, NEW timed \in BOOLEAN, resRequest(t, write, timed)
      PROVE  MarkInv'
  <2>1. RWTypeOK'
    BY <1>1 DEF resRequest, Goto, Requests
  <2>2. MarkerWrites' /\ MarkOnlyWriter'
    BY <1>1, GotoPlaces DEF resRequest, MarkerWrites, MarkOnlyWriter
  <2> QED BY <2>1, <2>2
<1>2. CASE resTryW(t)
  <2>1. RWTypeOK'
    <3>1. CASE CanWrite
      BY <1>2, <3>1, ReturnTypes DEF resTryW
    <3>2. CASE ~CanWrite
      BY <1>2, <3>2, ReturnTypes DEF resTryW
    <3> QED BY <3>1, <3>2
  <2>2. MarkerWrites' /\ MarkOnlyWriter'
    BY <1>2, GotoPlaces, RWAssumption
    DEF resTryW, Return, CanWrite, MarkerWrites, MarkOnlyWriter
  <2> QED BY <2>1, <2>2
<1>3. CASE resTryR(t)
  <2>1. RWTypeOK'
    <3>1. CASE CanRead
      BY <1>3, <3>1, ReturnTypes DEF resTryR
    <3>2. CASE ~CanRead
      BY <1>3, <3>2, ReturnTypes DEF resTryR
    <3> QED BY <3>1, <3>2
  <2>2. MarkerWrites' /\ MarkOnlyWriter'
    BY <1>3, GotoPlaces DEF resTryR, Return, MarkerWrites, MarkOnlyWriter
  <2> QED BY <2>1, <2>2
<1>4. CASE resRelease(t)
  <2>1. RWTypeOK'
    BY <1>4 DEF resRelease, Holds, Goto
  <2>2. MarkerWrites' /\ MarkOnlyWriter'
    BY <1>4, GotoPlaces DEF resRelease, MarkerWrites, MarkOnlyWriter
  <2> QED BY <2>1, <2>2
<1> QED BY <1>1, <1>2, <1>3, <1>4 DEF DirectCall

\* The steps inside a call.
LEMMA InsideCallKeepsMarkInv ==
  ASSUME RWAssumption, MarkInv, NEW t \in Threads, InsideCall(t)
  PROVE  MarkInv'
<1> USE DEF MarkInv, RWTypeOK
<1>1. CASE CheckOwner(t)
  <2>1. RWTypeOK'
    <3>1. CASE wThr = t
      BY <1>1, <3>1, ReturnTypes DEF CheckOwner
    <3>2. CASE wThr # t
      BY <1>1, <3>2 DEF CheckOwner, Goto
    <3> QED BY <3>1, <3>2
  <2>2. MarkerWrites' /\ MarkOnlyWriter'
    BY <1>1, GotoPlaces DEF CheckOwner, Return, MarkerWrites, MarkOnlyWriter
  <2> QED BY <2>1, <2>2
<1>2. CASE LockForReading(t)
  <2>1. RWTypeOK'
    BY <1>2, ReturnTypes DEF LockForReading
  <2>2. MarkerWrites' /\ MarkOnlyWriter'
    BY <1>2, GotoPlaces DEF LockForReading, Return, MarkerWrites, MarkOnlyWriter
  <2> QED BY <2>1, <2>2
<1>3. CASE LockForWriting(t)
  <2>1. RWTypeOK'
    BY <1>3 DEF LockForWriting, Goto
  <2>2. MarkerWrites' /\ MarkOnlyWriter'
    BY <1>3, GotoPlaces, RWAssumption
    DEF LockForWriting, CanWrite, MarkerWrites, MarkOnlyWriter
  <2> QED BY <2>1, <2>2
<1>4. CASE RwlockRefuses(t)
  <2>1. RWTypeOK'
    BY <1>4, ReturnTypes DEF RwlockRefuses
  <2>2. MarkerWrites' /\ MarkOnlyWriter'
    BY <1>4, GotoPlaces DEF RwlockRefuses, Return, MarkerWrites, MarkOnlyWriter
  <2> QED BY <2>1, <2>2
<1>5. CASE TimesOut(t)
  <2>1. RWTypeOK'
    BY <1>5, ReturnTypes DEF TimesOut
  <2>2. MarkerWrites' /\ MarkOnlyWriter'
    BY <1>5, GotoPlaces DEF TimesOut, Return, MarkerWrites, MarkOnlyWriter
  <2> QED BY <2>1, <2>2
<1>6. CASE MarkWriter(t)
  <2>1. RWTypeOK'
    BY <1>6, ReturnTypes DEF MarkWriter
  <2>2. MarkerWrites' /\ MarkOnlyWriter'
    BY <1>6, GotoPlaces DEF MarkWriter, Return, MarkerWrites, MarkOnlyWriter
  <2> QED BY <2>1, <2>2
<1>7. CASE CompareMark(t)
  <2>1. RWTypeOK'
    <3>1. CASE wThr = t
      BY <1>7, <3>1 DEF CompareMark, Goto
    <3>2. CASE wThr # t
      BY <1>7, <3>2, ReturnTypes DEF CompareMark
    <3> QED BY <3>1, <3>2
  <2>2. MarkerWrites' /\ MarkOnlyWriter'
    BY <1>7, GotoPlaces DEF CompareMark, Return, MarkerWrites, MarkOnlyWriter
  <2> QED BY <2>1, <2>2
<1>8. CASE ClearMark(t)
  <2>1. RWTypeOK'
    BY <1>8, ReturnTypes DEF ClearMark
  <2>2. MarkerWrites' /\ MarkOnlyWriter'
    BY <1>8, GotoPlaces, RWAssumption
    DEF ClearMark, Return, MarkerWrites, MarkOnlyWriter
  <2> QED BY <2>1, <2>2
<1> QED BY <1>1, <1>2, <1>3, <1>4, <1>5, <1>6, <1>7, <1>8 DEF InsideCall

\* It says nothing of other variables.
LEMMA StutterKeepsMarkInv ==
  ASSUME MarkInv, UNCHANGED rwVars
  PROVE  MarkInv'
BY DEF MarkInv, RWTypeOK, MarkerWrites, MarkOnlyWriter, rwVars

\* The strengthened invariant holds of the lock under every order of steps.
THEOREM MarkInvAlways == RWSpec => []MarkInv
<1>1. RWInit => MarkInv
  BY RWInitMarkInv
<1>2. MarkInv /\ [RWNext]_rwVars => MarkInv'
  BY RWAssumption, DirectCallKeepsMarkInv, InsideCallKeepsMarkInv, StutterKeepsMarkInv
  DEF RWNext
<1> QED BY <1>1, <1>2, PTL DEF RWSpec

-----------------------------------------------------------------------------
\* Every variable of the lock has its type; the number of read locks of a
\* thread never becomes negative.
THEOREM RWTypeCorrect == RWSpec => []RWTypeOK
<1>1. MarkInv => RWTypeOK
  BY DEF MarkInv
<1> QED BY <1>1, MarkInvAlways, PTL

\* The mark never names a thread that has finished giving the lock back.
THEOREM MarkOnlyWriterAlways == RWSpec => []MarkOnlyWriter
<1>1. MarkInv => MarkOnlyWriter
  BY DEF MarkInv
<1> QED BY <1>1, MarkInvAlways, PTL

\* A request that a step ends with EDEADLK is the writer's.
LEMMA RefusalIsWriters ==
  ASSUME MarkInv, NEW t \in Threads, DirectCall(t) \/ InsideCall(t),
         NEW s \in Threads, pc[s] \in {"check", "wait"}, pc'[s] = "run",
         rez'[s] = "EDEADLK"
  PROVE  writer = s
<1> USE DEF MarkInv, RWTypeOK
<1>1. s = t
  <2>1. ASSUME NEW place, Goto(t, place) PROVE s = t
    BY <2>1, GotoPlaces
  <2> QED
    BY <2>1 DEF DirectCall, resRequest, resTryW, resTryR, resRelease, InsideCall,
      CheckOwner, LockForReading, LockForWriting, RwlockRefuses, TimesOut, MarkWriter,
      CompareMark, ClearMark, Return
<1>2. CASE CheckOwner(t)
  BY <1>1, <1>2, GotoPlaces DEF CheckOwner, MarkOnlyWriter
<1>3. CASE RwlockRefuses(t)
  BY <1>1, <1>3 DEF RwlockRefuses
<1>4. CASE LockForReading(t)
  BY <1>1, <1>4 DEF LockForReading, Return
<1>5. CASE LockForWriting(t)
  BY <1>1, <1>5, GotoPlaces DEF LockForWriting
<1>6. CASE TimesOut(t)
  BY <1>1, <1>6 DEF TimesOut, Return
<1>7. CASE DirectCall(t) \/ MarkWriter(t) \/ CompareMark(t) \/ ClearMark(t)
  BY <1>1, <1>7 DEF DirectCall, resRequest, resTryW, resTryR, resRelease,
    MarkWriter, CompareMark, ClearMark
<1> QED BY <1>2, <1>3, <1>4, <1>5, <1>6, <1>7 DEF InsideCall

\* A request is refused with EDEADLK only to the thread that holds the lock
\* for writing at that moment, although wThr is read without the lock.
THEOREM RefusedOnlyToWriterAlways == RWSpec => RefusedOnlyToWriter
<1>1. MarkInv /\ [RWNext]_rwVars =>
        [\A t \in Threads : pc[t] \in {"check", "wait"} /\ pc'[t] = "run"
                              /\ rez'[t] = "EDEADLK" => writer = t]_rwVars
  BY RefusalIsWriters DEF RWNext
<1> QED BY <1>1, MarkInvAlways, PTL DEF RWSpec, RefusedOnlyToWriter

-----------------------------------------------------------------------------
(***************************************************************************)
(* The guards.                                                             *)
(***************************************************************************)
Jobs == [guard : Guards, stage : Stages, write : BOOLEAN, timed : BOOLEAN]

\* Being in no call is a job.
LEMMA NoJobIsJob == NoJob \in Jobs
BY GuardAssumption DEF NoJob, Jobs, Stages

\* A step of the guards is a call of the lock by one thread, a step inside a
\* call, or none of the lock's business.
LEMMA AllocStepIsRWStep ==
  ASSUME AllocTypeOK, [AllocNext]_allocVars
  PROVE  [RWNext]_rwVars
<1> USE GuardAssumption
<1>1. ASSUME NEW g \in Guards, NEW write \in BOOLEAN, NEW timed \in BOOLEAN,
             request(g, write, timed)
      PROVE  RWNext
  BY <1>1 DEF request, RWNext, DirectCall
<1>2. ASSUME NEW g \in Guards, release(g)
      PROVE  RWNext
  BY <1>2 DEF release, RWNext, DirectCall
<1>3. ASSUME NEW t \in Threads, SwapHalfDone(t)
      PROVE  RWNext
  <2>1. job[t].write \in BOOLEAN /\ job[t].timed \in BOOLEAN
    BY DEF AllocTypeOK
  <2> QED BY <1>3, <2>1 DEF SwapHalfDone, RWNext, DirectCall
<1>4. ASSUME NEW t \in Threads, RequestReturns(t) \/ ReleaseReturns(t)
      PROVE  UNCHANGED rwVars
  BY <1>4 DEF RequestReturns, ReleaseReturns
<1>5. ASSUME NEW t \in Threads, RunLock(t)
      PROVE  RWNext
  BY <1>5 DEF RunLock, RWNext
<1>6. CASE UNCHANGED allocVars
  BY <1>6 DEF allocVars
<1> QED BY <1>1, <1>2, <1>3, <1>4, <1>5, <1>6 DEF AllocNext

\* A step moves one thread at most; the place of the others stays.
LEMMA OneThreadMoves ==
  ASSUME RWTypeOK, NEW t \in Threads, DirectCall(t) \/ InsideCall(t),
         NEW s \in Threads, s # t
  PROVE  pc'[s] = pc[s]
BY DEF RWTypeOK, DirectCall, resRequest, resTryW, resTryR, resRelease, InsideCall,
  CheckOwner, LockForReading, LockForWriting, RwlockRefuses, TimesOut, MarkWriter,
  CompareMark, ClearMark, Return, Goto

\* A thread inside a call of the lock is not outside it.
LEMMA InsideIsNotRun ==
  ASSUME NEW t \in Threads, InsideCall(t)
  PROVE  pc[t] # "run"
BY DEF InsideCall, CheckOwner, LockForReading, LockForWriting, RwlockRefuses,
  TimesOut, MarkWriter, CompareMark, ClearMark

GuardTypes ==
  /\ mAlloc \in [Guards -> BOOLEAN]
  /\ mode \in [Guards -> {"none", "read", "write"}]
  /\ job \in [Threads -> Jobs]
  /\ \A g \in Guards : mAlloc[g] <=> mode[g] # "none"

OutsideMeansRun == \A t \in Guarded : job[t].stage = "none" => pc[t] = "run"

\* The type invariant in the parts that are proved apart.
LEMMA AllocTypeParts == AllocTypeOK <=> RWTypeOK /\ GuardTypes /\ OutsideMeansRun
BY DEF AllocTypeOK, GuardTypes, OutsideMeansRun, Jobs

\* Guards belong to threads.
LEMMA GuardedAreThreads == Guarded \subseteq Threads
BY GuardAssumption DEF Guarded

\* What the guards say of themselves after a step.
LEMMA StepKeepsGuardTypes ==
  ASSUME GuardTypes, [AllocNext]_allocVars
  PROVE  GuardTypes'
<1> USE GuardAssumption, NoJobIsJob DEF GuardTypes
<1>1. ASSUME NEW g \in Guards, NEW write \in BOOLEAN, NEW timed \in BOOLEAN,
             request(g, write, timed)
      PROVE  GuardTypes'
  <2>1. job' \in [Threads -> Jobs]
    BY <1>1 DEF request, Jobs, Stages
  <2> QED BY <1>1, <2>1 DEF request
<1>2. ASSUME NEW g \in Guards, release(g)
      PROVE  GuardTypes'
  <2>1. job' \in [Threads -> Jobs]
    BY <1>2 DEF release, Jobs, Stages, NoJob
  <2> QED BY <1>2, <2>1 DEF release
<1>3. ASSUME NEW t \in Threads, SwapHalfDone(t)
      PROVE  GuardTypes'
  <2>1. job' \in [Threads -> Jobs]
    BY <1>3 DEF SwapHalfDone, Jobs, Stages
  <2> QED BY <1>3, <2>1 DEF SwapHalfDone, NothingHeld
<1>4. ASSUME NEW t \in Threads, RequestReturns(t)
      PROVE  GuardTypes'
  <2>1. job[t].guard \in Guards
    BY DEF Jobs
  <2>2. job' \in [Threads -> Jobs]
    BY <1>4 DEF RequestReturns, Leave
  <2>3. CASE rez[t] = "OK"
    BY <1>4, <2>1, <2>2, <2>3 DEF RequestReturns
  <2>4. CASE rez[t] # "OK"
    BY <1>4, <2>2, <2>4 DEF RequestReturns
  <2> QED BY <2>3, <2>4
<1>5. ASSUME NEW t \in Threads, ReleaseReturns(t)
      PROVE  GuardTypes'
  <2>1. job' \in [Threads -> Jobs]
    BY <1>5 DEF ReleaseReturns, Leave
  <2> QED BY <1>5, <2>1 DEF ReleaseReturns, NothingHeld
<1>6. ASSUME NEW t \in Threads, RunLock(t)
      PROVE  GuardTypes'
  BY <1>6 DEF RunLock
<1>7. CASE UNCHANGED allocVars
  BY <1>7 DEF allocVars
<1> QED BY <1>1, <1>2, <1>3, <1>4, <1>5, <1>6, <1>7 DEF AllocNext

\* A thread that is in no call of a guard is in no call of the lock.
LEMMA StepKeepsOutside ==
  ASSUME RWTypeOK, GuardTypes, OutsideMeansRun, [AllocNext]_allocVars
  PROVE  OutsideMeansRun'
<1> USE GuardAssumption, GuardedAreThreads DEF OutsideMeansRun
<1>1. ASSUME NEW g \in Guards, NEW write \in BOOLEAN, NEW timed \in BOOLEAN,
             request(g, write, timed)
      PROVE  OutsideMeansRun'
  <2> DEFINE t == Owner[g]
  <2>1. DirectCall(t)
    BY <1>1 DEF request, DirectCall
  <2>2. \A s \in Threads : s # t => pc'[s] = pc[s] /\ job'[s] = job[s]
    BY <1>1, <2>1, OneThreadMoves DEF request, GuardTypes
  <2>3. job'[t].stage # "none"
    BY <1>1 DEF request, GuardTypes
  <2> QED BY <2>2, <2>3
<1>2. ASSUME NEW g \in Guards, release(g)
      PROVE  OutsideMeansRun'
  <2> DEFINE t == Owner[g]
  <2>1. DirectCall(t)
    BY <1>2 DEF release, DirectCall
  <2>2. \A s \in Threads : s # t => pc'[s] = pc[s] /\ job'[s] = job[s]
    BY <1>2, <2>1, OneThreadMoves DEF release, GuardTypes
  <2>3. job'[t].stage # "none"
    BY <1>2 DEF release, GuardTypes, NoJob
  <2> QED BY <2>2, <2>3
<1>3. ASSUME NEW t \in Threads, SwapHalfDone(t)
      PROVE  OutsideMeansRun'
  <2>1. job[t].write \in BOOLEAN /\ job[t].timed \in BOOLEAN
    BY DEF GuardTypes, Jobs
  <2>2. DirectCall(t)
    BY <1>3, <2>1 DEF SwapHalfDone, DirectCall
  <2>3. \A s \in Threads : s # t => pc'[s] = pc[s] /\ job'[s] = job[s]
    BY <1>3, <2>2, OneThreadMoves DEF SwapHalfDone, GuardTypes
  <2>4. job'[t].stage # "none"
    BY <1>3 DEF SwapHalfDone, GuardTypes, Jobs
  <2> QED BY <2>3, <2>4
<1>4. ASSUME NEW t \in Threads, RequestReturns(t) \/ ReleaseReturns(t)
      PROVE  OutsideMeansRun'
  <2>1. pc' = pc /\ pc[t] = "run"
    BY <1>4 DEF RequestReturns, ReleaseReturns, Returned, rwVars
  <2>2. \A s \in Threads : s # t => job'[s] = job[s]
    BY <1>4 DEF RequestReturns, ReleaseReturns, Leave, GuardTypes
  <2> QED BY <2>1, <2>2
<1>5. ASSUME NEW t \in Threads, RunLock(t)
      PROVE  OutsideMeansRun'
  <2>1. job' = job
    BY <1>5 DEF RunLock
  <2>2. \A s \in Threads : s # t => pc'[s] = pc[s]
    BY <1>5, OneThreadMoves DEF RunLock
  <2>3. t \in Guarded => job[t].stage # "none"
    BY <1>5, InsideIsNotRun DEF RunLock
  <2> QED BY <2>1, <2>2, <2>3
<1>6. CASE UNCHANGED allocVars
  BY <1>6 DEF allocVars, rwVars
<1> QED BY <1>1, <1>2, <1>3, <1>4, <1>5, <1>6 DEF AllocNext

AllocInv == MarkInv /\ AllocTypeOK

\* Lock and guards start well.
LEMMA AllocInitInv == AllocInit => AllocInv
<1> SUFFICES ASSUME AllocInit PROVE AllocInv
  OBVIOUS
<1>1. MarkInv
  BY RWInitMarkInv DEF AllocInit
<1>2. GuardTypes
  BY NoJobIsJob DEF AllocInit, GuardTypes
<1>3. OutsideMeansRun
  BY GuardedAreThreads DEF AllocInit, RWInit, OutsideMeansRun
<1> QED BY <1>1, <1>2, <1>3, AllocTypeParts DEF AllocInv, MarkInv

\* The lock's invariant and the types hold under every order of calls of the
\* guards.
THEOREM AllocInvAlways == AllocSpec => []AllocInv
<1>1. AllocInit => AllocInv
  BY AllocInitInv
<1>2. AllocInv /\ [AllocNext]_allocVars => AllocInv'
  <2> SUFFICES ASSUME AllocInv, [AllocNext]_allocVars PROVE AllocInv'
    OBVIOUS
  <2>1. [RWNext]_rwVars
    BY AllocStepIsRWStep DEF AllocInv
  <2>2. MarkInv'
    BY <2>1, RWAssumption, DirectCallKeepsMarkInv, InsideCallKeepsMarkInv,
       StutterKeepsMarkInv
    DEF AllocInv, RWNext
  <2>3. GuardTypes' /\ OutsideMeansRun'
    BY AllocTypeParts, StepKeepsGuardTypes, StepKeepsOutside DEF AllocInv
  <2>4. RWTypeOK'
    BY <2>2 DEF MarkInv
  <2>5. AllocTypeOK'
    BY <2>3, <2>4 DEF AllocTypeOK, GuardTypes, OutsideMeansRun, Jobs
  <2> QED BY <2>2, <2>5 DEF AllocInv
<1> QED BY <1>1, <1>2, PTL DEF AllocSpec

-----------------------------------------------------------------------------
\* Every variable of lock and guards has its type; a guard that holds nothing
\* says so; a thread is in a call of the lock only on behalf of a guard.
THEOREM AllocTypeCorrect == AllocSpec => []AllocTypeOK
<1>1. AllocInv => AllocTypeOK
  BY DEF AllocInv
<1> QED BY <1>1, AllocInvAlways, PTL

\* Every run of guards over a lock is a run of the lock.
THEOREM AllocImplementsRW == AllocSpec => RWSpec
<1>1. AllocInit => RWInit
  BY DEF AllocInit
<1>2. AllocInv /\ [AllocNext]_allocVars => [RWNext]_rwVars
  BY AllocStepIsRWStep DEF AllocInv
<1> QED BY <1>1, <1>2, AllocInvAlways, PTL DEF AllocSpec, RWSpec

\* So a request of a guard, too, is refused only to the writer.
THEOREM GuardsRefusedOnlyToWriter == AllocSpec => RefusedOnlyToWriter
BY AllocImplementsRW, RefusedOnlyToWriterAlways, PTL

-----------------------------------------------------------------------------
(***************************************************************************)
(* Guards and lock agree.  Between calls a thread's guards account for its *)
(* locks; inside a call they are off by the lock that has been given back  *)
(* or obtained already.  Balance says by how much at each place.           *)
(***************************************************************************)
Held(t)   == readers[t] + (IF writer = t THEN 1 ELSE 0)
Claims(t) == Cardinality(GuardsOf(t))

Balance(t) ==
  LET g == job[t].guard
  IN \/ job[t].stage = "none" /\ Held(t) = Claims(t)
     \/ /\ job[t].stage \in {"swap", "release"} /\ Owner[g] = t /\ mAlloc[g]
        /\ pc[t] \in {"unmark", "clear", "run"} /\ Held(t) = Claims(t) - 1
     \/ /\ job[t].stage = "request" /\ Owner[g] = t /\ ~mAlloc[g]
        /\ \/ pc[t] \in {"check", "wait"} /\ Held(t) = Claims(t)
           \/ pc[t] = "mark" /\ Held(t) = Claims(t) + 1
           \/ pc[t] = "run" /\ rez[t] = "OK" /\ Held(t) = Claims(t) + 1
           \/ pc[t] = "run" /\ rez[t] # "OK" /\ Held(t) = Claims(t)

Balanced ==
  /\ \A t \in Guarded : Balance(t)
  /\ \A t \in Threads \ Guarded : job[t].stage = "none"

\* A thread has finitely many guards.
LEMMA ClaimsIsNat ==
  ASSUME NEW t
  PROVE  IsFiniteSet(GuardsOf(t)) /\ Claims(t) \in Nat
<1>1. GuardsOf(t) \subseteq Guards
  BY DEF GuardsOf
<1> QED BY <1>1, GuardAssumption, FS_Subset, FS_CardinalityType DEF Claims

\* A guard of t that begins to hold is one claim more, one that stops is one
\* less, and the claims of the others stay.
LEMMA GuardTaken ==
  ASSUME GuardTypes, NEW g \in Guards, ~mAlloc[g],
         mAlloc' = [mAlloc EXCEPT ![g] = TRUE]
  PROVE  /\ Claims(Owner[g])' = Claims(Owner[g]) + 1
         /\ \A s \in Threads : s # Owner[g] => Claims(s)' = Claims(s)
<1> DEFINE t == Owner[g]
<1>1. GuardsOf(t)' = GuardsOf(t) \cup {g} /\ g \notin GuardsOf(t)
  BY DEF GuardsOf, GuardTypes
<1>2. Claims(t)' = Claims(t) + 1
  BY <1>1, ClaimsIsNat, FS_AddElement DEF Claims
<1>3. \A s \in Threads : s # t => GuardsOf(s)' = GuardsOf(s)
  BY DEF GuardsOf, GuardTypes
<1> QED BY <1>2, <1>3 DEF Claims

\* The same for a guard that stops holding.
LEMMA GuardDropped ==
  ASSUME GuardTypes, NEW g \in Guards, mAlloc[g],
         mAlloc' = [mAlloc EXCEPT ![g] = FALSE]
  PROVE  /\ Claims(Owner[g])' = Claims(Owner[g]) - 1
         /\ \A s \in Threads : s # Owner[g] => Claims(s)' = Claims(s)
<1> DEFINE t == Owner[g]
<1>1. GuardsOf(t)' = GuardsOf(t) \ {g} /\ g \in GuardsOf(t)
  BY DEF GuardsOf, GuardTypes
<1>2. Claims(t)' = Claims(t) - 1
  BY <1>1, ClaimsIsNat, FS_RemoveElement DEF Claims
<1>3. \A s \in Threads : s # t => GuardsOf(s)' = GuardsOf(s)
  BY DEF GuardsOf, GuardTypes
<1> QED BY <1>2, <1>3 DEF Claims

\* What a step of thread t on the lock means for another thread.
LEMMA OthersKeepTheirs ==
  ASSUME RWTypeOK, NEW t \in Threads, DirectCall(t) \/ InsideCall(t),
         NEW s \in Threads, s # t
  PROVE  /\ Held(s)' = Held(s) /\ (writer' = s <=> writer = s)
         /\ pc'[s] = pc[s] /\ rez'[s] = rez[s] /\ want'[s] = want[s]
<1>1. pc'[s] = pc[s]
  BY OneThreadMoves
<1>2. readers'[s] = readers[s] /\ rez'[s] = rez[s] /\ want'[s] = want[s]
  BY DEF RWTypeOK, DirectCall, resRequest, resTryW, resTryR, resRelease, InsideCall,
    CheckOwner, LockForReading, LockForWriting, RwlockRefuses, TimesOut, MarkWriter,
    CompareMark, ClearMark, Return
<1>3. (writer' = s) <=> (writer = s)
  BY RWAssumption DEF DirectCall, resRequest, resTryW, resTryR, resRelease, InsideCall,
    CheckOwner, LockForReading, LockForWriting, RwlockRefuses, TimesOut, MarkWriter,
    CompareMark, ClearMark, CanWrite
<1> QED BY <1>1, <1>2, <1>3 DEF Held

\* ... and for itself: a request takes nothing at first,
LEMMA RequestKeepsHeld ==
  ASSUME RWTypeOK, NEW t \in Threads, NEW write, NEW timed, resRequest(t, write, timed)
  PROVE  Held(t)' = Held(t) /\ pc'[t] = "check"
BY DEF RWTypeOK, resRequest, Goto, Held

\* a release gives one lock back at once,
LEMMA ReleaseGivesBackOne ==
  ASSUME RWTypeOK, NEW t \in Threads, resRelease(t)
  PROVE  Held(t)' = Held(t) - 1 /\ pc'[t] = "unmark"
<1>1. pc'[t] = "unmark"
  BY DEF RWTypeOK, resRelease, Goto
<1>2. readers[t] \in Nat /\ NoThread # t
  BY RWAssumption DEF RWTypeOK
<1>3. CASE writer = t
  <2>1. writer' = NoThread /\ readers' = readers
    BY <1>3 DEF resRelease
  <2> QED BY <1>1, <1>2, <1>3, <2>1 DEF Held
<1>4. CASE writer # t
  <2>1. writer' = writer /\ readers'[t] = readers[t] - 1
    BY <1>4 DEF resRelease, RWTypeOK
  <2> QED BY <1>1, <1>2, <1>4, <2>1 DEF Held
<1> QED BY <1>3, <1>4

\* and the steps in between take at most one, together with the result OK.
LEMMA InsideOutcome ==
  ASSUME RWTypeOK, NEW t \in Threads, InsideCall(t)
  PROVE  \/ /\ pc[t] = "check" /\ Held(t)' = Held(t)
            /\ pc'[t] = "wait" \/ (pc'[t] = "run" /\ rez'[t] # "OK")
         \/ /\ pc[t] = "wait" /\ Held(t)' = Held(t) + 1
            /\ pc'[t] = "mark" \/ (pc'[t] = "run" /\ rez'[t] = "OK")
         \/ pc[t] = "wait" /\ Held(t)' = Held(t) /\ pc'[t] = "run" /\ rez'[t] # "OK"
         \/ pc[t] = "mark" /\ Held(t)' = Held(t) /\ pc'[t] = "run" /\ rez'[t] = "OK"
         \/ pc[t] = "unmark" /\ Held(t)' = Held(t) /\ pc'[t] \in {"clear", "run"}
         \/ pc[t] = "clear" /\ Held(t)' = Held(t) /\ pc'[t] = "run"
<1> USE DEF RWTypeOK, Return, Goto, Held
<1>1. CASE CheckOwner(t)
  BY <1>1 DEF CheckOwner
<1>2. CASE LockForReading(t)
  BY <1>2 DEF LockForReading
<1>3. CASE LockForWriting(t)
  BY <1>3, RWAssumption DEF LockForWriting, CanWrite
<1>4. CASE RwlockRefuses(t)
  BY <1>4 DEF RwlockRefuses
<1>5. CASE TimesOut(t)
  BY <1>5 DEF TimesOut
<1>6. CASE MarkWriter(t)
  BY <1>6 DEF MarkWriter
<1>7. CASE CompareMark(t)
  BY <1>7 DEF CompareMark
<1>8. CASE ClearMark(t)
  BY <1>8 DEF ClearMark
<1> QED BY <1>1, <1>2, <1>3, <1>4, <1>5, <1>6, <1>7, <1>8 DEF InsideCall

\* A thread that is left alone stays balanced.
LEMMA LeftAlone ==
  ASSUME NEW s \in Threads, Balance(s), Held(s)' = Held(s), Claims(s)' = Claims(s),
         pc'[s] = pc[s], rez'[s] = rez[s], job'[s] = job[s],
         job[s].stage # "none" => mAlloc'[job[s].guard] = mAlloc[job[s].guard]
  PROVE  Balance(s)'
BY DEF Balance

\* Claims depend on mAlloc only.
LEMMA SameClaims ==
  ASSUME mAlloc' = mAlloc, NEW s
  PROVE  Claims(s)' = Claims(s)
BY DEF Claims, GuardsOf

\* The locks of a thread stay if the lock does.
LEMMA SameHeld ==
  ASSUME UNCHANGED rwVars, NEW s \in Threads
  PROVE  Held(s)' = Held(s) /\ pc'[s] = pc[s] /\ rez'[s] = rez[s]
BY DEF rwVars, Held

\* ResAlloc::request: a guard that holds gives back first.
LEMMA RequestKeepsBalance ==
  ASSUME RWTypeOK, GuardTypes, Balanced, NEW g \in Guards,
         NEW write \in BOOLEAN, NEW timed \in BOOLEAN, request(g, write, timed)
  PROVE  Balanced'
<1> DEFINE t == Owner[g]
<1> USE GuardAssumption, GuardedAreThreads
<1>1. t \in Guarded /\ t \in Threads
  BY DEF Guarded
<1>2. DirectCall(t) /\ mAlloc' = mAlloc /\ job[t].stage = "none"
  BY DEF request, DirectCall
<1>3. \A s \in Threads : s # t => job'[s] = job[s]
  BY DEF request, GuardTypes
<1>4. Held(t) = Claims(t)
  BY <1>1, <1>2 DEF Balanced, Balance
<1>5. job'[t].guard = g /\ Claims(t)' = Claims(t)
  BY <1>1, <1>2, SameClaims DEF request, GuardTypes
<1>6. Balance(t)'
  <2>1. CASE mAlloc[g]
    BY <1>1, <1>2, <1>4, <1>5, <2>1, ReleaseGivesBackOne
    DEF request, GuardTypes, Balance
  <2>2. CASE ~mAlloc[g]
    BY <1>1, <1>2, <1>4, <1>5, <2>2, RequestKeepsHeld
    DEF request, GuardTypes, Balance
  <2> QED BY <2>1, <2>2
<1>7. ASSUME NEW s \in Guarded, s # t PROVE Balance(s)'
  BY <1>1, <1>2, <1>3, <1>7, OthersKeepTheirs, SameClaims, LeftAlone DEF Balanced
<1> QED BY <1>1, <1>3, <1>6, <1>7 DEF Balanced, Guarded

\* ResAlloc::release and the destructor.
LEMMA ReleaseKeepsBalance ==
  ASSUME RWTypeOK, GuardTypes, Balanced, NEW g \in Guards, release(g)
  PROVE  Balanced'
<1> DEFINE t == Owner[g]
<1> USE GuardAssumption, GuardedAreThreads
<1>1. t \in Guarded /\ t \in Threads
  BY DEF Guarded
<1>2. DirectCall(t) /\ mAlloc' = mAlloc /\ job[t].stage = "none"
  BY DEF release, DirectCall
<1>3. \A s \in Threads : s # t => job'[s] = job[s]
  BY DEF release, GuardTypes
<1>4. Held(t) = Claims(t)
  BY <1>1, <1>2 DEF Balanced, Balance
<1>5. job'[t].guard = g /\ job'[t].stage = "release" /\ Claims(t)' = Claims(t)
  BY <1>1, <1>2, SameClaims DEF release, GuardTypes, NoJob
<1>6. Balance(t)'
  BY <1>1, <1>2, <1>4, <1>5, ReleaseGivesBackOne DEF release, GuardTypes, Balance
<1>7. ASSUME NEW s \in Guarded, s # t PROVE Balance(s)'
  BY <1>1, <1>2, <1>3, <1>7, OthersKeepTheirs, SameClaims, LeftAlone DEF Balanced
<1> QED BY <1>1, <1>3, <1>6, <1>7 DEF Balanced, Guarded

\* Half way through a change of mode the guard holds nothing.
LEMMA SwapKeepsBalance ==
  ASSUME RWTypeOK, GuardTypes, Balanced, NEW t \in Threads, SwapHalfDone(t)
  PROVE  Balanced'
<1> DEFINE g == job[t].guard
<1> USE GuardAssumption, GuardedAreThreads
<1>1. g \in Guards /\ job[t].write \in BOOLEAN /\ job[t].timed \in BOOLEAN
  BY DEF GuardTypes, Jobs
<1>2. job[t].stage = "swap" /\ pc[t] = "run" /\ DirectCall(t)
  BY <1>1 DEF SwapHalfDone, Returned, DirectCall
<1>3. t \in Guarded /\ Owner[g] = t /\ mAlloc[g] /\ Held(t) = Claims(t) - 1
  BY <1>2 DEF Balanced, Balance
<1>4. Held(t)' = Held(t) /\ pc'[t] = "check"
  BY RequestKeepsHeld DEF SwapHalfDone
<1>5. mAlloc' = [mAlloc EXCEPT ![g] = FALSE]
  BY DEF SwapHalfDone, NothingHeld
<1>6. Claims(t)' = Claims(t) - 1 /\ \A s \in Threads : s # t => Claims(s)' = Claims(s)
  BY <1>1, <1>3, <1>5, GuardDropped
<1>7. \A s \in Threads : s # t => job'[s] = job[s]
  BY DEF SwapHalfDone, GuardTypes
<1>8. Balance(t)'
  <2>1. job'[t].stage = "request" /\ job'[t].guard = g /\ ~mAlloc'[g]
    BY <1>1, <1>5 DEF SwapHalfDone, GuardTypes, Jobs
  <2> QED BY <1>3, <1>4, <1>6, <2>1 DEF Balance
<1>9. ASSUME NEW s \in Guarded, s # t PROVE Balance(s)'
  <2>1. job[s].stage # "none" => job[s].guard # g
    BY <1>3, <1>9 DEF Balanced, Balance
  <2>2. job[s].guard \in Guards
    BY DEF GuardTypes, Jobs
  <2>3. job[s].stage # "none" => mAlloc'[job[s].guard] = mAlloc[job[s].guard]
    BY <1>5, <2>1, <2>2 DEF GuardTypes
  <2> QED BY <1>2, <1>6, <1>7, <1>9, <2>3, OthersKeepTheirs, LeftAlone DEF Balanced
<1> QED BY <1>3, <1>7, <1>8, <1>9 DEF Balanced, Guarded

\* A call that returns has what it says, also when it returns an error.
LEMMA ReturnKeepsBalance ==
  ASSUME RWTypeOK, GuardTypes, Balanced, NEW t \in Threads,
         RequestReturns(t) \/ ReleaseReturns(t)
  PROVE  Balanced'
<1> DEFINE g == job[t].guard
<1> USE GuardAssumption, GuardedAreThreads
<1>1. g \in Guards /\ UNCHANGED rwVars
  BY DEF GuardTypes, Jobs, RequestReturns, ReleaseReturns
<1>2. pc[t] = "run" /\ job[t].stage \in {"request", "release"}
  BY DEF RequestReturns, ReleaseReturns, Returned
<1>3. t \in Guarded /\ Owner[g] = t
  BY <1>2 DEF Balanced, Balance
<1>4. job'[t].stage = "none" /\ \A s \in Threads : s # t => job'[s] = job[s]
  BY DEF RequestReturns, ReleaseReturns, Leave, NoJob, GuardTypes
<1>5. /\ Held(t)' = Claims(t)'
      /\ \A s \in Threads : s # t => Claims(s)' = Claims(s)
      /\ \A h \in Guards : h # g => mAlloc'[h] = mAlloc[h]
  <2>1. CASE RequestReturns(t) /\ rez[t] = "OK"
    <3>1. ~mAlloc[g] /\ Held(t) = Claims(t) + 1
      BY <1>2, <1>3, <2>1 DEF Balanced, Balance, RequestReturns, Returned
    <3>2. mAlloc' = [mAlloc EXCEPT ![g] = TRUE]
      BY <2>1 DEF RequestReturns
    <3>3. /\ Claims(t)' = Claims(t) + 1
          /\ \A s \in Threads : s # t => Claims(s)' = Claims(s)
      BY <1>1, <1>3, <3>1, <3>2, GuardTaken
    <3>4. \A h \in Guards : h # g => mAlloc'[h] = mAlloc[h]
      BY <3>2 DEF GuardTypes
    <3>5. Held(t)' = Held(t)
      BY <1>1, SameHeld
    <3> QED BY <3>1, <3>3, <3>4, <3>5
  <2>2. CASE RequestReturns(t) /\ rez[t] # "OK"
    <3>1. Held(t) = Claims(t)
      BY <1>2, <1>3, <2>2 DEF Balanced, Balance, RequestReturns, Returned
    <3>2. mAlloc' = mAlloc
      BY <2>2 DEF RequestReturns
    <3> QED BY <1>1, <3>1, <3>2, SameClaims, SameHeld
  <2>3. CASE ReleaseReturns(t)
    <3>1. mAlloc[g] /\ Held(t) = Claims(t) - 1
      BY <1>2, <1>3, <2>3 DEF Balanced, Balance, ReleaseReturns, Returned
    <3>2. mAlloc' = [mAlloc EXCEPT ![g] = FALSE]
      BY <2>3 DEF ReleaseReturns, NothingHeld
    <3>3. /\ Claims(t)' = Claims(t) - 1
          /\ \A s \in Threads : s # t => Claims(s)' = Claims(s)
      BY <1>1, <1>3, <3>1, <3>2, GuardDropped
    <3>4. \A h \in Guards : h # g => mAlloc'[h] = mAlloc[h]
      BY <3>2 DEF GuardTypes
    <3>5. Held(t)' = Held(t)
      BY <1>1, SameHeld
    <3> QED BY <3>1, <3>3, <3>4, <3>5
  <2> QED BY <2>1, <2>2, <2>3
<1>6. Balance(t)'
  BY <1>4, <1>5 DEF Balance
<1>7. ASSUME NEW s \in Guarded, s # t PROVE Balance(s)'
  <2>1. job[s].stage # "none" => job[s].guard # g
    BY <1>3, <1>7 DEF Balanced, Balance
  <2>2. job[s].guard \in Guards
    BY DEF GuardTypes, Jobs
  <2> QED BY <1>1, <1>4, <1>5, <1>7, <2>1, <2>2, SameHeld, LeftAlone DEF Balanced
<1> QED BY <1>3, <1>4, <1>6, <1>7 DEF Balanced, Guarded

\* A step inside the lock, or of a thread without guards.
LEMMA LockStepKeepsBalance ==
  ASSUME RWTypeOK, GuardTypes, OutsideMeansRun, Balanced, NEW t \in Threads, RunLock(t)
  PROVE  Balanced'
<1> USE GuardedAreThreads
<1>1. mAlloc' = mAlloc /\ job' = job /\ (DirectCall(t) \/ InsideCall(t))
  BY DEF RunLock
<1>2. ASSUME NEW s \in Guarded, s # t PROVE Balance(s)'
  BY <1>1, <1>2, OthersKeepTheirs, SameClaims, LeftAlone DEF Balanced
<1>3. ASSUME t \in Guarded PROVE Balance(t)'
  <2>1. InsideCall(t) /\ job[t].stage # "none"
    BY <1>3, InsideIsNotRun DEF RunLock, OutsideMeansRun
  <2>2. Claims(t)' = Claims(t) /\ Balance(t)
    BY <1>1, <1>3, SameClaims DEF Balanced
  <2>3. pc[t] # "run"
    BY <2>1, InsideIsNotRun
  <2>4. CASE job[t].stage \in {"swap", "release"}
    BY <1>1, <2>1, <2>2, <2>3, <2>4, InsideOutcome DEF Balance
  <2>5. CASE job[t].stage = "request"
    BY <1>1, <2>1, <2>2, <2>3, <2>5, InsideOutcome DEF Balance
  <2> QED BY <2>1, <2>2, <2>4, <2>5 DEF Balance
<1> QED BY <1>1, <1>2, <1>3 DEF Balanced, Guarded

\* Every step keeps every guarded thread balanced.
LEMMA StepKeepsBalance ==
  ASSUME AllocInv, Balanced, [AllocNext]_allocVars
  PROVE  Balanced'
<1> USE AllocTypeParts DEF AllocInv
<1>1. CASE UNCHANGED allocVars
  <2>1. UNCHANGED <<rwVars, mAlloc, job>>
    BY <1>1 DEF allocVars
  <2> QED BY <2>1, SameHeld, SameClaims, LeftAlone, GuardedAreThreads
      DEF Balanced, Guarded
<1> QED BY <1>1, RequestKeepsBalance, ReleaseKeepsBalance, SwapKeepsBalance,
           ReturnKeepsBalance, LockStepKeepsBalance DEF AllocNext

\* Nothing is held at first.
LEMMA InitBalanced == AllocInit => Balanced
<1> SUFFICES ASSUME AllocInit, NEW t \in Threads
    PROVE job[t].stage = "none" /\ Held(t) = Claims(t)
  BY GuardedAreThreads DEF Balanced, Balance
<1>1. job[t].stage = "none"
  BY DEF AllocInit, NoJob
<1>2. Held(t) = 0
  BY RWAssumption DEF AllocInit, RWInit, Held
<1>3. GuardsOf(t) = {}
  BY DEF AllocInit, GuardsOf
<1> QED BY <1>1, <1>2, <1>3, FS_EmptySet DEF Claims

\* Guards and locks are balanced at each place of each call.
THEOREM BalancedAlways == AllocSpec => []Balanced
BY InitBalanced, StepKeepsBalance, AllocInvAlways, PTL DEF AllocSpec

\* Between its calls a thread holds the lock exactly as often as its guards
\* say, after every request that was refused, threw, timed out or changed
\* mode, for any number of guards and threads.
THEOREM GuardsMatchLockAlways == AllocSpec => []GuardsMatchLock
<1>1. Balanced => GuardsMatchLock
  BY DEF Balanced, Balance, GuardsMatchLock, Held, Claims
<1> QED BY <1>1, BalancedAlways, PTL

-----------------------------------------------------------------------------
(***************************************************************************)
(* A guard granted writing is alone.  The lock excludes, a settled guard   *)
(* granted writing belongs to the thread the lock names, and a balanced    *)
(* thread with one lock has no second settled guard.                       *)
(***************************************************************************)
LockExcludes == writer # NoThread => \A t \in Threads : readers[t] = 0

WriteCalls ==
  \A t \in Guarded : job[t].stage = "request" =>
    /\ pc[t] \in {"check", "wait", "mark"} => want[t].write = job[t].write
    /\ pc[t] = "run" /\ rez[t] = "OK" /\ job[t].write => writer = t

WriteModes ==
  \A g \in Guards : mode[g] = "write" /\ Settled(g) => writer = Owner[g]

\* The lock excludes readers while it is written.
LEMMA LockStepExcludes ==
  ASSUME RWTypeOK, LockExcludes, [RWNext]_rwVars
  PROVE  LockExcludes'
<1> USE RWAssumption DEF LockExcludes
<1>1. CASE UNCHANGED rwVars
  BY <1>1 DEF rwVars
<1>2. ASSUME NEW t \in Threads, DirectCall(t)
      PROVE  LockExcludes'
  BY <1>2 DEF DirectCall, resRequest, resTryW, resTryR, resRelease, CanRead, CanWrite,
    Holds, RWTypeOK
<1>3. ASSUME NEW t \in Threads, InsideCall(t)
      PROVE  LockExcludes'
  BY <1>3 DEF InsideCall, CheckOwner, LockForReading, LockForWriting, RwlockRefuses,
    TimesOut, MarkWriter, CompareMark, ClearMark, CanRead, CanWrite, RWTypeOK
<1> QED BY <1>1, <1>2, <1>3 DEF RWNext

\* A set with two different elements has at least two.
LEMMA TwoAtLeast ==
  ASSUME NEW S, IsFiniteSet(S), NEW x \in S, NEW y \in S, x # y
  PROVE  Cardinality(S) \in Nat /\ Cardinality(S) >= 2
<1>1. Cardinality(S \ {x}) = Cardinality(S) - 1 /\ IsFiniteSet(S \ {x})
  BY FS_RemoveElement
<1>2. Cardinality(S \ {x}) # 0
  BY <1>1, FS_EmptySet
<1> QED BY <1>1, <1>2, FS_CardinalityType

\* And one with three at least three.
LEMMA ThreeAtLeast ==
  ASSUME NEW S, IsFiniteSet(S), NEW x \in S, NEW y \in S, NEW z \in S,
         x # y, x # z, y # z
  PROVE  Cardinality(S) \in Nat /\ Cardinality(S) >= 3
<1>1. Cardinality(S \ {x}) = Cardinality(S) - 1 /\ IsFiniteSet(S \ {x})
  BY FS_RemoveElement
<1>2. Cardinality(S \ {x}) >= 2
  BY <1>1, TwoAtLeast
<1> QED BY <1>1, <1>2, FS_CardinalityType

\* The number of settled guards of a thread never exceeds its locks.
LEMMA SettledGuardIsHeld ==
  ASSUME AllocTypeOK, Balanced, NEW g \in Guards, Settled(g)
  PROVE  Held(Owner[g]) >= 1
<1> DEFINE t == Owner[g]
<1>1. t \in Guarded /\ t \in Threads /\ g \in GuardsOf(t) /\ IsFiniteSet(GuardsOf(t))
  BY GuardAssumption, ClaimsIsNat DEF Guarded, GuardsOf, Settled
<1>2. Claims(t) \in Nat /\ Claims(t) >= 1
  BY <1>1, ClaimsIsNat, FS_EmptySet DEF Claims
<1>3. job[t].guard \in Guards /\ Balance(t)
  BY <1>1 DEF AllocTypeOK, Balanced
<1>4. CASE job[t].stage \in {"swap", "release"}
  <2>1. job[t].guard \in GuardsOf(t) /\ job[t].guard # g /\ Held(t) = Claims(t) - 1
    BY <1>3, <1>4 DEF Balance, GuardsOf, Settled
  <2> QED BY <1>1, <2>1, TwoAtLeast DEF Claims
<1>5. CASE job[t].stage \notin {"swap", "release"}
  BY <1>2, <1>3, <1>5 DEF Balance
<1> QED BY <1>4, <1>5

\* Two settled guards of a thread are two locks of it.
LEMMA TwoSettledGuardsAreHeld ==
  ASSUME AllocTypeOK, Balanced, NEW g \in Guards, NEW h \in Guards, g # h,
         Settled(g), Settled(h), Owner[g] = Owner[h]
  PROVE  Held(Owner[g]) >= 2
<1> DEFINE t == Owner[g]
<1>1. /\ t \in Guarded /\ t \in Threads
      /\ g \in GuardsOf(t) /\ h \in GuardsOf(t) /\ IsFiniteSet(GuardsOf(t))
  BY GuardAssumption, ClaimsIsNat DEF Guarded, GuardsOf, Settled
<1>2. Claims(t) \in Nat /\ Claims(t) >= 2
  BY <1>1, TwoAtLeast DEF Claims
<1>3. job[t].guard \in Guards /\ Balance(t)
  BY <1>1 DEF AllocTypeOK, Balanced
<1>4. CASE job[t].stage \in {"swap", "release"}
  <2>1. /\ job[t].guard \in GuardsOf(t) /\ job[t].guard # g /\ job[t].guard # h
        /\ Held(t) = Claims(t) - 1
    BY <1>3, <1>4 DEF Balance, GuardsOf, Settled
  <2> QED BY <1>1, <2>1, ThreeAtLeast DEF Claims
<1>5. CASE job[t].stage \notin {"swap", "release"}
  BY <1>2, <1>3, <1>5 DEF Balance
<1> QED BY <1>4, <1>5

\* The writer has one lock.
LEMMA WriterHoldsOne ==
  ASSUME RWTypeOK, LockExcludes, NEW t \in Threads, writer = t
  PROVE  Held(t) = 1 /\ \A s \in Threads : s # t => Held(s) = 0 /\ ~Holds(s)
BY RWAssumption DEF LockExcludes, Held, Holds

\* Together these make a guard granted writing alone.
LEMMA ExclusionFromParts ==
  ASSUME AllocTypeOK, Balanced, LockExcludes, WriteModes
  PROVE  WriteGuardAlone
<1> SUFFICES ASSUME NEW g \in Guards, NEW h \in Guards, Settled(g), Settled(h),
                    mode[g] = "write"
             PROVE  g = h /\ \A t \in Threads : Holds(t) => t = Owner[g]
  BY DEF WriteGuardAlone
<1>1. writer = Owner[g] /\ Owner[g] \in Threads /\ Owner[h] \in Threads /\ RWTypeOK
  BY GuardAssumption DEF WriteModes, AllocTypeOK
<1>2. /\ Held(Owner[g]) = 1
      /\ \A s \in Threads : s # Owner[g] => Held(s) = 0 /\ ~Holds(s)
  BY <1>1, WriterHoldsOne
<1>3. Owner[h] = Owner[g]
  BY <1>1, <1>2, SettledGuardIsHeld
<1>4. g = h
  BY <1>2, <1>3, TwoSettledGuardsAreHeld
<1> QED BY <1>2, <1>4

\* Which thread a step belongs to, and that it leaves the jobs, guards and
\* locks of the others alone.
OthersSame(t) ==
  /\ \A s \in Threads : s # t =>
       /\ job'[s] = job[s] /\ pc'[s] = pc[s] /\ rez'[s] = rez[s] /\ want'[s] = want[s]
       /\ writer' = s <=> writer = s
  /\ \A g \in Guards : Owner[g] # t => mode'[g] = mode[g] /\ mAlloc'[g] = mAlloc[g]

GuardStep(t) ==
  \/ \E g \in Guards : Owner[g] = t /\ release(g)
  \/ \E g \in Guards, write, timed \in BOOLEAN : Owner[g] = t /\ request(g, write, timed)
  \/ SwapHalfDone(t) \/ RequestReturns(t) \/ ReleaseReturns(t) \/ RunLock(t)

\* Every step of the guards is some thread's.
LEMMA StepHasThread ==
  ASSUME AllocNext
  PROVE  \E t \in Threads : GuardStep(t)
BY GuardAssumption DEF AllocNext, GuardStep

\* And it leaves the others alone.
LEMMA StepLeavesOthers ==
  ASSUME RWTypeOK, GuardTypes, Balanced, NEW t \in Threads, GuardStep(t)
  PROVE  OthersSame(t)
<1> USE GuardAssumption
<1>1. ASSUME NEW g \in Guards, Owner[g] = t, release(g)
      PROVE  OthersSame(t)
  <2>1. DirectCall(t) /\ UNCHANGED <<mAlloc, mode>>
    BY <1>1 DEF release, DirectCall
  <2>2. \A s \in Threads : s # t => job'[s] = job[s]
    BY <1>1 DEF release, GuardTypes
  <2> QED BY <2>1, <2>2, OthersKeepTheirs DEF OthersSame
<1>2. ASSUME NEW g \in Guards, NEW write \in BOOLEAN, NEW timed \in BOOLEAN,
             Owner[g] = t, request(g, write, timed)
      PROVE  OthersSame(t)
  <2>1. DirectCall(t) /\ UNCHANGED <<mAlloc, mode>>
    BY <1>2 DEF request, DirectCall
  <2>2. \A s \in Threads : s # t => job'[s] = job[s]
    BY <1>2 DEF request, GuardTypes
  <2> QED BY <2>1, <2>2, OthersKeepTheirs DEF OthersSame
<1>3. CASE SwapHalfDone(t)
  <2>1. job[t].write \in BOOLEAN /\ job[t].timed \in BOOLEAN
    BY DEF GuardTypes, Jobs
  <2>2. DirectCall(t) /\ job[t].stage = "swap"
    BY <1>3, <2>1 DEF SwapHalfDone, Returned, DirectCall
  <2>3. Owner[job[t].guard] = t
    BY <2>2 DEF Balanced, Balance
  <2>4. \A s \in Threads : s # t => job'[s] = job[s]
    BY <1>3 DEF SwapHalfDone, GuardTypes
  <2>5. \A g \in Guards : Owner[g] # t => mode'[g] = mode[g] /\ mAlloc'[g] = mAlloc[g]
    BY <1>3, <2>3 DEF SwapHalfDone, NothingHeld, GuardTypes
  <2> QED BY <2>2, <2>4, <2>5, OthersKeepTheirs DEF OthersSame
<1>4. CASE RequestReturns(t) \/ ReleaseReturns(t)
  <2>1. job[t].stage \in {"request", "release"} /\ UNCHANGED rwVars
    BY <1>4 DEF RequestReturns, ReleaseReturns, Returned
  <2>2. Owner[job[t].guard] = t
    BY <2>1 DEF Balanced, Balance
  <2>3. \A s \in Threads : s # t => job'[s] = job[s]
    BY <1>4 DEF RequestReturns, ReleaseReturns, Leave, GuardTypes
  <2>4. \A g \in Guards : Owner[g] # t => mode'[g] = mode[g] /\ mAlloc'[g] = mAlloc[g]
    BY <1>4, <2>2 DEF RequestReturns, ReleaseReturns, NothingHeld, GuardTypes
  <2> QED BY <2>1, <2>3, <2>4 DEF OthersSame, rwVars
<1>5. CASE RunLock(t)
  BY <1>5, OthersKeepTheirs DEF RunLock, OthersSame
<1> QED BY <1>1, <1>2, <1>3, <1>4, <1>5 DEF GuardStep

\* What a thread asks of the lock is what its guard was asked for, and a
\* request for writing that has returned OK has made the thread the writer.
LEMMA StepKeepsWriteCalls ==
  ASSUME AllocInv, Balanced, WriteCalls, NEW t \in Threads, GuardStep(t)
  PROVE  WriteCalls'
<1> USE GuardAssumption, GuardedAreThreads
<1> DEFINE Calls(s) ==
      job[s].stage = "request" =>
        /\ pc[s] \in {"check", "wait", "mark"} => want[s].write = job[s].write
        /\ pc[s] = "run" /\ rez[s] = "OK" /\ job[s].write => writer = s
<1>1. RWTypeOK /\ GuardTypes /\ MarkerWrites
  BY AllocTypeParts DEF AllocInv, MarkInv
<1>2. ASSUME NEW s \in Guarded, s # t PROVE Calls(s)'
  BY <1>1, <1>2, StepLeavesOthers DEF OthersSame, WriteCalls
<1>3. ASSUME t \in Guarded PROVE Calls(t)'
  <2>1. ASSUME NEW g \in Guards, Owner[g] = t, release(g) PROVE Calls(t)'
    BY <1>1, <2>1 DEF release, NoJob, GuardTypes
  <2>2. ASSUME NEW g \in Guards, NEW write \in BOOLEAN, NEW timed \in BOOLEAN,
               Owner[g] = t, request(g, write, timed)
        PROVE  Calls(t)'
    BY <1>1, <2>2 DEF request, resRequest, Goto, GuardTypes, RWTypeOK
  <2>3. CASE SwapHalfDone(t)
    BY <1>1, <2>3 DEF SwapHalfDone, resRequest, Goto, GuardTypes, Jobs, RWTypeOK
  <2>4. CASE RequestReturns(t) \/ ReleaseReturns(t)
    BY <1>1, <2>4 DEF RequestReturns, ReleaseReturns, Leave, NoJob, GuardTypes
  <2>5. CASE RunLock(t)
    <3>1. InsideCall(t) /\ job' = job
      BY <1>3, <2>5 DEF RunLock
    <3>2. Calls(t)
      BY <1>3 DEF WriteCalls
    <3> USE <1>1, <3>1, <3>2 DEF RWTypeOK, Return, Goto
    <3>3. CASE CheckOwner(t)
      BY <3>3 DEF CheckOwner
    <3>4. CASE LockForReading(t)
      BY <3>4 DEF LockForReading
    <3>5. CASE LockForWriting(t)
      BY <3>5 DEF LockForWriting
    <3>6. CASE RwlockRefuses(t) \/ TimesOut(t)
      BY <3>6 DEF RwlockRefuses, TimesOut
    <3>7. CASE MarkWriter(t)
      BY <3>7 DEF MarkWriter, MarkerWrites
    <3>8. CASE CompareMark(t) \/ ClearMark(t)
      <4>1. job[t].stage # "request"
        BY <1>3, <3>8 DEF Balanced, Balance, CompareMark, ClearMark
      <4> QED BY <4>1
    <3> QED BY <3>3, <3>4, <3>5, <3>6, <3>7, <3>8 DEF InsideCall
  <2> QED BY <2>1, <2>2, <2>3, <2>4, <2>5 DEF GuardStep
<1> QED BY <1>2, <1>3 DEF WriteCalls

\* A thread whose guard is granted writing gives back no other guard's lock
\* than its own.
LEMMA ReleaseIsOwn ==
  ASSUME AllocInv, Balanced, LockExcludes, WriteModes,
         NEW g \in Guards, NEW h \in Guards, g # h, Owner[g] = Owner[h],
         job[Owner[g]].stage = "none", mAlloc[h]
  PROVE  ~(mode[g] = "write" /\ Settled(g))
<1> SUFFICES ASSUME mode[g] = "write", Settled(g) PROVE FALSE
  OBVIOUS
<1>1. Settled(h) /\ writer = Owner[g] /\ AllocTypeOK /\ RWTypeOK /\ Owner[g] \in Threads
  BY GuardAssumption DEF Settled, WriteModes, AllocInv, AllocTypeOK
<1>2. Held(Owner[g]) = 1
  BY <1>1, WriterHoldsOne
<1>3. Held(Owner[g]) >= 2
  BY <1>1, TwoSettledGuardsAreHeld
<1> QED BY <1>2, <1>3

\* A settled guard granted writing belongs to the writer after every step.
LEMMA StepKeepsWriteModes ==
  ASSUME AllocInv, Balanced, LockExcludes, WriteCalls, WriteModes,
         NEW t \in Threads, GuardStep(t)
  PROVE  WriteModes'
<1> USE GuardAssumption
<1>1. RWTypeOK /\ GuardTypes /\ MarkerWrites
  BY AllocTypeParts DEF AllocInv, MarkInv
<1> DEFINE Granted(g) == mode[g] = "write" /\ Settled(g)
<1>2. ASSUME NEW g \in Guards, Owner[g] # t, Granted(g)' PROVE writer' = Owner[g]
  BY <1>1, <1>2, StepLeavesOthers DEF OthersSame, Settled, WriteModes
<1>3. ASSUME NEW g \in Guards, Owner[g] = t, Granted(g)' PROVE writer' = t
  <2>0. t \in Guarded
    BY <1>3 DEF Guarded
  <2>1. ASSUME NEW h \in Guards, Owner[h] = t, release(h) PROVE writer' = t
    <3>1. mAlloc[h] /\ job[t].stage = "none" /\ UNCHANGED <<mAlloc, mode>>
      BY <2>1 DEF release
    <3>2. job'[t].guard = h /\ job'[t].stage # "none"
      BY <1>1, <2>1 DEF release, NoJob, GuardTypes
    <3>3. g # h
      BY <1>3, <3>2 DEF Settled
    <3>4. Granted(g)
      BY <1>3, <3>1 DEF Settled
    <3> QED BY <1>3, <2>1, <3>1, <3>3, <3>4, ReleaseIsOwn
  <2>2. ASSUME NEW h \in Guards, NEW write \in BOOLEAN, NEW timed \in BOOLEAN,
               Owner[h] = t, request(h, write, timed)
        PROVE  writer' = t
    <3>1. job[t].stage = "none" /\ UNCHANGED <<mAlloc, mode>>
      BY <2>2 DEF request
    <3>2. job'[t].guard = h /\ job'[t].stage # "none"
      BY <1>1, <2>2 DEF request, GuardTypes
    <3>3. g # h
      BY <1>3, <3>2 DEF Settled
    <3>4. Granted(g)
      BY <1>3, <3>1 DEF Settled
    <3>5. ~mAlloc[h]
      BY <1>3, <2>2, <3>1, <3>3, <3>4, ReleaseIsOwn
    <3> QED BY <1>3, <2>2, <3>4, <3>5 DEF request, resRequest, WriteModes
  <2>3. CASE SwapHalfDone(t)
    <3> DEFINE h == job[t].guard
    <3>1. h \in Guards /\ job[t].stage = "swap" /\ writer' = writer
      BY <1>1, <2>3 DEF SwapHalfDone, Returned, resRequest, GuardTypes, Jobs
    <3>2. mode'[h] = "none" /\ \A k \in Guards : k # h => mode'[k] = mode[k] /\ mAlloc'[k] = mAlloc[k]
      BY <1>1, <2>3, <3>1 DEF SwapHalfDone, NothingHeld, GuardTypes
    <3>3. g # h
      BY <1>3, <3>2
    <3>4. Granted(g)
      BY <1>3, <3>2, <3>3 DEF Settled
    <3> QED BY <1>3, <3>1, <3>4 DEF WriteModes
  <2>4. CASE RequestReturns(t)
    <3> DEFINE h == job[t].guard
    <3>1. /\ h \in Guards /\ job[t].stage = "request" /\ pc[t] = "run"
          /\ writer' = writer
      BY <1>1, <2>4 DEF RequestReturns, Returned, rwVars, GuardTypes, Jobs
    <3>2. \A k \in Guards : k # h => mode'[k] = mode[k] /\ mAlloc'[k] = mAlloc[k]
      BY <1>1, <2>4, <3>1 DEF RequestReturns, GuardTypes
    <3>3. CASE g # h
      <4>1. Granted(g)
        BY <1>3, <3>2, <3>3 DEF Settled
      <4> QED BY <1>3, <3>1, <4>1 DEF WriteModes
    <3>4. CASE g = h
      <4>1. ~mAlloc[g]
        BY <2>0, <3>1, <3>4 DEF Balanced, Balance
      <4>2. rez[t] = "OK"
        BY <1>3, <2>4, <4>1 DEF RequestReturns, Settled
      <4>3. job[t].write
        BY <1>1, <1>3, <2>4, <3>1, <3>4, <4>2 DEF RequestReturns, GuardTypes
      <4> QED BY <2>0, <3>1, <4>2, <4>3 DEF WriteCalls
    <3> QED BY <3>3, <3>4
  <2>5. CASE ReleaseReturns(t)
    <3> DEFINE h == job[t].guard
    <3>1. h \in Guards /\ writer' = writer
      BY <1>1, <2>5 DEF ReleaseReturns, rwVars, GuardTypes, Jobs
    <3>2. mode'[h] = "none" /\ \A k \in Guards : k # h => mode'[k] = mode[k] /\ mAlloc'[k] = mAlloc[k]
      BY <1>1, <2>5, <3>1 DEF ReleaseReturns, NothingHeld, GuardTypes
    <3>3. g # h
      BY <1>3, <3>2
    <3>4. Granted(g)
      BY <1>3, <3>2, <3>3 DEF Settled
    <3> QED BY <1>3, <3>1, <3>4 DEF WriteModes
  <2>6. CASE RunLock(t)
    <3>1. InsideCall(t) /\ UNCHANGED <<mAlloc, mode, job>>
      BY <2>0, <2>6 DEF RunLock
    <3>2. writer = t
      BY <1>3, <3>1 DEF Settled, WriteModes
    <3> QED BY <3>1, <3>2 DEF InsideCall, CheckOwner, LockForReading, LockForWriting,
        RwlockRefuses, TimesOut, MarkWriter, CompareMark, ClearMark
  <2> QED BY <2>1, <2>2, <2>3, <2>4, <2>5, <2>6 DEF GuardStep
<1> QED BY <1>2, <1>3 DEF WriteModes

AloneInv == LockExcludes /\ WriteCalls /\ WriteModes

\* Nothing is granted at first.
LEMMA InitAlone == AllocInit => AloneInv
<1> SUFFICES ASSUME AllocInit PROVE AloneInv
  OBVIOUS
<1>1. LockExcludes
  BY DEF AllocInit, RWInit, LockExcludes
<1>2. WriteCalls
  BY GuardedAreThreads DEF AllocInit, NoJob, WriteCalls
<1>3. WriteModes
  BY DEF AllocInit, WriteModes
<1> QED BY <1>1, <1>2, <1>3 DEF AloneInv

\* Every step keeps the three parts.
LEMMA StepKeepsAlone ==
  ASSUME AllocInv, Balanced, AloneInv, [AllocNext]_allocVars
  PROVE  AloneInv'
<1>1. LockExcludes'
  BY AllocTypeParts, AllocStepIsRWStep, LockStepExcludes DEF AllocInv, AloneInv
<1>2. CASE UNCHANGED allocVars
  <2>1. WriteCalls'
    BY <1>2 DEF AloneInv, WriteCalls, allocVars, rwVars
  <2>2. WriteModes'
    BY <1>2 DEF AloneInv, WriteModes, Settled, allocVars, rwVars
  <2> QED BY <1>1, <2>1, <2>2 DEF AloneInv
<1>3. CASE AllocNext
  BY <1>1, <1>3, StepHasThread, StepKeepsWriteCalls, StepKeepsWriteModes DEF AloneInv
<1> QED BY <1>2, <1>3

\* While a guard is granted writing, no other guard is granted anything and
\* no other thread holds the lock, also while others are halfway through a
\* release or a change of mode.
THEOREM WriteGuardAloneAlways == AllocSpec => []WriteGuardAlone
<1>1. AllocInv /\ Balanced /\ AloneInv => WriteGuardAlone
  BY ExclusionFromParts DEF AllocInv, AloneInv
<1> QED BY <1>1, InitAlone, StepKeepsAlone, AllocInvAlways, BalancedAlways, PTL
    DEF AllocSpec
=============================================================================
