--------------------------- MODULE ResCond_proofs ---------------------------
(***************************************************************************)
(* A guard believes it has locked the mutex exactly when it has, and       *)
(* guards, mutex and condition together implement a monitor, for any       *)
(* number of threads and any finite set of guards.                         *)
(***************************************************************************)
EXTENDS ResCond, FiniteSetTheorems, TLAPS

Claims(t) == Cardinality(GuardsOf(t))
Held(t)   == IF holder = t THEN depth ELSE 0

\* Somebody holds the mutex when its count is not 0.
HeldBySomebody == holder = NoThread <=> depth = 0

\* A thread in `lock` is locking a guard of its own that is not locked.
LocksOwn ==
  \A t \in Threads : pc[t] = "lock" => Owner[call[t]] = t /\ ~mLock[call[t]]

CondInv == CondTypeOK /\ HeldBySomebody /\ LocksOwn /\ GuardsMatchMutex

\* If threads wait with one guard locked, a sleeper does not hold the mutex.
SleepersAreOut == ~NestedWait => \A t \in Away : holder # t

-----------------------------------------------------------------------------
\* How the count of a thread's locked guards follows the flags.
LEMMA ClaimsIsNat ==
  ASSUME NEW t \in Threads
  PROVE  IsFiniteSet(GuardsOf(t)) /\ Claims(t) \in Nat
<1>1. GuardsOf(t) \subseteq Guards
  BY DEF GuardsOf
<1> QED BY <1>1, MtxAssumption, FS_Subset, FS_CardinalityType DEF Claims

\* And so it is after a step.
LEMMA ClaimsIsNatAfter ==
  ASSUME NEW t \in Threads
  PROVE  IsFiniteSet(GuardsOf(t)') /\ Claims(t)' \in Nat
<1>1. GuardsOf(t)' \subseteq Guards
  BY DEF GuardsOf
<1> QED BY <1>1, MtxAssumption, FS_Subset, FS_CardinalityType DEF Claims

\* Locking a guard adds one to the claims of its owner.
LEMMA GuardLocked ==
  ASSUME CondTypeOK, NEW g \in Guards, ~mLock[g], mLock' = [mLock EXCEPT ![g] = TRUE]
  PROVE  \A s \in Threads :
           Claims(s)' = IF s = Owner[g] THEN Claims(s) + 1 ELSE Claims(s)
<1> TAKE s \in Threads
<1>1. CASE s = Owner[g]
  <2>1. GuardsOf(s)' = GuardsOf(s) \cup {g} /\ g \notin GuardsOf(s)
    BY <1>1 DEF GuardsOf, CondTypeOK
  <2> QED BY <1>1, <2>1, ClaimsIsNat, FS_AddElement DEF Claims
<1>2. CASE s # Owner[g]
  <2>1. GuardsOf(s)' = GuardsOf(s)
    BY <1>2 DEF GuardsOf, CondTypeOK
  <2> QED BY <1>2, <2>1 DEF Claims
<1> QED BY <1>1, <1>2

\* Unlocking it takes one away.
LEMMA GuardUnlocked ==
  ASSUME CondTypeOK, NEW g \in Guards, mLock[g], mLock' = [mLock EXCEPT ![g] = FALSE]
  PROVE  /\ Claims(Owner[g]) >= 1
         /\ \A s \in Threads :
              Claims(s)' = IF s = Owner[g] THEN Claims(s) - 1 ELSE Claims(s)
<1>0. Owner[g] \in Threads
  BY MtxAssumption
<1>1. GuardsOf(Owner[g])' = GuardsOf(Owner[g]) \ {g} /\ g \in GuardsOf(Owner[g])
  BY DEF GuardsOf, CondTypeOK
<1>2. Claims(Owner[g])' = Claims(Owner[g]) - 1
  BY <1>0, <1>1, ClaimsIsNat, FS_RemoveElement DEF Claims
<1>3. ASSUME NEW s \in Threads, s # Owner[g]
      PROVE  Claims(s)' = Claims(s)
  <2>1. GuardsOf(s)' = GuardsOf(s)
    BY <1>3 DEF GuardsOf, CondTypeOK
  <2> QED BY <2>1 DEF Claims
<1>4. Claims(Owner[g]) >= 1
  BY <1>0, <1>2, ClaimsIsNat, ClaimsIsNatAfter
<1> QED BY <1>2, <1>3, <1>4

\* Without a change of the flags the claims stay.
LEMMA SameClaims ==
  ASSUME mLock' = mLock
  PROVE  \A s \in Threads : Claims(s)' = Claims(s)
BY DEF Claims, GuardsOf

\* A thread that finds the mutex free for it holds it once more afterwards.
LEMMA TakenOnce ==
  ASSUME CondTypeOK, HeldBySomebody, NEW t \in Threads, Free(t), Take(t)
  PROVE  /\ depth' \in Nat /\ holder' \in Threads /\ HeldBySomebody'
         /\ \A s \in Threads : Held(s)' = IF s = t THEN Held(s) + 1 ELSE Held(s)
BY MtxAssumption DEF CondTypeOK, HeldBySomebody, Free, Take, Held

\* The holder that gives it back holds it once less.
LEMMA GivenOnce ==
  ASSUME CondTypeOK, HeldBySomebody, NEW t \in Threads, holder = t, Give
  PROVE  /\ depth' \in Nat /\ holder' \in Threads \cup {NoThread}
         /\ HeldBySomebody'
         /\ \A s \in Threads : Held(s)' = IF s = t THEN Held(s) - 1 ELSE Held(s)
BY MtxAssumption DEF CondTypeOK, HeldBySomebody, Give, Held

\* GuardsMatchMutex in terms of Claims and Held, before and after a step.
LEMMA MatchIsCount ==
  /\ GuardsMatchMutex <=>
       \A t \in Threads : Claims(t) = Held(t) + (IF t \in Away THEN 1 ELSE 0)
  /\ GuardsMatchMutex' <=>
       \A t \in Threads : Claims(t)' = Held(t)' + (IF t \in Away' THEN 1 ELSE 0)
BY DEF GuardsMatchMutex, Locked, Claims, Held

\* What a thread holds is a number.
LEMMA HeldIsNat ==
  ASSUME CondTypeOK, NEW t \in Threads
  PROVE  Held(t) \in Nat
BY DEF CondTypeOK, Held

-----------------------------------------------------------------------------
\* One action after the other keeps the invariant.
LEMMA LockKeepsInv ==
  ASSUME CondInv, NEW g \in Guards, lock(g), UNCHANGED <<until, now>>
  PROVE  CondInv'
<1> DEFINE t == Owner[g]
<1>0. t \in Threads
  BY MtxAssumption
<1>1. CondTypeOK'
  BY <1>0 DEF CondInv, CondTypeOK, lock, Goto, mutexVars
<1>2. HeldBySomebody'
  BY DEF CondInv, HeldBySomebody, lock, mutexVars
<1>3. LocksOwn'
  BY <1>0 DEF CondInv, CondTypeOK, LocksOwn, lock, Goto, mutexVars
<1>4. Away' = Away
  BY <1>0 DEF Away, lock, Goto, CondInv, CondTypeOK
<1>5. \A s \in Threads : Claims(s)' = Claims(s) /\ Held(s)' = Held(s)
  BY SameClaims DEF lock, mutexVars, Held
<1>6. GuardsMatchMutex'
  BY <1>4, <1>5, MatchIsCount DEF CondInv
<1> QED BY <1>1, <1>2, <1>3, <1>6 DEF CondInv

\* `lock` returns: the mutex is held once more, and so is one more guard locked.
LEMMA LockReturnsKeepsInv ==
  ASSUME CondInv, NEW t \in Threads, LockReturns(t), UNCHANGED <<until, now>>
  PROVE  CondInv'
<1> DEFINE g == call[t]
<1>0. g \in Guards /\ Owner[g] = t /\ ~mLock[g]
  BY DEF CondInv, CondTypeOK, LocksOwn, LockReturns
<1>a. AnyGuard \in Guards
  BY MtxAssumption DEF AnyGuard
<1>1. /\ depth' \in Nat /\ holder' \in Threads /\ HeldBySomebody'
      /\ \A s \in Threads : Held(s)' = IF s = t THEN Held(s) + 1 ELSE Held(s)
  BY TakenOnce DEF CondInv, LockReturns
<1>2. CondTypeOK'
  BY <1>0, <1>a, <1>1 DEF CondInv, CondTypeOK, LockReturns, Goto
<1>3. LocksOwn'
  BY <1>0 DEF CondInv, CondTypeOK, LocksOwn, LockReturns, Goto
<1>4. Away' = Away
  BY DEF Away, LockReturns, Goto, CondInv, CondTypeOK
<1>5. \A s \in Threads : Claims(s)' = IF s = t THEN Claims(s) + 1 ELSE Claims(s)
  BY <1>0, GuardLocked DEF CondInv, LockReturns
<1>6. t \notin Away
  BY DEF Away, LockReturns
<1>7. GuardsMatchMutex'
  BY <1>1, <1>4, <1>5, <1>6, MatchIsCount, HeldIsNat DEF CondInv
<1> QED BY <1>1, <1>2, <1>3, <1>7 DEF CondInv

\* tryLock on a mutex that is free for its thread does the same at once.
LEMMA TryLockKeepsInv ==
  ASSUME CondInv, NEW g \in Guards, tryLock(g), UNCHANGED <<until, now>>
  PROVE  CondInv'
<1> DEFINE t == Owner[g]
<1>0. t \in Threads
  BY MtxAssumption
<1>1. /\ depth' \in Nat /\ holder' \in Threads /\ HeldBySomebody'
      /\ \A s \in Threads : Held(s)' = IF s = t THEN Held(s) + 1 ELSE Held(s)
  BY <1>0, TakenOnce DEF CondInv, tryLock
<1>2. CondTypeOK'
  BY <1>0, <1>1 DEF CondInv, CondTypeOK, tryLock
<1>3. LocksOwn'
  BY <1>0 DEF CondInv, CondTypeOK, LocksOwn, tryLock
<1>4. Away' = Away /\ t \notin Away
  BY DEF Away, tryLock
<1>5. \A s \in Threads : Claims(s)' = IF s = t THEN Claims(s) + 1 ELSE Claims(s)
  BY GuardLocked DEF CondInv, tryLock
<1>7. GuardsMatchMutex'
  BY <1>0, <1>1, <1>4, <1>5, MatchIsCount, HeldIsNat DEF CondInv
<1> QED BY <1>1, <1>2, <1>3, <1>7 DEF CondInv

\* The thread of a locked guard that is outside the calls holds the mutex.
LEMMA LockedGuardHolds ==
  ASSUME CondInv, NEW t \in Threads, t \notin Away, GuardsOf(t) # {}
  PROVE  holder = t
<1>1. Claims(t) # 0
  BY ClaimsIsNat, FS_EmptySet DEF Claims
<1>2. Held(t) # 0
  BY <1>1, MatchIsCount, HeldIsNat DEF CondInv
<1> QED BY <1>2 DEF Held

\* unlock: one guard and one lock of the mutex less.
LEMMA UnlockKeepsInv ==
  ASSUME CondInv, NEW g \in Guards, unlock(g), UNCHANGED <<until, now>>
  PROVE  CondInv'
<1> DEFINE t == Owner[g]
<1>0. t \in Threads /\ g \in GuardsOf(t)
  BY MtxAssumption DEF unlock, GuardsOf
<1>4. Away' = Away /\ t \notin Away
  BY DEF Away, unlock
<1>8. holder = t
  BY <1>0, <1>4, LockedGuardHolds
<1>1. /\ depth' \in Nat /\ holder' \in Threads \cup {NoThread} /\ HeldBySomebody'
      /\ \A s \in Threads : Held(s)' = IF s = t THEN Held(s) - 1 ELSE Held(s)
  BY <1>0, <1>8, GivenOnce DEF CondInv, unlock
<1>2. CondTypeOK'
  BY <1>0, <1>1 DEF CondInv, CondTypeOK, unlock
<1>3. LocksOwn'
  BY <1>0 DEF CondInv, CondTypeOK, LocksOwn, unlock
<1>5. \A s \in Threads : Claims(s)' = IF s = t THEN Claims(s) - 1 ELSE Claims(s)
  BY GuardUnlocked DEF CondInv, unlock
<1>7. GuardsMatchMutex'
  BY <1>0, <1>1, <1>4, <1>5, MatchIsCount, HeldIsNat DEF CondInv
<1> QED BY <1>1, <1>2, <1>3, <1>7 DEF CondInv

\* wait and timeWait: the mutex is held once less, the claims stay.
LEMMA SleepKeepsInv ==
  ASSUME CondInv, NEW t \in Threads,
         wait(t) \/ \E msec \in Msecs : timeWait(t, msec)
  PROVE  CondInv'
<1>0. PICK place \in {"wait", "timeWait"} : FallsAsleep(t, place)
  BY DEF wait, timeWait
<1>a. UNCHANGED <<isRecurs, mLock, call, now>>
  BY DEF wait, timeWait
<1>b. until' \in [Threads -> TimeSpec]
  <2>1. CASE wait(t)
    BY <2>1 DEF wait, CondInv, CondTypeOK
  <2>2. ASSUME NEW msec \in Msecs, timeWait(t, msec)
        PROVE  until' \in [Threads -> TimeSpec]
    <3>1. msec \in Nat /\ now \in Nat
      BY CondAssumption DEF CondInv, CondTypeOK
    <3>2. timespecOf(msec) \in TimeSpec
      BY <3>1, CondAssumption DEF timespecOf, TimeSpec
    <3> QED BY <2>2, <3>1, <3>2 DEF timeWait, CondInv, CondTypeOK
  <2> QED BY <2>1, <2>2
<1>1. /\ depth' \in Nat /\ holder' \in Threads \cup {NoThread} /\ HeldBySomebody'
      /\ \A s \in Threads : Held(s)' = IF s = t THEN Held(s) - 1 ELSE Held(s)
  BY <1>0, GivenOnce DEF CondInv, FallsAsleep
<1>2. CondTypeOK'
  BY <1>0, <1>a, <1>b, <1>1 DEF CondInv, CondTypeOK, FallsAsleep, Goto
<1>3. LocksOwn'
  BY <1>0, <1>a DEF CondInv, CondTypeOK, LocksOwn, FallsAsleep, Goto
<1>4. Away' = Away \cup {t} /\ t \notin Away
  BY <1>0 DEF Away, FallsAsleep, Goto, CondInv, CondTypeOK
<1>5. \A s \in Threads : Claims(s)' = Claims(s)
  BY <1>a, SameClaims
<1>7. GuardsMatchMutex'
  BY <1>1, <1>4, <1>5, MatchIsCount, HeldIsNat DEF CondInv
<1> QED BY <1>1, <1>2, <1>3, <1>7 DEF CondInv

\* A sleeper that wakes, and all of them, stay away.
LEMMA WakeKeepsInv ==
  ASSUME CondInv, (\E t \in Threads : Wake(t)) \/ (\E t \in Threads : broadCast(t))
  PROVE  CondInv' /\ Away' = Away /\ UNCHANGED mutexVars /\ mLock' = mLock
<1>1. UNCHANGED <<isRecurs, mutexVars, mLock, call, now>>
  BY DEF Wake, broadCast
<1>2. CondTypeOK'
  <2>1. ASSUME NEW t \in Threads, Wake(t)
        PROVE  CondTypeOK'
    BY <2>1 DEF Wake, Goto, CondInv, CondTypeOK, Never, TimeSpec, mutexVars
  <2>2. ASSUME NEW t \in Threads, broadCast(t)
        PROVE  CondTypeOK'
    BY <2>2 DEF broadCast, CondInv, CondTypeOK, Never, TimeSpec, mutexVars
  <2> QED BY <2>1, <2>2
<1>3. Away' = Away
  BY DEF Away, Asleep, Wake, broadCast, Goto, CondInv, CondTypeOK
<1>4. LocksOwn'
  BY <1>1 DEF LocksOwn, Asleep, Wake, broadCast, Goto, CondInv, CondTypeOK
<1>5. \A s \in Threads : Claims(s)' = Claims(s) /\ Held(s)' = Held(s)
  BY <1>1, SameClaims DEF Held, mutexVars
<1>6. HeldBySomebody' /\ GuardsMatchMutex'
  BY <1>1, <1>3, <1>5, MatchIsCount DEF CondInv, HeldBySomebody, mutexVars
<1> QED BY <1>1, <1>2, <1>3, <1>4, <1>6 DEF CondInv

\* A wait returns: the thread is back, and holds the mutex once more.
LEMMA WaitReturnsKeepsInv ==
  ASSUME CondInv, NEW t \in Threads, WaitReturns(t)
  PROVE  CondInv' /\ Away' = Away \ {t} /\ t \in Away
<1>1. /\ depth' \in Nat /\ holder' \in Threads /\ HeldBySomebody'
      /\ \A s \in Threads : Held(s)' = IF s = t THEN Held(s) + 1 ELSE Held(s)
  BY TakenOnce DEF CondInv, WaitReturns
<1>2. CondTypeOK'
  BY <1>1 DEF CondInv, CondTypeOK, WaitReturns, Goto
<1>3. LocksOwn'
  BY DEF CondInv, CondTypeOK, LocksOwn, WaitReturns, Goto
<1>4. Away' = Away \ {t} /\ t \in Away
  BY DEF Away, WaitReturns, Goto, CondInv, CondTypeOK
<1>5. \A s \in Threads : Claims(s)' = Claims(s)
  BY SameClaims DEF WaitReturns
<1>6. GuardsMatchMutex'
  BY <1>1, <1>4, <1>5, MatchIsCount, HeldIsNat DEF CondInv
<1> QED BY <1>1, <1>2, <1>3, <1>4, <1>6 DEF CondInv

-----------------------------------------------------------------------------
\* The clock and stuttering steps touch nothing the invariant speaks about.
LEMMA IdleKeepsInv ==
  ASSUME CondInv, Tick \/ UNCHANGED condVars
  PROVE  CondInv' /\ Away' = Away /\ holder' = holder
<1>1. UNCHANGED <<mtxVars, until>>
  BY DEF Tick, condVars
<1>2. now' \in Nat
  BY DEF Tick, condVars, CondInv, CondTypeOK
<1>3. UNCHANGED <<isRecurs, holder, depth, mLock, pc, call, until>>
  BY <1>1 DEF mtxVars, mutexVars
<1>4. CondTypeOK' /\ HeldBySomebody' /\ LocksOwn'
  BY <1>2, <1>3 DEF CondInv, CondTypeOK, HeldBySomebody, LocksOwn
<1>5. Away' = Away
  BY <1>3 DEF Away
<1>6. \A s \in Threads : Claims(s)' = Claims(s) /\ Held(s)' = Held(s)
  BY <1>3, SameClaims DEF Held
<1>7. GuardsMatchMutex'
  BY <1>5, <1>6, MatchIsCount DEF CondInv
<1> QED BY <1>3, <1>4, <1>5, <1>7 DEF CondInv

\* The invariant holds at first and every step keeps it.
LEMMA InitGivesInv == CondInit => CondInv
<1> SUFFICES ASSUME CondInit PROVE CondInv
  OBVIOUS
<1>1. CondTypeOK
  BY MtxAssumption, CondAssumption
     DEF CondInit, MtxInit, CondTypeOK, AnyGuard, TimeSpec, Never
<1>2. HeldBySomebody /\ LocksOwn
  BY DEF CondInit, MtxInit, HeldBySomebody, LocksOwn
<1>3. ASSUME NEW t \in Threads
      PROVE  Claims(t) = 0 /\ Held(t) = 0 /\ t \notin Away
  <2>1. GuardsOf(t) = {}
    BY DEF CondInit, MtxInit, GuardsOf
  <2> QED BY <2>1, FS_EmptySet DEF Claims, Held, Away, CondInit, MtxInit
<1>4. GuardsMatchMutex
  BY <1>3, MatchIsCount
<1> QED BY <1>1, <1>2, <1>4 DEF CondInv

\* Every step keeps it.
LEMMA NextKeepsInv ==
  ASSUME CondInv, [CondNext]_condVars
  PROVE  CondInv'
<1>1. CASE GuardStep
  BY <1>1, LockKeepsInv, LockReturnsKeepsInv, TryLockKeepsInv, UnlockKeepsInv
     DEF GuardStep, GuardCall
<1>2. ASSUME NEW t \in Threads, CondStep(t)
      PROVE  CondInv'
  <2>1. CASE wait(t) \/ \E msec \in Msecs : timeWait(t, msec)
    BY <2>1, SleepKeepsInv
  <2>2. CASE (\E s \in Threads : Signals(t, s)) \/ TimesOut(t) \/ Wake(t)
    BY <2>2, WakeKeepsInv DEF Signals, TimesOut
  <2>3. CASE broadCast(t)
    BY <2>3, WakeKeepsInv
  <2>4. CASE WaitReturns(t)
    BY <2>4, WaitReturnsKeepsInv
  <2> QED BY <1>2, <2>1, <2>2, <2>3, <2>4 DEF CondStep
<1>3. CASE Tick \/ UNCHANGED condVars
  BY <1>3, IdleKeepsInv
<1> QED BY <1>1, <1>2, <1>3 DEF CondNext

\* The invariant holds whatever the threads, the guards and the timeouts are.
THEOREM CondInvariant == CondSpec => []CondInv
BY InitGivesInv, NextKeepsInv, PTL DEF CondSpec

\* The variables of guards, mutex and condition keep their types.
THEOREM CondTypeCorrect == CondSpec => []CondTypeOK
<1>1. CondInv => CondTypeOK
  BY DEF CondInv
<1> QED BY <1>1, CondInvariant, PTL

\* A guard believes it has locked the mutex exactly when it has: MtxAlloc's
\* mLock and the count of the pthread mutex never part.
THEOREM GuardsMatchMutexAlways == CondSpec => []GuardsMatchMutex
<1>1. CondInv => GuardsMatchMutex
  BY DEF CondInv
<1> QED BY <1>1, CondInvariant, PTL

-----------------------------------------------------------------------------
\* What Monitor's variables stand for.
Inside == {t \in Threads \ Away : GuardsOf(t) # {}}

\* Only the holder is inside, as long as no sleeper keeps the mutex.
LEMMA InsideIsHolder ==
  CondInv /\ SleepersAreOut /\ ~NestedWait => Inside = {t \in Threads : holder = t}
<1> SUFFICES ASSUME CondInv, SleepersAreOut, ~NestedWait
             PROVE  Inside = {t \in Threads : holder = t}
  OBVIOUS
<1>1. ASSUME NEW t \in Threads, t \in Inside
      PROVE  holder = t
  BY <1>1, LockedGuardHolds DEF Inside
<1>2. ASSUME NEW t \in Threads, holder = t
      PROVE  t \in Inside
  <2>1. t \notin Away
    BY <1>2 DEF SleepersAreOut
  <2>2. Held(t) # 0
    BY <1>2, MtxAssumption DEF CondInv, HeldBySomebody, Held
  <2>3. Claims(t) # 0
    BY <2>1, <2>2, MatchIsCount, HeldIsNat DEF CondInv
  <2>4. GuardsOf(t) # {}
    BY <2>3, FS_EmptySet DEF Claims
  <2> QED BY <2>1, <2>4 DEF Inside
<1> QED BY <1>1, <1>2 DEF Inside

\* The same after a step.
LEMMA InsideIsHolderAfter ==
  CondInv' /\ SleepersAreOut' /\ ~NestedWait => Inside' = {t \in Threads : holder' = t}
<1>1. (CondInv /\ SleepersAreOut /\ ~NestedWait
         => Inside = {t \in Threads : holder = t})'
  BY InsideIsHolder, PTL
<1> QED BY <1>1

\* What a step does to the holder and to those away, if threads wait with one
\* guard locked: one enters, leaves, lies down or comes back, or nobody does.
Entered(t)  == holder = NoThread /\ holder' = t /\ t \notin Away /\ Away' = Away
LeftFree(t) == holder = t /\ holder' = NoThread /\ t \notin Away /\ Away' = Away
LayDown(t)  == holder = t /\ holder' = NoThread /\ t \notin Away /\ Away' = Away \cup {t}
CameBack(t) == holder = NoThread /\ holder' = t /\ t \in Away /\ Away' = Away \ {t}
Stayed      == holder' = holder /\ Away' = Away

\* Every step is one of these.
LEMMA StepEffect ==
  ASSUME CondInv, SleepersAreOut, ~NestedWait, [CondNext]_condVars
  PROVE  \/ Stayed
         \/ \E t \in Threads : Entered(t) \/ LeftFree(t) \/ LayDown(t) \/ CameBack(t)
<1> DEFINE Goal == \/ Stayed
                   \/ \E t \in Threads :
                        Entered(t) \/ LeftFree(t) \/ LayDown(t) \/ CameBack(t)
<1>0. \A t \in Threads : t # NoThread
  BY MtxAssumption
<1>1. ASSUME NEW g \in Guards, GuardCall(g)
      PROVE  Goal
  <2>0. Owner[g] \in Threads
    BY MtxAssumption
  <2>1. CASE lock(g)
    <3>1. Away' = Away /\ holder' = holder
      BY <2>0, <2>1 DEF Away, lock, Goto, CondInv, CondTypeOK, mutexVars
    <3> QED BY <3>1 DEF Stayed
  <2>2. CASE tryLock(g)
    <3>1. Away' = Away /\ Owner[g] \notin Away
      BY <2>2 DEF Away, tryLock
    <3>2. holder' = Owner[g] /\ (holder = NoThread \/ holder = Owner[g])
      BY <2>2 DEF tryLock, Free, Take
    <3> QED BY <2>0, <3>1, <3>2 DEF Stayed, Entered
  <2>3. CASE unlock(g)
    <3>1. Away' = Away /\ Owner[g] \notin Away
      BY <2>3 DEF Away, unlock
    <3>2. g \in GuardsOf(Owner[g])
      BY <2>3 DEF unlock, GuardsOf
    <3>3. holder = Owner[g]
      BY <2>0, <3>1, <3>2, LockedGuardHolds
    <3>4. holder' = NoThread \/ holder' = holder
      BY <2>3 DEF unlock, Give
    <3> QED BY <2>0, <3>1, <3>3, <3>4 DEF Stayed, LeftFree
  <2> QED BY <1>1, <2>1, <2>2, <2>3 DEF GuardCall
<1>2. ASSUME NEW t \in Threads, LockReturns(t)
      PROVE  Goal
  <2>1. Away' = Away /\ t \notin Away
    BY <1>2 DEF Away, LockReturns, Goto, CondInv, CondTypeOK
  <2>2. holder' = t /\ (holder = NoThread \/ holder = t)
    BY <1>2 DEF LockReturns, Free, Take
  <2> QED BY <2>1, <2>2 DEF Stayed, Entered
<1>3. ASSUME NEW t \in Threads, wait(t) \/ \E msec \in Msecs : timeWait(t, msec)
      PROVE  Goal
  <2>1. PICK place \in {"wait", "timeWait"} : FallsAsleep(t, place)
    BY <1>3 DEF wait, timeWait
  <2>2. Away' = Away \cup {t} /\ t \notin Away
    BY <2>1 DEF Away, FallsAsleep, Goto, CondInv, CondTypeOK
  <2>3. depth = 1
    BY <2>1, <1>0 DEF FallsAsleep, CondInv, CondTypeOK, HeldBySomebody
  <2>4. holder = t /\ holder' = NoThread
    BY <2>1, <2>3 DEF FallsAsleep, Give
  <2> QED BY <2>2, <2>4 DEF LayDown
<1>4. CASE (\E t \in Threads : Wake(t)) \/ (\E t \in Threads : broadCast(t))
  BY <1>4, WakeKeepsInv DEF Stayed, mutexVars
<1>5. ASSUME NEW t \in Threads, WaitReturns(t)
      PROVE  Goal
  <2>1. Away' = Away \ {t} /\ t \in Away
    BY <1>5, WaitReturnsKeepsInv
  <2>2. holder # t
    BY <2>1 DEF SleepersAreOut
  <2>3. holder = NoThread /\ holder' = t
    BY <1>5, <2>2 DEF WaitReturns, Free, Take
  <2> QED BY <2>1, <2>3 DEF CameBack
<1>6. CASE Tick \/ UNCHANGED condVars
  BY <1>6, IdleKeepsInv DEF Stayed
<1> QED
  BY <1>1, <1>2, <1>3, <1>4, <1>5, <1>6
     DEF CondNext, GuardStep, CondStep, Signals, TimesOut

\* So no sleeper holds the mutex after it.
LEMMA NextKeepsSleepersOut ==
  ASSUME CondInv, SleepersAreOut, ~NestedWait, [CondNext]_condVars
  PROVE  SleepersAreOut'
<1>1. \A t \in Away : holder # t
  BY DEF SleepersAreOut
<1>2. Away \subseteq Threads /\ NoThread \notin Threads
  BY MtxAssumption DEF Away
<1>3. \A t \in Away' : holder' # t
  BY <1>1, <1>2, StepEffect DEF Entered, LeftFree, LayDown, CameBack, Stayed
<1> QED BY <1>3 DEF SleepersAreOut

\* Every step is a step of Monitor or leaves its variables alone.
LEMMA StepIsRoomStep ==
  ASSUME CondInv, SleepersAreOut, ~NestedWait, [CondNext]_condVars
  PROVE  [Room!Next]_(Room!vars)
<1>1. /\ Inside  = {t \in Threads : holder = t}
      /\ Inside' = {t \in Threads : holder' = t}
  BY InsideIsHolder, InsideIsHolderAfter, NextKeepsInv, NextKeepsSleepersOut
<1>2. NoThread \notin Threads /\ Away \subseteq Threads
  BY MtxAssumption DEF Away
<1>3. CASE Stayed
  <2>1. Inside' = Inside /\ Away' = Away
    BY <1>1, <1>3 DEF Stayed
  <2> QED BY <2>1 DEF Room!vars, Inside
<1>4. ASSUME NEW t \in Threads, Entered(t)
      PROVE  Room!Enter(t)
  <2>1. Inside = {} /\ Inside' = {t}
    BY <1>1, <1>2, <1>4 DEF Entered
  <2> QED BY <1>4, <2>1 DEF Entered, Room!Enter, Inside
<1>5. ASSUME NEW t \in Threads, LeftFree(t)
      PROVE  Room!Leave(t)
  <2>1. Inside = {t} /\ Inside' = {}
    BY <1>1, <1>2, <1>5 DEF LeftFree
  <2>2. t \in Inside /\ Inside' = Inside \ {t}
    BY <2>1
  <2> QED BY <1>5, <2>2 DEF LeftFree, Room!Leave, Inside
<1>6. ASSUME NEW t \in Threads, LayDown(t)
      PROVE  Room!Sleep(t)
  <2>1. Inside = {t} /\ Inside' = {}
    BY <1>1, <1>2, <1>6 DEF LayDown
  <2>2. t \in Inside /\ Inside' = Inside \ {t}
    BY <2>1
  <2> QED BY <1>6, <2>2 DEF LayDown, Room!Sleep, Inside
<1>7. ASSUME NEW t \in Threads, CameBack(t)
      PROVE  Room!Return(t)
  <2>1. Inside = {} /\ Inside' = {t}
    BY <1>1, <1>2, <1>7 DEF CameBack
  <2> QED BY <1>7, <2>1 DEF CameBack, Room!Return, Inside
<1> QED BY <1>3, <1>4, <1>5, <1>6, <1>7, StepEffect DEF Room!Next

\* Guards, mutex and condition implement the monitor, whatever the number of
\* threads and guards, if no thread waits that has locked the mutex twice.
THEOREM CondImplementsMonitor ==
  ASSUME ~NestedWait
  PROVE  CondSpec => ImplementsMonitor
<1>1. CondInit => SleepersAreOut
  BY DEF CondInit, MtxInit, SleepersAreOut, Away
<1>2. CondInit => Room!Init
  BY DEF CondInit, MtxInit, Room!Init, Away, GuardsOf
<1>3. CondInv /\ SleepersAreOut /\ [CondNext]_condVars
        => SleepersAreOut' /\ [Room!Next]_(Room!vars)
  BY NextKeepsSleepersOut, StepIsRoomStep
<1> QED
  BY <1>1, <1>2, <1>3, CondInvariant, PTL DEF CondSpec, ImplementsMonitor, Room!Spec

-----------------------------------------------------------------------------
(***************************************************************************)
(* The time that timeWait passes.                                          *)
(***************************************************************************)
LEMMA InSeconds ==
  ASSUME NEW x \in Nat
  PROVE  /\ x \div MsPerSec \in Nat /\ x % MsPerSec \in 0 .. MsPerSec - 1
         /\ x = (x \div MsPerSec) * MsPerSec + (x % MsPerSec)
<1>1. MsPerSec \in Nat \ {0}
  BY CondAssumption
<1> QED BY <1>1, Z3

LEMMA TimesMore ==
  ASSUME NEW x \in Nat, NEW y \in Nat, NEW z \in Nat, x <= y
  PROVE  x * z <= y * z
OBVIOUS

\* timeWait(mtx, msec) (t_resalloc.cpp:187) is over before it begins: the time
\* it passes to pthread_cond_timedwait has been reached at every moment that is
\* msec milliseconds or more after 1970.
THEOREM TimedWaitIsOver ==
  ASSUME NEW msec \in Nat, now \in Nat, now >= msec, NsPerMs >= 1000
  PROVE  Reached(timespecOf(msec))
<1> DEFINE a == now \div MsPerSec
           b == now % MsPerSec
           c == msec \div MsPerSec
           d == msec % MsPerSec
           k == MsPerSec
<1>1. k \in Nat /\ NsPerMs \in Nat
  BY CondAssumption
<1>2. a \in Nat /\ b \in 0 .. k - 1 /\ now = a * k + b
  BY InSeconds
<1>3. c \in Nat /\ d \in 0 .. k - 1 /\ msec = c * k + d
  BY InSeconds
<1>4. Reached(timespecOf(msec)) <=> a > c \/ (a = c /\ b * NsPerMs >= d * 1000)
  BY DEF Reached, timespecOf
<1> HIDE DEF a, b, c, d, k
<1>5. a >= c
  <2> SUFFICES ASSUME a + 1 <= c PROVE FALSE
    BY <1>2, <1>3
  <2>1. (a + 1) * k <= c * k
    BY <1>1, <1>2, <1>3, TimesMore
  <2>2. (a + 1) * k = a * k + k
    BY <1>1, <1>2
  <2>3. a * k \in Nat /\ c * k \in Nat
    BY <1>1, <1>2, <1>3
  <2> QED BY <1>1, <1>2, <1>3, <2>1, <2>2, <2>3
<1>6. ASSUME a = c PROVE b * NsPerMs >= d * 1000
  <2>1. b \in Nat /\ d \in Nat /\ d <= b
    <3>1. a * k = c * k /\ a * k \in Nat
      BY <1>1, <1>2, <1>6
    <3> QED BY <1>1, <1>2, <1>3, <3>1
  <2>2. d * NsPerMs <= b * NsPerMs
    BY <1>1, <2>1, TimesMore
  <2>3. 1000 * d <= NsPerMs * d
    BY <1>1, <2>1, TimesMore
  <2>4. NsPerMs * d = d * NsPerMs /\ 1000 * d = d * 1000
    BY <1>1, <2>1
  <2>5. b * NsPerMs \in Nat /\ d * NsPerMs \in Nat /\ d * 1000 \in Nat
    BY <1>1, <2>1
  <2> QED BY <2>2, <2>3, <2>4, <2>5
<1>7. a > c \/ a = c
  BY <1>2, <1>3, <1>5
<1> QED BY <1>4, <1>6, <1>7
=============================================================================
