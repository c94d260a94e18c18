------------------------------ MODULE MtxAlloc ------------------------------
(***************************************************************************)
(* The guards MtxAlloc over one ResMtx (base/thread/t_resalloc.cpp and     *)
(* t_resalloc.h).  A guard lives on the stack of its thread and remembers  *)
(* in mLock whether it has locked the mutex; only its own thread reads     *)
(* mLock, so a call that does not wait is one step.                        *)
(*                                                                         *)
(* The constructor with iLock is `lock` on a guard that holds nothing, the *)
(* destructor is `unlock`.  A call on a guard that is already in the state *)
(* asked for returns 0 at once: a stuttering step.                         *)
(***************************************************************************)
EXTENDS Integers, FiniteSets

CONSTANTS
  Threads,
  NoThread,
  Guards,
  Owner       \* the thread each guard belongs to

ASSUME MtxAssumption ==
  /\ NoThread \notin Threads
  /\ Guards # {} /\ IsFiniteSet(Guards)
  /\ Owner \in [Guards -> Threads]

VARIABLES
  isRecurs,       \* the mutex: was it made recursive?
  holder, depth,  \* who has locked it, and how often
  mLock,          \* MtxAlloc::mLock
  pc,             \* where each thread is, "run" outside the calls
  call            \* the guard a thread in `lock` is locking

mutexVars == <<holder, depth>>
mtxVars   == <<isRecurs, mutexVars, mLock, pc, call>>

AnyGuard == CHOOSE g \in Guards : TRUE

MtxInit ==
  /\ isRecurs \in BOOLEAN
  /\ holder = NoThread /\ depth = 0
  /\ mLock = [g \in Guards |-> FALSE]
  /\ pc = [t \in Threads |-> "run"]
  /\ call = [t \in Threads |-> AnyGuard]

Goto(t, place) == pc' = [pc EXCEPT ![t] = place]
GuardsOf(t)    == {g \in Guards : Owner[g] = t /\ mLock[g]}

-----------------------------------------------------------------------------
\* pthread_mutex_lock and pthread_mutex_unlock.
Free(t) == holder = NoThread \/ (isRecurs /\ holder = t)

Take(t) == holder' = t /\ depth' = depth + 1

Give_All ==  \* mutant: a recursive mutex is given back whole
  /\ depth' = 0 /\ holder' = NoThread

Give ==
  /\ depth' = depth - 1
  /\ holder' = IF depth = 1 THEN NoThread ELSE holder

-----------------------------------------------------------------------------
\* A thread that locks a mutex that is not recursive a second time waits for
\* itself; programs do not.
lock(g) ==
  LET t == Owner[g]
  IN
  /\ pc[t] = "run" /\ ~mLock[g]
  /\ GuardsOf(t) # {} => isRecurs
  /\ Goto(t, "lock")
  /\ call' = [call EXCEPT ![t] = g]
  /\ UNCHANGED <<isRecurs, mutexVars, mLock>>

LockReturns(t) ==
  /\ pc[t] = "lock" /\ Free(t)
  /\ Take(t)
  /\ mLock' = [mLock EXCEPT ![call[t]] = TRUE]
  /\ Goto(t, "run")
  /\ call' = [call EXCEPT ![t] = AnyGuard]
  /\ UNCHANGED isRecurs

\* EBUSY leaves the guard as it is.
tryLock_Ignores(g) ==  \* mutant: the result of trylock is not looked at
  /\ pc[Owner[g]] = "run" /\ ~mLock[g]
  /\ IF Free(Owner[g]) THEN Take(Owner[g]) ELSE UNCHANGED mutexVars
  /\ mLock' = [mLock EXCEPT ![g] = TRUE]
  /\ UNCHANGED <<isRecurs, pc, call>>

tryLock(g) ==
  /\ pc[Owner[g]] = "run" /\ ~mLock[g]
  /\ Free(Owner[g])
  /\ Take(Owner[g])
  /\ mLock' = [mLock EXCEPT ![g] = TRUE]
  /\ UNCHANGED <<isRecurs, pc, call>>

\* `unlock`, also by the destructor.
unlock(g) ==
  /\ pc[Owner[g]] = "run" /\ mLock[g]
  /\ Give
  /\ mLock' = [mLock EXCEPT ![g] = FALSE]
  /\ UNCHANGED <<isRecurs, pc, call>>

GuardCall(g) == lock(g) \/ tryLock(g) \/ unlock(g)

=============================================================================
