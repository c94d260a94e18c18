------------------------------ MODULE ResAlloc ------------------------------
(***************************************************************************)
(* The guards ResAlloc (base/thread/t_resalloc.cpp) of threads that share  *)
(* one ResRW with threads that call it themselves.  A guard lives on the   *)
(* stack of its thread; its calls are sequences of ResRW calls, and other  *)
(* threads run between the steps.                                          *)
(*                                                                         *)
(* The two constructors are `request` on a guard that holds nothing; when  *)
(* it throws there is no guard to destroy.  The destructor is `release` if *)
(* mAlloc is set.                                                          *)
(***************************************************************************)
EXTENDS ResRW, FiniteSets

CONSTANTS
  Guards,
  Owner     \* the thread each guard belongs to

ASSUME GuardAssumption ==
  /\ Guards # {} /\ IsFiniteSet(Guards)
  /\ Owner \in [Guards -> Threads]

VARIABLES
  mAlloc,   \* ResAlloc::mAlloc
  mode,     \* history: what each guard was granted, "none" if nothing
  job       \* the guard call each thread is in, and its arguments

allocVars == <<rwVars, mAlloc, mode, job>>

Stages == {"none", "swap", "request", "release"}

NoJob == [guard |-> CHOOSE g \in Guards : TRUE, stage |-> "none",
          write |-> FALSE, timed |-> FALSE]

AllocInit ==
  /\ RWInit
  /\ mAlloc = [g \in Guards |-> FALSE]
  /\ mode = [g \in Guards |-> "none"]
  /\ job = [t \in Threads |-> NoJob]

GuardsOf(t) == {g \in Guards : Owner[g] = t /\ mAlloc[g]}

Leave(t) == job' = [job EXCEPT ![t] = NoJob]
Returned(t, stage) == job[t].stage = stage /\ pc[t] = "run"

NothingHeld(g) ==
  /\ mAlloc' = [mAlloc EXCEPT ![g] = FALSE]
  /\ mode' = [mode EXCEPT ![g] = "none"]

\* ResAlloc::request: what the guard holds is given back first.
request(g, write, timed) ==
  LET t == Owner[g]
      enter(stage) == job' = [job EXCEPT ![t] =
        [guard |-> g, stage |-> stage, write |-> write, timed |-> timed]]
  IN
  /\ job[t].stage = "none" /\ pc[t] = "run"
  /\ write /\ (\E other \in GuardsOf(t) \ {g} : mode[other] = "read") => Upgrades
  /\ IF mAlloc[g] THEN resRelease(t) /\ enter("swap")
                  ELSE resRequest(t, write, timed) /\ enter("request")
  /\ UNCHANGED <<mAlloc, mode>>

\* Other threads may take the lock before the second half gets it again.
SwapHalfDone(t) ==
  /\ Returned(t, "swap")
  /\ NothingHeld(job[t].guard)
  /\ resRequest(t, job[t].write, job[t].timed)
  /\ job' = [job EXCEPT ![t].stage = "request"]

\* A TError passes through request, which catches only const char*.
RequestReturns_Swallows(t) ==  \* mutant: the exception is caught and dropped
  /\ Returned(t, "request")
  /\ LET g == job[t].guard
     IN /\ mAlloc' = [mAlloc EXCEPT ![g] = TRUE]
        /\ mode' = [mode EXCEPT ![g] = IF job[t].write THEN "write" ELSE "read"]
  /\ Leave(t)
  /\ UNCHANGED rwVars

RequestReturns(t) ==
  /\ Returned(t, "request")
  /\ LET g == job[t].guard
     IN IF rez[t] = "OK"
          THEN /\ mAlloc' = [mAlloc EXCEPT ![g] = TRUE]
               /\ mode' = [mode EXCEPT ![g] = IF job[t].write THEN "write" ELSE "read"]
          ELSE UNCHANGED <<mAlloc, mode>>
  /\ Leave(t)
  /\ UNCHANGED rwVars

\* ResAlloc::release, and the destructor.
release(g) ==
  LET t == Owner[g]
  IN
  /\ job[t].stage = "none" /\ mAlloc[g]
  /\ resRelease(t)
  /\ job' = [job EXCEPT ![t] = [NoJob EXCEPT !.guard = g, !.stage = "release"]]
  /\ UNCHANGED <<mAlloc, mode>>

ReleaseReturns(t) ==
  /\ Returned(t, "release")
  /\ NothingHeld(job[t].guard)
  /\ Leave(t)
  /\ UNCHANGED rwVars

Guarded == {Owner[g] : g \in Guards}

RunLock(t) ==
  /\ InsideCall(t) \/ (t \notin Guarded /\ DirectCall(t))
  /\ UNCHANGED <<mAlloc, mode, job>>

AllocNext ==
  \/ \E g \in Guards :
       \/ \E write, timed \in BOOLEAN : request(g, write, timed)
       \/ release(g)
  \/ \E t \in Threads :
       SwapHalfDone(t) \/ RequestReturns(t) \/ ReleaseReturns(t) \/ RunLock(t)

AllocSpec == AllocInit /\ [][AllocNext]_allocVars

-----------------------------------------------------------------------------
\* Every variable has its type, and a thread that uses guards is inside a call
\* of the lock only on behalf of one.
AllocTypeOK ==
  /\ RWTypeOK
  /\ mAlloc \in [Guards -> BOOLEAN]
  /\ mode \in [Guards -> {"none", "read", "write"}]
  /\ job \in [Threads -> [guard : Guards, stage : Stages,
                       write : BOOLEAN, timed : BOOLEAN]]
  /\ \A g \in Guards : mAlloc[g] <=> mode[g] # "none"
  /\ \A t \in Guarded : job[t].stage = "none" => pc[t] = "run"

\* Between its calls a thread holds the lock exactly as often as its guards
\* say: a request that threw, timed out or changed mode leaves no lock behind
\* that no destructor gives back, and no guard that gives back another's.
GuardsMatchLock ==
  \A t \in Guarded : job[t].stage = "none" =>
    Cardinality(GuardsOf(t)) = readers[t] + (IF writer = t THEN 1 ELSE 0)

\* While a guard is granted writing no other guard is granted anything and no
\* other thread holds the lock, even while others are halfway through a
\* release or a change of mode.
Settled(g) ==
  mAlloc[g] /\ (job[Owner[g]].guard = g => job[Owner[g]].stage = "none")

WriteGuardAlone ==
  \A g, h \in Guards :
    Settled(g) /\ Settled(h) /\ mode[g] = "write" =>
      g = h /\ \A t \in Threads : Holds(t) => t = Owner[g]
=============================================================================
