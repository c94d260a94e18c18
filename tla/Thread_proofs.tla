---------------------------- MODULE Thread_proofs ----------------------------
(***************************************************************************)
(* An owner that joins each thread before it starts the next never gives a *)
(* pthread call the id of a joined thread, and neither Join() nor the      *)
(* destructor returns too early, however often the object is started.      *)
(* Threads that write the object's fields without a lock are in the way:   *)
(* what makes it work is that only the thread last started still writes    *)
(* them, and clears tid last.                                              *)
(***************************************************************************)
EXTENDS Thread, TLAPS

Over == {"leaving", "ended", "joined"}  \* places in which run1 writes no field

Destroying == {"condemned", "cancelled", "lastJoin", "gone", "crashed"}

\* Every thread but the last one started has cleared tid, and tid names that one
\* until it clears it; the destructor's cancellation may prevent it from that.
OnlyLastRuns ==
  /\ \A i \in Started : i # starts => place[i] \in Over
  /\ tid \in {0, starts}
  /\ starts > 0 /\ place[starts] \notin Over => tid = starts
  /\ starts > 0 /\ tid = starts => place[starts] \notin Over \/ cancelled # {}

\* Only the destructor cancels.
OnlyDestroyCancels == cancelled # {} => owner \in Destroying

\* A call waits for the last thread, which nobody else joins, or has been left
\* with the 0 that thread has stored.
WaitsForLast ==
  /\ owner \in {"tested", "condemned"} => target = starts
  /\ owner \in {"join", "lastJoin"} =>
       target = starts \/ (target = 0 /\ place[starts] \in Over)
  /\ owner \in {"tested", "join", "condemned", "cancelled", "lastJoin"} =>
       starts > 0 /\ place[starts] # "joined"

\* Join() has returned only if run1 writes no field any more, and so has the
\* destructor.
JoinedIsOver == joined \/ owner = "gone" => \A i \in Started : place[i] \in Over

TidyInv ==
  /\ OnlyLastRuns /\ OnlyDestroyCancels /\ WaitsForLast /\ JoinedIsOver
  /\ StatusIsLast /\ dead \subseteq {0}

ThreadInv == ThreadTypeOK /\ (tidy => TidyInv)

-----------------------------------------------------------------------------
\* The object starts in the invariant.
LEMMA InitGivesInv == ThreadInit => ThreadInv
<1> SUFFICES ASSUME ThreadInit PROVE ThreadInv
  OBVIOUS
<1>1. Started = {} /\ place \in [Started -> Places]
  BY DEF ThreadInit, Started
<1>2. /\ starts = 0 /\ tid = 0 /\ target = 0 /\ ms = 0 /\ k = 0
      /\ threadStatus = "NEW" /\ owner = "idle" /\ cancelled = {} /\ dead = {}
  BY DEF ThreadInit
<1>3. ThreadTypeOK
  <2>1. joined \in BOOLEAN /\ tidy \in BOOLEAN
    BY Zenon DEF ThreadInit
  <2> QED BY <1>1, <1>2, <2>1 DEF ThreadTypeOK
<1>4. TidyInv
  BY <1>1, <1>2 DEF TidyInv, OnlyLastRuns, OnlyDestroyCancels, WaitsForLast, JoinedIsOver,
                    StatusIsLast
<1> QED BY <1>3, <1>4 DEF ThreadInv

\* A step of a started thread keeps the types.
LEMMA ChildKeepsType ==
  ASSUME ThreadTypeOK, NEW i \in Started, ChildStep(i)
  PROVE  ThreadTypeOK'
<1>1. PICK to \in Places : GoesTo(i, to)
  BY DEF ChildStep, SetsRunning, StoresOwnId, RunReturns, SetsExit, ClearsId, Leaves,
         Stop, CancelTakesEffect, Moves, Places
<1>2. Started' = Started /\ starts' = starts
  BY <1>1 DEF GoesTo, Started
<1>3. place' \in [Started -> Places]
  BY <1>1 DEF GoesTo, ThreadTypeOK
<1>4. tid' \in 0 .. starts /\ threadStatus' \in {"NEW", "RUNNING", "EXIT"}
  BY DEF ChildStep, SetsRunning, StoresOwnId, RunReturns, SetsExit, ClearsId, Leaves,
         Stop, CancelTakesEffect, Moves, ThreadTypeOK, Started
<1>5. tidy' \in BOOLEAN
  BY DEF ChildStep, SetsRunning, StoresOwnId, RunReturns, SetsExit, ClearsId, Leaves,
         Stop, CancelTakesEffect, Moves, ThreadTypeOK
<1> QED BY <1>1, <1>2, <1>3, <1>4, <1>5 DEF GoesTo, ThreadTypeOK

\* A call of the owner keeps the types.
LEMMA OwnerKeepsType ==
  ASSUME ThreadTypeOK, OwnerStep
  PROVE  ThreadTypeOK'
<1>1. CASE Start
  <2>1. Started' = 1 .. starts + 1 /\ starts' = starts + 1 /\ starts' \in Nat
    BY <1>1 DEF Start, Started, ThreadTypeOK
  <2>2. place' \in [Started' -> Places]
    BY <1>1, <2>1 DEF Start, ThreadTypeOK, Started, Places
  <2>3. cancelled \subseteq Started' /\ target \in 0 .. starts' /\ tid' \in 0 .. starts'
    BY <1>1, <2>1 DEF Start, Started, ThreadTypeOK
  <2>4. joined' \in BOOLEAN /\ tidy' \in BOOLEAN
    BY <1>1 DEF Start, ThreadTypeOK
  <2>5. dead' \subseteq 0 .. starts'
    BY <1>1, <2>1 DEF Start, ThreadTypeOK
  <2>6. UNCHANGED <<threadStatus, cancelled, owner, target, ms, k>>
    BY <1>1 DEF Start
  <2> QED BY <2>1, <2>2, <2>3, <2>4, <2>5, <2>6 DEF ThreadTypeOK
<1>2. CASE Cancle \/ DestroyCancels
  <2>1. PICK i \in 0 .. starts, after \in {"idle", "cancelled"} : Cancels(i, after)
    BY <1>2 DEF Cancle, DestroyCancels, ThreadTypeOK
  <2>2. /\ cancelled' \subseteq Started /\ dead' \subseteq 0 .. starts
        /\ owner' \in {"idle", "cancelled", "crashed"}
    BY <2>1 DEF Cancels, GivenDead, Alive, ThreadTypeOK
  <2>3. UNCHANGED <<tid, threadStatus, place, starts, target, ms, k, joined>>
    BY <1>2 DEF Cancle, DestroyCancels
  <2>4. tidy' \in BOOLEAN
    BY <1>2 DEF Cancle, DestroyCancels, ThreadTypeOK
  <2> QED BY <2>2, <2>3, <2>4 DEF ThreadTypeOK, Started
<1>3. CASE Join \/ JoinCalls \/ Destroy \/ DestroyReadsAgain
  <2>1. /\ UNCHANGED <<tid, threadStatus, childVars, ms, k, dead>> /\ tidy' = tidy
        /\ target' \in {target, tid}
        /\ owner' \in {"idle", "tested", "join", "condemned", "lastJoin", "gone"}
    BY <1>3 DEF Join, JoinCalls, Destroy, DestroyReadsAgain
  <2>2. joined' \in BOOLEAN
    BY <1>3 DEF Join, JoinCalls, Destroy, DestroyReadsAgain, ThreadTypeOK
  <2> QED BY <2>1, <2>2 DEF childVars, ThreadTypeOK, Started
<1>4. CASE (\E m \in Timeouts : TimedJoin(m)) \/ Sleeps \/ TimedJoinReturns
  <2>1. ms' \in Nat /\ k' \in Nat /\ owner' \in {"idle", "polling"}
    BY <1>4, ThreadAssumption DEF TimedJoin, Sleeps, TimedJoinReturns, ThreadTypeOK
  <2>2. /\ UNCHANGED <<tid, threadStatus, place, cancelled, starts, target>>
        /\ UNCHANGED <<joined, tidy, dead>>
    BY <1>4 DEF TimedJoin, Sleeps, TimedJoinReturns, childVars
  <2> QED BY <2>1, <2>2 DEF ThreadTypeOK, Started
<1>5. CASE JoinReturns \/ DestroyJoins
  <2>1. PICK after \in {"idle", "gone"} : WaitFor(after)
    BY <1>5 DEF JoinReturns, DestroyJoins
  <2>2. place' \in [Started -> Places] /\ Started' = Started
    <3>1. CASE Alive(target)
      BY <2>1, <3>1 DEF WaitFor, Alive, ThreadTypeOK, Started, Places
    <3>2. CASE ~Alive(target)
      BY <2>1, <3>2 DEF WaitFor, ThreadTypeOK, Started
    <3> QED BY <3>1, <3>2
  <2>3. joined' \in BOOLEAN
    BY <1>5 DEF JoinReturns, DestroyJoins, ThreadTypeOK
  <2>4. dead' \subseteq 0 .. starts /\ owner' \in {"idle", "gone", "crashed"}
    BY <2>1 DEF WaitFor, GivenDead, ThreadTypeOK
  <2>5. /\ UNCHANGED <<tid, threadStatus, cancelled, starts, ms, k>> /\ tidy' = tidy
        /\ target' = 0
    BY <2>1 DEF WaitFor
  <2> QED BY <2>2, <2>3, <2>4, <2>5 DEF ThreadTypeOK, Started
<1> QED BY <1>1, <1>2, <1>3, <1>4, <1>5 DEF OwnerStep

\* What threadStatus says does not change with the owner's place.
LEMMA StatusStays ==
  ASSUME TidyInv, ThreadTypeOK, tidy, UNCHANGED <<threadStatus, place, starts>>
  PROVE  StatusIsLast'
BY DEF TidyInv, StatusIsLast

\* Of a tidy object, only the thread last started writes the fields.
LEMMA ChildKeepsTidy ==
  ASSUME ThreadTypeOK, TidyInv, NEW i \in Started, ChildStep(i), tidy, tidy'
  PROVE  TidyInv'
<1>1. ~Stop(i)
  BY DEF Stop
<1>2. starts \in Nat /\ starts > 0 /\ i \in 1 .. starts
  BY DEF Started, ThreadTypeOK
<1>3. PICK to \in Places \ {"joined"} : GoesTo(i, to)
  BY <1>1 DEF ChildStep, SetsRunning, StoresOwnId, RunReturns, SetsExit, ClearsId, Leaves,
              CancelTakesEffect, Moves, Places
<1>4. /\ UNCHANGED <<cancelled, starts, owner, target>>
      /\ joined' = joined /\ dead' = dead /\ Started' = Started
  BY <1>3 DEF GoesTo, Started
<1>5. place'[i] = to /\ \A j \in Started : j # i => place'[j] = place[j]
  BY <1>3 DEF GoesTo, ThreadTypeOK
<1>6. place[i] # "joined"
  BY DEF ChildStep, SetsRunning, StoresOwnId, RunReturns, SetsExit, ClearsId, Leaves, Stop,
         CancelTakesEffect, Moves
<1>7. CASE Leaves(i) \/ CancelTakesEffect(i)
  <2>1. /\ tid' = tid /\ threadStatus' = threadStatus /\ to = "ended"
        /\ CancelTakesEffect(i) => cancelled # {}
        /\ Leaves(i) => place[i] = "leaving"
    BY <1>3, <1>5, <1>7 DEF Leaves, CancelTakesEffect, Moves, GoesTo, ThreadTypeOK
  <2>2. OnlyLastRuns'
    <3>1. OnlyLastRuns /\ place'[i] \in Over
      BY <1>5, <2>1 DEF TidyInv, Over
    <3>2. \A j \in Started' : j # starts' => place'[j] \in Over
      BY <1>4, <1>5, <3>1 DEF OnlyLastRuns
    <3>3. starts' > 0 /\ place'[starts'] \notin Over => tid' = starts'
      BY <1>2, <1>4, <1>5, <2>1, <3>1 DEF OnlyLastRuns, Started
    <3>4. starts' > 0 /\ tid' = starts' => place'[starts'] \notin Over \/ cancelled' # {}
      <4>1. CASE i = starts
        BY <1>4, <1>7, <2>1, <3>1, <4>1 DEF OnlyLastRuns, Over
      <4>2. CASE i # starts
        BY <1>2, <1>4, <1>5, <2>1, <3>1, <4>2 DEF OnlyLastRuns, Started
      <4> QED BY <4>1, <4>2
    <3> QED BY <1>4, <2>1, <3>1, <3>2, <3>3, <3>4 DEF OnlyLastRuns
  <2>3. OnlyDestroyCancels' /\ JoinedIsOver' /\ dead' \subseteq {0}
    BY <1>2, <1>4, <1>5, <2>1 DEF TidyInv, OnlyDestroyCancels, JoinedIsOver, Over
  <2>4. WaitsForLast'
    <3>1. /\ place[starts] # "joined" => place'[starts] # "joined"
          /\ place[starts] \in Over => place'[starts] \in Over
      BY <1>2, <1>5, <1>6, <2>1 DEF Over, Started
    <3> QED BY <1>4, <3>1 DEF TidyInv, WaitsForLast
  <2>5. StatusIsLast'
    <3>1. place'[starts] \in {"marked", "running", "ran"} =>
            place[starts] \in {"marked", "running", "ran"}
      BY <1>2, <1>5, <2>1 DEF Started
    <3> QED BY <1>4, <2>1, <3>1 DEF TidyInv, StatusIsLast
  <2> QED BY <2>2, <2>3, <2>4, <2>5 DEF TidyInv
<1>8. CASE SetsRunning(i) \/ StoresOwnId(i) \/ RunReturns(i) \/ SetsExit(i) \/ ClearsId(i)
  <2>1. place[i] \notin Over
    BY <1>8 DEF SetsRunning, StoresOwnId, RunReturns, SetsExit, ClearsId, Moves, Over
  <2>2. i = starts /\ tid = starts
    BY <1>2, <2>1 DEF TidyInv, OnlyLastRuns
  <2>3. /\ tid' = IF to = "leaving" THEN 0 ELSE starts
        /\ to \in {"marked", "running", "ran", "exited", "leaving"}
    BY <1>3, <1>5, <1>8, <2>2
       DEF SetsRunning, StoresOwnId, RunReturns, SetsExit, ClearsId, Moves, GoesTo,
           ThreadTypeOK
  <2>4. to \in {"marked", "running", "ran"} => threadStatus' = "RUNNING"
    BY <1>2, <1>3, <1>5, <1>8, <2>2
       DEF SetsRunning, StoresOwnId, RunReturns, SetsExit, ClearsId, Moves, GoesTo, TidyInv,
           StatusIsLast, ThreadTypeOK
  <2>5. OnlyLastRuns'
    BY <1>2, <1>4, <1>5, <2>2, <2>3 DEF TidyInv, OnlyLastRuns, Over
  <2>6. OnlyDestroyCancels' /\ JoinedIsOver' /\ dead' \subseteq {0}
    BY <1>4, <2>1 DEF TidyInv, OnlyDestroyCancels, JoinedIsOver
  <2>7. WaitsForLast'
    BY <1>2, <1>4, <1>5, <2>1, <2>2, <2>3 DEF TidyInv, WaitsForLast, Over
  <2>8. StatusIsLast'
    BY <1>4, <1>5, <2>2, <2>4 DEF StatusIsLast
  <2> QED BY <2>5, <2>6, <2>7, <2>8 DEF TidyInv
<1> QED BY <1>1, <1>7, <1>8 DEF ChildStep

\* A call of an owner that stays tidy keeps it.
LEMMA OwnerKeepsTidy ==
  ASSUME ThreadTypeOK, TidyInv, OwnerStep, tidy, tidy'
  PROVE  TidyInv'
<1>0. starts \in Nat /\ (starts > 0 => starts \in Started) /\ 0 \notin Started
  BY DEF ThreadTypeOK, Started
<1>1. CASE Start
  <2>1. joined /\ owner = "idle" /\ cancelled = {}
    BY <1>1 DEF Start, TidyInv, OnlyDestroyCancels, Destroying
  <2>2. \A i \in Started : place[i] \in Over
    BY <2>1 DEF TidyInv, JoinedIsOver
  <2>3. Started' = 1 .. starts + 1 /\ starts' = starts + 1 /\ tid' = starts'
    BY <1>1 DEF Start, Started
  <2>4. place'[starts'] = "born" /\ \A i \in Started' : i # starts' => place'[i] \in Over
    BY <1>0, <1>1, <2>2, <2>3 DEF Start, Started
  <2>5. OnlyLastRuns'
    BY <2>3, <2>4 DEF OnlyLastRuns, Over
  <2>6. /\ owner' = "idle" /\ cancelled' = {} /\ joined' = FALSE /\ dead' = dead
    BY <1>1, <2>1 DEF Start
  <2> QED
    BY <2>4, <2>5, <2>6
       DEF TidyInv, OnlyDestroyCancels, WaitsForLast, JoinedIsOver, StatusIsLast
<1>2. CASE Join \/ Destroy
  <2>1. /\ UNCHANGED <<tid, threadStatus, place, cancelled, starts, dead>>
        /\ Started' = Started /\ owner = "idle" /\ cancelled = {}
    BY <1>2 DEF Join, Destroy, childVars, Started, TidyInv, OnlyDestroyCancels, Destroying
  <2>2. CASE tid > 0
    <3>1. owner' \in {"tested", "condemned"} /\ target' = tid /\ joined' = joined
      BY <1>2, <2>1, <2>2 DEF Join, Destroy
    <3>2. starts > 0 /\ tid = starts /\ place[starts] \notin Over
      BY <1>0, <2>1, <2>2 DEF TidyInv, OnlyLastRuns
    <3>3. OnlyLastRuns' /\ OnlyDestroyCancels' /\ WaitsForLast'
      BY <2>1, <3>1, <3>2 DEF TidyInv, OnlyLastRuns, OnlyDestroyCancels, WaitsForLast, Over
    <3>4. JoinedIsOver'
      BY <2>1, <3>1 DEF TidyInv, JoinedIsOver
    <3> QED BY <2>1, <3>3, <3>4, StatusStays DEF TidyInv
  <2>3. CASE ~(tid > 0)
    <3>1. owner' \in {"idle", "gone"} /\ target' = target
      BY <1>2, <2>1, <2>3 DEF Join, Destroy
    <3>2. \A i \in Started : place[i] \in Over
      BY <1>0, <2>3 DEF TidyInv, OnlyLastRuns, Started
    <3>3. OnlyLastRuns' /\ OnlyDestroyCancels' /\ WaitsForLast'
      BY <2>1, <3>1 DEF TidyInv, OnlyLastRuns, OnlyDestroyCancels, WaitsForLast
    <3>4. JoinedIsOver'
      BY <2>1, <3>2 DEF JoinedIsOver
    <3> QED BY <2>1, <3>3, <3>4, StatusStays DEF TidyInv
  <2> QED BY <2>2, <2>3
<1>3. CASE JoinCalls \/ DestroyReadsAgain
  <2>1. /\ UNCHANGED <<tid, threadStatus, place, cancelled, starts, dead>>
        /\ joined' = joined /\ Started' = Started
    BY <1>3 DEF JoinCalls, DestroyReadsAgain, childVars, Started
  <2>2. /\ starts > 0 /\ place[starts] # "joined" /\ target' \in {tid, starts}
        /\ owner' = IF owner = "tested" THEN "join" ELSE "lastJoin"
        /\ owner \in {"tested", "cancelled"}
    BY <1>3 DEF JoinCalls, DestroyReadsAgain, TidyInv, WaitsForLast
  <2>3. target' = starts \/ (target' = 0 /\ place[starts] \in Over)
    BY <2>2 DEF TidyInv, OnlyLastRuns
  <2>4. OnlyLastRuns' /\ OnlyDestroyCancels' /\ WaitsForLast'
    BY <2>1, <2>2, <2>3 DEF TidyInv, OnlyLastRuns, OnlyDestroyCancels, WaitsForLast, Destroying
  <2>5. JoinedIsOver'
    BY <2>1, <2>2 DEF TidyInv, JoinedIsOver
  <2> QED BY <2>1, <2>4, <2>5, StatusStays DEF TidyInv
<1>4. CASE DestroyCancels
  <2>1. /\ UNCHANGED <<tid, threadStatus, place, starts, target>>
        /\ joined' = joined /\ Started' = Started
        /\ starts > 0 /\ place[starts] # "joined" /\ target = starts
    BY <1>4 DEF DestroyCancels, Started, TidyInv, WaitsForLast
  <2>2. PICK i \in {0, starts} : Cancels(i, "cancelled")
    BY <1>4, <2>1 DEF DestroyCancels, TidyInv, OnlyLastRuns
  <2>3. owner' \in {"cancelled", "crashed"} /\ dead' \subseteq {0}
    BY <1>0, <2>1, <2>2 DEF Cancels, GivenDead, Alive, TidyInv
  <2>4. cancelled \subseteq cancelled'
    BY <2>2 DEF Cancels
  <2>5. OnlyLastRuns'
    BY <2>1, <2>4 DEF TidyInv, OnlyLastRuns
  <2>6. OnlyDestroyCancels' /\ WaitsForLast'
    BY <2>1, <2>3 DEF OnlyDestroyCancels, WaitsForLast, Destroying
  <2>7. JoinedIsOver'
    BY <2>1, <2>3 DEF TidyInv, JoinedIsOver
  <2> QED BY <2>1, <2>3, <2>5, <2>6, <2>7, StatusStays DEF TidyInv
<1>5. CASE (\E m \in Timeouts : TimedJoin(m)) \/ Sleeps \/ TimedJoinReturns
  <2>1. /\ UNCHANGED <<tid, threadStatus, place, cancelled, starts, target>>
        /\ joined' = joined /\ dead' = dead /\ Started' = Started
        /\ owner \in {"idle", "polling"} /\ owner' \in {"idle", "polling"}
    BY <1>5 DEF TimedJoin, Sleeps, TimedJoinReturns, childVars, Started
  <2>2. OnlyLastRuns' /\ OnlyDestroyCancels' /\ WaitsForLast'
    BY <2>1 DEF TidyInv, OnlyLastRuns, OnlyDestroyCancels, WaitsForLast, Destroying
  <2>3. JoinedIsOver'
    BY <2>1 DEF TidyInv, JoinedIsOver
  <2> QED BY <2>1, <2>2, <2>3, StatusStays DEF TidyInv
<1>6. CASE JoinReturns \/ DestroyJoins
  <2>1. PICK after \in {"idle", "gone"} : WaitFor(after) /\ (after = "idle" <=> JoinReturns)
    BY <1>6 DEF JoinReturns, DestroyJoins
  <2>2. /\ starts > 0 /\ starts \in Started
        /\ target = starts \/ (target = 0 /\ place[starts] \in Over)
        /\ place[starts] # "joined" /\ owner \in {"join", "lastJoin"}
        /\ owner = "join" <=> JoinReturns
    BY <1>0, <1>6 DEF JoinReturns, DestroyJoins, TidyInv, WaitsForLast
  <2>3. /\ UNCHANGED <<tid, threadStatus, cancelled, starts>> /\ Started' = Started
        /\ target' = 0
    BY <2>1 DEF WaitFor, Started
  <2>4. /\ owner' \in {after, "crashed"} /\ dead' \subseteq {0}
        /\ place[starts] \in Over /\ place'[starts] \in Over
        /\ \A j \in Started : j # starts => place'[j] = place[j]
    <3>1. CASE target = starts
      <4>1. /\ place[starts] = "ended" /\ owner' = after /\ dead' = dead
            /\ place' = [place EXCEPT ![starts] = "joined"]
        BY <2>1, <2>2, <3>1 DEF WaitFor, Alive
      <4> QED BY <2>2, <4>1 DEF ThreadTypeOK, TidyInv, Over
    <3>2. CASE target = 0
      <4>1. GivenDead(0, after) /\ place' = place /\ place[starts] \in Over
        BY <1>0, <2>1, <2>2, <3>2 DEF WaitFor, Alive
      <4> QED BY <4>1 DEF GivenDead, TidyInv
    <3> QED BY <2>2, <3>1, <3>2
  <2>5. \A j \in Started : place[j] \in Over /\ place'[j] \in Over
    BY <2>2, <2>4 DEF TidyInv, OnlyLastRuns
  <2>6. OnlyLastRuns' /\ JoinedIsOver' /\ StatusIsLast'
    BY <2>2, <2>3, <2>4, <2>5 DEF TidyInv, OnlyLastRuns, JoinedIsOver, StatusIsLast, Over
  <2>7. OnlyDestroyCancels'
    <3>1. owner = "join" => cancelled = {}
      BY DEF TidyInv, OnlyDestroyCancels, Destroying
    <3> QED BY <2>1, <2>2, <2>3, <2>4, <3>1 DEF OnlyDestroyCancels, Destroying
  <2>8. WaitsForLast'
    BY <2>4 DEF WaitsForLast
  <2> QED BY <2>4, <2>6, <2>7, <2>8 DEF TidyInv
<1>7. ~Cancle
  BY DEF Cancle
<1> QED BY <1>1, <1>2, <1>3, <1>4, <1>5, <1>6, <1>7 DEF OwnerStep

\* An object that is not tidy never is again.
LEMMA TidyWasTidy ==
  ASSUME ThreadTypeOK, OwnerStep \/ \E i \in Started : ChildStep(i), tidy'
  PROVE  tidy
BY DEF OwnerStep, Start, Cancle, Join, JoinCalls, JoinReturns, TimedJoin, Sleeps,
       TimedJoinReturns, Destroy, DestroyCancels, DestroyReadsAgain, DestroyJoins, WaitFor,
       ChildStep, SetsRunning, StoresOwnId, RunReturns, SetsExit, ClearsId, Leaves, Stop,
       CancelTakesEffect, Moves

\* Every step keeps the invariant.
LEMMA NextKeepsInv ==
  ASSUME ThreadInv, [ThreadNext]_threadVars
  PROVE  ThreadInv'
<1>1. CASE ThreadNext
  BY <1>1, ChildKeepsType, OwnerKeepsType, ChildKeepsTidy, OwnerKeepsTidy, TidyWasTidy
     DEF ThreadNext, ThreadInv
<1>2. CASE UNCHANGED threadVars
  BY <1>2 DEF threadVars, childVars, ownerVars, ThreadInv, ThreadTypeOK, TidyInv,
              OnlyLastRuns, OnlyDestroyCancels, WaitsForLast, JoinedIsOver, StatusIsLast,
              Started
<1> QED BY <1>1, <1>2

-----------------------------------------------------------------------------
\* The invariant holds for any number of starts and whichever timeouts.
THEOREM ThreadInvariant == ThreadSpec => []ThreadInv
BY InitGivesInv, NextKeepsInv, PTL DEF ThreadSpec

\* The object's fields keep their types: tid is 0 or a thread it has started.
THEOREM ThreadTypeCorrect == ThreadSpec => []ThreadTypeOK
<1>1. ThreadInv => ThreadTypeOK
  BY DEF ThreadInv
<1> QED BY <1>1, ThreadInvariant, PTL

\* An owner that joins its threads gives no pthread call the id of a joined one.
THEOREM OnlyLiveIdsAlways == ThreadSpec => []OnlyLiveIds
<1>1. ThreadInv => OnlyLiveIds
  BY DEF ThreadInv, TidyInv, OnlyLiveIds
<1> QED BY <1>1, ThreadInvariant, PTL

\* When Join() has returned, run() has.
THEOREM JoinMeansFinishedAlways == ThreadSpec => []JoinMeansFinished
<1>1. ThreadInv => JoinMeansFinished
  BY DEF ThreadInv, TidyInv, JoinedIsOver, JoinMeansFinished, InRun, Over
<1> QED BY <1>1, ThreadInvariant, PTL

\* When the destructor has returned, run1 has written the fields for the last time.
THEOREM NoWriteAfterDestroyAlways == ThreadSpec => NoWriteAfterDestroy
<1>1. ThreadInv /\ [ThreadNext]_threadVars =>
        [tidy /\ owner = "gone" => UNCHANGED <<tid, threadStatus>>]_threadVars
  <2> SUFFICES ASSUME ThreadInv, ThreadNext, tidy, owner = "gone"
               PROVE  UNCHANGED <<tid, threadStatus>>
    OBVIOUS
  <2>1. ~OwnerStep
    BY DEF OwnerStep, Start, Cancle, Join, JoinCalls, JoinReturns, TimedJoin, Sleeps,
           TimedJoinReturns, Destroy, DestroyCancels, DestroyReadsAgain, DestroyJoins
  <2>2. PICK i \in Started : ChildStep(i)
    BY <2>1 DEF ThreadNext
  <2>3. place[i] \in Over
    BY DEF ThreadInv, TidyInv, JoinedIsOver
  <2> QED
    BY <2>2, <2>3 DEF ChildStep, SetsRunning, StoresOwnId, RunReturns, SetsExit, ClearsId,
                      Leaves, Stop, CancelTakesEffect, Moves, Over
<1> QED BY <1>1, ThreadInvariant, PTL DEF ThreadSpec, NoWriteAfterDestroy

\* threadStatus is that of the thread last started, once it has begun.
THEOREM StatusIsLastAlways == ThreadSpec => []StatusIsLast
<1>1. ThreadInv => StatusIsLast
  BY DEF ThreadInv, TidyInv, StatusIsLast
<1> QED BY <1>1, ThreadInvariant, PTL
=============================================================================
