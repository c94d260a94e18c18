---------------------------- MODULE TimerService ----------------------------
(***************************************************************************)
(* What the timer calls of EventLoop promise, without the list, the node   *)
(* pointers, the pairs of seconds and milliseconds and the scan: a map     *)
(* from ids to due times, served in passes.                                *)
(*   - A pass serves the timers that existed when it began, its cohort; a  *)
(*     timer created by a callback waits for the next pass.                *)
(*   - A callback runs only when its timer is pending and due.             *)
(*   - Each timer keeps its own due time until its own callback returns.   *)
(*   - The finalizer runs once, when the timer stops being pending.        *)
(*   - A pass ends only when no timer of its cohort was due when the last  *)
(*     callback returned.                                                  *)
(* TimeEvents implements this module.                                      *)
(***************************************************************************)
EXTENDS Integers

CONSTANTS Delays, Returns, ClockSettings  \* as in TimeEvents

None == -1

VARIABLES
  now,      \* the wall clock
  nextId,
  pending,  \* from the ids of pending timers to [due, fin]
  calls,    \* how often each finalizer has run
  stage,    \* "idle", "serving", or "user" while user code runs in a pass
  cohort,   \* timers of this pass that are still pending
  firing,   \* the timer whose callback runs, None if there is none
  since     \* when the pass last looked at all its timers anew

vars == <<now, nextId, pending, calls, stage, cohort, firing, since>>

Init ==
  /\ now = 0 /\ nextId = 0
  /\ pending = [i \in {} |-> 0] /\ calls = [i \in {} |-> 0]
  /\ stage = "idle" /\ cohort = {} /\ firing = None /\ since = 0

Tick ==
  /\ now' = now + 1
  /\ UNCHANGED <<nextId, pending, calls, stage, cohort, firing, since>>

\* A clock that is set back hides timers from the pass under way.
ClockSet(t) ==
  /\ now' = t
  /\ since' = IF stage = "serving" /\ t < since THEN t ELSE since
  /\ UNCHANGED <<nextId, pending, calls, stage, cohort, firing>>

NewId ==
  /\ nextId' = nextId + 1
  /\ calls' = [i \in DOMAIN calls \cup {nextId} |->
                 IF i = nextId THEN 0 ELSE calls[i]]

Arm(d, fin) ==
  /\ stage # "serving"
  /\ NewId
  /\ pending' = [i \in DOMAIN pending \cup {nextId} |->
                   IF i = nextId THEN [due |-> now + d, fin |-> fin]
                                 ELSE pending[i]]
  /\ UNCHANGED <<now, stage, cohort, firing, since>>

ArmFails ==
  /\ stage # "serving"
  /\ NewId
  /\ UNCHANGED <<now, pending, stage, cohort, firing, since>>

Remove(i) ==
  /\ pending' = [j \in DOMAIN pending \ {i} |-> pending[j]]
  /\ calls' = [calls EXCEPT ![i] = IF pending[i].fin THEN @ + 1 ELSE @]
  /\ cohort' = cohort \ {i}

Cancel(i) ==
  /\ stage # "serving"
  /\ Remove(i)
  /\ UNCHANGED <<now, nextId, stage, firing, since>>

Serve == stage' = "serving" /\ firing' = None /\ since' = now

BeginPass ==
  /\ stage = "idle"
  /\ cohort' = DOMAIN pending
  /\ Serve
  /\ UNCHANGED <<now, nextId, pending, calls>>

Fire(i) ==
  /\ stage = "serving" /\ i \in cohort /\ pending[i].due <= now
  /\ stage' = "user" /\ firing' = i
  /\ UNCHANGED <<now, nextId, pending, calls, cohort, since>>

\* A callback whose timer has been cancelled meanwhile re-arms nothing.
Again(d) ==
  /\ stage = "user" /\ firing # None
  /\ pending' = [i \in DOMAIN pending |->
       IF i = firing THEN [pending[i] EXCEPT !.due = now + d] ELSE pending[i]]
  /\ Serve
  /\ UNCHANGED <<now, nextId, calls, cohort>>

NoMore ==
  /\ stage = "user" /\ firing # None
  /\ IF firing \in DOMAIN pending
       THEN /\ Remove(firing)
            /\ IF pending[firing].fin
                 THEN firing' = None /\ UNCHANGED <<stage, since>>
                 ELSE Serve
       ELSE Serve /\ UNCHANGED <<pending, calls, cohort>>
  /\ UNCHANGED <<now, nextId>>

FinalizerReturns ==
  /\ stage = "user" /\ firing = None
  /\ Serve
  /\ UNCHANGED <<now, nextId, pending, calls, cohort>>

EndPass ==
  /\ stage = "serving"
  /\ \A i \in cohort : pending[i].due > since
  /\ stage' = "idle" /\ cohort' = {} /\ since' = 0
  /\ UNCHANGED <<now, nextId, pending, calls, firing>>

Next ==
  \/ Tick
  \/ \E t \in ClockSettings : ClockSet(t)
  \/ \E d \in Delays, fin \in BOOLEAN : Arm(d, fin)
  \/ ArmFails
  \/ \E i \in DOMAIN pending : Cancel(i)
  \/ BeginPass
  \/ \E i \in cohort : Fire(i)
  \/ \E d \in Returns : Again(d)
  \/ NoMore
  \/ FinalizerReturns
  \/ EndPass

Spec == Init /\ [][Next]_vars
=============================================================================
