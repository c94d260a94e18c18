------------------------------- MODULE Monitor -------------------------------
(***************************************************************************)
(* What guards over a mutex and a condition promise together, without the  *)
(* mutex, its owner and its count: at most one thread is inside, it may    *)
(* lie down inside, which lets others in, and it is never inside again     *)
(* without having been let in.  ResCond implements this module.            *)
(***************************************************************************)
EXTENDS Integers

CONSTANT Threads

VARIABLES
  inside,  \* the threads inside
  asleep   \* those that wait for the condition or for being let in again

vars == <<inside, asleep>>

Init == inside = {} /\ asleep = {}

Enter(t) ==
  /\ inside = {} /\ t \notin asleep
  /\ inside' = {t}
  /\ UNCHANGED asleep

Leave(t) ==
  /\ t \in inside
  /\ inside' = inside \ {t}
  /\ UNCHANGED asleep

Sleep(t) ==
  /\ t \in inside
  /\ inside' = inside \ {t} /\ asleep' = asleep \cup {t}

Return(t) ==
  /\ t \in asleep /\ inside = {}
  /\ inside' = {t} /\ asleep' = asleep \ {t}

Next == \E t \in Threads : Enter(t) \/ Leave(t) \/ Sleep(t) \/ Return(t)

Spec == Init /\ [][Next]_vars
=============================================================================
