----------------------------- MODULE MCResAlloc -----------------------------
(* Two guards for one thread, one for another, none for the third. *)
EXTENDS ResAlloc, TLC

CONSTANTS t1, t2, t3, g1, g2, h

ThreeThreads == {t1, t2, t3}
ThreeGuards  == {g1, g2, h}
TwoAndOne    == (g1 :> t1) @@ (g2 :> t1) @@ (h :> t2)
=============================================================================
