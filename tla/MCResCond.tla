----------------------------- MODULE MCResCond -----------------------------
(* Two guards for one thread, one for each of the two others. *)
EXTENDS ResCond, TLC

CONSTANTS t1, t2, t3, g1, g2, h, k

ThreeThreads == {t1, t2, t3}
FourGuards   == {g1, g2, h, k}
TwoOneOne    == (g1 :> t1) @@ (g2 :> t1) @@ (h :> t2) @@ (k :> t3)
=============================================================================
