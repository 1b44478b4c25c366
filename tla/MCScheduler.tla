---------------------------- MODULE MCScheduler ----------------------------
(* One gate, two instances that tick together, one window and one that is  *)
(* refused.                                                                *)
EXTENDS Scheduler, TLC

CONSTANTS i1, i2

MCWindows == {<<0, 4>>, <<2, 2>>}
MCPhase == (i1 :> 0) @@ (i2 :> 0)
Symmetry == Permutations({i1, i2})
=============================================================================
