-------------------------- MODULE MCManualOpening --------------------------
(* One gate that is open all day, and an opening much shorter than a tick  *)
(* of the scheduler.                                                       *)
EXTENDS ManualOpening, TLC

CONSTANT i1

MCWindows == {<<0, 8>>}
MCPhase == i1 :> 0
=============================================================================
