---------------------------- MODULE MCOnboarding ----------------------------
(* A small estate for TLC: one company with two apartments and two gates   *)
(* on one site; u1 owns apartment a1, nobody knows u2.                     *)
EXTENDS Onboarding, TLC

CONSTANTS u1, a1, g1, g2, m1, s1

MCMcOf == [x \in Objects |-> m1]
MCSiteOf == [x \in Objects |-> s1]
MCRank == (g1 :> 1) @@ (g2 :> 2)
MCSeed == {<<u1, a1>>}

Symmetry == Permutations(Invites) \cup Permutations(Accepts)
=============================================================================
