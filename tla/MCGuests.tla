------------------------------ MODULE MCGuests ------------------------------
(* A small estate for TLC: u1 owns apartment a1 behind entrance e1; g1 is a *)
(* gate of the same company and h1 one of another company.                 *)
EXTENDS Guests, TLC

CONSTANTS u1, u2, a1, e1, g1, h1, m1, m2, s1, s2

MCMcOf == (a1 :> m1) @@ (e1 :> m1) @@ (g1 :> m1) @@ (h1 :> m2)
MCSiteOf == (a1 :> s1) @@ (e1 :> s1) @@ (g1 :> s1) @@ (h1 :> s2)
MCRank == (e1 :> 0) @@ (g1 :> 1) @@ (h1 :> 2)
MCSeed == {<<u1, a1>>}
MCDoorsOf == (a1 :> {e1})
=============================================================================
