--------------------------- MODULE MCCallSessions ---------------------------
(* Small instances of CallSessions for TLC. *)
EXTENDS CallSessions, TLC

CONSTANT u1

\* u1 lives in the apartment; u2 is a resident of some other one.
MembersOne == [a \in Apartments |-> {u1}]

Symmetry == Permutations(Calls) \cup Permutations(Requests)
=============================================================================
