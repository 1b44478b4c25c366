-------------------------- MODULE MCRefreshTokens --------------------------
(* The browser and the whitelist for TLC. *)
EXTENDS RefreshTokens, TLC

Symmetry == Permutations(Reqs) \cup Permutations(Ids) \cup Permutations(Tabs)
=============================================================================
