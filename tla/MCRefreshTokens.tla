-------------------------- MODULE MCRefreshTokens --------------------------
(* Small instances of RefreshTokens for TLC. *)
EXTENDS RefreshTokens, TLC

\* Every action treats requests alike; used only where no liveness is checked.
Symmetry == Permutations(Request)
=============================================================================
