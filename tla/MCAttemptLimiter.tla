-------------------------- MODULE MCAttemptLimiter --------------------------
(* Three keys compete for two slots, a budget of two attempts.             *)
EXTENDS AttemptLimiter, TLC

Symmetry == Permutations(Request)
=============================================================================
