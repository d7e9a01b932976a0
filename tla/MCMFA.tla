------------------------------- MODULE MCMFA -------------------------------
(* Two sessions, three enrollments begun, two TOTP steps.                  *)
EXTENDS MFA, TLC

Symmetry == Permutations(Session)
=============================================================================
