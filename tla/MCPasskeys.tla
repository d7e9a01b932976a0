----------------------------- MODULE MCPasskeys -----------------------------
(***************************************************************************)
(* Three logins, two credentials, and two members of different households  *)
(* whose handles collide.                                                  *)
(***************************************************************************)
EXTENDS Passkeys, TLC

CONSTANTS r1, r2, r3, h1, h2, alice, bob, k1, k2, shared

MCHome   == alice :> h1 @@ bob :> h2
MCDerive == alice :> shared @@ bob :> shared

\* Calls are interchangeable.
Symmetry == Permutations(Request)

=============================================================================
