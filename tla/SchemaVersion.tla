--------------------------- MODULE SchemaVersion ---------------------------
(***************************************************************************)
(* What the applications that share a schema rely on: it has a version n,  *)
(* its migrations are those from 1 to n, and whoever migrates it takes it  *)
(* one version up or one down.  Migrations has locks, lists of what each   *)
(* process has still to run, and crashes in between, and implements this.  *)
(***************************************************************************)
EXTENDS Naturals

CONSTANT MaxVersion

VARIABLE applied

Init == applied = 1 .. 0

Upgrade ==
  \E n \in 1 .. MaxVersion : applied = 1 .. (n - 1) /\ applied' = 1 .. n

Rollback ==
  \E n \in 1 .. MaxVersion : applied = 1 .. n /\ applied' = 1 .. (n - 1)

Next == Upgrade \/ Rollback

Spec == Init /\ [][Next]_applied
=============================================================================
