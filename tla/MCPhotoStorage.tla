-------------------------- MODULE MCPhotoStorage --------------------------
EXTENDS PhotoStorage, TLC

\* Model values with no further structure.
CONSTANTS u1, u2, h1, x1

MCLegacy == {[household |-> h1, class |-> 1, content |-> x1]}

Symmetry == Permutations(Uploader)
===========================================================================
