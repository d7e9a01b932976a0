----------------------------- MODULE MCMembers -----------------------------
EXTENDS Members, TLC

\* Two owners of one household, and a household whose lock has the same key.
CONSTANTS h1, h2, k1, m1, m2

MChashtext == (h1 :> k1) @@ (h2 :> k1)
MCHome     == (m1 :> h1) @@ (m2 :> h1)
============================================================================
