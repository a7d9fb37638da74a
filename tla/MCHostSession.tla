--------------------------- MODULE MCHostSession ---------------------------
(* Model-checking instances of HostSession.                                *)
EXTENDS HostSession, TLC

CONSTANTS h1, h2, h3

Pair == {h1, h2}
Three == {h1, h2, h3}
Alike == Permutations(Pair)
=============================================================================
