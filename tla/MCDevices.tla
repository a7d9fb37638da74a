----------------------------- MODULE MCDevices -----------------------------
(* Model-checking instances of Devices.                                    *)
EXTENDS Devices, TLC

CONSTANTS h1, h2

Pair == {h1, h2}
Alike == Permutations(Pair)
=============================================================================
