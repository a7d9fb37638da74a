--------------------------- MODULE MCAcquisition ---------------------------
(* Model-checking instances of Acquisition.                                *)
EXTENDS Acquisition, TLC

\* Blocks that fill a part of the ring or most of it; reads that end inside
\* a block, and reads that ask for as much as the ring can hold.
Blocks == {1, 2}
Reads == {1, RingPairs - 1}

\* BOTH has a second task and a second channel; one marker an epoch keeps the
\* state space in reach there.
GapsByMode == ("READ" :> 2) @@ ("BOTH" :> 1)
=============================================================================
