---------------------------- MODULE LossyStream ----------------------------
(***************************************************************************)
(* What one delivery channel of the acquisition interface promises, with   *)
(* no ring, no descriptors and no tasks in it.                             *)
(*                                                                         *)
(* The receiver observes sample pairs; an epoch numbers them from 0, and a *)
(* new epoch begins at a start or a drained control.  The channel hands    *)
(* over runs of pairs of one epoch.  Some are lost on the way, but         *)
(*   - only pairs that were observed are handed over,                      *)
(*   - never twice and never out of order, and never backwards to an       *)
(*     epoch the channel has left,                                         *)
(*   - and each hand-over says how many observed pairs of its epoch it     *)
(*     has skipped.                                                        *)
(***************************************************************************)
EXTENDS Naturals, Sequences

CONSTANT Index  \* the numbers a pair may have, and the number after the last

VARIABLES
  seen,   \* seen[e]: pairs observed so far in epoch e
  at,     \* [epoch, end]: the pair after the last one handed over
  got,    \* pairs of epoch at.epoch that the channel has handed over
  lost    \* pairs of epoch at.epoch that the channel has reported lost

vars == <<seen, at, got, lost>>

Init == /\ seen = <<>>
        /\ at = [epoch |-> 0, end |-> 0]
        /\ got = 0 /\ lost = 0

NewEpoch == /\ seen' = Append(seen, 0)
            /\ UNCHANGED <<at, got, lost>>

\* Only the current epoch grows.
Observe == /\ seen # <<>>
           /\ \E n \in Index : /\ n > seen[Len(seen)]
                              /\ seen' = [seen EXCEPT ![Len(seen)] = n]
           /\ UNCHANGED <<at, got, lost>>

\* The pairs from .. end-1 of epoch e are handed over.
HandOver(e, from, end) ==
  /\ from < end /\ end <= seen[e]
  /\ \/ /\ e > at.epoch
        /\ got' = end - from /\ lost' = from
     \/ /\ e = at.epoch /\ from >= at.end
        /\ got' = got + (end - from) /\ lost' = lost + (from - at.end)
  /\ at' = [epoch |-> e, end |-> end]
  /\ UNCHANGED seen

\* A hand-over always moves the channel on.
Advance == /\ at' # at
           /\ \E e \in DOMAIN seen, from, end \in Index : HandOver(e, from, end)

Next == NewEpoch \/ Observe \/ Advance

Spec == Init /\ [][Next]_vars

\* The pairs handed over and the pairs reported lost make up the epoch up to
\* the last pair handed over: no loss goes unreported, none is reported twice
\* (Cursor::deliver's known_lost_samples).
Accounted == got + lost = at.end
=============================================================================
