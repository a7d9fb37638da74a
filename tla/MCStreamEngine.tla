-------------------------- MODULE MCStreamEngine --------------------------
(* Model-checking instances of StreamEngine.                               *)
EXTENDS StreamEngine, TLC

CONSTANTS a1, a2

OneApp == {a1}
TwoApps == {a1, a2}

\* Two tasks; one of them owns the stream's life cycle.
OwnerAndStopper == (a1 :> {"start", "stop"}) @@ (a2 :> {"stop", "retune"})
StarterAndTuner == (a1 :> {"start", "reset"}) @@ (a2 :> {"retune", "control"})

\* One task.
Owner == a1 :> {"start", "stop"}
StarterTuning == a1 :> {"start", "retune"}
Starter == a1 :> {"start"}
=============================================================================
