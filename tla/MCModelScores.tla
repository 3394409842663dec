----------------------------- MODULE MCModelScores -----------------------------
(*************************************************************************)
(* A regression and a challenger trained on two feature sets, two        *)
(* horizons, two month-ends: a low input and one past the threshold and  *)
(* the tripwire.                                                         *)
(*************************************************************************)
EXTENDS ModelScores, TLC

Trained == (1 :> 1) @@ (2 :> 2)
================================================================================
