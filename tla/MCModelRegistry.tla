---------------------------- MODULE MCModelRegistry ----------------------------
(* Backtests over two horizons, weighted and unweighted in any order.         *)
EXTENDS ModelRegistry
================================================================================
