--------------------------- MODULE TradingCycleMC ---------------------------
(***************************************************************************)
(* TradingCycle for TLC.  Executions are interchangeable.                  *)
(***************************************************************************)
EXTENDS LedgerRefinement, TLC

Interchangeable == Permutations(Executions)
=============================================================================
