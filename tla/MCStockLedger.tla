----------------------------- MODULE MCStockLedger -----------------------------
(* Small instances of StockLedger for TLC. *)
EXTENDS StockLedger, TLC

CONSTANTS a1, m1

OneForOne == a1 :> (m1 :> 1)

Symmetry == Permutations(Orders)
==============================================================================
