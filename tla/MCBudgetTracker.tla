--------------------------- MODULE MCBudgetTracker ---------------------------
(* A small instance of BudgetTracker: see MCBudgetTracker.cfg. *)
EXTENDS BudgetTracker

CONSTANTS r1, r2, r3, r4
==============================================================================
