--------------------------- MODULE MCBudgetLedger ---------------------------
(* Model-checking instance of BudgetLedger: two requests and an older writer,
   of which the limit admits two. *)
EXTENDS BudgetLedger

CONSTANTS r1, r2, old

Amounts == [w \in {r1, r2, old} |-> IF w = r1 THEN 2 ELSE 1]
=============================================================================
