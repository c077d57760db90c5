------------------------------ MODULE MCOutbox ------------------------------
(* Outbox where two frames may exceed the budget together. *)
EXTENDS Outbox

ASSUME BudgetBites == \E a, b \in Sizes : a + b > Limit
=============================================================================
