------------------------- MODULE MCExpenseRequests -------------------------
(* One or two requests of a teacher, a principal who may change them, and  *)
(* two calls at a time.                                                    *)
EXTENDS ExpenseRequests, TLC

CONSTANTS k1, k2, q1, q2, teacher, principal

CallSymmetry == Permutations({k1, k2})
=============================================================================
