----------------------------- MODULE MCTreasury -----------------------------
(* A school with a category, a session and its first term, a rent due on   *)
(* the last of January and a fuel bill; two calls at a time.               *)
EXTENDS Treasury, TLC

CONSTANTS k1, k2

MCDue == <<[step |-> 1, month |-> 0, day |-> 31], [step |-> 3, month |-> 10, day |-> 28]>>
MCPeriods == "s24" :> "s24" @@ "t1" :> "s24"
CallSymmetry == Permutations({k1, k2})
=============================================================================
