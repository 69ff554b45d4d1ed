---------------------------- MODULE MCSchoolYear ----------------------------
(* A school with a term under way and one to come, another school with its *)
(* own, a register of two pupils, one of staff; two calls at a time.       *)
EXTENDS SchoolYear, TLC

CONSTANTS k1, k2

MCSchoolOf == "s24" :> "north" @@ "s25" :> "north" @@ "s26" :> "north" @@ "x24" :> "south"
MCTerms == [t \in TermIds |-> CASE t = 1 -> [session |-> "s24", status |-> "active"]
                                [] t = 2 -> [session |-> "x24", status |-> "active"]
                                [] t = 3 -> [session |-> "s25", status |-> "closed"]
                                [] OTHER -> NoTerm]
MCRegisters == {<<[pupil |-> "ann", status |-> "present"], [pupil |-> "bob", status |-> "late"]>>,
                <<[pupil |-> "ann", status |-> "absent"]>>,
                <<[pupil |-> "bob", status |-> "absent"], [pupil |-> "bob", status |-> "present"]>>}
MCCorrections == {[in |-> 1, out |-> 0], [in |-> 0, out |-> 1]}
CallSymmetry == Permutations({k1, k2})
=============================================================================
