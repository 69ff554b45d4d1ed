----------------------------- MODULE MCAccounts -----------------------------
(* A school with its administrator and its principal, a second one, and a  *)
(* parent with the old default password; two calls at a time.              *)
EXTENDS Accounts, TLC

CONSTANTS k1, k2, north, south

Row(email, role, number) ==
  [email |-> email, role |-> role, school |-> north, active |-> TRUE, prefix |-> "NTH",
   number |-> number, legacy |-> role = "parent", refresh |-> FALSE, reset |-> FALSE,
   live |-> FALSE, verified |-> FALSE, verify |-> FALSE]
MCUsers == [i \in UserIds |-> CASE i = 1 -> Row("ada", "school_admin", 0)
                                [] i = 2 -> Row("ben", "principal", 1)
                                [] i = 3 -> Row("pam", "parent", 0)
                                [] OTHER -> NoUser]
MCSchools == north :> "active" @@ south :> "none"
MCPrefix == north :> "NTH" @@ south :> "STH"
MCHires == {[email |-> "cora", role |-> "principal", school |-> north],
            [email |-> "dora", role |-> "class_teacher", school |-> north]}
CallSymmetry == Permutations({k1, k2})
=============================================================================
