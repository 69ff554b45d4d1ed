--------------------------- MODULE MCAccessControl ---------------------------
(* AccessControl for TLC: a vice principal's permission and a group.       *)
EXTENDS AccessControl, FiniteSets, TLC

CONSTANTS super_admin, school_admin, principal, vice_principal, res, read, vic

MCRoleOf == vic :> vice_principal
MCDefaultFlags ==
  [k \in Roles \X Resources |-> LegacyActions]
(* Bound: two calls of administrators in flight, or one beside a check; a  *)
(* check, which reads no template, only while the templates are unedited.  *)
OneBesideACheck ==
  (\E k \in Checks : check[k] # NoCheck) =>
    /\ Cardinality({c \in Calls : call[c] # Idle}) <= 1
    /\ \A x \in DOMAIN roleRow :
         x[1] = "GLOBAL" => roleRow[x] = DefaultFlags[<<x[2], x[3]>>]
Symmetry == Permutations(Calls)
=============================================================================
