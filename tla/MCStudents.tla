---------------------------- MODULE MCStudents ----------------------------
(* Two brothers, two guardians, a teacher of the school whose e-mail may be*)
(* given too, and two calls at a time.                                     *)
EXTENDS Students, TLC

CONSTANTS k1, k2, s1, s2, c1, c2, ma, pa, staff

MCLists == {<<ma>>, <<ma, pa>>, <<staff>>}
MCEdits == {<<"none", <<ma>>>>, <<"none", <<staff>>>>, <<c2, "none">>}
MCFirstUsers == <<[email |-> staff, role |-> "STAFF", here |-> TRUE]>>

Symmetry == Permutations({k1, k2}) \cup Permutations({s1, s2})
=============================================================================
