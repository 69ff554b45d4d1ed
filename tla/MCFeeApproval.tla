--------------------------- MODULE MCFeeApproval ---------------------------
(* Two requests about three shares, two of them of one student, so that    *)
(* they compete for the share row, the item row or only the receipt lock;  *)
(* one parent, two members of staff, chains of one and two steps.  No      *)
(* symmetry: it would not be sound for RequestsEnd.                        *)
EXTENDS FeeApproval, TLC

CONSTANTS r1, r2, s1, s2, s3, ann, ben, parent, bursar, head

MCStudentOf == s1 :> ann @@ s2 :> ann @@ s3 :> ben
MCAmount == s1 :> 2 @@ s2 :> 3 @@ s3 :> 2
MCChildrenOf == parent :> {ann, ben}
MCChains == {<<{bursar}>>, <<{bursar, head}, {head}>>}
=============================================================================
