--------------------------- MODULE MCResultSheets ---------------------------
(* A sheet of two students and one subject or two: either student may join*)
(* the class after the sheet was created.                                  *)
EXTENDS ResultSheets, TLC

CONSTANTS k1, k2, ann, ben, maths, english

SheetSymmetry == Permutations({ann, ben}) \cup Permutations({maths, english})
CallSymmetry == SheetSymmetry \cup Permutations({k1, k2})
=============================================================================
