---------------------------- MODULE MCFeeLedger ----------------------------
(* A school-wide fee and a class fee in the first term, and a school-wide  *)
(* fee in the second; no two structures of a term share a category.        *)
EXTENDS FeeLedger, TLC

CONSTANTS ann, ben, tuition1, uniform, tuition2, term1, term2,
          jss, sss, noClass, noTerm, tuition, clothing

MCClassOf == ann :> jss @@ ben :> sss
MCClassFor == tuition1 :> noClass @@ uniform :> jss @@ tuition2 :> noClass
MCTermOf == tuition1 :> term1 @@ uniform :> term1 @@ tuition2 :> term2
MCCategoryOf == tuition1 :> tuition @@ uniform :> clothing @@ tuition2 :> tuition
MCSplits == {<<>>, <<1>>, <<2>>, <<1, 2>>}
MCAmounts == tuition1 :> {1, 2} @@ uniform :> {2} @@ tuition2 :> {2}

(* So the item an override reaches is always that of its structure.        *)
ASSUME CategoriesApart
=============================================================================
