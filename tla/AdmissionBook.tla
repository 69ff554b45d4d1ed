--------------------------- MODULE AdmissionBook ---------------------------
(***************************************************************************)
(* What the numbering of the students of one school and year promises,     *)
(* with no mention of transactions or locks: those admitted together get   *)
(* the next numbers, one each, and keep them.  Students implements it.     *)
(***************************************************************************)
EXTENDS Naturals, FiniteSets, Functions

CONSTANT Pupils

VARIABLES lastSequence,   \* the last number given
          number          \* number[s]: the number of student s, 0 if not admitted

bookVars == <<lastSequence, number>>

BookInit == lastSequence = 0 /\ number = [s \in Pupils |-> 0]

Admit(S) ==
  /\ \A s \in S : number[s] = 0
  /\ lastSequence' = lastSequence + Cardinality(S)
  /\ \E new \in Bijection(S, lastSequence + 1 .. lastSequence') :
       number' = [s \in Pupils |-> IF s \in S THEN new[s] ELSE number[s]]

BookSpec == BookInit /\ [][\E S \in SUBSET Pupils : Admit(S)]_bookVars
=============================================================================
