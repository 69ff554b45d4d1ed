----------------------------- MODULE Sums_proofs -----------------------------
(***************************************************************************)
(* What holds of the money a school takes (FeeApproval), books (FeeLedger) *)
(* and spends (Treasury), and of the results it publishes (ResultSheets),  *)
(* for every set of calls, amounts, names, pupils and scores.              *)
(*                                                                         *)
(* FeeApproval: receipt numbers are gap free, a share is credited once, a  *)
(* student never with more than was approved, a chain is decided as a      *)
(* whole, and the receipts implement ReceiptBook.  Treasury: every table   *)
(* keeps its keys, what is voided stays so, what was planned is kept, and  *)
(* the entries of the petty cash account for it.  ResultSheets: the totals *)
(* are those of the scores, and positions and grades those of the totals.  *)
(* FeeLedger: every invoice adds up and so does the money on all of them,  *)
(* and an override and its removal reach the item of their structure.      *)
(* All four need that a finite set has a sum, in whatever order it is      *)
(* added up.                                                               *)
(***************************************************************************)
EXTENDS FeeApproval, FeeLedger, Treasury, ResultSheets, FiniteSetTheorems, WellFoundedInduction, TLAPS

-----------------------------------------------------------------------------
(* Sums over finite sets, as MapThenSumSet adds them up: one element after *)
(* the other.  That there is such a sum, and that it does not matter in    *)
(* which order it is made, holds for a set if it does for all smaller ones.*)

Less == {ss \in Nat \X Nat : ss[1] < ss[2]}

LEMMA LeastExists ==
  ASSUME NEW T \in SUBSET Nat, T # {}
  PROVE  \E x \in T : \A y \in T : x <= y
<1>1. IsWellFoundedOn(Less, Nat)
  BY NatLessThanWellFounded, Zenon DEF Less, OpToRel
<1>2. PICK x \in T : \A y \in T : ~(<<y, x>> \in Less)
  BY <1>1, WFMin
<1>3. ASSUME NEW y \in T PROVE x <= y
  <2>1. <<y, x>> \in Nat \X Nat /\ <<y, x>>[1] = y /\ <<y, x>>[2] = x
    OBVIOUS
  <2>2. ~(y < x)
    BY <1>2, <2>1 DEF Less
  <2> QED BY <2>2
<1> QED BY <1>3

First(S) == CHOOSE x \in S : TRUE
SumStep(g, A, S) == IF S = {} THEN 0 ELSE A[First(S)] + g[S \ {First(S)}]
AddsUp(g, A, D) == \A S \in D : g[S] = SumStep(g, A, S)
UpTo(n, U) == {S \in SUBSET U : Cardinality(S) <= n}

LEMMA WithoutOne ==
  ASSUME NEW U, IsFiniteSet(U), NEW S \in SUBSET U, NEW x \in S
  PROVE  /\ S \ {x} \in SUBSET U /\ Cardinality(S) \in Nat /\ Cardinality(S) > 0
         /\ Cardinality(S \ {x}) = Cardinality(S) - 1
<1>1. IsFiniteSet(S)
  BY FS_Subset
<1>2. Cardinality(S) \in Nat /\ Cardinality(S \ {x}) = Cardinality(S) - 1
  BY <1>1, FS_RemoveElement, FS_CardinalityType
<1>3. IsFiniteSet(S \ {x})
  BY <1>1, FS_Subset
<1>4. Cardinality(S \ {x}) \in Nat
  BY <1>3, FS_CardinalityType
<1> QED BY <1>2, <1>4

LEMMA PartialSumExists ==
  ASSUME NEW U, IsFiniteSet(U), NEW A \in [U -> Int], NEW n \in Nat
  PROVE  \E g \in [UpTo(n, U) -> Int] : AddsUp(g, A, UpTo(n, U))
<1>1. PICK T : T = {k \in Nat : ~ \E g \in [UpTo(k, U) -> Int] : AddsUp(g, A, UpTo(k, U))}
  OBVIOUS
<1>2. ASSUME T # {} PROVE FALSE
  <2>1. PICK k \in T : \A j \in T : k <= j
    BY <1>1, <1>2, LeastExists
  <2>2. k \in Nat /\ ~ \E g \in [UpTo(k, U) -> Int] : AddsUp(g, A, UpTo(k, U))
    BY <1>1, <2>1
  <2>3. CASE k = 0
    <3>1. UpTo(0, U) = {{}}
      <4>1. ASSUME NEW S \in UpTo(0, U) PROVE S = {}
        <5>1. S \in SUBSET U /\ Cardinality(S) <= 0
          BY DEF UpTo
        <5>2. \A x \in S : Cardinality(S) > 0 /\ Cardinality(S) \in Nat
          BY <5>1, WithoutOne
        <5> QED BY <5>1, <5>2
      <4>2. {} \in UpTo(0, U)
        BY FS_EmptySet DEF UpTo
      <4> QED BY <4>1, <4>2
    <3>2. PICK g : g = [S \in UpTo(0, U) |-> 0]
      OBVIOUS
    <3>3. g \in [UpTo(0, U) -> Int] /\ AddsUp(g, A, UpTo(0, U))
      BY <3>1, <3>2 DEF AddsUp, SumStep
    <3> QED BY <2>2, <2>3, <3>3
  <2>4. CASE k # 0
    <3>1. k - 1 \in Nat /\ k - 1 \notin T
      BY <2>1, <2>2, <2>4
    <3>2. PICK g \in [UpTo(k - 1, U) -> Int] : AddsUp(g, A, UpTo(k - 1, U))
      BY <1>1, <3>1
    <3>3. ASSUME NEW S \in UpTo(k, U), S # {}
          PROVE  /\ First(S) \in S /\ First(S) \in U
                 /\ S \ {First(S)} \in UpTo(k - 1, U)
      <4>1. First(S) \in S
        BY <3>3 DEF First
      <4>2. S \in SUBSET U /\ Cardinality(S) <= k
        BY DEF UpTo
      <4>3. /\ S \ {First(S)} \in SUBSET U /\ Cardinality(S) \in Nat
            /\ Cardinality(S \ {First(S)}) = Cardinality(S) - 1
        BY <4>1, <4>2, WithoutOne
      <4>4. Cardinality(S \ {First(S)}) <= k - 1
        BY <2>2, <4>2, <4>3
      <4> QED BY <4>1, <4>2, <4>3, <4>4 DEF UpTo
    <3>4. UpTo(k - 1, U) \subseteq UpTo(k, U)
      <4>1. ASSUME NEW S \in UpTo(k - 1, U) PROVE S \in UpTo(k, U)
        <5>1. S \in SUBSET U /\ Cardinality(S) <= k - 1 /\ Cardinality(S) \in Nat
          BY FS_Subset, FS_CardinalityType DEF UpTo
        <5> QED BY <2>2, <5>1 DEF UpTo
      <4> QED BY <4>1
    <3>5. PICK h : h = [S \in UpTo(k, U) |-> SumStep(g, A, S)]
      OBVIOUS
    <3>6. h \in [UpTo(k, U) -> Int]
      <4>1. ASSUME NEW S \in UpTo(k, U), S # {}
            PROVE  A[First(S)] + g[S \ {First(S)}] \in Int
        <5>1. A[First(S)] \in Int /\ g[S \ {First(S)}] \in Int
          BY <3>2, <3>3, <4>1
        <5> QED BY <5>1
      <4> QED BY <3>5, <4>1 DEF SumStep
    <3>7. \A S \in UpTo(k - 1, U) : h[S] = g[S]
      BY <3>2, <3>4, <3>5 DEF AddsUp
    <3>8. AddsUp(h, A, UpTo(k, U))
      BY <3>3, <3>5, <3>7 DEF AddsUp, SumStep
    <3> QED BY <2>2, <3>6, <3>8
  <2> QED BY <2>3, <2>4
<1> QED BY <1>1, <1>2

LEMMA SumExists ==
  ASSUME NEW U, IsFiniteSet(U), NEW A \in [U -> Int]
  PROVE  \E g \in [SUBSET U -> Int] : AddsUp(g, A, SUBSET U)
<1>1. PICK n \in Nat : n = Cardinality(U)
  BY FS_CardinalityType
<1>2. UpTo(n, U) = SUBSET U
  BY <1>1, FS_Subset DEF UpTo
<1>3. PICK g \in [UpTo(n, U) -> Int] : AddsUp(g, A, UpTo(n, U))
  BY PartialSumExists
<1>4. g \in [SUBSET U -> Int] /\ AddsUp(g, A, SUBSET U)
  BY <1>2, <1>3
<1> QED BY <1>4

(* Two sums of the same numbers are the same, whatever else they add.      *)
LEMMA SumsAgree ==
  ASSUME NEW U, IsFiniteSet(U), NEW V, NEW A, NEW B, NEW g, NEW h,
         AddsUp(g, A, SUBSET U), AddsUp(h, B, SUBSET V), U \subseteq V,
         \A x \in U : A[x] = B[x]
  PROVE  g[U] = h[U]
<1>1. PICK T : T = {k \in Nat : \E S \in SUBSET U : Cardinality(S) = k /\ g[S] # h[S]}
  OBVIOUS
<1>2. ASSUME T # {} PROVE FALSE
  <2>1. PICK k \in T : \A j \in T : k <= j
    BY <1>1, <1>2, LeastExists
  <2>2. PICK S \in SUBSET U : Cardinality(S) = k /\ g[S] # h[S]
    BY <1>1, <2>1
  <2>3. S \in SUBSET V /\ g[S] = SumStep(g, A, S) /\ h[S] = SumStep(h, B, S)
    BY DEF AddsUp
  <2>4. S # {}
    BY <2>2, <2>3 DEF SumStep
  <2>5. PICK x \in S : x = First(S)
    BY <2>4 DEF First
  <2>6. g[S] = A[x] + g[S \ {x}] /\ h[S] = B[x] + h[S \ {x}] /\ A[x] = B[x]
    BY <2>3, <2>4, <2>5 DEF SumStep
  <2>7. /\ S \ {x} \in SUBSET U /\ k \in Nat /\ k > 0 /\ Cardinality(S \ {x}) = k - 1
    BY <2>2, WithoutOne
  <2>8. k - 1 \in Nat /\ k - 1 \notin T
    BY <2>1, <2>7
  <2>9. g[S \ {x}] = h[S \ {x}]
    BY <1>1, <2>7, <2>8
  <2> QED BY <2>2, <2>6, <2>9
<1>3. Cardinality(U) \in Nat
  BY FS_CardinalityType
<1> QED BY <1>1, <1>2, <1>3

(* Whichever element is taken out first.                                   *)
LEMMA SumWithout ==
  ASSUME NEW U, IsFiniteSet(U), NEW A \in [U -> Int], NEW g \in [SUBSET U -> Int],
         AddsUp(g, A, SUBSET U), NEW S \in SUBSET U, NEW x \in S
  PROVE  g[S] = A[x] + g[S \ {x}]
<1>1. PICK T : T = {k \in Nat : \E R \in SUBSET U : \E y \in R :
                      Cardinality(R) = k /\ g[R] # A[y] + g[R \ {y}]}
  OBVIOUS
<1>2. ASSUME T # {} PROVE FALSE
  <2>a. T \in SUBSET Nat
    BY <1>1
  <2>1. PICK k \in T : \A j \in T : k <= j
    BY <2>a, <1>2, LeastExists
  <2>2. PICK R \in SUBSET U : \E y \in R :
          Cardinality(R) = k /\ g[R] # A[y] + g[R \ {y}]
    BY <1>1, <2>1
  <2>3. PICK y \in R : Cardinality(R) = k /\ g[R] # A[y] + g[R \ {y}]
    BY <2>2
  <2>4. PICK z \in R : z = First(R)
    BY DEF First
  <2>5. g[R] = A[z] + g[R \ {z}]
    BY <2>4 DEF AddsUp, SumStep
  <2>6. y # z
    BY <2>3, <2>5
  <2>7. /\ k \in Nat /\ k > 0
        /\ R \ {y} \in SUBSET U /\ Cardinality(R \ {y}) = k - 1
        /\ R \ {z} \in SUBSET U /\ Cardinality(R \ {z}) = k - 1
    BY <2>3, WithoutOne
  <2>8. k - 1 \in Nat /\ k - 1 \notin T
    BY <2>1, <2>7
  <2>9. \A Q \in SUBSET U : Cardinality(Q) = k - 1 =>
          \A w \in Q : g[Q] = A[w] + g[Q \ {w}]
    BY <1>1, <2>8
  <2>10. z \in R \ {y} /\ y \in R \ {z}
    BY <2>6
  <2>11. PICK Q : Q = (R \ {y}) \ {z}
    OBVIOUS
  <2>12. Q = (R \ {z}) \ {y} /\ Q \in SUBSET U
    BY <2>11
  <2>13. g[R \ {y}] = A[z] + g[Q]
    BY <2>7, <2>9, <2>10, <2>11
  <2>14. g[R \ {z}] = A[y] + g[Q]
    BY <2>7, <2>9, <2>10, <2>12
  <2>15. A[y] \in Int /\ A[z] \in Int /\ g[Q] \in Int
    BY <2>12
  <2>16. \A a, b, c \in Int : a + (b + c) = b + (a + c)
    OBVIOUS
  <2>17. g[R] = A[z] + (A[y] + g[Q])
    BY <2>5, <2>14
  <2>18. g[R] = A[y] + (A[z] + g[Q])
    BY <2>15, <2>16, <2>17
  <2> QED BY <2>3, <2>13, <2>18
<1>3. IsFiniteSet(S) /\ Cardinality(S) \in Nat
  BY FS_Subset, FS_CardinalityType
<1> QED BY <1>1, <1>2, <1>3

LEMMA SumSplits ==
  ASSUME NEW U, IsFiniteSet(U), NEW A \in [U -> Int], NEW g \in [SUBSET U -> Int],
         AddsUp(g, A, SUBSET U), NEW x \in U
  PROVE  g[U] = A[x] + g[U \ {x}]
<1>1. PICK S \in SUBSET U : S = U
  OBVIOUS
<1>2. x \in S
  BY <1>1
<1>3. g[S] = A[x] + g[S \ {x}]
  BY <1>2, SumWithout
<1> QED BY <1>1, <1>3

(* What the numbers A give the elements of U come to.                      *)
SumOf(A, U) == CHOOSE v : \E g \in [SUBSET U -> Int] : AddsUp(g, A, SUBSET U) /\ v = g[U]

LEMMA SumUnique ==
  ASSUME NEW U, IsFiniteSet(U), NEW A, NEW g, NEW h,
         AddsUp(g, A, SUBSET U), AddsUp(h, A, SUBSET U)
  PROVE  h[U] = g[U]
<1>1. g[U] = h[U]
  BY SumsAgree
<1> QED BY <1>1

LEMMA SumIs ==
  ASSUME NEW U, IsFiniteSet(U), NEW A \in [U -> Int],
         NEW g \in [SUBSET U -> Int], AddsUp(g, A, SUBSET U)
  PROVE  SumOf(A, U) = g[U]
<1>1. ASSUME NEW h \in [SUBSET U -> Int], AddsUp(h, A, SUBSET U) PROVE h[U] = g[U]
  <2> QED BY <1>1, SumUnique
<1>2. \A v : (\E h \in [SUBSET U -> Int] : AddsUp(h, A, SUBSET U) /\ v = h[U]) <=> v = g[U]
  BY <1>1
<1>3. SumOf(A, U) = CHOOSE v : v = g[U]
  BY <1>2 DEF SumOf
<1> QED BY <1>3

LEMMA SumOfNone == ASSUME NEW A \in [{} -> Int] PROVE SumOf(A, {}) = 0
<1>1. IsFiniteSet({})
  BY FS_EmptySet
<1>2. PICK g \in [SUBSET {} -> Int] : AddsUp(g, A, SUBSET {})
  BY <1>1, SumExists
<1>3. g[{}] = 0
  BY <1>2 DEF AddsUp, SumStep
<1> QED BY <1>1, <1>2, <1>3, SumIs

LEMMA SumOfTyped ==
  ASSUME NEW U, IsFiniteSet(U), NEW A \in [U -> Int]
  PROVE  SumOf(A, U) \in Int
<1>1. PICK g \in [SUBSET U -> Int] : AddsUp(g, A, SUBSET U)
  BY SumExists
<1> QED BY <1>1, SumIs

(* One element more.                                                       *)
LEMMA SumOfMore ==
  ASSUME NEW U, IsFiniteSet(U), NEW x, x \notin U, NEW A \in [U \cup {x} -> Int],
         NEW B \in [U -> Int], \A y \in U : A[y] = B[y]
  PROVE  SumOf(A, U \cup {x}) = A[x] + SumOf(B, U)
<1>1. PICK V : V = U \cup {x}
  OBVIOUS
<1>2. IsFiniteSet(V) /\ A \in [V -> Int] /\ V \ {x} = U /\ U \subseteq V /\ x \in V
  BY <1>1, FS_AddElement
<1>3. PICK g \in [SUBSET V -> Int] : AddsUp(g, A, SUBSET V)
  BY <1>2, SumExists
<1>4. PICK h \in [SUBSET U -> Int] : AddsUp(h, B, SUBSET U)
  BY SumExists
<1>5. g[V] = A[x] + g[U]
  <2>1. V \in SUBSET V
    OBVIOUS
  <2>2. IsFiniteSet(V) /\ A \in [V -> Int] /\ AddsUp(g, A, SUBSET V) /\ x \in V
    BY <1>2, <1>3
  <2>3. g[V] = A[x] + g[V \ {x}]
    BY <2>2, SumSplits
  <2> QED BY <1>2, <2>3
<1>6. h[U] = g[U]
  BY <1>2, <1>3, <1>4, SumsAgree
<1>7. SumOf(A, V) = g[V] /\ SumOf(B, U) = h[U]
  BY <1>2, <1>3, <1>4, SumIs
<1> QED BY <1>1, <1>5, <1>6, <1>7

IsAmountSum(f, U) ==
  f = [S \in SUBSET U |-> IF S = {} THEN 0
         ELSE (CHOOSE y \in S : TRUE).amount + f[S \ {CHOOSE y \in S : TRUE}]]

(* The community modules' sum of a set of records, or of their values.     *)
LEMMA SumOfAmounts ==
  ASSUME NEW U, IsFiniteSet(U), NEW A \in [U -> Int], \A y \in U : A[y] = y.amount
  PROVE  MapThenSumSet(LAMBDA y : y.amount, U) = SumOf(A, U)
<1>1. PICK g \in [SUBSET U -> Int] : AddsUp(g, A, SUBSET U)
  BY SumExists
<1>2. IsAmountSum(g, U)
  <2>1. ASSUME NEW S \in SUBSET U, S # {}
        PROVE  g[S] = (CHOOSE y \in S : TRUE).amount + g[S \ {CHOOSE y \in S : TRUE}]
    <3>1. PICK z \in S : z = First(S)
      BY <2>1 DEF First
    <3>2. g[S] = A[z] + g[S \ {z}] /\ A[z] = z.amount
      BY <1>1, <2>1, <3>1 DEF AddsUp, SumStep
    <3> QED BY <3>1, <3>2 DEF First
  <2>2. g[{}] = 0
    BY <1>1 DEF AddsUp, SumStep
  <2> QED BY <1>1, <2>1, <2>2 DEF IsAmountSum
<1>3. PICK f : f = CHOOSE iter : IsAmountSum(iter, U)
  OBVIOUS
<1>4. IsAmountSum(f, U)
  BY <1>2, <1>3
<1>5. AddsUp(f, A, SUBSET U)
  <2>1. ASSUME NEW S \in SUBSET U PROVE f[S] = SumStep(f, A, S)
    <3>1. CASE S = {}
      BY <1>4, <3>1 DEF SumStep, IsAmountSum
    <3>2. CASE S # {}
      <4>1. PICK z \in S : z = First(S)
        BY <3>2 DEF First
      <4>2. f[S] = z.amount + f[S \ {z}] /\ A[z] = z.amount
        BY <1>4, <3>2, <4>1 DEF First, IsAmountSum
      <4> QED BY <3>2, <4>1, <4>2 DEF SumStep
    <3> QED BY <3>1, <3>2
  <2> QED BY <2>1 DEF AddsUp
<1>6. f[U] = g[U]
  BY <1>1, <1>5, SumsAgree
<1>7. MapThenSumSet(LAMBDA y : y.amount, U) = f[U]
  BY <1>3 DEF MapThenSumSet, MapThenFoldSet, IsAmountSum
<1> QED BY <1>1, <1>6, <1>7, SumIs

-----------------------------------------------------------------------------
(* Payments and their receipts.                                            *)

(* The variables hold values of their types.  The code's columns: enums,   *)
(* numbers and foreign keys.                                               *)
THEOREM TypeCorrect == Spec => []TypeOK
<1>1. Init => TypeOK
  <2> SUFFICES ASSUME Init PROVE TypeOK
    OBVIOUS
  <2>1. (CHOOSE s \in Shares : TRUE) \in Shares /\ (CHOOSE u \in Users : TRUE) \in Users
    BY ConstantsAssumption
  <2>2. config \in [mode : Modes, steps : Seq(SUBSET Users)]
    BY DEF Init, Modes
  <2> QED BY <2>1, <2>2 DEF Init, TypeOK, Final
<1>2. TypeOK /\ [Next]_vars => TypeOK'
  <2> SUFFICES ASSUME TypeOK, [Next]_vars PROVE TypeOK'
    OBVIOUS
  <2>1. ASSUME NEW r \in Requests, Start(r) PROVE TypeOK'
    <3>1. ASSUME NEW s \in Shares, NEW u \in Users, NEW o \in {"approve", "reject"},
                 Load(r, o, s, u)
          PROVE TypeOK'
      BY <3>1 DEF TypeOK, Load, shareVars, registers
    <3>2. ASSUME NEW s \in Shares, NEW u \in Users, RecordOfflinePayment(r, s, u)
          PROVE TypeOK'
      BY <3>2 DEF TypeOK, RecordOfflinePayment, shareVars, registers
    <3> QED BY <2>1, <3>1, <3>2 DEF Start
  <2>2. ASSUME NEW r \in Requests PROVE OwnDecision(r) \in Decision
    BY DEF OwnDecision, Decision, TypeOK, Final
  <2>3. ASSUME NEW r \in Requests, Advance(r) PROVE TypeOK'
    <3>1. CASE Decide(r)
      <4>1. step' \in [Requests -> Nat]
        <5>1. config.steps \in Seq(SUBSET Users) /\ step \in [Requests -> Nat]
          BY DEF TypeOK
        <5>2. \A i \in DOMAIN config.steps : i \in Nat
          BY <5>1
        <5>3. step' = step \/ \E i \in Nat : step' = [step EXCEPT ![r] = i]
          BY <3>1, <5>2 DEF Decide
        <5> QED BY <5>1, <5>3
      <4>2. complete' \in [Requests -> BOOLEAN]
        BY <3>1, Zenon DEF Decide, TypeOK
      <4> QED
        BY <3>1, <4>1, <4>2 DEF Decide, TypeOK, shareVars, callVars
    <3>2. CASE CommitStep(r)
      BY <3>2, <2>2 DEF TypeOK, CommitStep, callVars, registers
    <3>3. CASE Finalize(r)
      BY <3>3 DEF TypeOK, Finalize, shareVars, callVars, registers
    <3>4. CASE ReadItem(r)
      BY <3>4, ConstantsAssumption DEF TypeOK, ReadItem, shareVars, callVars
    <3>5. CASE SaveItem(r)
      BY <3>5 DEF TypeOK, SaveItem, shareVars, callVars, registers
    <3>6. CASE GenerateReceipt(r)
      BY <3>6 DEF TypeOK, GenerateReceipt, shareVars, callVars
    <3>7. CASE CommitPayment(r)
      <4>1. /\ share[r] \in Shares
            /\ Amount[share[r]] \in Nat
            /\ seen[r] \in Nat
            /\ serial[r] \in Nat
        BY ConstantsAssumption DEF TypeOK
      <4>2. paid' \in [Students -> Nat]
        <5>1. seen[r] + Amount[share[r]] \in Nat
          BY <4>1
        <5>2. paid' = [paid EXCEPT ![StudentOf[share[r]]] = seen[r] + Amount[share[r]]]
          BY <3>7 DEF CommitPayment
        <5> QED BY <5>1, <5>2 DEF TypeOK
      <4>3. receipt' \in [Shares -> Nat] /\ lastSequence' \in Nat
        BY <3>7, <4>1 DEF CommitPayment, TypeOK
      <4>4. credits' \in [Shares -> Nat]
        BY <3>7, <4>1 DEF CommitPayment, TypeOK
      <4>5. status' \in [Shares -> {"ABSENT", "PENDING"} \cup Final]
        BY <3>7, <4>1 DEF CommitPayment, TypeOK, Final
      <4>6. decisions' \subseteq Decision
        BY <3>7, <2>2 DEF CommitPayment, TypeOK
      <4> QED
        BY <3>7, <4>2, <4>3, <4>4, <4>5, <4>6
        DEF CommitPayment, TypeOK, callVars, registers
    <3>8. CASE Reject(r)
      BY <3>8 DEF TypeOK, Reject, shareVars, callVars, registers
    <3>9. CASE CommitReject(r)
      BY <3>9, <2>2 DEF TypeOK, Final, CommitReject, callVars, registers
    <3> QED
      BY <2>3, <3>1, <3>2, <3>3, <3>4, <3>5, <3>6, <3>7, <3>8, <3>9 DEF Advance
  <2>4. ASSUME NEW r \in Requests, Rollback(r) PROVE TypeOK'
    BY <2>4 DEF TypeOK, Rollback, shareVars, callVars, registers
  <2>5. ASSUME NEW p \in Parents, NEW batch \in SUBSET Shares,
               SubmitPaymentBatch(p, batch)
        PROVE TypeOK'
    BY <2>5 DEF TypeOK, SubmitPaymentBatch, callVars, registers
  <2>6. ASSUME NEW mode \in Modes \ {"NONE"}, NEW steps \in Chains,
               UpsertApprovalConfig(mode, steps)
        PROVE TypeOK'
    <3>1. ASSUME NEW d \in Decision PROVE [d EXCEPT !.step = 0] \in Decision
      BY DEF Decision
    <3>2. decisions' \subseteq Decision
      BY <2>6, <3>1 DEF UpsertApprovalConfig, TypeOK
    <3>3. config' \in [mode : Modes, steps : Seq(SUBSET Users)]
      BY <2>6, ConstantsAssumption DEF UpsertApprovalConfig
    <3> QED
      BY <2>6, <3>2, <3>3 DEF TypeOK, UpsertApprovalConfig, callVars, registers
  <2>7. CASE UNCHANGED vars
    BY <2>7 DEF TypeOK, vars, shareVars, callVars, registers
  <2> QED BY <2>1, <2>3, <2>4, <2>5, <2>6, <2>7 DEF Next
<1> QED BY <1>1, <1>2, PTL DEF Spec

-----------------------------------------------------------------------------
(* Receipts.  The advisory lock admits one holder, whose number is the one *)
(* after the last committed, and its share has no receipt yet.             *)

LockInv ==
  /\ \A q, r \in Requests : HoldsSerial(q) /\ HoldsSerial(r) => q = r
  /\ \A r \in Requests :
       HoldsSerial(r) => serial[r] = lastSequence + 1 /\ receipt[share[r]] = 0

ReceiptInv == LockInv /\ SerialsGapFree /\ CreditedOnce

(* Steps that commit no payment keep the receipts and draw no number.      *)
LEMMA ReceiptInvStable ==
  ASSUME TypeOK, ReceiptInv, UNCHANGED <<receipt, lastSequence, credits>>,
         \A r \in Requests :
            HoldsSerial(r)' => HoldsSerial(r) /\ UNCHANGED <<serial[r], share[r]>>,
         \A s \in Shares : status'[s] = "APPROVED" => status[s] = "APPROVED"
  PROVE  ReceiptInv'
<1>1. LockInv'
  BY DEF ReceiptInv, LockInv, TypeOK
<1>2. SerialsGapFree' /\ CreditedOnce'
  BY DEF ReceiptInv, SerialsGapFree, CreditedOnce, TypeOK
<1> QED BY <1>1, <1>2 DEF ReceiptInv

(* The one step that draws a number does so alone.                         *)
LEMMA GenerateReceiptKeeps ==
  ASSUME TypeOK, ReceiptInv, NEW r \in Requests, GenerateReceipt(r)
  PROVE  ReceiptInv'
<1>1. \A q \in Requests : HoldsSerial(q)' <=> q = r
  BY DEF GenerateReceipt, HoldsSerial, TypeOK
<1>2. serial'[r] = lastSequence + 1 /\ UNCHANGED <<receipt, lastSequence, credits, status, share>>
  BY DEF GenerateReceipt, TypeOK, shareVars, callVars
<1>3. receipt[share[r]] = 0
  BY DEF GenerateReceipt, Unreceipted
<1>4. LockInv'
  BY <1>1, <1>2, <1>3 DEF LockInv
<1>5. SerialsGapFree' /\ CreditedOnce'
  BY <1>2 DEF ReceiptInv, SerialsGapFree, CreditedOnce
<1> QED BY <1>4, <1>5 DEF ReceiptInv

(* The commit that issues it releases the lock and extends the numbering.  *)
LEMMA CommitPaymentKeeps ==
  ASSUME TypeOK, ReceiptInv, NEW r \in Requests, CommitPayment(r)
  PROVE  ReceiptInv'
<1> DEFINE s == share[r]
<1>1. s \in Shares /\ receipt[s] = 0 /\ serial[r] = lastSequence + 1 /\ lastSequence \in Nat
  BY DEF CommitPayment, ReceiptInv, LockInv, HoldsSerial, TypeOK
<1>2. /\ receipt' = [receipt EXCEPT ![s] = lastSequence + 1]
      /\ lastSequence' = lastSequence + 1
      /\ credits' = [credits EXCEPT ![s] = credits[s] + 1]
      /\ status' = [status EXCEPT ![s] = "APPROVED"]
  BY <1>1 DEF CommitPayment
<1>3. LockInv'
  <2>1. \A q \in Requests : ~HoldsSerial(q)'
    BY DEF CommitPayment, ReceiptInv, LockInv, HoldsSerial, TypeOK
  <2> QED BY <2>1 DEF LockInv
<1>4. SerialsGapFree'
  <2>1. \A t \in Shares : receipt[t] \in Nat /\ receipt[t] <= lastSequence
    BY DEF ReceiptInv, SerialsGapFree, TypeOK
  <2>2. \A t \in Shares : receipt'[t] = IF t = s THEN lastSequence + 1 ELSE receipt[t]
    BY <1>1, <1>2 DEF TypeOK
  <2>3. \A t \in Shares : receipt'[t] <= lastSequence'
    BY <1>1, <1>2, <2>1, <2>2
  <2>4. ASSUME NEW t \in Shares, NEW u \in Shares, receipt'[t] = receipt'[u], receipt'[t] # 0
        PROVE t = u
    BY <1>1, <2>1, <2>2, <2>4 DEF ReceiptInv, SerialsGapFree
  <2>5. ASSUME NEW n \in 1..lastSequence' PROVE \E t \in Shares : receipt'[t] = n
    <3>1. CASE n = lastSequence + 1
      BY <1>1, <2>2, <3>1
    <3>2. CASE n \in 1..lastSequence
      <4>1. PICK t \in Shares : receipt[t] = n
        BY <3>2 DEF ReceiptInv, SerialsGapFree
      <4>2. t # s
        BY <1>1, <3>2, <4>1
      <4> QED BY <2>2, <4>1, <4>2
    <3> QED BY <1>1, <1>2, <2>5, <3>1, <3>2
  <2> QED BY <2>3, <2>4, <2>5 DEF SerialsGapFree
<1>5. CreditedOnce'
  <2>1. \A t \in Shares : t # s => credits'[t] = credits[t] /\ receipt'[t] = receipt[t]
                                   /\ status'[t] = status[t]
    BY <1>2 DEF TypeOK
  <2>2. credits[s] = 0
    <3>1. \A t \in Shares : receipt[t] = 0 => credits[t] = 0
      BY DEF ReceiptInv, CreditedOnce
    <3> QED BY <1>1, <3>1
  <2>3. credits'[s] = 1 /\ receipt'[s] # 0
    BY <1>1, <1>2, <2>2 DEF TypeOK
  <2> QED BY <2>1, <2>3 DEF ReceiptInv, CreditedOnce
<1> QED BY <1>3, <1>4, <1>5 DEF ReceiptInv

(* One step per action. *)
LEMMA ReceiptInvAlways == Spec => []ReceiptInv
<1>1. Init => ReceiptInv
  <2> SUFFICES ASSUME Init PROVE ReceiptInv
    OBVIOUS
  <2>1. \A r \in Requests : ~HoldsSerial(r)
    BY DEF Init, HoldsSerial
  <2>2. SerialsGapFree /\ CreditedOnce
    BY DEF Init, SerialsGapFree, CreditedOnce
  <2> QED BY <2>1, <2>2 DEF ReceiptInv, LockInv
<1>2. TypeOK /\ ReceiptInv /\ [Next]_vars => ReceiptInv'
  <2> SUFFICES ASSUME TypeOK, ReceiptInv, [Next]_vars PROVE ReceiptInv'
    OBVIOUS
  <2>1. ASSUME NEW r \in Requests, Start(r) PROVE ReceiptInv'
    <3>1. ASSUME NEW s \in Shares, NEW u \in Users, NEW o \in {"approve", "reject"},
                 Load(r, o, s, u)
          PROVE ReceiptInv'
      BY <3>1, ReceiptInvStable DEF Load, HoldsSerial, TypeOK, shareVars, registers
    <3>2. ASSUME NEW s \in Shares, NEW u \in Users, RecordOfflinePayment(r, s, u)
          PROVE ReceiptInv'
      BY <3>2, ReceiptInvStable
      DEF RecordOfflinePayment, HoldsSerial, TypeOK, shareVars, registers
    <3> QED BY <2>1, <3>1, <3>2 DEF Start
  <2>2. ASSUME NEW r \in Requests, Advance(r) PROVE ReceiptInv'
    <3>1. CASE Decide(r)
      BY <3>1, ReceiptInvStable DEF Decide, HoldsSerial, TypeOK, shareVars, callVars
    <3>2. CASE CommitStep(r)
      BY <3>2, ReceiptInvStable DEF CommitStep, HoldsSerial, TypeOK, callVars, registers
    <3>3. CASE Finalize(r)
      BY <3>3, ReceiptInvStable
      DEF Finalize, HoldsSerial, TypeOK, shareVars, callVars, registers
    <3>4. CASE ReadItem(r)
      BY <3>4, ReceiptInvStable DEF ReadItem, HoldsSerial, TypeOK, shareVars, callVars
    <3>5. CASE SaveItem(r)
      BY <3>5, ReceiptInvStable
      DEF SaveItem, HoldsSerial, TypeOK, shareVars, callVars, registers
    <3>6. CASE GenerateReceipt(r)
      BY <3>6, GenerateReceiptKeeps
    <3>7. CASE CommitPayment(r)
      BY <3>7, CommitPaymentKeeps
    <3>8. CASE Reject(r)
      BY <3>8, ReceiptInvStable
      DEF Reject, HoldsSerial, TypeOK, shareVars, callVars, registers
    <3>9. CASE CommitReject(r)
      BY <3>9, ReceiptInvStable
      DEF CommitReject, HoldsSerial, TypeOK, callVars, registers
    <3> QED
      BY <2>2, <3>1, <3>2, <3>3, <3>4, <3>5, <3>6, <3>7, <3>8, <3>9 DEF Advance
  <2>3. ASSUME NEW r \in Requests, Rollback(r) PROVE ReceiptInv'
    BY <2>3, ReceiptInvStable
    DEF Rollback, HoldsSerial, TypeOK, shareVars, callVars, registers
  <2>4. ASSUME NEW p \in Parents, NEW batch \in SUBSET Shares,
               SubmitPaymentBatch(p, batch)
        PROVE ReceiptInv'
    BY <2>4, ReceiptInvStable
    DEF SubmitPaymentBatch, HoldsSerial, TypeOK, callVars, registers
  <2>5. ASSUME NEW mode \in Modes \ {"NONE"}, NEW steps \in Chains,
               UpsertApprovalConfig(mode, steps)
        PROVE ReceiptInv'
    BY <2>5, ReceiptInvStable
    DEF UpsertApprovalConfig, HoldsSerial, TypeOK, callVars, registers
  <2>6. CASE UNCHANGED vars
    BY <2>6, ReceiptInvStable DEF HoldsSerial, vars, shareVars, callVars, registers
  <2> QED BY <2>1, <2>2, <2>3, <2>4, <2>5, <2>6 DEF Next
<1> QED BY <1>1, <1>2, TypeCorrect, PTL DEF Spec

(* Receipt numbers are gap free and unique, for any number of concurrent   *)
(* approvals, rejections, offline payments, rollbacks and configuration    *)
(* changes.                                                                *)
THEOREM SerialsCorrect == Spec => []SerialsGapFree
<1>1. ReceiptInv => SerialsGapFree
  BY DEF ReceiptInv
<1> QED BY <1>1, ReceiptInvAlways, PTL

(* No share is credited twice, and none is APPROVED without its credit.    *)
THEOREM CreditsCorrect == Spec => []CreditedOnce
<1>1. ReceiptInv => CreditedOnce
  BY DEF ReceiptInv
<1> QED BY <1>1, ReceiptInvAlways, PTL

-----------------------------------------------------------------------------
(* What a set of shares comes to is a sum as those above.                  *)
LEMMA AmountsTyped == Amount \in [Shares -> Int] /\ IsFiniteSet(Shares)
BY ConstantsAssumption

LEMMA TotalAddsUp ==
  /\ AddsUp(Total, Amount, SUBSET Shares)
  /\ Total = [S \in SUBSET Shares |-> Total[S]]
<1>1. PICK g \in [SUBSET Shares -> Int] : AddsUp(g, Amount, SUBSET Shares)
  BY AmountsTyped, SumExists
<1>2. g = [S \in SUBSET Shares |->
             IF S = {} THEN 0 ELSE Amount[First(S)] + g[S \ {First(S)}]]
  BY <1>1 DEF AddsUp, SumStep
<1>3. Total = [S \in SUBSET Shares |->
             IF S = {} THEN 0 ELSE Amount[First(S)] + Total[S \ {First(S)}]]
  BY <1>2 DEF Total, First
<1>4. Total = [S \in SUBSET Shares |-> Total[S]]
  BY <1>3
<1>5. AddsUp(Total, Amount, SUBSET Shares)
  BY <1>3 DEF AddsUp, SumStep
<1> QED BY <1>4, <1>5

LEMMA TotalTyped == ASSUME NEW S \in SUBSET Shares PROVE Total[S] \in Nat
<1>1. PICK T : T = {k \in Nat : \E R \in SUBSET Shares :
                                  Cardinality(R) = k /\ Total[R] \notin Nat}
  OBVIOUS
<1>2. ASSUME T # {} PROVE FALSE
  <2>1. PICK k \in T : \A j \in T : k <= j
    BY <1>1, <1>2, LeastExists
  <2>2. PICK R \in SUBSET Shares : Cardinality(R) = k /\ Total[R] \notin Nat
    BY <1>1, <2>1
  <2>3. R # {}
    <3>1. Total[{}] = 0
      BY TotalAddsUp DEF AddsUp, SumStep
    <3> QED BY <2>2, <3>1
  <2>4. PICK x \in R : x = First(R)
    BY <2>3 DEF First
  <2>5. Total[R] = Amount[x] + Total[R \ {x}]
    BY <2>3, <2>4, TotalAddsUp DEF AddsUp, SumStep
  <2>6. /\ R \ {x} \in SUBSET Shares /\ k \in Nat /\ k > 0
        /\ Cardinality(R \ {x}) = k - 1
    BY <2>2, AmountsTyped, WithoutOne
  <2>7. k - 1 \in Nat /\ k - 1 \notin T
    BY <2>1, <2>6
  <2>8. Total[R \ {x}] \in Nat
    BY <1>1, <2>6, <2>7
  <2>9. Amount[x] \in Nat
    BY ConstantsAssumption
  <2> QED BY <2>2, <2>5, <2>8, <2>9
<1>3. IsFiniteSet(S) /\ Cardinality(S) \in Nat
  BY ConstantsAssumption, FS_Subset, FS_CardinalityType
<1> QED BY <1>1, <1>2, <1>3

(* Whichever share is taken out first.                                     *)
LEMMA TotalWithout ==
  ASSUME NEW S \in SUBSET Shares, NEW x \in S
  PROVE  Total[S] = Amount[x] + Total[S \ {x}]
<1>1. PICK T : T = {k \in Nat : \E R \in SUBSET Shares : \E y \in R :
                      /\ Cardinality(R) = k
                      /\ Total[R] # Amount[y] + Total[R \ {y}]}
  OBVIOUS
<1>2. ASSUME T # {} PROVE FALSE
  <2>1. PICK k \in T : \A j \in T : k <= j
    BY <1>1, <1>2, LeastExists
  <2>2. PICK R \in SUBSET Shares : \E y \in R :
          Cardinality(R) = k /\ Total[R] # Amount[y] + Total[R \ {y}]
    BY <1>1, <2>1
  <2>3. PICK y \in R : Cardinality(R) = k /\ Total[R] # Amount[y] + Total[R \ {y}]
    BY <2>2
  <2>4. PICK z \in R : z = First(R)
    BY DEF First
  <2>5. Total[R] = Amount[z] + Total[R \ {z}]
    BY <2>4, TotalAddsUp DEF AddsUp, SumStep
  <2>6. y # z
    BY <2>3, <2>5
  <2>7. /\ k \in Nat /\ k > 0
        /\ R \ {y} \in SUBSET Shares /\ Cardinality(R \ {y}) = k - 1
        /\ R \ {z} \in SUBSET Shares /\ Cardinality(R \ {z}) = k - 1
    BY <2>3, AmountsTyped, WithoutOne
  <2>8. k - 1 \in Nat /\ k - 1 \notin T
    BY <2>1, <2>7
  <2>9. \A Q \in SUBSET Shares : Cardinality(Q) = k - 1 =>
          \A w \in Q : Total[Q] = Amount[w] + Total[Q \ {w}]
    BY <1>1, <2>8
  <2>10. z \in R \ {y} /\ y \in R \ {z}
    BY <2>6
  <2>11. PICK Q : Q = (R \ {y}) \ {z}
    OBVIOUS
  <2>12. Q = (R \ {z}) \ {y} /\ Q \in SUBSET Shares
    BY <2>11
  <2>13. Total[R \ {y}] = Amount[z] + Total[Q]
    BY <2>7, <2>9, <2>10, <2>11
  <2>14. Total[R \ {z}] = Amount[y] + Total[Q]
    BY <2>7, <2>9, <2>10, <2>12
  <2>15. Amount[y] \in Nat /\ Amount[z] \in Nat /\ Total[Q] \in Nat
    BY <2>12, TotalTyped, ConstantsAssumption
  <2>16. \A a, b, c \in Nat : a + (b + c) = b + (a + c)
    OBVIOUS
  <2>17. Total[R] = Amount[z] + (Amount[y] + Total[Q])
    BY <2>5, <2>14
  <2>18. Total[R] = Amount[y] + (Amount[z] + Total[Q])
    BY <2>15, <2>16, <2>17
  <2> QED BY <2>3, <2>13, <2>18
<1>3. IsFiniteSet(S) /\ Cardinality(S) \in Nat
  BY ConstantsAssumption, FS_Subset, FS_CardinalityType
<1> QED BY <1>1, <1>2, <1>3

-----------------------------------------------------------------------------
(* What a student is credited with.  A request that is about to save the   *)
(* item holds a sum that was not too much when it read it, and since what  *)
(* is credited only grows it is not too much when it commits.              *)

SeenInv ==
  \A r \in Requests, st \in Students :
    pc[r] \in {"read", "credited", "receipted"} /\ StudentOf[share[r]] = st
      => seen[r] <= Credited(st)
CreditInv == NeverOverCredited /\ SeenInv

LEMMA CreditedTyped == ASSUME NEW st PROVE Credited(st) \in Nat
<1>1. CreditedShares(st) \in SUBSET Shares
  BY DEF CreditedShares
<1> QED BY <1>1, TotalTyped DEF Credited

(* Steps that commit no payment, and read none.                            *)
LEMMA CreditFrame ==
  ASSUME TypeOK, CreditInv, UNCHANGED <<paid, credits>>,
         \A r \in Requests :
           pc'[r] \in {"read", "credited", "receipted"}
             => /\ pc[r] \in {"read", "credited", "receipted"}
                /\ UNCHANGED <<seen[r], share[r]>>
  PROVE  CreditInv'
<1>1. \A st : Credited(st)' = Credited(st)
  BY DEF Credited, CreditedShares
<1>2. NeverOverCredited'
  BY <1>1 DEF CreditInv, NeverOverCredited
<1>3. SeenInv'
  BY <1>1 DEF CreditInv, SeenInv
<1> QED BY <1>2, <1>3 DEF CreditInv

LEMMA ReadItemKeepsCredit ==
  ASSUME TypeOK, CreditInv, NEW r \in Requests, ReadItem(r)
  PROVE  CreditInv'
<1>1. /\ UNCHANGED <<paid, credits, share>>
      /\ seen' = [seen EXCEPT ![r] = paid[StudentOf[share[r]]]]
      /\ pc' = [pc EXCEPT ![r] = "read"]
  BY DEF ReadItem, shareVars, callVars
<1>2. \A st : Credited(st)' = Credited(st)
  BY <1>1 DEF Credited, CreditedShares
<1>3. NeverOverCredited'
  BY <1>1, <1>2 DEF CreditInv, NeverOverCredited
<1>4. ASSUME NEW q \in Requests, NEW st \in Students,
             pc'[q] \in {"read", "credited", "receipted"}, StudentOf[share'[q]] = st
      PROVE  seen'[q] <= Credited(st)'
  <2>1. CASE q = r
    <3>1. seen'[q] = paid[st]
      BY <1>1, <1>4, <2>1 DEF TypeOK
    <3> QED BY <1>2, <3>1 DEF CreditInv, NeverOverCredited
  <2>2. CASE q # r
    <3>1. seen'[q] = seen[q] /\ pc'[q] = pc[q] /\ share'[q] = share[q]
      BY <1>1, <2>2 DEF TypeOK
    <3> QED BY <1>2, <1>4, <3>1 DEF CreditInv, SeenInv
  <2> QED BY <2>1, <2>2
<1>5. SeenInv'
  BY <1>4 DEF SeenInv
<1> QED BY <1>3, <1>5 DEF CreditInv

(* The commit adds the amount of a share that was not credited yet, both   *)
(* to what the student has paid and to what is credited.                   *)
LEMMA CommitPaymentKeepsCredit ==
  ASSUME TypeOK, ReceiptInv, CreditInv, NEW r \in Requests, CommitPayment(r)
  PROVE  CreditInv'
<1>1. PICK s \in Shares : s = share[r]
  BY DEF TypeOK
<1>2. PICK own \in Students : own = StudentOf[s]
  BY ConstantsAssumption
<1>3. /\ paid' = [paid EXCEPT ![own] = seen[r] + Amount[s]]
      /\ credits' = [credits EXCEPT ![s] = credits[s] + 1]
      /\ pc' = [pc EXCEPT ![r] = "done"] /\ pc[r] = "receipted"
      /\ UNCHANGED <<share, seen>>
  BY <1>1, <1>2 DEF CommitPayment, callVars, registers
<1>4. credits[s] = 0
  <2>1. receipt[s] = 0
    BY <1>1, <1>3 DEF ReceiptInv, LockInv, HoldsSerial
  <2> QED BY <2>1 DEF ReceiptInv, CreditedOnce
<1>5. \A t \in Shares : credits'[t] = IF t = s THEN 1 ELSE credits[t]
  BY <1>3, <1>4 DEF TypeOK
<1>6. Credited(own)' = Credited(own) + Amount[s]
  <2>1. PICK S : S = CreditedShares(own)
    OBVIOUS
  <2>2. PICK R : R = S \cup {s}
    OBVIOUS
  <2>3. S \in SUBSET Shares /\ R \in SUBSET Shares /\ s \notin S /\ R \ {s} = S
    BY <1>4, <2>1, <2>2 DEF CreditedShares
  <2>4. CreditedShares(own)' = R
    BY <1>2, <1>5, <2>1, <2>2 DEF CreditedShares
  <2>5. Total[R] = Amount[s] + Total[S]
    BY <2>2, <2>3, TotalWithout
  <2>6. Amount[s] \in Nat /\ Total[S] \in Nat
    BY <2>3, TotalTyped, ConstantsAssumption
  <2> QED BY <2>1, <2>4, <2>5, <2>6 DEF Credited
<1>7. ASSUME NEW st, st # own PROVE Credited(st)' = Credited(st)
  <2>1. CreditedShares(st)' = CreditedShares(st)
    BY <1>2, <1>5, <1>7 DEF CreditedShares
  <2> QED BY <2>1 DEF Credited
<1>8. /\ seen[r] \in Nat /\ Amount[s] \in Nat /\ Credited(own) \in Nat
      /\ seen[r] <= Credited(own)
  BY <1>1, <1>2, <1>3, CreditedTyped, ConstantsAssumption DEF TypeOK, CreditInv, SeenInv
<1>9. NeverOverCredited'
  <2>1. ASSUME NEW st \in Students PROVE paid'[st] <= Credited(st)'
    <3>1. CASE st = own
      <4>1. paid'[own] = seen[r] + Amount[s]
        BY <1>3 DEF TypeOK
      <4>2. seen[r] + Amount[s] <= Credited(own) + Amount[s]
        BY <1>8
      <4>3. paid'[own] <= Credited(own)'
        BY <1>6, <4>1, <4>2
      <4>4. Credited(st)' = Credited(own)'
        BY <3>1 DEF Credited, CreditedShares
      <4> QED BY <3>1, <4>3, <4>4
    <3>2. CASE st # own
      <4>1. paid'[st] = paid[st]
        BY <1>3, <3>2 DEF TypeOK
      <4> QED BY <1>7, <3>2, <4>1 DEF CreditInv, NeverOverCredited
    <3> QED BY <3>1, <3>2
  <2> QED BY <2>1 DEF NeverOverCredited
<1>10. SeenInv'
  <2>1. ASSUME NEW q \in Requests, NEW st \in Students,
               pc'[q] \in {"read", "credited", "receipted"}, StudentOf[share'[q]] = st
        PROVE  seen'[q] <= Credited(st)'
    <3>1. StudentOf[share[q]] = st
      BY <1>3, <2>1
    <3>2. /\ seen'[q] = seen[q] /\ seen[q] \in Nat
          /\ pc[q] \in {"read", "credited", "receipted"}
      BY <1>3, <2>1 DEF TypeOK
    <3>3. seen[q] <= Credited(st)
      BY <3>1, <3>2 DEF CreditInv, SeenInv
    <3>4. Credited(st) \in Nat /\ Credited(st) <= Credited(st)'
      <4>1. CASE st = own
        <5>1. Credited(st) = Credited(own) /\ Credited(st)' = Credited(own)'
          BY <4>1 DEF Credited, CreditedShares
        <5>2. Credited(own) <= Credited(own) + Amount[s]
          BY <1>8
        <5> QED BY <1>6, <1>8, <5>1, <5>2
      <4>2. CASE st # own
        <5>1. Credited(st) \in Nat /\ Credited(st)' = Credited(st)
          BY <1>7, <4>2, CreditedTyped
        <5> QED BY <5>1
      <4> QED BY <4>1, <4>2
    <3>5. Credited(st)' \in Nat
      <4>1. CASE st = own
        BY <1>6, <1>8, <4>1 DEF Credited, CreditedShares
      <4>2. CASE st # own
        BY <1>7, <4>2, CreditedTyped
      <4> QED BY <4>1, <4>2
    <3>6. \A a, b, c \in Nat : a <= b /\ b <= c => a <= c
      OBVIOUS
    <3> QED BY <3>2, <3>3, <3>4, <3>5, <3>6
  <2> QED BY <2>1 DEF SeenInv
<1> QED BY <1>9, <1>10 DEF CreditInv

LEMMA CreditInvAlways == Spec => []CreditInv
<1>1. Init => CreditInv
  <2> SUFFICES ASSUME Init PROVE CreditInv
    OBVIOUS
  <2>1. \A st \in Students : paid[st] = 0 /\ Credited(st) \in Nat
    BY CreditedTyped DEF Init
  <2>2. NeverOverCredited
    BY <2>1 DEF NeverOverCredited
  <2> QED BY <2>2 DEF Init, CreditInv, SeenInv
<1>2. TypeOK /\ ReceiptInv /\ CreditInv /\ [Next]_vars => CreditInv'
  <2> SUFFICES ASSUME TypeOK, ReceiptInv, CreditInv, [Next]_vars PROVE CreditInv'
    OBVIOUS
  <2>1. ASSUME NEW r \in Requests, Start(r) PROVE CreditInv'
    <3>1. /\ UNCHANGED <<paid, credits, seen>>
          /\ \E place \in {"loaded", "finalized"} : pc' = [pc EXCEPT ![r] = place]
          /\ \E s \in Shares : share' = [share EXCEPT ![r] = s]
      BY <2>1 DEF Start, Load, RecordOfflinePayment, shareVars, registers
    <3> QED BY <3>1, CreditFrame DEF TypeOK
  <2>2. ASSUME NEW r \in Requests, Advance(r) PROVE CreditInv'
    <3>1. CASE Decide(r) \/ CommitStep(r) \/ Finalize(r) \/ Reject(r) \/ CommitReject(r)
      <4>1. /\ UNCHANGED <<paid, credits, seen, share>>
            /\ \E place \in {"decided", "done", "finalized", "rejecting"} :
                 pc' = [pc EXCEPT ![r] = place]
        BY <3>1 DEF Decide, CommitStep, Finalize, Reject, CommitReject,
                    shareVars, callVars, registers
      <4> QED BY <4>1, CreditFrame DEF TypeOK
    <3>2. CASE ReadItem(r)
      BY <3>2, ReadItemKeepsCredit
    <3>3. CASE SaveItem(r) \/ GenerateReceipt(r)
      <4>1. /\ UNCHANGED <<paid, credits, seen, share>>
            /\ pc[r] \in {"read", "credited"}
            /\ \E place \in {"credited", "receipted"} : pc' = [pc EXCEPT ![r] = place]
        BY <3>3 DEF SaveItem, GenerateReceipt, shareVars, callVars, registers
      <4> QED BY <4>1, CreditFrame DEF TypeOK
    <3>4. CASE CommitPayment(r)
      BY <3>4, CommitPaymentKeepsCredit
    <3> QED BY <2>2, <3>1, <3>2, <3>3, <3>4 DEF Advance
  <2>3. ASSUME NEW r \in Requests, Rollback(r) PROVE CreditInv'
    <3>1. /\ UNCHANGED <<paid, credits, seen, share>>
          /\ pc' = [pc EXCEPT ![r] = "done"]
      BY <2>3 DEF Rollback, shareVars, callVars, registers
    <3> QED BY <3>1, CreditFrame DEF TypeOK
  <2>4. CASE UNCHANGED <<paid, credits, seen, share, pc>>
    BY <2>4, CreditFrame
  <2> QED
    BY <2>1, <2>2, <2>3, <2>4
    DEF Next, SubmitPaymentBatch, UpsertApprovalConfig, vars, shareVars, callVars, registers
<1> QED BY <1>1, <1>2, TypeCorrect, ReceiptInvAlways, PTL DEF Spec

(* However approvals and offline payments of a student overlap, each       *)
(* saving the sum it read earlier, he is never credited with more than the *)
(* shares that were approved for him.                                      *)
THEOREM CreditsWithinShares == Spec => []NeverOverCredited
<1>1. CreditInv => NeverOverCredited
  BY DEF CreditInv
<1> QED BY <1>1, CreditInvAlways, PTL

-----------------------------------------------------------------------------
(* The refinement: only the commit of a payment writes a receipt, and it   *)
(* is the abstract Issue of the number after the last.                     *)

LEMMA OtherStepsKeepBook ==
  ASSUME [Next]_vars, ~ \E r \in Requests : CommitPayment(r)
  PROVE  UNCHANGED <<receipt, lastSequence>>
<1>1. ASSUME NEW r \in Requests, Start(r) PROVE UNCHANGED <<receipt, lastSequence>>
  BY <1>1 DEF Start, Load, RecordOfflinePayment, shareVars
<1>2. ASSUME NEW r \in Requests, Advance(r), ~CommitPayment(r)
      PROVE  UNCHANGED <<receipt, lastSequence>>
  BY <1>2 DEF Advance, Decide, CommitStep, Finalize, ReadItem, SaveItem,
              GenerateReceipt, Reject, CommitReject, shareVars
<1>3. ASSUME NEW r \in Requests, Rollback(r) PROVE UNCHANGED <<receipt, lastSequence>>
  BY <1>3 DEF Rollback, shareVars
<1>4. CASE UNCHANGED vars
  BY <1>4 DEF vars, shareVars
<1> QED
  BY <1>1, <1>2, <1>3, <1>4 DEF Next, SubmitPaymentBatch, UpsertApprovalConfig

(* The receipts FeeApproval hands out are a receipt book: one number after *)
(* the other, each to a share without one, none taken back.                *)
THEOREM ReceiptsImplementBook == Spec => ImplementsBook
<1>1. Init => Book!BookInit
  BY DEF Init, Book!BookInit
<1>2. TypeOK /\ ReceiptInv /\ [Next]_vars => [Book!BookNext]_Book!bookVars
  <2> SUFFICES ASSUME TypeOK, ReceiptInv, [Next]_vars
               PROVE  [Book!BookNext]_Book!bookVars
    OBVIOUS
  <2>1. ASSUME NEW r \in Requests, CommitPayment(r) PROVE Book!BookNext
    <3>1. share[r] \in Shares /\ receipt[share[r]] = 0 /\ serial[r] = lastSequence + 1
      BY <2>1 DEF CommitPayment, ReceiptInv, LockInv, HoldsSerial, TypeOK
    <3>2. Book!Issue(share[r])
      BY <2>1, <3>1 DEF CommitPayment, Book!Issue
    <3> QED BY <3>1, <3>2 DEF Book!BookNext
  <2> QED BY <2>1, OtherStepsKeepBook DEF Book!bookVars
<1>3. Spec => []ReceiptInv
  BY ReceiptInvAlways
<1> QED BY <1>1, <1>2, <1>3, TypeCorrect, PTL DEF Spec, ImplementsBook, Book!BookSpec

-----------------------------------------------------------------------------
(* Approval chains.  A decision that names a step was taken by an approver *)
(* of that step, and a request that may finalize a share stands on a       *)
(* decision of every other step of the chain, which cannot be replaced     *)
(* while it runs.                                                          *)

Running(r) == pc[r] \notin {"idle", "loaded", "done"}

DecisionInv ==
  \A d \in decisions :
    d.step # 0 => d.step \in DOMAIN config.steps /\ d.by \in config.steps[d.step]

StepInv ==
  \A r \in Requests :
    /\ pc[r] \in {"idle", "loaded", "rejecting"} => step[r] = 0
    /\ Running(r) /\ step[r] # 0 =>
         step[r] \in DOMAIN config.steps /\ user[r] \in config.steps[step[r]]
    /\ pc[r] \in {"finalized", "read", "credited", "receipted"} /\ step[r] # 0
         => complete[r]

ChainInv ==
  \A r \in Requests :
    Running(r) /\ step[r] # 0 /\ complete[r] =>
      \A i \in DOMAIN config.steps :
        i = step[r] \/ i \in DecidedSteps(share[r])

ApprovalInv == DecisionInv /\ StepInv /\ ChainInv

(* Steps that touch none of the variables the invariant speaks of.         *)
LEMMA ApprovalFrame ==
  ASSUME ApprovalInv,
         UNCHANGED <<decisions, config, pc, share, user, step, complete>>
  PROVE  ApprovalInv'
<1>1. (\A s : DecidedSteps(s)' = DecidedSteps(s)) /\ (\A r : Running(r)' = Running(r))
  BY DEF DecidedSteps, Running
<1>2. DecisionInv' /\ StepInv'
  BY <1>1 DEF ApprovalInv, DecisionInv, StepInv
<1>3. ChainInv'
  BY <1>1 DEF ApprovalInv, ChainInv
<1> QED BY <1>2, <1>3 DEF ApprovalInv

(* Steps of one request r that only move it forward, leaving its step and  *)
(* what is committed alone.                                                *)
LEMMA ForwardKeepsApproval ==
  ASSUME TypeOK, ApprovalInv, NEW r \in Requests, NEW place,
         UNCHANGED <<decisions, config, share, user, step, complete>>,
         pc' = [pc EXCEPT ![r] = place],
         \/ pc[r] = "loaded" /\ place = "rejecting"
         \/ pc[r] = "decided" /\ complete[r] /\ place = "finalized"
         \/ pc[r] \in {"finalized", "read", "credited"}
              /\ place \in {"read", "credited", "receipted"}
         \/ place = "done"
  PROVE  ApprovalInv'
<1>1. DecisionInv'
  BY DEF ApprovalInv, DecisionInv
<1>2. StepInv'
  BY DEF ApprovalInv, StepInv, Running, TypeOK
<1>3. ChainInv'
  <2>1. \A s : DecidedSteps(s)' = DecidedSteps(s)
    BY DEF DecidedSteps
  <2>2. \A q \in Requests : /\ Running(q)' => Running(q) \/ (q = r /\ place = "rejecting")
                            /\ pc[r] = "loaded" => step[r] = 0
    BY DEF ApprovalInv, StepInv, Running, TypeOK
  <2> QED BY <2>1, <2>2 DEF ApprovalInv, ChainInv
<1> QED BY <1>1, <1>2, <1>3 DEF ApprovalInv

(* Commits add a decision that satisfies DecisionInv and end their request.*)
LEMMA CommitKeepsApproval ==
  ASSUME TypeOK, ApprovalInv, NEW r \in Requests, Running(r),
         UNCHANGED <<config, share, user, step, complete>>,
         pc' = [pc EXCEPT ![r] = "done"],
         decisions' = decisions \cup {OwnDecision(r)}
  PROVE  ApprovalInv'
<1>1. OwnDecision(r).step = step[r] /\ OwnDecision(r).by = user[r]
  BY DEF OwnDecision
<1>2. DecisionInv'
  BY <1>1 DEF ApprovalInv, DecisionInv, StepInv
<1>3. StepInv'
  BY DEF ApprovalInv, StepInv, Running, TypeOK
<1>4. ChainInv'
  <2>1. \A s : DecidedSteps(s) \subseteq DecidedSteps(s)'
    BY DEF DecidedSteps
  <2>2. \A q \in Requests : Running(q)' => Running(q)
    BY DEF Running, TypeOK
  <2> QED BY <2>1, <2>2 DEF ApprovalInv, ChainInv
<1> QED BY <1>2, <1>3, <1>4 DEF ApprovalInv

(* Entering a transaction records no step yet.                             *)
LEMMA StartKeepsApproval ==
  ASSUME TypeOK, ApprovalInv, NEW r \in Requests, Start(r)
  PROVE  ApprovalInv'
<1>1. /\ pc[r] = "idle"
      /\ \E place \in {"loaded", "finalized"} : pc' = [pc EXCEPT ![r] = place]
      /\ UNCHANGED <<decisions, config, step, complete>>
      /\ \A q \in Requests : q # r => UNCHANGED <<share[q], user[q]>>
  BY DEF Start, Load, RecordOfflinePayment, shareVars, registers, TypeOK
<1>2. step[r] = 0
  BY <1>1 DEF ApprovalInv, StepInv
<1>3. DecisionInv'
  BY <1>1 DEF ApprovalInv, DecisionInv
<1>4. StepInv'
  BY <1>1, <1>2 DEF ApprovalInv, StepInv, Running, TypeOK
<1>5. ChainInv'
  <2>1. \A s : DecidedSteps(s)' = DecidedSteps(s)
    BY <1>1 DEF DecidedSteps
  <2>2. \A q \in Requests : q # r => Running(q)' = Running(q)
    BY <1>1 DEF Running, TypeOK
  <2> QED BY <1>1, <1>2, <2>1, <2>2 DEF ApprovalInv, ChainInv
<1> QED BY <1>3, <1>4, <1>5 DEF ApprovalInv

(* Decide records the first undecided step, so a last step has all the     *)
(* others decided.                                                         *)
LEMMA DecideKeepsApproval ==
  ASSUME TypeOK, ApprovalInv, NEW r \in Requests, Decide(r)
  PROVE  ApprovalInv'
<1>1. UNCHANGED <<decisions, config, share, user>> /\ pc' = [pc EXCEPT ![r] = "decided"]
  BY DEF Decide, shareVars, callVars
<1>2. pc[r] = "loaded" /\ step[r] = 0
  BY DEF Decide, ApprovalInv, StepInv
<1>3. DecisionInv'
  BY <1>1 DEF ApprovalInv, DecisionInv
<1>4. \A s : DecidedSteps(s)' = DecidedSteps(s)
  BY <1>1 DEF DecidedSteps
<1>5. \A q \in Requests : q # r => Running(q)' = Running(q)
  BY <1>1 DEF Running, TypeOK
<1>6. CASE step' = step /\ complete' = [complete EXCEPT ![r] = TRUE]
  <2>1. StepInv'
    BY <1>1, <1>2, <1>6 DEF ApprovalInv, StepInv, Running, TypeOK
  <2>2. ChainInv'
    BY <1>1, <1>2, <1>6, <1>4, <1>5 DEF ApprovalInv, ChainInv, TypeOK
  <2> QED BY <1>3, <2>1, <2>2 DEF ApprovalInv
<1>7. ASSUME NEW i \in DOMAIN config.steps, IsNextStep(i, share[r]),
             user[r] \in config.steps[i], step' = [step EXCEPT ![r] = i],
             complete' = [complete EXCEPT ![r] = (i = Len(config.steps))]
      PROVE  ApprovalInv'
  <2>1. DOMAIN config.steps = 1..Len(config.steps) /\ Len(config.steps) \in Nat
    BY DEF TypeOK
  <2>2. StepInv'
    BY <1>1, <1>2, <1>7 DEF ApprovalInv, StepInv, Running, TypeOK
  <2>3. ASSUME i = Len(config.steps), NEW j \in DOMAIN config.steps, j # i
        PROVE  j \in DecidedSteps(share[r])
    <3>1. j < i
      BY <2>1, <2>3
    <3> QED BY <1>7, <3>1, <2>3 DEF IsNextStep
  <2>4. ChainInv'
    <3>1. /\ \A q \in Requests : q # r => /\ step'[q] = step[q]
                                         /\ complete'[q] = complete[q]
          /\ step'[r] = i /\ complete'[r] = (i = Len(config.steps))
      BY <1>7 DEF TypeOK
    <3> QED BY <1>1, <1>4, <1>5, <2>3, <3>1 DEF ApprovalInv, ChainInv
  <2> QED BY <1>3, <2>2, <2>4 DEF ApprovalInv
<1> QED BY <1>6, <1>7 DEF Decide

LEMMA ApprovalInvAlways == Spec => []ApprovalInv
<1>1. Init => ApprovalInv
  BY DEF Init, ApprovalInv, DecisionInv, StepInv, ChainInv, Running
<1>2. TypeOK /\ ApprovalInv /\ [Next]_vars => ApprovalInv'
  <2> SUFFICES ASSUME TypeOK, ApprovalInv, [Next]_vars PROVE ApprovalInv'
    OBVIOUS
  <2>1. ASSUME NEW r \in Requests, Start(r) PROVE ApprovalInv'
    BY <2>1, StartKeepsApproval
  <2>2. ASSUME NEW r \in Requests, Advance(r) PROVE ApprovalInv'
    <3>1. CASE Decide(r)
      BY <3>1, DecideKeepsApproval
    <3>2. CASE CommitStep(r)
      BY <3>2, CommitKeepsApproval DEF CommitStep, Running, callVars, registers
    <3>3. CASE Finalize(r)
      BY <3>3, ForwardKeepsApproval DEF Finalize, shareVars, callVars, registers
    <3>4. CASE ReadItem(r)
      BY <3>4, ForwardKeepsApproval DEF ReadItem, shareVars, callVars
    <3>5. CASE SaveItem(r)
      BY <3>5, ForwardKeepsApproval DEF SaveItem, shareVars, callVars, registers
    <3>6. CASE GenerateReceipt(r)
      BY <3>6, ForwardKeepsApproval DEF GenerateReceipt, shareVars, callVars
    <3>7. CASE CommitPayment(r)
      BY <3>7, CommitKeepsApproval DEF CommitPayment, Running, callVars, registers
    <3>8. CASE Reject(r)
      BY <3>8, ForwardKeepsApproval DEF Reject, shareVars, callVars, registers
    <3>9. CASE CommitReject(r)
      BY <3>9, CommitKeepsApproval DEF CommitReject, Running, callVars, registers
    <3> QED
      BY <2>2, <3>1, <3>2, <3>3, <3>4, <3>5, <3>6, <3>7, <3>8, <3>9 DEF Advance
  <2>3. ASSUME NEW r \in Requests, Rollback(r) PROVE ApprovalInv'
    BY <2>3, ForwardKeepsApproval DEF Rollback, shareVars, callVars, registers
  <2>4. ASSUME NEW p \in Parents, NEW batch \in SUBSET Shares,
               SubmitPaymentBatch(p, batch)
        PROVE ApprovalInv'
    BY <2>4, ApprovalFrame DEF SubmitPaymentBatch, callVars, registers
  <2>5. ASSUME NEW mode \in Modes \ {"NONE"}, NEW steps \in Chains,
               UpsertApprovalConfig(mode, steps)
        PROVE ApprovalInv'
    <3>1. /\ UNCHANGED <<pc, share, user, step, complete>>
          /\ \A r \in Requests : Running(r) => step[r] = 0
      BY <2>5 DEF UpsertApprovalConfig, HoldsStep, Running, callVars, registers
    <3>2. \A d \in decisions' : d.step = 0
      BY <2>5 DEF UpsertApprovalConfig, TypeOK, Decision
    <3> QED
      BY <3>1, <3>2 DEF ApprovalInv, DecisionInv, StepInv, ChainInv, Running, TypeOK
  <2>6. CASE UNCHANGED vars
    BY <2>6, ApprovalFrame DEF vars, shareVars, callVars, registers
  <2> QED BY <2>1, <2>2, <2>3, <2>4, <2>5, <2>6 DEF Next
<1> QED BY <1>1, <1>2, TypeCorrect, PTL DEF Spec

(* Whatever is replaced, rejected or approved meanwhile, a share finalized *)
(* in sequential mode has a decision of every step of the chain, each by   *)
(* an approver of that step.                                               *)
THEOREM ChainsCorrect == Spec => WholeChainDecided
<1>1. TypeOK /\ ApprovalInv /\ [Next]_vars =>
        [\A r \in Requests :
           CommitPayment(r) /\ step[r] # 0
             => \A i \in DOMAIN config.steps :
                  \E d \in decisions' : /\ d.share = share[r] /\ d.step = i
                                        /\ d.by \in config.steps[i]]_vars
  <2> SUFFICES ASSUME TypeOK, ApprovalInv, NEW r \in Requests, CommitPayment(r),
                      step[r] # 0, NEW i \in DOMAIN config.steps
               PROVE  \E d \in decisions' : /\ d.share = share[r] /\ d.step = i
                                            /\ d.by \in config.steps[i]
    OBVIOUS
  <2>1. /\ Running(r) /\ complete[r]
        /\ step[r] \in DOMAIN config.steps /\ user[r] \in config.steps[step[r]]
    BY DEF CommitPayment, Running, ApprovalInv, StepInv
  <2>2. OwnDecision(r) \in decisions' /\ decisions \subseteq decisions'
    BY DEF CommitPayment
  <2>3. CASE i = step[r]
    BY <2>1, <2>2, <2>3 DEF OwnDecision
  <2>4. CASE i # step[r]
    <3>1. PICK d \in decisions : d.share = share[r] /\ d.step = i
      BY <2>1, <2>4 DEF ApprovalInv, ChainInv, DecidedSteps
    <3>2. i # 0
      BY DEF TypeOK
    <3> QED BY <2>2, <3>1, <3>2 DEF ApprovalInv, DecisionInv
  <2> QED BY <2>3, <2>4
<1> QED BY <1>1, ApprovalInvAlways, TypeCorrect, PTL DEF Spec, WholeChainDecided

-----------------------------------------------------------------------------
(* The treasury: what every call carries at each of its statements.        *)

CashPcs == {"account", "create account", "save balance", "record"}
Fits(c) ==
  /\ c.pc \in CashPcs => c.op \in {"replenish", "expense"}
  /\ c.op = "replenish" => c.id = 0
  /\ c.op = "expense" => c.pc \in CashPcs /\ c.id \in 1 .. lastExpense
  /\ c.pc \in {"save balance", "record"} => c.account \in 1 .. lastAccount
  /\ c.pc = "save expense" => c.id \in 1 .. lastExpense
  /\ c.pc = "save category" => c.id \in 0 .. lastCategory
  /\ c.pc = "save due" => c.id \in Recurring /\ c.read \in Nat /\ c.day \in 1 .. 31

(* An expense that a call is about to disburse has no entry yet, and no    *)
(* other call disburses it; one that no call is about has its entry.       *)
Disburses(c, e) == c.op = "expense" /\ c.id = e
DisburseInv ==
  /\ \A k \in Calls, c \in Call : c = call[k] /\ c.op = "expense" =>
       /\ c.amount = owed[c.id] /\ owed[c.id] > 0 /\ c.id \notin undisbursed
       /\ \A x \in entries : x.expense # c.id
       /\ \A j \in Calls : Disburses(call[j], c.id) => j = k
  /\ \A x \in entries : x.expense # 0 =>
       /\ x.amount = 0 - owed[x.expense] /\ owed[x.expense] > 0
       /\ \A y \in entries : y.expense = x.expense => y = x
  /\ \A e \in 1 .. lastExpense :
       owed[e] > 0 => \/ e \in undisbursed
                      \/ \E x \in entries : x.expense = e
                      \/ \E k \in Calls : Disburses(call[k], e)
  /\ \A e \in undisbursed : e <= lastExpense

(* The entries are numbered as they came.  While the account is used by    *)
(* one call at a time, that call has read what the entries add up to, and  *)
(* only between saving the balance and recording is it ahead of them.      *)
EntriesInv == \A x \in entries : x.id <= Cardinality(entries)
Adding(c) ==
  /\ c.pc = "create account" => lastAccount = 0
  /\ c.pc \in {"save balance", "record"} => c.read = Flow(entries)
  /\ c.pc = "record" => balance[1] = NewBalance(c)
CashInv ==
  quiet =>
    /\ lastAccount <= 1
    /\ \A j, k \in Calls : OnCash(j) /\ OnCash(k) => j = k
    /\ \A x \in entries : x.after = Flow({y \in entries : y.id <= x.id})
    /\ lastAccount = 1 /\ ~(\E k \in Calls : call[k].pc = "record")
         => balance[1] = Flow(entries)
    /\ \A k \in Calls, c \in Call : c = call[k] => Adding(c)

(* Two calls that are to save one expense have raced, and what is to be    *)
(* saved of one that has not raced is not voided yet.                      *)
VoidInv ==
  \A k \in Calls, c \in Call : c = call[k] /\ c.pc = "save expense" /\ c.id \notin raced =>
    /\ ~expense[c.id].voided
    /\ \A j \in Calls : call[j].pc = "save expense" /\ call[j].id = c.id => j = k

(* The due dates of a recurring expense and what a call is to save as one. *)
OnTime(r, month, day, n) ==
  \/ month = FirstDue[r].month + n * FirstDue[r].step /\ day = FirstDue[r].day
  \/ /\ month = FirstDue[r].month + n * FirstDue[r].step + 1
     /\ FirstDue[r].day > 28 /\ day <= 3
DueInv ==
  /\ \A r \in Recurring \ doubled : OnTime(r, due[r].month, due[r].day, marked[r])
  /\ \A k \in Calls, c \in Call : c = call[k] /\ c.pc = "save due" /\ c.id \notin doubled =>
       /\ OnTime(c.id, c.read, c.day, IF c.op = "record" THEN marked[c.id] + 1 ELSE 0)
       /\ \A j \in Calls : call[j].pc = "save due" /\ call[j].id = c.id => j = k

SpendingTyped == expense \in [ExpenseIds -> Expense] /\ lastExpense \in 0 .. MaxExpenses
CashTyped ==
  /\ balance \in [Accounts -> Int] /\ lastAccount \in 0 .. MaxAccounts
  /\ entries \subseteq Entry /\ IsFiniteSet(entries)
  /\ \A x \in entries : x.account <= lastAccount /\ x.expense <= lastExpense
PlansTyped ==
  /\ category \in [CategoryIds -> Category] /\ lastCategory \in 1 .. MaxCategories
  /\ \A c \in 1 .. lastCategory : Named(category[c].name) = {c}
  /\ budget \in [BudgetKeys -> Nat]
  /\ due \in [Recurring -> DueDate]
HistoryTyped ==
  /\ set \in [BudgetKeys -> Nat] /\ marked \in [Recurring -> Nat]
  /\ begun \in 0 .. MaxCalls /\ alone \subseteq Calls
  /\ quiet \in BOOLEAN /\ owed \in [ExpenseIds -> Nat]
  /\ undisbursed \subseteq ExpenseIds /\ raced \subseteq ExpenseIds
  /\ doubled \subseteq Recurring
CallsFitted ==
  /\ call \in [Calls -> Call]
  /\ \A k \in Calls, c \in Call : c = call[k] => Fits(c)
MoneyInv == SpendingTyped /\ CashTyped /\ PlansTyped /\ HistoryTyped /\ CallsFitted

LEMMA Bounds ==
  /\ Names # {} /\ MaxCategories \in Nat /\ MaxCategories > 0
  /\ MaxExpenses \in Nat /\ MaxAccounts \in Nat /\ MaxEntries \in Nat
  /\ MaxMonths \in Nat /\ MaxCalls \in Nat
<1>1. MaxCategories \in Nat \ {0} => MaxCategories \in Nat /\ MaxCategories > 0
  OBVIOUS
<1> QED BY <1>1, TreasuryAssumption

LEMMA CallFields ==
  ASSUME NEW c \in Call
  PROVE  c.id \in Nat /\ c.account \in 0 .. MaxAccounts /\ c.account \in Int /\ c.read \in Int
         /\ c.amount \in Nat /\ c.object \in Expense /\ c.row \in Category /\ c.day \in 0 .. 31
<1>1. c.id \in Nat /\ c.account \in 0 .. MaxAccounts /\ c.read \in Int /\ c.amount \in Nat
  BY DEF Call
<1>2. c.object \in Expense /\ c.row \in Category /\ c.day \in 0 .. 31
  BY DEF Call
<1>3. \A n \in Nat : \A m \in 0 .. n : m \in Int
  OBVIOUS
<1>4. c.account \in Int
  BY <1>1, <1>3, Bounds
<1> QED BY <1>1, <1>2, <1>4

LEMMA FitsKept ==
  ASSUME NEW c \in Call, Fits(c),
         lastExpense \in Nat, lastExpense' \in Nat, lastExpense <= lastExpense',
         lastAccount \in Nat, lastAccount' \in Nat, lastAccount <= lastAccount',
         lastCategory \in Nat, lastCategory' \in Nat, lastCategory <= lastCategory'
  PROVE  Fits(c)'
<1>1. c.id \in Nat /\ c.account \in Int
  BY CallFields
<1>2. c.id \in 1 .. lastExpense => c.id \in 1 .. lastExpense'
  BY <1>1
<1>3. c.account \in 1 .. lastAccount => c.account \in 1 .. lastAccount'
  BY <1>1
<1>4. c.id \in 0 .. lastCategory => c.id \in 0 .. lastCategory'
  BY <1>1
<1> QED BY <1>2, <1>3, <1>4 DEF Fits

LEMMA CallChanges ==
  ASSUME CallsFitted, NEW k \in Calls, NEW n \in Call, call' = [call EXCEPT ![k] = n],
         Fits(n)', \A c \in Call : Fits(c) => Fits(c)'
  PROVE  CallsFitted'
<1>1. call' \in [Calls -> Call]
  BY DEF CallsFitted
<1>2. ASSUME NEW j \in Calls, NEW c \in Call, c = call'[j] PROVE Fits(c)'
  <2>1. CASE j = k
    <3>1. c = n
      BY <1>2, <2>1 DEF CallsFitted
    <3> QED BY <3>1
  <2>2. CASE j # k
    <3>1. c = call[j]
      BY <1>2, <2>2 DEF CallsFitted
    <3> QED BY <3>1 DEF CallsFitted
  <2> QED BY <2>1, <2>2
<1> QED BY <1>1, <1>2 DEF CallsFitted

LEMMA IdleFits == Idle \in Call /\ Fits(Idle) /\ Fits(Idle)'
<1>1. Idle \in Call
  BY TreasuryAssumption DEF Idle, Call, NoExpense, Expense, NoCategory, Category
<1>2. Fits(Idle)
  BY DEF Idle, Fits, CashPcs
<1>3. Fits(Idle)'
  BY DEF Idle, Fits, CashPcs
<1> QED BY <1>1, <1>2, <1>3

(* A step that leaves the tables alone.                                    *)
TablesKept == UNCHANGED <<expense, lastExpense, balance, lastAccount, entries, category, lastCategory, budget, due>>
LEMMA TablesKeptTyped ==
  ASSUME SpendingTyped, CashTyped, PlansTyped, TablesKept
  PROVE  SpendingTyped' /\ CashTyped' /\ PlansTyped' /\ \A c \in Call : Fits(c) => Fits(c)'
<1>1. SpendingTyped'
  BY DEF TablesKept, SpendingTyped
<1>2. CashTyped'
  BY DEF TablesKept, CashTyped
<1>3. PlansTyped'
  BY DEF TablesKept, PlansTyped, Named
<1>4. \A c \in Call : Fits(c) => Fits(c)'
  BY DEF TablesKept, Fits
<1> QED BY <1>1, <1>2, <1>3, <1>4

LEMMA BeginsTyped ==
  ASSUME MoneyInv, NEW k \in Calls, NEW n \in Call, Begins(k, n), Fits(n), TablesKept,
         quiet' \in BOOLEAN, UNCHANGED <<owed, undisbursed, marked>>,
         set' \in [BudgetKeys -> Nat], raced' \subseteq ExpenseIds, doubled' \subseteq Recurring
  PROVE  MoneyInv'
<1>1. SpendingTyped' /\ CashTyped' /\ PlansTyped' /\ \A c \in Call : Fits(c) => Fits(c)'
  BY TablesKeptTyped DEF MoneyInv
<1>2. HistoryTyped'
  <2>1. begun' \in 0 .. MaxCalls
    BY TreasuryAssumption DEF Begins, MoneyInv, HistoryTyped
  <2>2. alone' \subseteq Calls
    BY DEF Begins
  <2> QED BY <2>1, <2>2 DEF MoneyInv, HistoryTyped
<1>3. CallsFitted'
  BY <1>1, CallChanges DEF MoneyInv, Begins
<1> QED BY <1>1, <1>2, <1>3 DEF MoneyInv

LEMMA ReplenishTyped ==
  ASSUME MoneyInv, NEW k \in Calls, NEW amount \in Amounts, Replenish(k, amount)
  PROVE  MoneyInv'
<1>1. PICK n : n = [[Idle EXCEPT !.op = "replenish", !.amount = amount] EXCEPT !.pc = "account"]
  OBVIOUS
<1>2. n \in Call /\ Fits(n)
  <2>1. amount \in Nat
    BY TreasuryAssumption
  <2>2. n \in Call
    BY <1>1, <2>1, IdleFits DEF Call
  <2>3. n.pc = "account" /\ n.op = "replenish" /\ n.id = 0
    BY <1>1 DEF Idle
  <2> QED BY <2>2, <2>3 DEF Fits, CashPcs
<1>3. Begins(k, n) /\ TablesKept /\ quiet' \in BOOLEAN
  BY <1>1 DEF Replenish, ToAccount, TablesKept, cash, plans, spending
<1>4. /\ UNCHANGED <<owed, undisbursed, marked>> /\ set' \in [BudgetKeys -> Nat]
      /\ raced' \subseteq ExpenseIds /\ doubled' \subseteq Recurring
  BY DEF Replenish, ofPlans, MoneyInv, HistoryTyped
<1> QED BY <1>2, <1>3, <1>4, BeginsTyped

LEMMA SavesTyped ==
  ASSUME MoneyInv, NEW k \in Calls, NEW e \in 1 .. lastExpense, NEW o \in Expense,
         Begins(k, [Idle EXCEPT !.pc = "save expense", !.id = e, !.object = o]),
         raced' \subseteq ExpenseIds, UNCHANGED <<cash, plans, spending, ofCash, ofPlans>>
  PROVE  MoneyInv'
<1>1. PICK n : n = [Idle EXCEPT !.pc = "save expense", !.id = e, !.object = o]
  OBVIOUS
<1>2. n \in Call /\ Fits(n)
  <2>1. e \in Nat
    BY Bounds DEF MoneyInv, SpendingTyped
  <2>2. n \in Call
    BY <1>1, <2>1, IdleFits DEF Call
  <2>3. n.pc = "save expense" /\ n.op = "none" /\ n.id = e
    BY <1>1 DEF Idle
  <2> QED BY <2>2, <2>3 DEF Fits, CashPcs
<1>3. Begins(k, n) /\ TablesKept /\ quiet' \in BOOLEAN
  BY <1>1 DEF TablesKept, cash, plans, spending, ofCash, MoneyInv, HistoryTyped
<1>4. /\ UNCHANGED <<owed, undisbursed, marked>> /\ set' \in [BudgetKeys -> Nat]
      /\ raced' \subseteq ExpenseIds /\ doubled' \subseteq Recurring
  BY DEF ofCash, ofPlans, MoneyInv, HistoryTyped
<1> QED BY <1>2, <1>3, <1>4, BeginsTyped

LEMMA RacedTyped ==
  ASSUME MoneyInv, NEW k \in Calls, NEW e \in 1 .. lastExpense, NEW o, Saves(k, e, o)
  PROVE  raced' \subseteq ExpenseIds
<1>1. e \in ExpenseIds
  BY Bounds DEF MoneyInv, SpendingTyped, ExpenseIds
<1> QED BY <1>1 DEF Saves, MoneyInv, HistoryTyped

LEMMA UpdateExpenseTyped ==
  ASSUME MoneyInv, NEW k \in Calls, NEW e \in ExpenseIds, NEW amount \in Amounts,
         NEW given \in Amounts \cup {0}, UpdateExpense(k, e, amount, given)
  PROVE  MoneyInv'
<1>1. PICK o : o = [expense[e] EXCEPT !.amount = amount, !.paid = given]
  OBVIOUS
<1>2. o \in Expense
  <2>1. amount \in Nat /\ given \in Nat
    BY TreasuryAssumption
  <2>2. PICK row \in Expense : row = expense[e]
    BY DEF MoneyInv, SpendingTyped
  <2> QED BY <1>1, <2>1, <2>2 DEF Expense
<1>3. e \in 1 .. lastExpense /\ Saves(k, e, o)
  BY <1>1 DEF UpdateExpense
<1> QED BY <1>2, <1>3, RacedTyped, SavesTyped DEF Saves

LEMMA VoidExpenseTyped ==
  ASSUME MoneyInv, NEW k \in Calls, NEW e \in ExpenseIds, VoidExpense(k, e)
  PROVE  MoneyInv'
<1>1. PICK o : o = [expense[e] EXCEPT !.voided = TRUE]
  OBVIOUS
<1>2. o \in Expense
  <2>2. PICK row \in Expense : row = expense[e]
    BY DEF MoneyInv, SpendingTyped
  <2> QED BY <1>1, <2>2 DEF Expense
<1>3. e \in 1 .. lastExpense /\ Saves(k, e, o)
  BY <1>1 DEF VoidExpense
<1> QED BY <1>2, <1>3, RacedTyped, SavesTyped DEF Saves

(* A call about to save a category, or one with its budget.                *)
LEMMA CategoryCallTyped ==
  ASSUME MoneyInv, NEW k \in Calls, NEW c \in Call, c.pc = "save category",
         c.op \in {"none", "both"}, c.id \in 0 .. lastCategory,
         Begins(k, c), UNCHANGED <<cash, plans, spending, ofCash, raced, ofPlans>>
  PROVE  MoneyInv'
<1>1. Fits(c)
  BY DEF Fits, CashPcs
<1>2. TablesKept /\ quiet' \in BOOLEAN
  BY DEF TablesKept, cash, plans, spending, ofCash, MoneyInv, HistoryTyped
<1>3. /\ UNCHANGED <<owed, undisbursed, marked>> /\ set' \in [BudgetKeys -> Nat]
      /\ raced' \subseteq ExpenseIds /\ doubled' \subseteq Recurring
  BY DEF ofCash, ofPlans, MoneyInv, HistoryTyped
<1> QED BY <1>1, <1>2, <1>3, BeginsTyped

FoundId(n) == IF Named(n) = {} THEN 0 ELSE CHOOSE c \in Named(n) : TRUE
LEMMA FoundIdTyped ==
  ASSUME MoneyInv, NEW n
  PROVE  FoundId(n) \in 0 .. lastCategory /\ FoundId(n) \in Nat
<1>1. lastCategory \in Nat
  BY Bounds DEF MoneyInv, PlansTyped
<1>2. Named(n) # {} => (CHOOSE c \in Named(n) : TRUE) \in 1 .. lastCategory
  BY DEF Named
<1>3. FoundId(n) \in 0 .. lastCategory
  BY <1>1, <1>2 DEF FoundId
<1> QED BY <1>1, <1>3

LEMMA CreateCategoryTyped ==
  ASSUME MoneyInv, NEW k \in Calls, NEW n \in Names, CreateCategory(k, n)
  PROVE  MoneyInv'
<1>1. PICK i : i = FoundId(n)
  OBVIOUS
<1>2. i \in 0 .. lastCategory /\ i \in Nat
  BY <1>1, FoundIdTyped
<1>3. PICK c : c = [Idle EXCEPT !.pc = "save category", !.row = [name |-> n, active |-> TRUE],
                                !.id = i]
  OBVIOUS
<1>4. c \in Call /\ c.pc = "save category" /\ c.op = "none" /\ c.id = i
  <2>1. [name |-> n, active |-> TRUE] \in Category
    BY DEF Category
  <2>2. c \in Call
    BY <1>2, <1>3, <2>1, IdleFits DEF Call
  <2> QED BY <1>3, <2>2 DEF Idle
<1>5. Begins(k, c)
  BY <1>1, <1>3 DEF CreateCategory, FoundId
<1> QED BY <1>2, <1>4, <1>5, CategoryCallTyped DEF CreateCategory

LEMMA UpdateCategoryTyped ==
  ASSUME MoneyInv, NEW k \in Calls, NEW i \in CategoryIds, NEW n \in Names, NEW b \in BOOLEAN,
         UpdateCategory(k, i, n, b)
  PROVE  MoneyInv'
<1>2. i \in 0 .. lastCategory /\ i \in Nat
  BY Bounds DEF UpdateCategory, MoneyInv, PlansTyped, CategoryIds
<1>3. PICK c : c = [Idle EXCEPT !.pc = "save category", !.id = i,
                                !.row = [name |-> n, active |-> b]]
  OBVIOUS
<1>4. c \in Call /\ c.pc = "save category" /\ c.op = "none" /\ c.id = i
  <2>1. [name |-> n, active |-> b] \in Category
    BY DEF Category
  <2>2. c \in Call
    BY <1>2, <1>3, <2>1, IdleFits DEF Call
  <2> QED BY <1>3, <2>2 DEF Idle
<1>5. Begins(k, c)
  BY <1>3 DEF UpdateCategory
<1> QED BY <1>2, <1>4, <1>5, CategoryCallTyped DEF UpdateCategory

LEMMA ArchiveCategoryTyped ==
  ASSUME MoneyInv, NEW k \in Calls, NEW i \in CategoryIds, ArchiveCategory(k, i)
  PROVE  MoneyInv'
<1>1. i \in 0 .. lastCategory /\ i \in Nat
  BY Bounds DEF ArchiveCategory, MoneyInv, PlansTyped, CategoryIds
<1>2. PICK r \in Category : r = [category[i] EXCEPT !.active = FALSE]
  <2>1. PICK row \in Category : row = category[i]
    BY DEF MoneyInv, PlansTyped
  <2>2. [row EXCEPT !.active = FALSE] \in Category
    BY DEF Category
  <2> QED BY <2>1, <2>2
<1>3. PICK c : c = [Idle EXCEPT !.pc = "save category", !.id = i, !.row = r]
  OBVIOUS
<1>4. c \in Call /\ c.pc = "save category" /\ c.op = "none" /\ c.id = i
  <2>1. c \in Call
    BY <1>1, <1>3, IdleFits DEF Call
  <2> QED BY <1>3, <2>1 DEF Idle
<1>5. Begins(k, c)
  BY <1>2, <1>3 DEF ArchiveCategory
<1> QED BY <1>1, <1>4, <1>5, CategoryCallTyped DEF ArchiveCategory

LEMMA SaveCategoryWithBudgetTyped ==
  ASSUME MoneyInv, NEW k \in Calls, NEW n \in Names, NEW p \in Periods, NEW amount \in Amounts,
         SaveCategoryWithBudget(k, n, p, amount)
  PROVE  MoneyInv'
<1>1. PICK i : i = FoundId(n)
  OBVIOUS
<1>2. i \in 0 .. lastCategory /\ i \in Nat /\ amount \in Nat
  BY <1>1, FoundIdTyped, TreasuryAssumption
<1>3. PICK c : c = [Idle EXCEPT !.op = "both", !.pc = "save category", !.period = p,
                      !.amount = amount, !.row = [name |-> n, active |-> TRUE], !.id = i]
  OBVIOUS
<1>4. c \in Call /\ c.pc = "save category" /\ c.op = "both" /\ c.id = i
  <2>1. [name |-> n, active |-> TRUE] \in Category
    BY DEF Category
  <2>2. c \in Call
    BY <1>2, <1>3, <2>1, IdleFits DEF Call
  <2> QED BY <1>3, <2>2 DEF Idle
<1>5. Begins(k, c)
  BY <1>1, <1>3 DEF SaveCategoryWithBudget, FoundId
<1> QED BY <1>2, <1>4, <1>5, CategoryCallTyped DEF SaveCategoryWithBudget

LEMMA UpdateCategoryWithBudgetTyped ==
  ASSUME MoneyInv, NEW k \in Calls, NEW i \in CategoryIds, NEW n \in Names, NEW p \in Periods,
         NEW amount \in Amounts, UpdateCategoryWithBudget(k, i, n, p, amount)
  PROVE  MoneyInv'
<1>1. i \in 0 .. lastCategory /\ i \in Nat /\ amount \in Nat
  BY Bounds, TreasuryAssumption DEF UpdateCategoryWithBudget, MoneyInv, PlansTyped, CategoryIds
<1>2. PICK r \in Category : r = [category[i] EXCEPT !.name = n]
  <2>1. PICK row \in Category : row = category[i]
    BY DEF MoneyInv, PlansTyped
  <2>2. [row EXCEPT !.name = n] \in Category
    BY DEF Category
  <2> QED BY <2>1, <2>2
<1>3. PICK c : c = [Idle EXCEPT !.op = "both", !.pc = "save category", !.period = p, !.id = i,
                                !.amount = amount, !.row = r]
  OBVIOUS
<1>4. c \in Call /\ c.pc = "save category" /\ c.op = "both" /\ c.id = i
  <2>1. c \in Call
    BY <1>1, <1>3, IdleFits DEF Call
  <2> QED BY <1>3, <2>1 DEF Idle
<1>5. Begins(k, c)
  BY <1>2, <1>3 DEF UpdateCategoryWithBudget
<1> QED BY <1>1, <1>4, <1>5, CategoryCallTyped DEF UpdateCategoryWithBudget

LEMMA SetBudgetTyped ==
  ASSUME MoneyInv, NEW k \in Calls, NEW i \in CategoryIds, NEW p \in Periods,
         NEW amount \in Amounts, SetBudget(k, i, p, amount)
  PROVE  MoneyInv'
<1>1. i \in Nat /\ amount \in Nat
  BY Bounds, TreasuryAssumption DEF CategoryIds
<1>2. PICK way \in {"insert", "update"} :
        way = IF budget[i, BudgetFor(i, p)] = 0 THEN "insert" ELSE "update"
  OBVIOUS
<1>3. PICK c : c = [Idle EXCEPT !.op = way, !.pc = "save budget", !.id = i, !.period = p,
                                !.amount = amount]
  OBVIOUS
<1>4. c \in Call /\ Fits(c)
  <2>1. c \in Call
    BY <1>1, <1>3, IdleFits DEF Call
  <2>2. c.pc = "save budget" /\ c.op = way
    BY <1>3 DEF Idle
  <2> QED BY <2>1, <2>2 DEF Fits, CashPcs
<1>5. Begins(k, c) /\ TablesKept /\ quiet' \in BOOLEAN
  BY <1>2, <1>3 DEF SetBudget, TablesKept, cash, plans, spending, ofCash, MoneyInv, HistoryTyped
<1>6. /\ UNCHANGED <<owed, undisbursed, marked>>
      /\ raced' \subseteq ExpenseIds /\ doubled' \subseteq Recurring
  BY DEF SetBudget, ofCash, MoneyInv, HistoryTyped
<1>7. set' \in [BudgetKeys -> Nat]
  BY DEF SetBudget, MoneyInv, HistoryTyped
<1> QED BY <1>4, <1>5, <1>6, <1>7, BeginsTyped

(* Due dates stay dates.                                                   *)
LEMMA DaysOfMonth == ASSUME NEW m \in Nat PROVE DaysOf(m) \in 28 .. 31
BY DEF DaysOf

LEMMA NextDueTyped ==
  ASSUME NEW d \in DueDate, NEW by \in Nat
  PROVE  NextDue(d, by) \in DueDate
<1>1. d.month \in Nat /\ d.day \in 1 .. 31 /\ d.month + by \in Nat
  BY DEF DueDate
<1>2. PICK m \in Nat : m = d.month + by
  BY <1>1
<1>3. PICK days \in 28 .. 31 : days = DaysOf(m)
  BY DaysOfMonth
<1>4. d.day <= days => [month |-> m, day |-> d.day] \in DueDate
  BY <1>1, <1>2 DEF DueDate
<1>5. ~(d.day <= days) => [month |-> m + 1, day |-> d.day - days] \in DueDate
  <2>1. ~(d.day <= days) => d.day - days \in 1 .. 31
    BY <1>1, <1>3
  <2> QED BY <2>1, <1>2 DEF DueDate
<1> QED BY <1>2, <1>3, <1>4, <1>5 DEF NextDue

LEMMA StepOf ==
  ASSUME NEW r \in Recurring
  PROVE  /\ FirstDue[r].step \in {1, 3, 12} /\ FirstDue[r].step \in Nat
         /\ FirstDue[r].month \in Nat /\ FirstDue[r].day \in 1 .. 31 /\ r \in Nat
<1>1. FirstDue[r] \in [step : {1, 3, 12}, month : 0 .. 11, day : 1 .. 31] /\ r \in Nat
  BY TreasuryAssumption
<1>2. FirstDue[r].step \in {1, 3, 12} /\ FirstDue[r].month \in 0 .. 11 /\ FirstDue[r].day \in 1 .. 31
  BY <1>1
<1> QED BY <1>1, <1>2

LEMMA DueCallTyped ==
  ASSUME MoneyInv, NEW k \in Calls, NEW r \in Recurring, NEW way \in {"record", "given"},
         NEW d \in DueDate,
         Begins(k, [Idle EXCEPT !.op = way, !.pc = "save due", !.id = r,
                                !.read = d.month, !.day = d.day]),
         doubled' \subseteq Recurring,
         UNCHANGED <<cash, plans, spending, ofCash, raced, set, marked>>
  PROVE  MoneyInv'
<1>1. r \in Nat /\ d.month \in Nat /\ d.day \in 1 .. 31
  BY StepOf DEF DueDate
<1>3. PICK c : c = [Idle EXCEPT !.op = way, !.pc = "save due", !.id = r,
                                !.read = d.month, !.day = d.day]
  OBVIOUS
<1>4. c \in Call /\ Fits(c)
  <2>1. d.month \in Int /\ d.day \in 0 .. 31
    BY <1>1
  <2>2. c \in Call
    BY <1>1, <1>3, <2>1, IdleFits DEF Call
  <2>3. /\ c.pc = "save due" /\ c.op = way /\ c.id = r /\ c.read = d.month /\ c.day = d.day
    BY <1>3 DEF Idle
  <2> QED BY <1>1, <2>2, <2>3 DEF Fits, CashPcs
<1>5. Begins(k, c) /\ TablesKept /\ quiet' \in BOOLEAN
  BY <1>3 DEF TablesKept, cash, plans, spending, ofCash, MoneyInv, HistoryTyped
<1>6. /\ UNCHANGED <<owed, undisbursed, marked>> /\ set' \in [BudgetKeys -> Nat]
      /\ raced' \subseteq ExpenseIds
  BY DEF ofCash, MoneyInv, HistoryTyped
<1> QED BY <1>4, <1>5, <1>6, BeginsTyped

LEMMA MarkRecordedTyped ==
  ASSUME MoneyInv, NEW k \in Calls, NEW r \in Recurring, MarkRecorded(k, r)
  PROVE  MoneyInv'
<1>1. PICK d : d = NextDue(due[r], FirstDue[r].step)
  OBVIOUS
<1>2. d \in DueDate
  BY <1>1, StepOf, NextDueTyped DEF MoneyInv, PlansTyped
<1>3. Begins(k, [Idle EXCEPT !.op = "record", !.pc = "save due", !.id = r,
                             !.read = d.month, !.day = d.day])
  BY <1>1 DEF MarkRecorded
<1>4. doubled' \subseteq Recurring
  BY DEF MarkRecorded, MoneyInv, HistoryTyped
<1> QED BY <1>2, <1>3, <1>4, DueCallTyped DEF MarkRecorded

LEMMA UpdateRecurringExpenseTyped ==
  ASSUME MoneyInv, NEW k \in Calls, NEW r \in Recurring, UpdateRecurringExpense(k, r)
  PROVE  MoneyInv'
<1>1. PICK d : d = [month |-> FirstDue[r].month, day |-> FirstDue[r].day]
  OBVIOUS
<1>2. d \in DueDate /\ d.month = FirstDue[r].month /\ d.day = FirstDue[r].day
  BY <1>1, StepOf DEF DueDate
<1>3. Begins(k, [Idle EXCEPT !.op = "given", !.pc = "save due", !.id = r,
                             !.read = d.month, !.day = d.day])
  BY <1>2 DEF UpdateRecurringExpense
<1>4. doubled' \subseteq Recurring
  BY DEF UpdateRecurringExpense, MoneyInv, HistoryTyped
<1> QED BY <1>2, <1>3, <1>4, DueCallTyped DEF UpdateRecurringExpense

(* Calls that get on, or end, without touching a table.                    *)
LEMMA MovesTyped ==
  ASSUME MoneyInv, NEW k \in Calls, NEW n \in Call, call' = [call EXCEPT ![k] = n], Fits(n),
         TablesKept, HistoryTyped'
  PROVE  MoneyInv'
<1>1. SpendingTyped' /\ CashTyped' /\ PlansTyped' /\ \A c \in Call : Fits(c) => Fits(c)'
  BY TablesKeptTyped DEF MoneyInv
<1>2. CallsFitted'
  BY <1>1, CallChanges DEF MoneyInv
<1> QED BY <1>1, <1>2 DEF MoneyInv

LEMMA CallOf ==
  ASSUME MoneyInv, NEW k \in Calls
  PROVE  call[k] \in Call /\ \A c \in Call : c = call[k] => Fits(c)
BY DEF MoneyInv, CallsFitted

LEMMA RowCounts ==
  ASSUME MoneyInv
  PROVE  /\ lastExpense \in Nat /\ lastExpense <= MaxExpenses
         /\ lastAccount \in Nat /\ lastAccount <= MaxAccounts
         /\ lastCategory \in Nat /\ lastCategory <= MaxCategories
<1>1. \A m \in Nat : \A n \in 0 .. m : n \in Nat /\ n <= m
  OBVIOUS
<1>2. \A m \in Nat : \A n \in 1 .. m : n \in Nat /\ n <= m
  OBVIOUS
<1>3. /\ lastExpense \in 0 .. MaxExpenses /\ lastAccount \in 0 .. MaxAccounts
      /\ lastCategory \in 1 .. MaxCategories
  BY DEF MoneyInv, SpendingTyped, CashTyped, PlansTyped
<1> QED BY <1>1, <1>2, <1>3, Bounds

LEMMA CreateExpenseTyped ==
  ASSUME MoneyInv, NEW k \in Calls, NEW amount \in Amounts, NEW given \in Amounts \cup {0},
         NEW petty \in BOOLEAN, CreateExpense(k, amount, given, petty)
  PROVE  MoneyInv'
<1>1. PICK e : e = lastExpense + 1
  OBVIOUS
<1>2. lastExpense \in Nat /\ e \in ExpenseIds /\ e \in Nat /\ e <= MaxExpenses /\ e = lastExpense + 1
  BY <1>1, Bounds DEF CreateExpense, MoneyInv, SpendingTyped, ExpenseIds
<1>3. amount \in Nat /\ given \in Nat
  BY TreasuryAssumption
<1>4. PICK row \in Expense : row = [amount |-> amount, paid |-> given, voided |-> FALSE]
  BY <1>3 DEF Expense
<1>5. expense' = [expense EXCEPT ![e] = row] /\ lastExpense' = e
  BY <1>1, <1>4 DEF CreateExpense
<1>6. SpendingTyped'
  BY <1>2, <1>5, Bounds DEF MoneyInv, SpendingTyped
<1>7. CashTyped'
  <2>1. ASSUME NEW x \in entries PROVE x.expense <= lastExpense'
    <3>1. x.expense \in Nat /\ x.expense <= lastExpense
      BY DEF MoneyInv, CashTyped, Entry
    <3> QED BY <1>2, <1>5, <3>1
  <2> QED BY <2>1 DEF CreateExpense, cash, MoneyInv, CashTyped
<1>8. PlansTyped'
  BY DEF CreateExpense, plans, MoneyInv, PlansTyped, Named
<1>9. \A c \in Call : Fits(c) => Fits(c)'
  <2>1. lastAccount \in Nat /\ lastAccount' = lastAccount
    BY Bounds DEF CreateExpense, cash, MoneyInv, CashTyped
  <2>2. lastCategory \in Nat /\ lastCategory' = lastCategory
    BY Bounds DEF CreateExpense, plans, MoneyInv, PlansTyped
  <2>3. lastExpense <= lastExpense' /\ lastExpense' \in Nat /\ lastAccount <= lastAccount'
        /\ lastCategory <= lastCategory' /\ lastAccount' \in Nat /\ lastCategory' \in Nat
    BY <1>2, <1>5, <2>1, <2>2
  <2> QED BY <1>2, <2>1, <2>2, <2>3, FitsKept
<1>10. owed' \in [ExpenseIds -> Nat]
  BY <1>3 DEF CreateExpense, MoneyInv, HistoryTyped
<1>11. \E n \in Call : Begins(k, n) /\ Fits(n)'
  <2>1. CASE petty /\ given > 0
    <3>1. PICK n : n = [[Idle EXCEPT !.op = "expense", !.id = e, !.amount = given]
                          EXCEPT !.pc = "account"]
      OBVIOUS
    <3>2. n \in Call
      BY <1>2, <1>3, <3>1, IdleFits DEF Call
    <3>3. n.pc = "account" /\ n.op = "expense" /\ n.id = e
      BY <3>1 DEF Idle
    <3>4. e \in 1 .. lastExpense'
      BY <1>2, <1>5
    <3>5. Fits(n)'
      BY <3>3, <3>4 DEF Fits, CashPcs
    <3>6. Begins(k, n)
      BY <1>1, <2>1, <3>1 DEF CreateExpense, ToAccount, Disbursed
    <3> QED BY <3>2, <3>5, <3>6
  <2>2. CASE ~(petty /\ given > 0)
    <3>1. Begins(k, Idle)
      BY <2>2 DEF CreateExpense
    <3> QED BY <3>1, IdleFits
  <2> QED BY <2>1, <2>2
<1>12. PICK n \in Call : Begins(k, n) /\ Fits(n)'
  BY <1>11
<1>13. quiet' \in BOOLEAN
  BY DEF CreateExpense, ToAccount, MoneyInv, HistoryTyped
<1>14. begun' \in 0 .. MaxCalls /\ alone' \subseteq Calls
  BY <1>12, Bounds DEF Begins, MoneyInv, HistoryTyped
<1>15. HistoryTyped'
  BY <1>10, <1>13, <1>14 DEF CreateExpense, ofPlans, MoneyInv, HistoryTyped
<1>16. CallsFitted'
  BY <1>9, <1>12, CallChanges DEF MoneyInv, Begins
<1> QED BY <1>6, <1>7, <1>8, <1>15, <1>16 DEF MoneyInv

LEMMA GetAccountTyped ==
  ASSUME MoneyInv, NEW k \in Calls, GetAccount(k)
  PROVE  MoneyInv'
<1>1. PICK c \in Call : c = call[k]
  BY CallOf
<1>2. Fits(c) /\ c.pc = "account"
  BY <1>1, CallOf DEF GetAccount, At
<1>3. TablesKept /\ HistoryTyped'
  BY DEF GetAccount, TablesKept, cash, plans, spending, ofCash, ofPlans, MoneyInv, HistoryTyped
<1>4. CASE lastAccount = 0
  <2>1. PICK n : n = [c EXCEPT !.pc = "create account"]
    OBVIOUS
  <2>2. n \in Call /\ n.pc = "create account" /\ n.op = c.op /\ n.id = c.id
    BY <2>1 DEF Call
  <2>3. Fits(n)
    BY <1>2, <2>2 DEF Fits, CashPcs
  <2>4. call' = [call EXCEPT ![k] = n]
    BY <1>1, <1>4, <2>1 DEF GetAccount
  <2> QED BY <1>3, <2>2, <2>3, <2>4, MovesTyped
<1>5. CASE lastAccount # 0
  <2>1. PICK a \in 1 .. lastAccount :
          call' = [call EXCEPT ![k].account = a, ![k].read = balance[a],
                               ![k].pc = "save balance"]
    BY <1>5 DEF GetAccount
  <2>2. a \in 0 .. MaxAccounts /\ a \in Accounts
    <3>1. lastAccount \in Nat /\ lastAccount <= MaxAccounts /\ MaxAccounts \in Nat
      BY RowCounts, Bounds
    <3> QED BY <3>1 DEF Accounts
  <2>3. PICK b \in Int : b = balance[a]
    BY <2>2 DEF MoneyInv, CashTyped
  <2>4. PICK n : n = [c EXCEPT !.account = a, !.read = b, !.pc = "save balance"]
    OBVIOUS
  <2>5. n \in Call /\ n.pc = "save balance" /\ n.op = c.op /\ n.id = c.id /\ n.account = a
    BY <2>2, <2>3, <2>4 DEF Call
  <2>6. Fits(n)
    BY <1>2, <2>1, <2>5 DEF Fits, CashPcs
  <2>7. call' = [call EXCEPT ![k] = n]
    BY <1>1, <2>1, <2>3, <2>4 DEF MoneyInv, CallsFitted
  <2> QED BY <1>3, <2>5, <2>6, <2>7, MovesTyped
<1> QED BY <1>4, <1>5

LEMMA CreateAccountTyped ==
  ASSUME MoneyInv, NEW k \in Calls, CreateAccount(k)
  PROVE  MoneyInv'
<1>1. PICK c \in Call : c = call[k]
  BY CallOf
<1>2. Fits(c) /\ c.pc = "create account"
  BY <1>1, CallOf DEF CreateAccount, At
<1>3. PICK a : a = lastAccount + 1
  OBVIOUS
<1>4. lastAccount \in Nat /\ a \in 0 .. MaxAccounts /\ a \in Accounts /\ a = lastAccount + 1
  <2>1. lastAccount \in Nat /\ MaxAccounts \in Nat
    BY RowCounts, Bounds
  <2>2. a <= MaxAccounts
    BY <1>3 DEF CreateAccount
  <2> QED BY <1>3, <2>1, <2>2 DEF Accounts
<1>z. PICK z \in Int : z = 0
  OBVIOUS
<1>5. balance' = [balance EXCEPT ![a] = 0] /\ lastAccount' = a
  BY <1>3 DEF CreateAccount
<1>6. CashTyped'
  <2>1. ASSUME NEW x \in entries PROVE x.account <= lastAccount'
    <3>1. x.account \in Int /\ x.account <= lastAccount
      BY Bounds DEF MoneyInv, CashTyped, Entry, Accounts
    <3> QED BY <1>4, <1>5, <3>1
  <2>2. balance' \in [Accounts -> Int]
    <3>1. balance \in [Accounts -> Int] /\ balance' = [balance EXCEPT ![a] = z]
      BY <1>5, <1>z DEF MoneyInv, CashTyped
    <3> QED BY <3>1
  <2> QED BY <1>4, <1>5, <2>1, <2>2 DEF CreateAccount, spending, MoneyInv, CashTyped
<1>7. SpendingTyped' /\ PlansTyped' /\ HistoryTyped'
  BY DEF CreateAccount, spending, plans, ofCash, ofPlans, MoneyInv, SpendingTyped, PlansTyped,
         Named, HistoryTyped
<1>8. PICK n : n = [c EXCEPT !.account = a, !.read = z, !.pc = "save balance"]
  OBVIOUS
<1>9. n \in Call /\ n.pc = "save balance" /\ n.op = c.op /\ n.id = c.id /\ n.account = a
  BY <1>4, <1>8 DEF Call
<1>10. call' = [call EXCEPT ![k] = n]
  BY <1>1, <1>3, <1>8, <1>z DEF CreateAccount, MoneyInv, CallsFitted
<1>11. lastExpense' = lastExpense /\ a \in 1 .. lastAccount'
  <2>1. a \in 1 .. a
    BY <1>4
  <2>2. lastExpense' = lastExpense
    BY DEF CreateAccount, spending
  <2> QED BY <1>5, <2>1, <2>2
<1>12. Fits(n)'
  BY <1>2, <1>9, <1>11 DEF Fits, CashPcs
<1>13. \A d \in Call : Fits(d) => Fits(d)'
  <2>1. lastExpense \in Nat /\ lastExpense' = lastExpense
    BY RowCounts DEF CreateAccount, spending
  <2>2. lastCategory \in Nat /\ lastCategory' = lastCategory
    BY RowCounts DEF CreateAccount, plans
  <2>3. lastExpense <= lastExpense' /\ lastExpense' \in Nat /\ lastAccount <= lastAccount'
        /\ lastCategory <= lastCategory' /\ lastAccount' \in Nat /\ lastCategory' \in Nat
    BY <1>4, <1>5, <2>1, <2>2
  <2> QED BY <1>4, <2>1, <2>2, <2>3, FitsKept
<1>14. CallsFitted'
  BY <1>9, <1>10, <1>12, <1>13, CallChanges DEF MoneyInv
<1> QED BY <1>6, <1>7, <1>14 DEF MoneyInv

LEMMA NewBalanceTyped ==
  ASSUME NEW c \in Call
  PROVE  Signed(c) \in Int /\ NewBalance(c) \in Int /\ NewBalance(c) = c.read + Signed(c)
<1>1. c.amount \in Nat /\ c.read \in Int
  BY CallFields
<1>2. Signed(c) \in Int
  BY <1>1 DEF Signed
<1> QED BY <1>1, <1>2 DEF NewBalance

LEMMA SaveBalanceTyped ==
  ASSUME MoneyInv, NEW k \in Calls, SaveBalance(k)
  PROVE  MoneyInv'
<1>1. PICK c \in Call : c = call[k]
  BY CallOf
<1>2. Fits(c) /\ c.pc = "save balance"
  BY <1>1, CallOf DEF SaveBalance, At
<1>3. CashTyped'
  <2>1. balance' \in [Accounts -> Int]
    BY <1>1, NewBalanceTyped DEF SaveBalance, MoneyInv, CashTyped
  <2> QED BY <2>1 DEF SaveBalance, spending, MoneyInv, CashTyped
<1>4. SpendingTyped' /\ PlansTyped' /\ HistoryTyped'
  BY DEF SaveBalance, spending, plans, ofCash, ofPlans, MoneyInv, SpendingTyped, PlansTyped,
         Named, HistoryTyped
<1>5. PICK n : n = [c EXCEPT !.pc = "record"]
  OBVIOUS
<1>6. n \in Call /\ n.pc = "record" /\ n.op = c.op /\ n.id = c.id /\ n.account = c.account
  BY <1>5 DEF Call
<1>7. call' = [call EXCEPT ![k] = n]
  BY <1>1, <1>5 DEF SaveBalance
<1>8. lastExpense' = lastExpense /\ lastAccount' = lastAccount /\ lastCategory' = lastCategory
  BY DEF SaveBalance, spending, plans
<1>9. Fits(n)'
  BY <1>2, <1>6, <1>8 DEF Fits, CashPcs
<1>10. \A d \in Call : Fits(d) => Fits(d)'
  BY <1>8 DEF Fits
<1>11. CallsFitted'
  BY <1>6, <1>7, <1>9, <1>10, CallChanges DEF MoneyInv
<1> QED BY <1>3, <1>4, <1>11 DEF MoneyInv

(* The call is over: what is left to show is the tables.                   *)
LEMMA EndsTyped ==
  ASSUME MoneyInv, NEW k \in Calls, Ends(k), \A c \in Call : Fits(c) => Fits(c)'
  PROVE  CallsFitted' /\ UNCHANGED <<begun, alone>>
<1>1. CallsFitted'
  BY IdleFits, CallChanges DEF Ends, MoneyInv
<1> QED BY <1>1 DEF Ends

LEMMA RefusesTyped ==
  ASSUME MoneyInv, NEW k \in Calls, Refuses(k)
  PROVE  MoneyInv'
<1>1. TablesKept /\ Ends(k)
  BY DEF Refuses, TablesKept, cash, plans, spending
<1>2. HistoryTyped'
  BY DEF Refuses, Ends, ofCash, ofPlans, MoneyInv, HistoryTyped
<1> QED BY <1>1, <1>2, IdleFits, MovesTyped DEF Ends

LEMMA CutOffTyped ==
  ASSUME MoneyInv, NEW k \in Calls, CutOff(k)
  PROVE  MoneyInv'
<1>1. PICK c \in Call : c = call[k]
  BY CallOf
<1>2. Fits(c)
  BY <1>1, CallOf
<1>3. c.op = "expense" => c.id \in ExpenseIds
  <2>1. lastExpense \in Nat /\ lastExpense <= MaxExpenses /\ MaxExpenses \in Nat
    BY RowCounts, Bounds
  <2>2. \A i \in 1 .. lastExpense : i \in ExpenseIds
    BY <2>1 DEF ExpenseIds
  <2> QED BY <1>2, <2>2 DEF Fits
<1>4. TablesKept /\ Ends(k)
  BY DEF CutOff, TablesKept, cash, plans, spending
<1>5. HistoryTyped'
  <2>1. undisbursed' \subseteq ExpenseIds
    BY <1>1, <1>3 DEF CutOff, MoneyInv, HistoryTyped
  <2>2. quiet' \in BOOLEAN
    BY DEF CutOff, MoneyInv, HistoryTyped
  <2>3. UNCHANGED <<begun, alone, owed, raced, set, marked, doubled>>
    BY DEF CutOff, Ends, ofPlans
  <2> QED BY <2>1, <2>2, <2>3 DEF MoneyInv, HistoryTyped
<1> QED BY <1>4, <1>5, IdleFits, MovesTyped DEF Ends

LEMMA RecordEntryTyped ==
  ASSUME MoneyInv, NEW k \in Calls, RecordEntry(k)
  PROVE  MoneyInv'
<1>1. PICK c \in Call : c = call[k]
  BY CallOf
<1>2. Fits(c) /\ c.pc = "record"
  BY <1>1, CallOf DEF RecordEntry, At
<1>3. PICK i : i = Cardinality(entries) + 1
  OBVIOUS
<1>4. PICK x : x = [id |-> i, account |-> c.account, amount |-> Signed(c),
                    after |-> NewBalance(c), expense |-> c.id]
  OBVIOUS
<1>5. entries' = entries \cup {x} /\ i <= MaxEntries
  BY <1>1, <1>3, <1>4 DEF RecordEntry
<1>7. c.account \in Accounts /\ c.account <= lastAccount
  <2>1. lastAccount \in Nat /\ lastAccount <= MaxAccounts /\ MaxAccounts \in Nat
    BY RowCounts, Bounds
  <2>2. c.account \in 1 .. lastAccount
    BY <1>2 DEF Fits
  <2> QED BY <2>1, <2>2 DEF Accounts
<1>8. c.id \in Nat /\ c.id <= lastExpense
  <2>1. lastExpense \in Nat
    BY RowCounts
  <2>2. c.id = 0 \/ c.id \in 1 .. lastExpense
    BY <1>2 DEF Fits, CashPcs
  <2> QED BY <2>1, <2>2
<1>9. i \in Nat
  BY <1>3, FS_CardinalityType DEF MoneyInv, CashTyped
<1>10. x \in Entry /\ x.account = c.account /\ x.expense = c.id
  BY <1>4, <1>7, <1>8, <1>9, NewBalanceTyped DEF Entry
<1>11. CashTyped'
  <2>1. lastAccount' = lastAccount /\ lastExpense' = lastExpense /\ balance' = balance
    BY DEF RecordEntry, spending
  <2>2. IsFiniteSet(entries')
    BY <1>5, FS_AddElement DEF MoneyInv, CashTyped
  <2>3. \A y \in entries' : y.account <= lastAccount' /\ y.expense <= lastExpense'
    BY <1>5, <1>7, <1>8, <1>10, <2>1 DEF MoneyInv, CashTyped
  <2> QED BY <1>5, <1>10, <2>1, <2>2, <2>3 DEF MoneyInv, CashTyped
<1>12. \A d \in Call : Fits(d) => Fits(d)'
  BY DEF RecordEntry, spending, plans, Fits
<1>13. CallsFitted' /\ UNCHANGED <<begun, alone>>
  BY <1>12, EndsTyped DEF RecordEntry
<1>14. SpendingTyped' /\ PlansTyped' /\ HistoryTyped'
  BY <1>13 DEF RecordEntry, spending, plans, ofCash, ofPlans, MoneyInv, SpendingTyped, PlansTyped,
         Named, HistoryTyped
<1> QED BY <1>11, <1>13, <1>14 DEF MoneyInv

LEMMA SaveExpenseTyped ==
  ASSUME MoneyInv, NEW k \in Calls, SaveExpense(k)
  PROVE  MoneyInv'
<1>1. PICK c \in Call : c = call[k]
  BY CallOf
<1>2. PICK o \in Expense : o = c.object
  BY CallFields
<1>3. SpendingTyped'
  <2>1. expense' = [expense EXCEPT ![c.id] = o] /\ lastExpense' = lastExpense
    BY <1>1, <1>2 DEF SaveExpense
  <2> QED BY <2>1 DEF MoneyInv, SpendingTyped
<1>4. CallsFitted' /\ UNCHANGED <<begun, alone>>
  <2>1. \A d \in Call : Fits(d) => Fits(d)'
    BY DEF SaveExpense, cash, plans, Fits
  <2> QED BY <2>1, EndsTyped DEF SaveExpense
<1>5. CashTyped' /\ PlansTyped' /\ HistoryTyped'
  BY <1>4 DEF SaveExpense, cash, plans, ofCash, ofPlans, MoneyInv, CashTyped, PlansTyped,
         Named, HistoryTyped
<1> QED BY <1>3, <1>4, <1>5 DEF MoneyInv

LEMMA MaxOfTwo ==
  ASSUME NEW a \in Nat, NEW b \in Nat, b <= a + 1
  PROVE  Max({a, b}) = IF b = a + 1 THEN b ELSE a
<1>1. PICK m : m = IF b = a + 1 THEN b ELSE a
  OBVIOUS
<1>2. m \in {a, b} /\ \A y \in {a, b} : m >= y
  BY <1>1
<1>3. \A z \in {a, b} : (\A y \in {a, b} : z >= y) => z = m
  BY <1>2
<1>4. Max({a, b}) = m
  BY <1>2, <1>3 DEF Max
<1> QED BY <1>1, <1>4

BudgetGiven(k, c, x) ==
  /\ budget' = [budget EXCEPT ![<<c, x.period>>] = x.amount]
  /\ set' = [set EXCEPT ![<<c, x.period>>] = IF k \in alone THEN x.amount ELSE 0]
LEMMA BudgetGivenTyped ==
  ASSUME MoneyInv, NEW k, NEW c, NEW x \in Call, BudgetGiven(k, c, x)
  PROVE  budget' \in [BudgetKeys -> Nat] /\ set' \in [BudgetKeys -> Nat]
<1>1. x.amount \in Nat
  BY CallFields
<1>2. PICK b \in Nat : b = IF k \in alone THEN x.amount ELSE 0
  BY <1>1
<1>3. set' = [set EXCEPT ![<<c, x.period>>] = b]
  BY <1>2 DEF BudgetGiven
<1> QED BY <1>1, <1>3 DEF BudgetGiven, MoneyInv, PlansTyped, HistoryTyped

LEMMA SaveBudgetTyped ==
  ASSUME MoneyInv, NEW k \in Calls, SaveBudget(k)
  PROVE  MoneyInv'
<1>1. PICK x \in Call : x = call[k]
  BY CallOf
<1>2. CASE Refuses(k)
  BY <1>2, RefusesTyped
<1>3. CASE ~Refuses(k)
  <2>1. BudgetGiven(k, x.id, x) /\ Ends(k)
        /\ UNCHANGED <<cash, spending, category, lastCategory, due, ofCash, raced,
                       marked, doubled>>
    BY <1>1, <1>3 DEF SaveBudget, BudgetSet, BudgetFor, BudgetGiven
  <2>2. \A d \in Call : Fits(d) => Fits(d)'
    BY <2>1 DEF spending, cash, Fits
  <2>3. CallsFitted' /\ UNCHANGED <<begun, alone>>
    BY <2>1, <2>2, EndsTyped
  <2>4. budget' \in [BudgetKeys -> Nat] /\ set' \in [BudgetKeys -> Nat]
    BY <2>1, BudgetGivenTyped
  <2>5. SpendingTyped' /\ CashTyped'
    BY <2>1 DEF cash, spending, MoneyInv, SpendingTyped, CashTyped
  <2>6. PlansTyped'
    BY <2>1, <2>4 DEF MoneyInv, PlansTyped, Named
  <2>7. HistoryTyped'
    BY <2>1, <2>3, <2>4 DEF MoneyInv, HistoryTyped, ofCash
  <2> QED BY <2>3, <2>5, <2>6, <2>7 DEF MoneyInv
<1> QED BY <1>2, <1>3

LEMMA SaveDueTyped ==
  ASSUME MoneyInv, NEW k \in Calls, SaveDue(k)
  PROVE  MoneyInv'
<1>1. PICK c \in Call : c = call[k]
  BY CallOf
<1>2. c.read \in Nat /\ c.day \in 1 .. 31
  BY <1>1, CallOf DEF SaveDue, At, Fits
<1>3. PICK d \in DueDate : d = [month |-> c.read, day |-> c.day]
  BY <1>2 DEF DueDate
<1>4. due' = [due EXCEPT ![c.id] = d]
  BY <1>1, <1>3 DEF SaveDue
<1>5. marked' \in [Recurring -> Nat]
  <2>1. marked \in [Recurring -> Nat]
    BY DEF MoneyInv, HistoryTyped
  <2>2. \A r \in Recurring : marked[r] + 1 \in Nat
    BY <2>1
  <2>3. marked' = [marked EXCEPT ![c.id] = IF c.op = "record" THEN marked[c.id] + 1 ELSE 0]
    BY <1>1 DEF SaveDue
  <2> QED BY <2>1, <2>2, <2>3
<1>6. CallsFitted' /\ UNCHANGED <<begun, alone>>
  <2>1. \A x \in Call : Fits(x) => Fits(x)'
    BY DEF SaveDue, cash, spending, Fits
  <2> QED BY <2>1, EndsTyped DEF SaveDue
<1>7. PlansTyped'
  <2>1. due' \in [Recurring -> DueDate]
    BY <1>4 DEF MoneyInv, PlansTyped
  <2> QED BY <2>1 DEF SaveDue, MoneyInv, PlansTyped, Named
<1>8. SpendingTyped' /\ CashTyped'
  BY DEF SaveDue, cash, spending, MoneyInv, SpendingTyped, CashTyped
<1>9. HistoryTyped'
  BY <1>5, <1>6 DEF SaveDue, ofCash, MoneyInv, HistoryTyped
<1> QED BY <1>6, <1>7, <1>8, <1>9 DEF MoneyInv

LEMMA NamesDiffer ==
  ASSUME PlansTyped, NEW d \in 1 .. lastCategory, NEW e \in 1 .. lastCategory,
         category[d].name = category[e].name
  PROVE  d = e
<1>1. Named(category[e].name) = {e}
  BY DEF PlansTyped
<1>2. d \in Named(category[e].name)
  BY DEF Named
<1> QED BY <1>1, <1>2

LEMMA SaveCategoryTyped ==
  ASSUME MoneyInv, NEW k \in Calls, SaveCategory(k)
  PROVE  MoneyInv'
<1>1. PICK x \in Call : x = call[k]
  BY CallOf
<1>2. PICK c : c = IF x.id = 0 THEN lastCategory + 1 ELSE x.id
  OBVIOUS
<1>3. CASE Refuses(k)
  BY <1>3, RefusesTyped
<1>4. CASE ~Refuses(k)
  <2>1. /\ category' = [category EXCEPT ![c] = x.row] /\ lastCategory' = Max({lastCategory, c})
        /\ ~NameTaken(x.row.name, c) /\ c <= MaxCategories
        /\ Ends(k) /\ UNCHANGED <<cash, spending, due, ofCash, raced, marked, doubled>>
        /\ BudgetGiven(k, c, x) \/ UNCHANGED <<budget, set>>
    BY <1>1, <1>2, <1>4 DEF SaveCategory, BudgetSet, BudgetGiven
  <2>2. lastCategory \in Nat /\ x.id \in 0 .. lastCategory
    BY <1>1, CallOf, RowCounts DEF SaveCategory, At, Fits
  <2>3. c \in Nat /\ 1 <= c /\ c <= lastCategory + 1
    BY <1>2, <2>2
  <2>4. lastCategory' = IF c = lastCategory + 1 THEN c ELSE lastCategory
    BY <2>1, <2>2, <2>3, MaxOfTwo
  <2>5. lastCategory' \in Nat /\ lastCategory <= lastCategory' /\ lastCategory' \in 1 .. MaxCategories
    <3>1. lastCategory \in 1 .. MaxCategories
      BY DEF MoneyInv, PlansTyped
    <3> QED BY <2>1, <2>2, <2>3, <2>4, <3>1, Bounds
  <2>6. x.row \in Category /\ category \in [CategoryIds -> Category]
    BY CallFields DEF MoneyInv, PlansTyped
  <2>7. category' \in [CategoryIds -> Category]
    BY <2>1, <2>6
  <2>8. \A d \in 1 .. lastCategory' : d = c \/ d \in 1 .. lastCategory
    BY <2>2, <2>3, <2>4
  <2>9. \A d \in 1 .. lastCategory' : d \in CategoryIds
    <3>1. lastCategory' <= MaxCategories
      BY <2>1, <2>5, Bounds
    <3> QED BY <2>5, <3>1, Bounds DEF CategoryIds
  <2>10. \A d \in 1 .. lastCategory' : category'[d] = IF d = c THEN x.row ELSE category[d]
    BY <2>1, <2>6, <2>9
  <2>11. \A d \in 1 .. lastCategory : category[d].name = x.row.name => d = c
    BY <2>1 DEF NameTaken, Named
  <2>12. ASSUME NEW d \in 1 .. lastCategory', NEW e \in 1 .. lastCategory',
                category'[d].name = category'[e].name
         PROVE  d = e
    <3>1. CASE d = c /\ e # c
      BY <2>8, <2>10, <2>11, <2>12, <3>1
    <3>2. CASE d # c /\ e = c
      BY <2>8, <2>10, <2>11, <2>12, <3>2
    <3>3. CASE d # c /\ e # c
      BY <2>8, <2>10, <2>12, <3>3, NamesDiffer DEF MoneyInv
    <3> QED BY <3>1, <3>2, <3>3
  <2>13. \A d \in 1 .. lastCategory' : Named(category[d].name)' = {d}
    BY <2>12 DEF Named
  <2>14. budget' \in [BudgetKeys -> Nat] /\ set' \in [BudgetKeys -> Nat]
    BY <2>1, BudgetGivenTyped DEF MoneyInv, PlansTyped, HistoryTyped
  <2>15. PlansTyped'
    BY <2>1, <2>5, <2>7, <2>13, <2>14 DEF MoneyInv, PlansTyped
  <2>16. \A d \in Call : Fits(d) => Fits(d)'
    <3>1. lastExpense \in Nat /\ lastExpense' = lastExpense
      BY <2>1, RowCounts DEF spending
    <3>2. lastAccount \in Nat /\ lastAccount' = lastAccount
      BY <2>1, RowCounts DEF cash
    <3>3. lastExpense <= lastExpense' /\ lastExpense' \in Nat
          /\ lastAccount <= lastAccount' /\ lastAccount' \in Nat
      BY <3>1, <3>2
    <3> QED BY <2>2, <2>5, <3>1, <3>2, <3>3, FitsKept
  <2>17. CallsFitted' /\ UNCHANGED <<begun, alone>>
    BY <2>1, <2>16, EndsTyped
  <2>18. SpendingTyped' /\ CashTyped'
    BY <2>1 DEF cash, spending, MoneyInv, SpendingTyped, CashTyped
  <2>19. HistoryTyped'
    BY <2>1, <2>14, <2>17 DEF MoneyInv, HistoryTyped, ofCash
  <2> QED BY <2>15, <2>17, <2>18, <2>19 DEF MoneyInv
<1> QED BY <1>3, <1>4

LEMMA MoneyBegins ==
  ASSUME MoneyInv, NEW k \in Calls, BeginSpending(k) \/ BeginPlanning(k)
  PROVE  MoneyInv'
<1>1. CASE BeginSpending(k)
  BY <1>1, ReplenishTyped, CreateExpenseTyped, VoidExpenseTyped, UpdateExpenseTyped
     DEF BeginSpending
<1>2. CASE BeginPlanning(k)
  BY <1>2, CreateCategoryTyped, SaveCategoryWithBudgetTyped, ArchiveCategoryTyped,
     UpdateCategoryTyped, SetBudgetTyped, UpdateCategoryWithBudgetTyped, MarkRecordedTyped,
     UpdateRecurringExpenseTyped DEF BeginPlanning
<1> QED BY <1>1, <1>2

LEMMA MoneyStep ==
  ASSUME MoneyInv, NEW k \in Calls, Step(k)
  PROVE  MoneyInv'
BY GetAccountTyped, CreateAccountTyped, SaveBalanceTyped, RecordEntryTyped, SaveExpenseTyped,
   SaveCategoryTyped, SaveBudgetTyped, SaveDueTyped, CutOffTyped DEF Step

LEMMA MoneyStutters == ASSUME MoneyInv, UNCHANGED treasuryVars PROVE MoneyInv'
<1>1. TablesKept /\ call' = call
  BY DEF treasuryVars, TablesKept, cash, plans, spending
<1>2. SpendingTyped' /\ CashTyped' /\ PlansTyped' /\ \A c \in Call : Fits(c) => Fits(c)'
  BY <1>1, TablesKeptTyped DEF MoneyInv
<1>3. HistoryTyped'
  BY DEF treasuryVars, ofCash, ofPlans, MoneyInv, HistoryTyped
<1>4. CallsFitted'
  BY <1>1, <1>2 DEF MoneyInv, CallsFitted
<1> QED BY <1>2, <1>3, <1>4 DEF MoneyInv

LEMMA MoneyStarts == TreasuryInit => MoneyInv
<1>1. ASSUME TreasuryInit PROVE MoneyInv
  <2>1. SpendingTyped
    <3>1. NoExpense \in Expense
      BY DEF NoExpense, Expense
    <3> QED BY <1>1, <3>1, Bounds DEF TreasuryInit, SpendingTyped
  <2>2. CashTyped
    BY <1>1, Bounds, FS_EmptySet DEF TreasuryInit, CashTyped
  <2>3. PlansTyped
    <3>1. PICK n \in Names : n = CHOOSE m \in Names : TRUE
      BY Bounds
    <3>2. /\ [name |-> n, active |-> TRUE] \in Category /\ NoCategory \in Category
      BY DEF Category, NoCategory
    <3>3. category \in [CategoryIds -> Category]
      BY <1>1, <3>1, <3>2 DEF TreasuryInit
    <3>4. lastCategory = 1 /\ 1 .. lastCategory = {1} /\ lastCategory \in 1 .. MaxCategories
      BY <1>1, Bounds DEF TreasuryInit
    <3>5. \A c \in 1 .. lastCategory : Named(category[c].name) = {c}
      BY <3>4 DEF Named
    <3>6. due \in [Recurring -> DueDate]
      <4>1. ASSUME NEW r \in Recurring
            PROVE  [month |-> FirstDue[r].month, day |-> FirstDue[r].day] \in DueDate
        BY StepOf DEF DueDate
      <4> QED BY <1>1, <4>1 DEF TreasuryInit
    <3>7. budget \in [BudgetKeys -> Nat]
      BY <1>1 DEF TreasuryInit
    <3> QED BY <3>3, <3>4, <3>5, <3>6, <3>7 DEF PlansTyped
  <2>4. HistoryTyped
    BY <1>1, Bounds DEF TreasuryInit, HistoryTyped
  <2>5. CallsFitted
    BY <1>1, IdleFits DEF TreasuryInit, CallsFitted
  <2> QED BY <2>1, <2>2, <2>3, <2>4, <2>5 DEF MoneyInv
<1> QED BY <1>1

LEMMA MoneyKept == MoneyInv /\ [TreasuryNext]_treasuryVars => MoneyInv'
<1>1. ASSUME MoneyInv, TreasuryNext PROVE MoneyInv'
  BY <1>1, MoneyBegins, MoneyStep DEF TreasuryNext
<1> QED BY <1>1, MoneyStutters

LEMMA MoneyInvAlways == TreasurySpec => []MoneyInv
BY MoneyStarts, MoneyKept, PTL DEF TreasurySpec

(* Every table of the treasury keeps its type and its keys: an entry is of *)
(* an account and an expense that are there, no two categories have one    *)
(* name, and a call carries what its next statement needs.                 *)
THEOREM TreasuryTypeCorrect == TreasurySpec => []TreasuryTypeOK
<1>1. MoneyInv => TreasuryTypeOK
  BY DEF MoneyInv, TreasuryTypeOK, SpendingTyped, CashTyped, PlansTyped, HistoryTyped, CallsFitted
<1> QED BY <1>1, MoneyInvAlways, PTL

-----------------------------------------------------------------------------
(* What a step makes of its call, for invariants that look at some calls   *)
(* only.                                                                   *)
Becomes(k, n) == call' = [call EXCEPT ![k] = n]

LEMMA BecomesIs ==
  ASSUME MoneyInv, NEW k \in Calls, NEW n, Becomes(k, n)
  PROVE  call'[k] = n /\ \A j \in Calls : j # k => call'[j] = call[j]
BY DEF Becomes, MoneyInv, CallsFitted

Due(k) == \E r \in Recurring : MarkRecorded(k, r) \/ UpdateRecurringExpense(k, r)
LEMMA PlanningCall ==
  ASSUME MoneyInv, NEW k \in Calls, BeginPlanning(k)
  PROVE  /\ call[k].pc = "idle"
         /\ UNCHANGED <<cash, plans, spending, ofCash, raced, marked>>
         /\ \E n \in Call :
              /\ Becomes(k, n) /\ n.op \notin {"expense", "replenish"}
              /\ n.pc \in {"save category", "save budget", "save due"}
              /\ Due(k) \/ (n.pc # "save due" /\ doubled' = doubled)
<1>1. MoneyInv'
  BY MoneyBegins
<1>2. ASSUME NEW c, Begins(k, c), c.op \notin {"expense", "replenish"},
             c.pc \in {"save category", "save budget", "save due"},
             Due(k) \/ (c.pc # "save due" /\ doubled' = doubled)
      PROVE  /\ call[k].pc = "idle"
             /\ \E n \in Call :
                  /\ Becomes(k, n) /\ n.op \notin {"expense", "replenish"}
                  /\ n.pc \in {"save category", "save budget", "save due"}
                  /\ Due(k) \/ (n.pc # "save due" /\ doubled' = doubled)
  <2>1. Becomes(k, c) /\ call[k].pc = "idle"
    BY <1>2 DEF Begins, Busy, At, Becomes
  <2>2. c \in Call
    BY <1>1, <2>1 DEF Becomes, MoneyInv, CallsFitted
  <2> QED BY <1>2, <2>1, <2>2
<1>3. CASE \E m \in Names : CreateCategory(k, m)
  <2>1. PICK m \in Names : CreateCategory(k, m)
    BY <1>3
  <2>2. PICK i : i = FoundId(m)
    OBVIOUS
  <2>4. PICK c : c = [Idle EXCEPT !.pc = "save category", !.row = [name |-> m, active |-> TRUE], !.id = i]
    OBVIOUS
  <2>5. Begins(k, c)
    BY <2>1, <2>4, <2>2 DEF CreateCategory, FoundId
  <2>6. c.pc = "save category" /\ c.op \notin {"expense", "replenish"}
    BY <2>4, <2>2 DEF Idle
  <2>7. UNCHANGED <<cash, plans, spending, ofCash, raced, marked>>
    BY <2>1 DEF CreateCategory, ofPlans
  <2>8. doubled' = doubled
    BY <2>1 DEF CreateCategory, ofPlans
  <2> QED BY <1>2, <2>5, <2>6, <2>7, <2>8
<1>4. CASE \E m \in Names, p \in Periods, amount \in Amounts : SaveCategoryWithBudget(k, m, p, amount)
  <2>1. PICK m \in Names, p \in Periods, amount \in Amounts : SaveCategoryWithBudget(k, m, p, amount)
    BY <1>4
  <2>2. PICK i : i = FoundId(m)
    OBVIOUS
  <2>4. PICK c : c = [Idle EXCEPT !.op = "both", !.pc = "save category", !.period = p,
                     !.amount = amount, !.row = [name |-> m, active |-> TRUE], !.id = i]
    OBVIOUS
  <2>5. Begins(k, c)
    BY <2>1, <2>4, <2>2 DEF SaveCategoryWithBudget, FoundId
  <2>6. c.pc = "save category" /\ c.op \notin {"expense", "replenish"}
    BY <2>4, <2>2 DEF Idle
  <2>7. UNCHANGED <<cash, plans, spending, ofCash, raced, marked>>
    BY <2>1 DEF SaveCategoryWithBudget, ofPlans
  <2>8. doubled' = doubled
    BY <2>1 DEF SaveCategoryWithBudget, ofPlans
  <2> QED BY <1>2, <2>5, <2>6, <2>7, <2>8
<1>5. CASE \E d \in CategoryIds : ArchiveCategory(k, d)
  <2>1. PICK d \in CategoryIds : ArchiveCategory(k, d)
    BY <1>5
  <2>2. PICK o : o = [category[d] EXCEPT !.active = FALSE]
    OBVIOUS
  <2>4. PICK c : c = [Idle EXCEPT !.pc = "save category", !.id = d, !.row = o]
    OBVIOUS
  <2>5. Begins(k, c)
    BY <2>1, <2>4, <2>2 DEF ArchiveCategory
  <2>6. c.pc = "save category" /\ c.op \notin {"expense", "replenish"}
    BY <2>4, <2>2 DEF Idle
  <2>7. UNCHANGED <<cash, plans, spending, ofCash, raced, marked>>
    BY <2>1 DEF ArchiveCategory, ofPlans
  <2>8. doubled' = doubled
    BY <2>1 DEF ArchiveCategory, ofPlans
  <2> QED BY <1>2, <2>5, <2>6, <2>7, <2>8
<1>6. CASE \E d \in CategoryIds, m \in Names, b \in BOOLEAN : UpdateCategory(k, d, m, b)
  <2>1. PICK d \in CategoryIds, m \in Names, b \in BOOLEAN : UpdateCategory(k, d, m, b)
    BY <1>6
  <2>4. PICK c : c = [Idle EXCEPT !.pc = "save category", !.id = d,
                     !.row = [name |-> m, active |-> b]]
    OBVIOUS
  <2>5. Begins(k, c)
    BY <2>1, <2>4 DEF UpdateCategory
  <2>6. c.pc = "save category" /\ c.op \notin {"expense", "replenish"}
    BY <2>4 DEF Idle
  <2>7. UNCHANGED <<cash, plans, spending, ofCash, raced, marked>>
    BY <2>1 DEF UpdateCategory, ofPlans
  <2>8. doubled' = doubled
    BY <2>1 DEF UpdateCategory, ofPlans
  <2> QED BY <1>2, <2>5, <2>6, <2>7, <2>8
<1>7. CASE \E d \in CategoryIds, p \in Periods, amount \in Amounts : SetBudget(k, d, p, amount)
  <2>1. PICK d \in CategoryIds, p \in Periods, amount \in Amounts : SetBudget(k, d, p, amount)
    BY <1>7
  <2>2. PICK way \in {"insert", "update"} :
          way = IF budget[d, BudgetFor(d, p)] = 0 THEN "insert" ELSE "update"
    OBVIOUS
  <2>4. PICK c : c = [Idle EXCEPT !.op = way, !.pc = "save budget", !.id = d, !.period = p,
                     !.amount = amount]
    OBVIOUS
  <2>5. Begins(k, c)
    BY <2>1, <2>4, <2>2 DEF SetBudget
  <2>6. c.pc = "save budget" /\ c.op \notin {"expense", "replenish"}
    BY <2>4, <2>2 DEF Idle
  <2>7. UNCHANGED <<cash, plans, spending, ofCash, raced, marked>>
    BY <2>1 DEF SetBudget
  <2>8. doubled' = doubled
    BY <2>1 DEF SetBudget
  <2> QED BY <1>2, <2>5, <2>6, <2>7, <2>8
<1>8. CASE \E d \in CategoryIds, p \in Periods, amount \in Amounts, m \in Names : UpdateCategoryWithBudget(k, d, m, p, amount)
  <2>1. PICK d \in CategoryIds, p \in Periods, amount \in Amounts, m \in Names : UpdateCategoryWithBudget(k, d, m, p, amount)
    BY <1>8
  <2>2. PICK o : o = [category[d] EXCEPT !.name = m]
    OBVIOUS
  <2>4. PICK c : c = [Idle EXCEPT !.op = "both", !.pc = "save category", !.period = p, !.id = d,
                     !.amount = amount, !.row = o]
    OBVIOUS
  <2>5. Begins(k, c)
    BY <2>1, <2>4, <2>2 DEF UpdateCategoryWithBudget
  <2>6. c.pc = "save category" /\ c.op \notin {"expense", "replenish"}
    BY <2>4, <2>2 DEF Idle
  <2>7. UNCHANGED <<cash, plans, spending, ofCash, raced, marked>>
    BY <2>1 DEF UpdateCategoryWithBudget, ofPlans
  <2>8. doubled' = doubled
    BY <2>1 DEF UpdateCategoryWithBudget, ofPlans
  <2> QED BY <1>2, <2>5, <2>6, <2>7, <2>8
<1>9. CASE \E r \in Recurring : MarkRecorded(k, r)
  <2>1. PICK r \in Recurring : MarkRecorded(k, r)
    BY <1>9
  <2>2. PICK o : o = NextDue(due[r], FirstDue[r].step)
    OBVIOUS
  <2>4. PICK c : c = [Idle EXCEPT !.op = "record", !.pc = "save due", !.id = r,
                     !.read = o.month, !.day = o.day]
    OBVIOUS
  <2>5. Begins(k, c)
    BY <2>1, <2>4, <2>2 DEF MarkRecorded
  <2>6. c.pc = "save due" /\ c.op \notin {"expense", "replenish"}
    BY <2>4, <2>2 DEF Idle
  <2>7. UNCHANGED <<cash, plans, spending, ofCash, raced, marked>>
    BY <2>1 DEF MarkRecorded
  <2>8. Due(k)
    BY <2>1 DEF Due
  <2> QED BY <1>2, <2>5, <2>6, <2>7, <2>8
<1>10. CASE \E r \in Recurring : UpdateRecurringExpense(k, r)
  <2>1. PICK r \in Recurring : UpdateRecurringExpense(k, r)
    BY <1>10
  <2>4. PICK c : c = [Idle EXCEPT !.op = "given", !.pc = "save due", !.id = r,
                     !.read = FirstDue[r].month, !.day = FirstDue[r].day]
    OBVIOUS
  <2>5. Begins(k, c)
    BY <2>1, <2>4 DEF UpdateRecurringExpense
  <2>6. c.pc = "save due" /\ c.op \notin {"expense", "replenish"}
    BY <2>4 DEF Idle
  <2>7. UNCHANGED <<cash, plans, spending, ofCash, raced, marked>>
    BY <2>1 DEF UpdateRecurringExpense
  <2>8. Due(k)
    BY <2>1 DEF Due
  <2> QED BY <1>2, <2>5, <2>6, <2>7, <2>8
<1> QED BY <1>3, <1>4, <1>5, <1>6, <1>7, <1>8, <1>9, <1>10 DEF BeginPlanning

LEMMA AccountCall ==
  ASSUME MoneyInv, NEW k \in Calls, GetAccount(k) \/ CreateAccount(k) \/ SaveBalance(k)
  PROVE  /\ call[k].pc \in CashPcs /\ entries' = entries
         /\ UNCHANGED <<plans, spending, ofCash, raced, ofPlans>>
         /\ \E n \in Call : /\ Becomes(k, n) /\ n.pc \in CashPcs
                            /\ n.op = call[k].op /\ n.id = call[k].id
                            /\ n.amount = call[k].amount
<1>1. MoneyInv'
  BY MoneyStep DEF Step
<1>2. PICK n \in Call : n = call'[k]
  BY <1>1 DEF MoneyInv, CallsFitted
<1>3. PICK c \in Call : c = call[k]
  BY CallOf
<1>4. CASE GetAccount(k)
  <2>1. CASE lastAccount = 0
    <3>1. call' = [call EXCEPT ![k] = [c EXCEPT !.pc = "create account"]]
      BY <1>3, <1>4, <2>1 DEF GetAccount
    <3>2. n = [c EXCEPT !.pc = "create account"]
      BY <1>2, <3>1 DEF MoneyInv, CallsFitted
    <3>3. n.pc = "create account" /\ n.op = c.op /\ n.id = c.id /\ n.amount = c.amount
      BY <3>2 DEF Call
    <3>4. Becomes(k, n)
      BY <3>1, <3>2 DEF Becomes
    <3>5. call[k].pc \in CashPcs /\ entries' = entries
          /\ UNCHANGED <<plans, spending, ofCash, raced, ofPlans>>
      BY <1>4 DEF GetAccount, At, cash, CashPcs
    <3> QED BY <1>3, <3>3, <3>4, <3>5 DEF CashPcs
  <2>2. CASE lastAccount # 0
    <3>1. PICK a \in 1 .. lastAccount :
            call' = [call EXCEPT ![k].account = a, ![k].read = balance[a],
                                 ![k].pc = "save balance"]
      BY <1>4, <2>2 DEF GetAccount
    <3>2. PICK b : b = balance[a]
      OBVIOUS
    <3>3. call' = [call EXCEPT ![k] = [c EXCEPT !.account = a, !.read = b, !.pc = "save balance"]]
      BY <1>3, <3>1, <3>2 DEF MoneyInv, CallsFitted
    <3>4. n = [c EXCEPT !.account = a, !.read = b, !.pc = "save balance"]
      BY <1>2, <3>3 DEF MoneyInv, CallsFitted
    <3>5. n.pc = "save balance" /\ n.op = c.op /\ n.id = c.id /\ n.amount = c.amount
      BY <3>4 DEF Call
    <3>6. Becomes(k, n)
      BY <3>3, <3>4 DEF Becomes
    <3>7. call[k].pc \in CashPcs /\ entries' = entries
          /\ UNCHANGED <<plans, spending, ofCash, raced, ofPlans>>
      BY <1>4 DEF GetAccount, At, cash, CashPcs
    <3> QED BY <1>3, <3>5, <3>6, <3>7 DEF CashPcs
  <2> QED BY <2>1, <2>2
<1>5. CASE CreateAccount(k)
  <2>1. PICK a : a = lastAccount + 1
    OBVIOUS
  <2>2. PICK z : z = 0
    OBVIOUS
  <2>3. call' = [call EXCEPT ![k] = [c EXCEPT !.account = a, !.read = z, !.pc = "save balance"]]
    BY <1>3, <1>5, <2>1, <2>2 DEF CreateAccount, MoneyInv, CallsFitted
  <2>4. n = [c EXCEPT !.account = a, !.read = z, !.pc = "save balance"]
    BY <1>2, <2>3 DEF MoneyInv, CallsFitted
  <2>5. n.pc = "save balance" /\ n.op = c.op /\ n.id = c.id /\ n.amount = c.amount
    BY <2>4 DEF Call
  <2>6. Becomes(k, n)
    BY <2>3, <2>4 DEF Becomes
  <2>7. call[k].pc \in CashPcs /\ entries' = entries
        /\ UNCHANGED <<plans, spending, ofCash, raced, ofPlans>>
    BY <1>5 DEF CreateAccount, At, CashPcs
  <2> QED BY <1>3, <2>5, <2>6, <2>7 DEF CashPcs
<1>6. CASE SaveBalance(k)
  <2>1. call' = [call EXCEPT ![k] = [c EXCEPT !.pc = "record"]]
    BY <1>3, <1>6 DEF SaveBalance
  <2>2. n = [c EXCEPT !.pc = "record"]
    BY <1>2, <2>1 DEF MoneyInv, CallsFitted
  <2>3. n.pc = "record" /\ n.op = c.op /\ n.id = c.id /\ n.amount = c.amount
    BY <2>2 DEF Call
  <2>4. Becomes(k, n)
    BY <2>1, <2>2 DEF Becomes
  <2>5. call[k].pc \in CashPcs /\ entries' = entries
        /\ UNCHANGED <<plans, spending, ofCash, raced, ofPlans>>
    BY <1>6 DEF SaveBalance, At, CashPcs
  <2> QED BY <1>3, <2>3, <2>4, <2>5 DEF CashPcs
<1> QED BY <1>4, <1>5, <1>6

LEMMA EndingCall ==
  ASSUME NEW k, \/ RecordEntry(k) \/ SaveExpense(k) \/ SaveCategory(k) \/ SaveBudget(k)
                \/ SaveDue(k) \/ CutOff(k)
  PROVE  Becomes(k, Idle) /\ UNCHANGED <<begun, alone>>
BY DEF RecordEntry, SaveExpense, SaveCategory, SaveBudget, SaveDue, CutOff, Refuses, Ends, Becomes

LEMMA IdleCall == Idle.pc = "idle" /\ Idle.op = "none" /\ Idle.id = 0
BY DEF Idle

LEMMA ReplenishCall ==
  ASSUME MoneyInv, NEW k \in Calls, NEW amount \in Amounts, Replenish(k, amount)
  PROVE  /\ call[k].pc = "idle"
         /\ UNCHANGED <<cash, plans, spending, owed, undisbursed, raced, ofPlans>>
         /\ \E n \in Call : Becomes(k, n) /\ n.pc = "account" /\ n.op = "replenish"
<1>1. MoneyInv'
  BY ReplenishTyped
<1>2. PICK n \in Call : n = call'[k]
  BY <1>1 DEF MoneyInv, CallsFitted
<1>3. n = [[Idle EXCEPT !.op = "replenish", !.amount = amount] EXCEPT !.pc = "account"]
      /\ Becomes(k, n)
  BY <1>2 DEF Replenish, ToAccount, Begins, Becomes, MoneyInv, CallsFitted
<1>4. n.pc = "account" /\ n.op = "replenish"
  BY <1>3 DEF Idle
<1>5. call[k].pc = "idle"
  BY DEF Replenish, ToAccount, Begins, Busy, At
<1>6. UNCHANGED <<cash, plans, spending, owed, undisbursed, raced, ofPlans>>
  BY DEF Replenish
<1> QED BY <1>3, <1>4, <1>5, <1>6

Creates(k) == \E amount \in Amounts, given \in Amounts \cup {0}, petty \in BOOLEAN :
                CreateExpense(k, amount, given, petty)
LEMMA CreateExpenseCall ==
  ASSUME MoneyInv, NEW k \in Calls, Creates(k)
  PROVE  /\ call[k].pc = "idle" /\ lastExpense' = lastExpense + 1
         /\ lastExpense + 1 <= MaxExpenses
         /\ UNCHANGED <<cash, plans, undisbursed, raced, ofPlans>>
         /\ \E n \in Call, drawn \in Nat :
              /\ Becomes(k, n) /\ owed' = [owed EXCEPT ![lastExpense + 1] = drawn]
              /\ \/ /\ drawn > 0 /\ n.pc = "account" /\ n.op = "expense"
                    /\ n.id = lastExpense + 1 /\ n.amount = drawn
                    /\ quiet' = (quiet /\ ~\E j \in Calls : OnCash(j))
                 \/ drawn = 0 /\ n = Idle /\ quiet' = quiet
<1>1. PICK amount \in Amounts, given \in Amounts \cup {0}, petty \in BOOLEAN :
        CreateExpense(k, amount, given, petty)
  BY DEF Creates
<1>2. MoneyInv'
  BY <1>1, CreateExpenseTyped
<1>3. PICK n \in Call : n = call'[k]
  BY <1>2 DEF MoneyInv, CallsFitted
<1>4. PICK e : e = lastExpense + 1
  OBVIOUS
<1>5. PICK drawn \in Nat : drawn = IF petty THEN given ELSE 0
  BY TreasuryAssumption
<1>6. ASSUME petty /\ given > 0
      PROVE  /\ drawn > 0 /\ n.pc = "account" /\ n.op = "expense"
             /\ n.id = lastExpense + 1 /\ n.amount = drawn /\ Becomes(k, n)
             /\ quiet' = (quiet /\ ~\E j \in Calls : OnCash(j))
  <2>1. Becomes(k, [[Idle EXCEPT !.op = "expense", !.id = e, !.amount = given]
                      EXCEPT !.pc = "account"])
    BY <1>1, <1>4, <1>6 DEF CreateExpense, ToAccount, Begins, Disbursed, Becomes
  <2>2. n = [[Idle EXCEPT !.op = "expense", !.id = e, !.amount = given] EXCEPT !.pc = "account"]
    BY <1>3, <2>1 DEF Becomes, MoneyInv, CallsFitted
  <2>3. /\ Becomes(k, n) /\ n.pc = "account" /\ n.op = "expense" /\ n.id = e
        /\ n.amount = given
    BY <2>1, <2>2 DEF Idle
  <2>4. drawn > 0 /\ drawn = given
    BY <1>5, <1>6
  <2>5. quiet' = (quiet /\ ~\E j \in Calls : OnCash(j))
    BY <1>1, <1>6 DEF CreateExpense, ToAccount
  <2>6. drawn > 0 /\ n.amount = drawn /\ n.id = lastExpense + 1
    BY <1>4, <2>3, <2>4
  <2> QED BY <2>3, <2>5, <2>6
<1>7. ASSUME ~(petty /\ given > 0)
      PROVE  drawn = 0 /\ n = Idle /\ Becomes(k, n) /\ quiet' = quiet
  <2>1. Becomes(k, Idle) /\ quiet' = quiet
    BY <1>1, <1>7 DEF CreateExpense, Begins, Becomes
  <2>2. drawn = 0
    <3>1. given \in Nat
      <4>1. Amounts \subseteq Nat
        BY TreasuryAssumption
      <4> QED BY <4>1
    <3> QED BY <1>5, <1>7, <3>1
  <2>3. n = Idle
    BY <1>3, <2>1 DEF Becomes, MoneyInv, CallsFitted
  <2> QED BY <2>1, <2>2, <2>3
<1>8. \/ /\ drawn > 0 /\ n.pc = "account" /\ n.op = "expense"
         /\ n.id = lastExpense + 1 /\ n.amount = drawn /\ Becomes(k, n)
         /\ quiet' = (quiet /\ ~\E j \in Calls : OnCash(j))
      \/ drawn = 0 /\ n = Idle /\ Becomes(k, n) /\ quiet' = quiet
  BY <1>6, <1>7
<1>9. owed' = [owed EXCEPT ![lastExpense + 1] = drawn]
  BY <1>1, <1>5 DEF CreateExpense
<1>10. call[k].pc = "idle"
  BY <1>1 DEF CreateExpense, ToAccount, Begins, Busy, At
<1>11. /\ lastExpense' = lastExpense + 1 /\ UNCHANGED <<cash, plans, undisbursed, raced, ofPlans>>
       /\ lastExpense + 1 <= MaxExpenses
  BY <1>1 DEF CreateExpense
<1> QED BY <1>8, <1>9, <1>10, <1>11

-----------------------------------------------------------------------------
(* Voided expenses.                                                        *)
LEMMA VoidKept ==
  ASSUME MoneyInv, VoidInv, NEW k \in Calls, NEW n, Becomes(k, n), n.pc # "save expense",
         raced' = raced, \A e \in 1 .. lastExpense : expense'[e] = expense[e]
  PROVE  VoidInv'
<1>1. call'[k] = n /\ \A j \in Calls : j # k => call'[j] = call[j]
  BY BecomesIs
<1>2. ASSUME NEW j \in Calls, NEW c \in Call, c = call'[j], c.pc = "save expense",
             c.id \notin raced'
      PROVE  /\ ~expense'[c.id].voided
             /\ \A i \in Calls : call'[i].pc = "save expense" /\ call'[i].id = c.id => i = j
  <2>1. j # k /\ c = call[j]
    BY <1>1, <1>2
  <2>2. c.id \in 1 .. lastExpense
    BY <1>2, <2>1, CallOf DEF Fits
  <2>3. /\ ~expense[c.id].voided
        /\ \A i \in Calls : call[i].pc = "save expense" /\ call[i].id = c.id => i = j
    BY <1>2, <2>1 DEF VoidInv
  <2> QED BY <1>1, <2>2, <2>3
<1> QED BY <1>2 DEF VoidInv

LEMMA VoidSaves ==
  ASSUME MoneyInv, VoidInv, NEW k \in Calls, NEW n, NEW e, Becomes(k, n), n.id = e,
         ~expense[e].voided, expense' = expense,
         raced' = raced \cup (IF Changing("save expense", e) THEN {e} ELSE {})
  PROVE  VoidInv'
<1>1. call'[k] = n /\ \A j \in Calls : j # k => call'[j] = call[j]
  BY BecomesIs
<1>2. ASSUME NEW j \in Calls, NEW c \in Call, c = call'[j], c.pc = "save expense",
             c.id \notin raced'
      PROVE  /\ ~expense'[c.id].voided
             /\ \A i \in Calls : call'[i].pc = "save expense" /\ call'[i].id = c.id => i = j
  <2>1. c.id \notin raced
    BY <1>2
  <2>2. c.id = e => \A i \in Calls : ~(call[i].pc = "save expense" /\ call[i].id = e)
    BY <1>2 DEF Changing, At
  <2>3. CASE c.id = e
    <3>1. j = k
      BY <1>1, <1>2, <2>2, <2>3
    <3> QED BY <1>1, <2>2, <2>3, <3>1
  <2>4. CASE c.id # e
    <3>1. j # k /\ c = call[j]
      BY <1>1, <1>2, <2>4
    <3>2. /\ ~expense[c.id].voided
          /\ \A i \in Calls : call[i].pc = "save expense" /\ call[i].id = c.id => i = j
      BY <1>2, <2>1, <3>1 DEF VoidInv
    <3> QED BY <1>1, <2>4, <3>2
  <2> QED BY <2>3, <2>4
<1> QED BY <1>2 DEF VoidInv

LEMMA VoidSaved ==
  ASSUME MoneyInv, VoidInv, NEW k \in Calls, SaveExpense(k)
  PROVE  /\ VoidInv'
         /\ \A e \in 1 .. lastExpense : expense[e].voided /\ e \notin raced
                                          => expense'[e] = expense[e]
<1>1. PICK c \in Call : c = call[k]
  BY CallOf
<1>2. /\ c.pc = "save expense" /\ raced' = raced
      /\ expense' = [expense EXCEPT ![c.id] = c.object]
  BY <1>1 DEF SaveExpense, At
<1>3. \A e \in 1 .. lastExpense : e # c.id => expense'[e] = expense[e]
  <2>1. \A e \in 1 .. lastExpense : e \in ExpenseIds
    BY RowCounts, Bounds DEF ExpenseIds
  <2> QED BY <1>2, <2>1 DEF MoneyInv, SpendingTyped
<1>4. c.id \notin raced =>
        /\ ~expense[c.id].voided
        /\ \A i \in Calls : call[i].pc = "save expense" /\ call[i].id = c.id => i = k
  BY <1>1, <1>2 DEF VoidInv
<1>5. Becomes(k, Idle)
  BY EndingCall
<1>6. call'[k] = Idle /\ \A j \in Calls : j # k => call'[j] = call[j]
  BY <1>5, BecomesIs
<1>7. ASSUME NEW j \in Calls, NEW d \in Call, d = call'[j], d.pc = "save expense",
             d.id \notin raced'
      PROVE  /\ ~expense'[d.id].voided
             /\ \A i \in Calls : call'[i].pc = "save expense" /\ call'[i].id = d.id => i = j
  <2>1. j # k /\ d = call[j]
    BY <1>6, <1>7, IdleCall
  <2>2. d.id \in 1 .. lastExpense
    BY <1>7, <2>1, CallOf DEF Fits
  <2>3. /\ ~expense[d.id].voided
        /\ \A i \in Calls : call[i].pc = "save expense" /\ call[i].id = d.id => i = j
    BY <1>2, <1>7, <2>1 DEF VoidInv
  <2>4. d.id # c.id
    BY <1>1, <1>2, <2>1, <2>3
  <2>5. \A i \in Calls : call'[i].pc = "save expense" => i # k
    BY <1>6, IdleCall
  <2> QED BY <1>3, <1>6, <2>2, <2>3, <2>4, <2>5
<1>8. VoidInv'
  BY <1>7 DEF VoidInv
<1> QED BY <1>3, <1>4, <1>8

(* Which expense another step changes: none that is there.                 *)
LEMMA ExpensesKept ==
  ASSUME MoneyInv, NEW k \in Calls, BeginSpending(k) \/ BeginPlanning(k) \/ Step(k)
  PROVE  SaveExpense(k) \/ \A e \in 1 .. lastExpense : expense'[e] = expense[e]
<1>1. CASE BeginSpending(k)
  <2>1. CASE \E amount \in Amounts : Replenish(k, amount)
    BY <2>1 DEF Replenish, spending
  <2>2. CASE \E amount \in Amounts, given \in Amounts \cup {0}, petty \in BOOLEAN :
               CreateExpense(k, amount, given, petty)
    <3>1. PICK amount \in Amounts, given \in Amounts \cup {0}, petty \in BOOLEAN :
               CreateExpense(k, amount, given, petty)
      BY <2>2
    <3>2. PICK row : row = [amount |-> amount, paid |-> given, voided |-> FALSE]
      OBVIOUS
    <3>3. PICK e : e = lastExpense + 1
      OBVIOUS
    <3>4. expense' = [expense EXCEPT ![e] = row]
      BY <3>1, <3>2, <3>3 DEF CreateExpense
    <3>5. e \notin 1 .. lastExpense
      BY <3>3, RowCounts
    <3>6. \A f \in 1 .. lastExpense : f \in ExpenseIds
      BY RowCounts, Bounds DEF ExpenseIds
    <3> QED BY <3>4, <3>5, <3>6 DEF MoneyInv, SpendingTyped
  <2>3. CASE \E e \in ExpenseIds : VoidExpense(k, e)
    BY <2>3 DEF VoidExpense, Saves, spending
  <2>4. CASE \E e \in ExpenseIds, amount \in Amounts, given \in Amounts \cup {0} :
               UpdateExpense(k, e, amount, given)
    BY <2>4 DEF UpdateExpense, Saves, spending
  <2> QED BY <1>1, <2>1, <2>2, <2>3, <2>4 DEF BeginSpending
<1>2. CASE BeginPlanning(k)
  BY <1>2, PlanningCall DEF spending
<1>3. CASE Step(k)
  BY <1>3 DEF Step, GetAccount, CreateAccount, SaveBalance, RecordEntry, SaveCategory, SaveBudget,
     SaveDue, CutOff, Refuses, spending
<1> QED BY <1>1, <1>2, <1>3

LEMMA VoidStep ==
  ASSUME MoneyInv, VoidInv, NEW k \in Calls, BeginSpending(k) \/ BeginPlanning(k) \/ Step(k)
  PROVE  VoidInv'
<1>1. CASE \E amount \in Amounts : Replenish(k, amount)
  <2>1. PICK amount \in Amounts : Replenish(k, amount)
    BY <1>1
  <2>2. PICK n \in Call : Becomes(k, n) /\ n.pc = "account"
    BY <2>1, ReplenishCall
  <2>3. raced' = raced /\ expense' = expense
    BY <2>1 DEF Replenish, spending
  <2> QED BY <2>2, <2>3, VoidKept
<1>2. CASE Creates(k)
  <2>1. PICK n : Becomes(k, n) /\ n.pc # "save expense"
    BY <1>2, CreateExpenseCall, IdleCall
  <2>2. raced' = raced /\ call[k].pc = "idle"
    BY <1>2, CreateExpenseCall
  <2>3. (\A e \in 1 .. lastExpense : expense'[e] = expense[e]) \/ SaveExpense(k)
    BY ExpensesKept
  <2>4. ~SaveExpense(k)
    BY <2>2 DEF SaveExpense, At
  <2> QED BY <2>1, <2>2, <2>3, <2>4, VoidKept
<1>3. CASE \E e \in ExpenseIds : VoidExpense(k, e)
  <2>1. PICK e \in ExpenseIds : VoidExpense(k, e)
    BY <1>3
  <2>2. PICK n : n = [Idle EXCEPT !.pc = "save expense", !.id = e,
                                  !.object = [expense[e] EXCEPT !.voided = TRUE]]
    OBVIOUS
  <2>3. Becomes(k, n) /\ ~expense[e].voided /\ expense' = expense
        /\ raced' = raced \cup (IF Changing("save expense", e) THEN {e} ELSE {})
    BY <2>1, <2>2 DEF VoidExpense, Saves, Begins, Becomes, spending
  <2>4. n.id = e
    BY <2>2 DEF Idle
  <2> QED BY <2>3, <2>4, VoidSaves
<1>4. CASE \E e \in ExpenseIds, amount \in Amounts, given \in Amounts \cup {0} :
             UpdateExpense(k, e, amount, given)
  <2>1. PICK e \in ExpenseIds, amount \in Amounts, given \in Amounts \cup {0} :
             UpdateExpense(k, e, amount, given)
    BY <1>4
  <2>2. PICK n : n = [Idle EXCEPT !.pc = "save expense", !.id = e,
                        !.object = [expense[e] EXCEPT !.amount = amount, !.paid = given]]
    OBVIOUS
  <2>3. Becomes(k, n) /\ ~expense[e].voided /\ expense' = expense
        /\ raced' = raced \cup (IF Changing("save expense", e) THEN {e} ELSE {})
    BY <2>1, <2>2 DEF UpdateExpense, Saves, Begins, Becomes, spending
  <2>4. n.id = e
    BY <2>2 DEF Idle
  <2> QED BY <2>3, <2>4, VoidSaves
<1>5. CASE BeginPlanning(k)
  <2>1. PICK n \in Call : Becomes(k, n) /\ n.pc # "save expense"
    BY <1>5, PlanningCall
  <2>2. raced' = raced /\ expense' = expense
    BY <1>5, PlanningCall DEF spending
  <2> QED BY <2>1, <2>2, VoidKept
<1>6. CASE GetAccount(k) \/ CreateAccount(k) \/ SaveBalance(k)
  <2>1. PICK n \in Call : Becomes(k, n) /\ n.pc # "save expense"
    BY <1>6, AccountCall DEF CashPcs
  <2>2. raced' = raced /\ expense' = expense
    BY <1>6, AccountCall DEF spending
  <2> QED BY <2>1, <2>2, VoidKept
<1>7. CASE RecordEntry(k) \/ SaveCategory(k) \/ SaveBudget(k) \/ SaveDue(k) \/ CutOff(k)
  <2>1. Becomes(k, Idle) /\ Idle.pc # "save expense"
    BY <1>7, EndingCall, IdleCall
  <2>2. raced' = raced /\ expense' = expense
    BY <1>7 DEF RecordEntry, SaveCategory, SaveBudget, SaveDue, CutOff, Refuses, spending
  <2> QED BY <2>1, <2>2, VoidKept
<1>8. CASE SaveExpense(k)
  BY <1>8, VoidSaved
<1> QED BY <1>1, <1>2, <1>3, <1>4, <1>5, <1>6, <1>7, <1>8 DEF BeginSpending, Creates, Step

LEMMA VoidStarts == TreasuryInit => VoidInv
BY IdleCall DEF TreasuryInit, VoidInv

LEMMA VoidInvKept == MoneyInv /\ VoidInv /\ [TreasuryNext]_treasuryVars => VoidInv'
<1>1. ASSUME MoneyInv, VoidInv, TreasuryNext PROVE VoidInv'
  BY <1>1, VoidStep DEF TreasuryNext
<1>2. ASSUME VoidInv, UNCHANGED treasuryVars PROVE VoidInv'
  BY <1>2 DEF treasuryVars, spending, VoidInv
<1> QED BY <1>1, <1>2

LEMMA VoidInvAlways == TreasurySpec => []VoidInv
BY MoneyInvAlways, VoidStarts, VoidInvKept, PTL DEF TreasurySpec

(* 'Cannot update a voided expense': however updates and voidings overlap, *)
(* what is voided stays as it was unless two calls had read it at once.    *)
THEOREM VoidedIsFinalAlways == TreasurySpec => VoidedIsFinal
<1>1. ASSUME MoneyInv, VoidInv, [TreasuryNext]_treasuryVars
      PROVE  [\A e \in 1 .. lastExpense : expense[e].voided /\ e \notin raced
                                            => expense'[e] = expense[e]]_treasuryVars
  <2>1. CASE TreasuryNext
    <3>1. PICK k \in Calls : BeginSpending(k) \/ BeginPlanning(k) \/ Step(k)
      BY <2>1 DEF TreasuryNext
    <3> QED BY <1>1, <3>1, ExpensesKept, VoidSaved
  <2>2. CASE UNCHANGED treasuryVars
    BY <2>2
  <2> QED BY <1>1, <2>1, <2>2
<1> QED BY <1>1, MoneyInvAlways, VoidInvAlways, PTL DEF TreasurySpec, VoidedIsFinal

-----------------------------------------------------------------------------
(* Due dates and budgets.                                                  *)
LEMMA OneMore ==
  ASSUME NEW n \in Nat, NEW s \in {1, 3, 12}
  PROVE  n * s \in Nat /\ (n + 1) * s = n * s + s /\ 0 * s = 0
<1>1. CASE s = 1
  BY <1>1
<1>2. CASE s = 3
  BY <1>2
<1>3. CASE s = 12
  BY <1>3
<1> QED BY <1>1, <1>2, <1>3

(* The day moves at most once, from a day that not every month has to one  *)
(* that every month has.                                                   *)
LEMMA NextDueOnTime ==
  ASSUME NEW r \in Recurring, NEW d \in DueDate, NEW n \in Nat, NEW e,
         OnTime(r, d.month, d.day, n), e = NextDue(d, FirstDue[r].step)
  PROVE  OnTime(r, e.month, e.day, n + 1)
<1>1. PICK s \in {1, 3, 12} : s = FirstDue[r].step
  BY StepOf
<1>2. PICK start \in Nat : start = FirstDue[r].month
  BY StepOf
<1>3. PICK day \in 1 .. 31 : day = FirstDue[r].day
  BY StepOf
<1>4. PICK total \in Nat : total = n * s
  BY OneMore
<1>5. (n + 1) * s = total + s
  BY <1>4, OneMore
<1>6. d.month \in Nat /\ d.day \in 1 .. 31
  BY DEF DueDate
<1>7. PICK m \in Nat : m = d.month + s
  BY <1>6
<1>8. PICK days \in 28 .. 31 : days = DaysOf(m)
  BY DaysOfMonth
<1>9. e = IF d.day <= days THEN [month |-> m, day |-> d.day]
          ELSE [month |-> m + 1, day |-> d.day - days]
  BY <1>1, <1>7, <1>8 DEF NextDue
<1>10. \/ d.month = start + total /\ d.day = day
       \/ d.month = start + total + 1 /\ day > 28 /\ d.day <= 3
  BY <1>1, <1>2, <1>3, <1>4 DEF OnTime
<1>11. CASE d.month = start + total /\ d.day = day /\ d.day <= days
  <2>1. e.month = start + (total + s) /\ e.day = day
    BY <1>6, <1>7, <1>9, <1>11
  <2> QED BY <1>1, <1>2, <1>3, <1>5, <2>1 DEF OnTime
<1>12. CASE d.month = start + total /\ d.day = day /\ ~(d.day <= days)
  <2>1. e.month = start + (total + s) + 1 /\ e.day = day - days
    BY <1>6, <1>7, <1>9, <1>12
  <2>2. day > 28 /\ day - days <= 3
    BY <1>12
  <2> QED BY <1>1, <1>2, <1>3, <1>5, <2>1, <2>2 DEF OnTime
<1>13. CASE d.month = start + total + 1 /\ day > 28 /\ d.day <= 3
  <2>1. d.day <= days
    BY <1>6, <1>13
  <2>2. e.month = start + (total + s) + 1 /\ e.day = d.day
    BY <1>6, <1>7, <1>9, <1>13, <2>1
  <2> QED BY <1>1, <1>2, <1>3, <1>5, <1>13, <2>2 DEF OnTime
<1> QED BY <1>10, <1>11, <1>12, <1>13

LEMMA StartsOnTime ==
  ASSUME NEW r \in Recurring
  PROVE  OnTime(r, FirstDue[r].month, FirstDue[r].day, 0)
<1>1. PICK s \in {1, 3, 12} : s = FirstDue[r].step
  BY StepOf
<1>2. 0 * s = 0
  BY OneMore
<1>3. FirstDue[r].month = FirstDue[r].month + 0
  BY StepOf
<1> QED BY <1>1, <1>2, <1>3 DEF OnTime

(* What call c is to save as the due date.                                 *)
Counted(c) == IF c.op = "record" THEN marked[c.id] + 1 ELSE 0

LEMMA DueKept ==
  ASSUME MoneyInv, DueInv, NEW k \in Calls, NEW n, Becomes(k, n), n.pc # "save due",
         UNCHANGED <<due, marked, doubled>>
  PROVE  DueInv'
<1>1. call'[k] = n /\ \A j \in Calls : j # k => call'[j] = call[j]
  BY BecomesIs
<1>2. ASSUME NEW j \in Calls, NEW c \in Call, c = call'[j], c.pc = "save due",
             c.id \notin doubled'
      PROVE  /\ OnTime(c.id, c.read, c.day, Counted(c)')
             /\ \A i \in Calls : call'[i].pc = "save due" /\ call'[i].id = c.id => i = j
  <2>1. j # k /\ c = call[j]
    BY <1>1, <1>2
  <2>2. /\ OnTime(c.id, c.read, c.day, Counted(c))
        /\ \A i \in Calls : call[i].pc = "save due" /\ call[i].id = c.id => i = j
    BY <1>2, <2>1 DEF DueInv, Counted
  <2>3. Counted(c)' = Counted(c)
    BY DEF Counted
  <2> QED BY <1>1, <2>2, <2>3
<1>3. \A r \in Recurring \ doubled' : OnTime(r, due'[r].month, due'[r].day, marked'[r])
  BY DEF DueInv
<1> QED BY <1>2, <1>3 DEF DueInv, Counted

LEMMA DueBegins ==
  ASSUME MoneyInv, DueInv, NEW k \in Calls, NEW n, NEW r \in Recurring, Becomes(k, n),
         n.id = r, n.pc = "save due",
         r \notin doubled => OnTime(r, n.read, n.day, Counted(n)),
         UNCHANGED <<due, marked>>,
         doubled' = doubled \cup (IF Changing("save due", r) THEN {r} ELSE {})
  PROVE  DueInv'
<1>1. call'[k] = n /\ \A j \in Calls : j # k => call'[j] = call[j]
  BY BecomesIs
<1>2. ASSUME NEW j \in Calls, NEW c \in Call, c = call'[j], c.pc = "save due",
             c.id \notin doubled'
      PROVE  /\ OnTime(c.id, c.read, c.day, Counted(c)')
             /\ \A i \in Calls : call'[i].pc = "save due" /\ call'[i].id = c.id => i = j
  <2>1. c.id \notin doubled /\ Counted(c)' = Counted(c)
    BY <1>2 DEF Counted
  <2>2. c.id = r => \A i \in Calls : ~(call[i].pc = "save due" /\ call[i].id = r)
    BY <1>2 DEF Changing, At
  <2>3. CASE c.id = r
    <3>1. j = k
      BY <1>1, <1>2, <2>2, <2>3
    <3> QED BY <1>1, <1>2, <2>1, <2>2, <2>3, <3>1
  <2>4. CASE c.id # r
    <3>1. j # k /\ c = call[j]
      BY <1>1, <1>2, <2>4
    <3>2. /\ OnTime(c.id, c.read, c.day, Counted(c))
          /\ \A i \in Calls : call[i].pc = "save due" /\ call[i].id = c.id => i = j
      BY <1>2, <2>1, <3>1 DEF DueInv, Counted
    <3> QED BY <1>1, <2>1, <2>4, <3>2
  <2> QED BY <2>3, <2>4
<1>3. \A p \in Recurring \ doubled' : OnTime(p, due'[p].month, due'[p].day, marked'[p])
  BY DEF DueInv
<1> QED BY <1>2, <1>3 DEF DueInv, Counted

LEMMA MarkRecordedOnTime ==
  ASSUME MoneyInv, DueInv, NEW k \in Calls, NEW r \in Recurring, MarkRecorded(k, r)
  PROVE  DueInv'
<1>1. PICK d \in DueDate : d = due[r]
  BY DEF MoneyInv, PlansTyped
<1>2. PICK e : e = NextDue(d, FirstDue[r].step)
  OBVIOUS
<1>3. PICK n : n = [Idle EXCEPT !.op = "record", !.pc = "save due", !.id = r,
                                !.read = e.month, !.day = e.day]
  OBVIOUS
<1>4. /\ n.op = "record" /\ n.pc = "save due" /\ n.id = r /\ n.read = e.month /\ n.day = e.day
  BY <1>3 DEF Idle
<1>5. Becomes(k, n)
  BY <1>1, <1>2, <1>3 DEF MarkRecorded, Begins, Becomes
<1>6. PICK m \in Nat : m = marked[r]
  BY DEF MoneyInv, HistoryTyped
<1>7. r \notin doubled => OnTime(r, e.month, e.day, m + 1)
  BY <1>1, <1>2, <1>6, NextDueOnTime DEF DueInv
<1>8. r \notin doubled => OnTime(r, n.read, n.day, Counted(n))
  BY <1>4, <1>6, <1>7 DEF Counted
<1>9. /\ UNCHANGED <<due, marked>>
      /\ doubled' = doubled \cup (IF Changing("save due", r) THEN {r} ELSE {})
  BY DEF MarkRecorded, plans
<1> QED BY <1>4, <1>5, <1>8, <1>9, DueBegins

LEMMA UpdateRecurringOnTime ==
  ASSUME MoneyInv, DueInv, NEW k \in Calls, NEW r \in Recurring, UpdateRecurringExpense(k, r)
  PROVE  DueInv'
<1>3. PICK n : n = [Idle EXCEPT !.op = "given", !.pc = "save due", !.id = r,
                                !.read = FirstDue[r].month, !.day = FirstDue[r].day]
  OBVIOUS
<1>4. /\ n.op = "given" /\ n.pc = "save due" /\ n.id = r /\ n.read = FirstDue[r].month
      /\ n.day = FirstDue[r].day
  BY <1>3 DEF Idle
<1>5. Becomes(k, n)
  BY <1>3 DEF UpdateRecurringExpense, Begins, Becomes
<1>8. r \notin doubled => OnTime(r, n.read, n.day, Counted(n))
  BY <1>4, StartsOnTime DEF Counted
<1>9. /\ UNCHANGED <<due, marked>>
      /\ doubled' = doubled \cup (IF Changing("save due", r) THEN {r} ELSE {})
  BY DEF UpdateRecurringExpense, plans
<1> QED BY <1>4, <1>5, <1>8, <1>9, DueBegins

LEMMA SaveDueOnTime ==
  ASSUME MoneyInv, DueInv, NEW k \in Calls, SaveDue(k)
  PROVE  DueInv'
<1>1. PICK c \in Call : c = call[k]
  BY CallOf
<1>2. c.pc = "save due" /\ c.id \in Recurring
  BY <1>1, CallOf DEF SaveDue, At, Fits
<1>3. PICK d : d = [month |-> c.read, day |-> c.day]
  OBVIOUS
<1>4. /\ due' = [due EXCEPT ![c.id] = d] /\ doubled' = doubled
      /\ marked' = [marked EXCEPT ![c.id] = Counted(c)]
  BY <1>1, <1>3 DEF SaveDue, Counted
<1>5. /\ \A r \in Recurring : r # c.id => due'[r] = due[r] /\ marked'[r] = marked[r]
      /\ due'[c.id] = d /\ marked'[c.id] = Counted(c)
  BY <1>2, <1>4 DEF MoneyInv, PlansTyped, HistoryTyped
<1>6. c.id \notin doubled =>
        /\ OnTime(c.id, c.read, c.day, Counted(c))
        /\ \A i \in Calls : call[i].pc = "save due" /\ call[i].id = c.id => i = k
  BY <1>1, <1>2 DEF DueInv, Counted
<1>7. Becomes(k, Idle)
  BY EndingCall
<1>8. call'[k] = Idle /\ \A j \in Calls : j # k => call'[j] = call[j]
  BY <1>7, BecomesIs
<1>9. \A r \in Recurring \ doubled' : OnTime(r, due'[r].month, due'[r].day, marked'[r])
  <2>1. ASSUME NEW r \in Recurring, r \notin doubled
        PROVE  OnTime(r, due'[r].month, due'[r].day, marked'[r])
    <3>1. CASE r = c.id
      <4>1. d.month = c.read /\ d.day = c.day
        BY <1>3
      <4> QED BY <1>5, <1>6, <2>1, <3>1, <4>1
    <3>2. CASE r # c.id
      BY <1>5, <2>1, <3>2 DEF DueInv
    <3> QED BY <3>1, <3>2
  <2> QED BY <1>4, <2>1
<1>10. ASSUME NEW j \in Calls, NEW x \in Call, x = call'[j], x.pc = "save due",
             x.id \notin doubled'
      PROVE  /\ OnTime(x.id, x.read, x.day, Counted(x)')
             /\ \A i \in Calls : call'[i].pc = "save due" /\ call'[i].id = x.id => i = j
  <2>1. j # k /\ x = call[j]
    BY <1>8, <1>10, IdleCall
  <2>2. /\ OnTime(x.id, x.read, x.day, Counted(x))
        /\ \A i \in Calls : call[i].pc = "save due" /\ call[i].id = x.id => i = j
    BY <1>4, <1>10, <2>1 DEF DueInv, Counted
  <2>3. x.id # c.id /\ x.id \in Recurring
    BY <1>1, <1>2, <1>10, <2>1, <2>2, CallOf DEF Fits
  <2>4. Counted(x)' = Counted(x)
    BY <1>5, <2>3 DEF Counted
  <2>5. \A i \in Calls : call'[i].pc = "save due" => i # k
    BY <1>8, IdleCall
  <2> QED BY <1>8, <2>2, <2>4, <2>5
<1> QED BY <1>9, <1>10 DEF DueInv, Counted

LEMMA DueStep ==
  ASSUME MoneyInv, DueInv, NEW k \in Calls, BeginSpending(k) \/ BeginPlanning(k) \/ Step(k)
  PROVE  DueInv'
<1>1. CASE BeginSpending(k)
  <2>1. UNCHANGED <<due, marked, doubled>>
    BY <1>1 DEF BeginSpending, Replenish, CreateExpense, VoidExpense, UpdateExpense, Saves, plans,
       ofPlans
  <2>2. CASE \E amount \in Amounts : Replenish(k, amount)
    BY <2>1, <2>2, ReplenishCall, DueKept
  <2>3. CASE Creates(k)
    BY <2>1, <2>3, CreateExpenseCall, IdleCall, DueKept
  <2>4. CASE \E e, o : Saves(k, e, o)
    <3>1. PICK e, o : Saves(k, e, o)
      BY <2>4
    <3>2. PICK n : n = [Idle EXCEPT !.pc = "save expense", !.id = e, !.object = o]
      OBVIOUS
    <3>3. Becomes(k, n)
      BY <3>1, <3>2 DEF Saves, Begins, Becomes
    <3>4. n.pc # "save due"
      BY <3>2 DEF Idle
    <3> QED BY <2>1, <3>3, <3>4, DueKept
  <2> QED BY <1>1, <2>2, <2>3, <2>4 DEF BeginSpending, Creates, VoidExpense, UpdateExpense
<1>2. CASE BeginPlanning(k)
  <2>1. CASE Due(k)
    BY <2>1, MarkRecordedOnTime, UpdateRecurringOnTime DEF Due
  <2>2. CASE ~Due(k)
    <3>1. PICK n \in Call : Becomes(k, n) /\ n.pc # "save due" /\ doubled' = doubled
      BY <1>2, <2>2, PlanningCall
    <3>2. UNCHANGED <<due, marked>>
      BY <1>2, PlanningCall DEF plans
    <3> QED BY <3>1, <3>2, DueKept
  <2> QED BY <2>1, <2>2
<1>3. CASE GetAccount(k) \/ CreateAccount(k) \/ SaveBalance(k)
  <2>1. PICK n \in Call : Becomes(k, n) /\ n.pc # "save due"
    BY <1>3, AccountCall DEF CashPcs
  <2>2. UNCHANGED <<due, marked, doubled>>
    BY <1>3, AccountCall DEF plans, ofPlans
  <2> QED BY <2>1, <2>2, DueKept
<1>4. CASE RecordEntry(k) \/ SaveExpense(k) \/ SaveCategory(k) \/ SaveBudget(k) \/ CutOff(k)
  <2>1. Becomes(k, Idle) /\ Idle.pc # "save due"
    BY <1>4, EndingCall, IdleCall
  <2>2. UNCHANGED <<due, marked, doubled>>
    BY <1>4 DEF RecordEntry, SaveExpense, SaveCategory, SaveBudget, CutOff, Refuses, plans, ofPlans
  <2> QED BY <2>1, <2>2, DueKept
<1>5. CASE SaveDue(k)
  BY <1>5, SaveDueOnTime
<1> QED BY <1>1, <1>2, <1>3, <1>4, <1>5 DEF Step

LEMMA DueStarts == TreasuryInit => DueInv
<1>1. ASSUME TreasuryInit PROVE DueInv
  <2>1. ASSUME NEW r \in Recurring PROVE OnTime(r, due[r].month, due[r].day, marked[r])
    <3>1. due[r].month = FirstDue[r].month /\ due[r].day = FirstDue[r].day /\ marked[r] = 0
      BY <1>1 DEF TreasuryInit
    <3> QED BY <3>1, StartsOnTime
  <2>2. \A k \in Calls : call[k].pc = "idle"
    BY <1>1, IdleCall DEF TreasuryInit
  <2> QED BY <2>1, <2>2 DEF DueInv
<1> QED BY <1>1

LEMMA DueInvKept == MoneyInv /\ DueInv /\ [TreasuryNext]_treasuryVars => DueInv'
<1>1. ASSUME MoneyInv, DueInv, TreasuryNext PROVE DueInv'
  BY <1>1, DueStep DEF TreasuryNext
<1>2. ASSUME DueInv, UNCHANGED treasuryVars PROVE DueInv'
  BY <1>2 DEF treasuryVars, plans, ofPlans, DueInv
<1> QED BY <1>1, <1>2

LEMMA DueInvAlways == TreasurySpec => []DueInv
BY MoneyInvAlways, DueStarts, DueInvKept, PTL DEF TreasurySpec

LEMMA BudgetGivenAsSet ==
  ASSUME MoneyInv, BudgetsAsSet, NEW k, NEW c, NEW x \in Call, BudgetGiven(k, c, x)
  PROVE  BudgetsAsSet'
<1>1. PICK b : b = IF k \in alone THEN x.amount ELSE 0
  OBVIOUS
<1>2. PICK at : at = <<c, x.period>>
  OBVIOUS
<1>3. budget' = [budget EXCEPT ![at] = x.amount] /\ set' = [set EXCEPT ![at] = b]
  BY <1>1, <1>2 DEF BudgetGiven
<1>4. budget \in [BudgetKeys -> Nat] /\ set \in [BudgetKeys -> Nat]
  BY DEF MoneyInv, PlansTyped, HistoryTyped
<1>5. ASSUME NEW d \in CategoryIds, NEW p \in Periods, set'[<<d, p>>] # 0
      PROVE  budget'[<<d, p>>] = set'[<<d, p>>]
  <2>1. PICK key \in BudgetKeys : key = <<d, p>>
    BY DEF BudgetKeys
  <2>2. CASE key = at
    <3>1. set'[key] = b /\ budget'[key] = x.amount
      BY <1>3, <1>4, <2>2
    <3> QED BY <1>1, <1>5, <2>1, <3>1
  <2>3. CASE key # at
    <3>1. set'[key] = set[key] /\ budget'[key] = budget[key]
      BY <1>3, <1>4, <2>3
    <3> QED BY <1>5, <2>1, <3>1 DEF BudgetsAsSet
  <2> QED BY <2>2, <2>3
<1> QED BY <1>5 DEF BudgetsAsSet

LEMMA BudgetAsked ==
  ASSUME MoneyInv, BudgetsAsSet, NEW k \in Calls, NEW c \in CategoryIds, NEW q \in Periods,
         NEW amount \in Amounts, SetBudget(k, c, q, amount)
  PROVE  BudgetsAsSet'
<1>1. budget' = budget /\ set' = [set EXCEPT ![<<c, q>>] = 0] /\ set \in [BudgetKeys -> Nat]
  BY DEF SetBudget, plans, MoneyInv, HistoryTyped
<1>2. ASSUME NEW d \in CategoryIds, NEW p \in Periods, set'[<<d, p>>] # 0
      PROVE  set'[<<d, p>>] = set[<<d, p>>]
  <2>1. PICK key \in BudgetKeys : key = <<d, p>>
    BY DEF BudgetKeys
  <2>2. key # <<c, q>>
    BY <1>1, <1>2, <2>1
  <2> QED BY <1>1, <2>1, <2>2
<1> QED BY <1>1, <1>2 DEF BudgetsAsSet

LEMMA BudgetsStep ==
  ASSUME MoneyInv, BudgetsAsSet, NEW k \in Calls,
         BeginSpending(k) \/ BeginPlanning(k) \/ Step(k)
  PROVE  BudgetsAsSet'
<1>1. UNCHANGED <<budget, set>> => BudgetsAsSet'
  BY DEF BudgetsAsSet
<1>2. CASE BeginSpending(k)
  BY <1>1, <1>2 DEF BeginSpending, Replenish, CreateExpense, VoidExpense, UpdateExpense, Saves,
     plans, ofPlans
<1>3. CASE \E c \in CategoryIds, p \in Periods, amount \in Amounts : SetBudget(k, c, p, amount)
  BY <1>3, BudgetAsked
<1>4. CASE BeginPlanning(k) /\ ~\E c \in CategoryIds, p \in Periods, amount \in Amounts :
                                  SetBudget(k, c, p, amount)
  BY <1>1, <1>4 DEF BeginPlanning, CreateCategory, SaveCategoryWithBudget, ArchiveCategory,
     UpdateCategory, UpdateCategoryWithBudget, MarkRecorded, UpdateRecurringExpense, plans, ofPlans
<1>5. CASE GetAccount(k) \/ CreateAccount(k) \/ SaveBalance(k)
  BY <1>1, <1>5, AccountCall DEF plans, ofPlans
<1>6. CASE RecordEntry(k) \/ SaveExpense(k) \/ SaveDue(k) \/ CutOff(k)
  BY <1>1, <1>6 DEF RecordEntry, SaveExpense, SaveDue, CutOff, plans, ofPlans
<1>7. CASE SaveCategory(k)
  <2>1. PICK x \in Call : x = call[k]
    BY CallOf
  <2>2. PICK c : c = IF x.id = 0 THEN lastCategory + 1 ELSE x.id
    OBVIOUS
  <2>3. BudgetGiven(k, c, x) \/ UNCHANGED <<budget, set>>
    BY <1>7, <2>1, <2>2 DEF SaveCategory, BudgetSet, BudgetGiven, Refuses, plans, ofPlans
  <2> QED BY <1>1, <2>3, BudgetGivenAsSet
<1>8. CASE SaveBudget(k)
  <2>1. PICK x \in Call : x = call[k]
    BY CallOf
  <2>2. BudgetGiven(k, x.id, x) \/ UNCHANGED <<budget, set>>
    BY <1>8, <2>1 DEF SaveBudget, BudgetSet, BudgetFor, BudgetGiven, Refuses, plans, ofPlans
  <2> QED BY <1>1, <2>2, BudgetGivenAsSet
<1> QED BY <1>2, <1>3, <1>4, <1>5, <1>6, <1>7, <1>8 DEF Step

LEMMA BudgetsStart == TreasuryInit => BudgetsAsSet
BY DEF TreasuryInit, BudgetsAsSet, BudgetKeys

LEMMA BudgetsStay == MoneyInv /\ BudgetsAsSet /\ [TreasuryNext]_treasuryVars => BudgetsAsSet'
<1>1. ASSUME MoneyInv, BudgetsAsSet, TreasuryNext PROVE BudgetsAsSet'
  BY <1>1, BudgetsStep DEF TreasuryNext
<1>2. ASSUME BudgetsAsSet, UNCHANGED treasuryVars PROVE BudgetsAsSet'
  BY <1>2 DEF treasuryVars, plans, ofPlans, BudgetsAsSet
<1> QED BY <1>1, <1>2

(* On time means at most a month late, and not at all for a day that every *)
(* month has.                                                              *)
LEMMA OnTimeIsOnce ==
  ASSUME NEW r \in Recurring, NEW month \in Nat, NEW day \in 1 .. 31, NEW n \in Nat,
         OnTime(r, month, day, n)
  PROVE  LET ahead == month - (FirstDue[r].month + n * FirstDue[r].step)
         IN  ahead \in {0, 1} /\ (FirstDue[r].day <= 28 => ahead = 0 /\ day = FirstDue[r].day)
<1>1. PICK s \in {1, 3, 12} : s = FirstDue[r].step
  BY StepOf
<1>2. PICK start \in Nat : start = FirstDue[r].month
  BY StepOf
<1>3. PICK first \in 1 .. 31 : first = FirstDue[r].day
  BY StepOf
<1>4. PICK total \in Nat : total = n * s
  BY OneMore
<1>5. \/ month = start + total /\ day = first
      \/ month = start + total + 1 /\ first > 28
  BY <1>1, <1>2, <1>3, <1>4 DEF OnTime
<1>6. PICK ahead : ahead = month - (start + total)
  OBVIOUS
<1>7. ahead \in {0, 1} /\ (first <= 28 => ahead = 0 /\ day = first)
  BY <1>5, <1>6
<1> QED BY <1>1, <1>2, <1>3, <1>4, <1>6, <1>7

(* What was planned ahead is what was set: a budget is what a lone call    *)
(* last gave for that period, and a recurring expense comes up once in     *)
(* every interval, however often it was recorded.                          *)
THEOREM PlansKeptAlways == TreasurySpec => []PlansKept
<1>1. TreasurySpec => []BudgetsAsSet
  BY MoneyInvAlways, BudgetsStart, BudgetsStay, PTL DEF TreasurySpec
<1>2. MoneyInv /\ DueInv => DueOnceAnInterval
  <2>1. ASSUME MoneyInv, DueInv, NEW r \in Recurring \ doubled
        PROVE  LET ahead == due[r].month - (FirstDue[r].month + marked[r] * FirstDue[r].step)
               IN  ahead \in {0, 1}
                   /\ (FirstDue[r].day <= 28 => ahead = 0 /\ due[r].day = FirstDue[r].day)
    <3>1. PICK d \in DueDate : d = due[r]
      BY <2>1 DEF MoneyInv, PlansTyped
    <3>2. PICK n \in Nat : n = marked[r]
      BY <2>1 DEF MoneyInv, HistoryTyped
    <3>3. OnTime(r, d.month, d.day, n)
      BY <2>1, <3>1, <3>2 DEF DueInv
    <3>4. d.month \in Nat /\ d.day \in 1 .. 31
      BY DEF DueDate
    <3> QED BY <2>1, <3>1, <3>2, <3>3, <3>4, OnTimeIsOnce
  <2> QED BY <2>1 DEF DueOnceAnInterval
<1>3. BudgetsAsSet /\ DueOnceAnInterval => PlansKept
  BY DEF PlansKept
<1> QED BY <1>1, <1>2, <1>3, MoneyInvAlways, DueInvAlways, PTL

-----------------------------------------------------------------------------
(* What was paid from the petty cash is taken out of it once.              *)
LEMMA DisburseKept ==
  ASSUME MoneyInv, DisburseInv, NEW k \in Calls, NEW n, Becomes(k, n),
         UNCHANGED <<entries, owed, undisbursed, lastExpense>>,
         \/ n.op = call[k].op /\ n.id = call[k].id /\ n.amount = call[k].amount
         \/ n.op # "expense" /\ call[k].op # "expense"
  PROVE  DisburseInv'
<1>1. call'[k] = n /\ \A j \in Calls : j # k => call'[j] = call[j]
  BY BecomesIs
<1>2. \A e : \A j \in Calls : Disburses(call'[j], e) <=> Disburses(call[j], e)
  BY <1>1 DEF Disburses
<1>3. ASSUME NEW j \in Calls, NEW c \in Call, c = call'[j], c.op = "expense"
      PROVE  /\ c.amount = owed[c.id] /\ owed[c.id] > 0 /\ c.id \notin undisbursed
             /\ \A x \in entries : x.expense # c.id
             /\ \A i \in Calls : Disburses(call[i], c.id) => i = j
  <2>1. PICK d \in Call : d = call[j]
    BY CallOf
  <2>2. d.op = "expense" /\ d.id = c.id /\ d.amount = c.amount
    BY <1>1, <1>3, <2>1
  <2> QED BY <2>1, <2>2 DEF DisburseInv
<1> QED BY <1>2, <1>3 DEF DisburseInv

LEMMA NoDisbursement ==
  ASSUME MoneyInv, NEW k \in Calls, call[k].pc \notin CashPcs
  PROVE  call[k].op # "expense"
BY CallOf DEF Fits

LEMMA IdlePc == "idle" \notin CashPcs
BY DEF CashPcs

LEMMA Disbursing ==
  ASSUME MoneyInv, NEW k \in Calls, NEW c \in Call, c = call[k], c.op = "expense"
  PROVE  c.id \in Nat /\ c.id <= lastExpense /\ c.id # 0
<1>1. c.id \in 1 .. lastExpense /\ lastExpense \in Nat
  BY CallOf, RowCounts DEF Fits
<1> QED BY <1>1

LEMMA EntryFields ==
  ASSUME MoneyInv, NEW x \in entries
  PROVE  x.id \in Nat /\ x.amount \in Int /\ x.expense \in Nat /\ x.expense <= lastExpense
BY DEF MoneyInv, CashTyped, Entry

LEMMA ExpenseCreated ==
  ASSUME MoneyInv, DisburseInv, NEW k \in Calls, Creates(k)
  PROVE  DisburseInv'
<1>1. PICK e : e = lastExpense + 1
  OBVIOUS
<1>2. lastExpense \in Nat /\ e \in Nat /\ e # 0 /\ e \in ExpenseIds /\ e = lastExpense + 1
  <2>1. lastExpense \in Nat /\ MaxExpenses \in Nat /\ e <= MaxExpenses
    BY <1>1, RowCounts, Bounds, CreateExpenseCall
  <2> QED BY <1>1, <2>1 DEF ExpenseIds
<1>3. /\ call[k].pc = "idle" /\ lastExpense' = e
      /\ entries' = entries /\ undisbursed' = undisbursed
  BY <1>1, CreateExpenseCall DEF cash
<1>4. PICK n \in Call, drawn \in Nat :
        /\ Becomes(k, n) /\ owed' = [owed EXCEPT ![e] = drawn]
        /\ \/ drawn > 0 /\ n.op = "expense" /\ n.id = e /\ n.amount = drawn
           \/ drawn = 0 /\ n = Idle
  BY <1>1, CreateExpenseCall
<1>5. call'[k] = n /\ \A j \in Calls : j # k => call'[j] = call[j]
  BY <1>4, BecomesIs
<1>6. call[k].op # "expense"
  BY <1>3, NoDisbursement, IdlePc
<1>7. owed'[e] = drawn /\ \A d \in ExpenseIds : d # e => owed'[d] = owed[d]
  BY <1>2, <1>4 DEF MoneyInv, HistoryTyped
<1>8. \A d \in Nat : d <= lastExpense => d # e
  BY <1>2
<1>9. \A d \in Nat : d <= lastExpense /\ d # 0 => d \in ExpenseIds
  <2>1. lastExpense <= MaxExpenses /\ MaxExpenses \in Nat
    BY RowCounts, Bounds
  <2> QED BY <1>2, <2>1 DEF ExpenseIds
<1>10. \A j \in Calls, d \in Nat : d <= lastExpense =>
         (Disburses(call'[j], d) <=> Disburses(call[j], d))
  BY <1>4, <1>5, <1>6, <1>8, IdleCall DEF Disburses
<1>11. \A j \in Calls : Disburses(call'[j], e) => j = k
  <2>1. ASSUME NEW j \in Calls, Disburses(call[j], e) PROVE FALSE
    <3>1. PICK c \in Call : c = call[j]
      BY CallOf
    <3> QED BY <1>8, <2>1, <3>1, Disbursing DEF Disburses
  <2> QED BY <1>5, <2>1
<1>12. ASSUME NEW j \in Calls, NEW c \in Call, c = call'[j], c.op = "expense"
       PROVE  /\ c.amount = owed'[c.id] /\ owed'[c.id] > 0 /\ c.id \notin undisbursed
              /\ \A x \in entries : x.expense # c.id
              /\ \A i \in Calls : Disburses(call'[i], c.id) => i = j
  <2>1. CASE j = k
    <3>1. c = n /\ c.op # Idle.op
      BY <1>5, <1>12, <2>1, IdleCall
    <3>2. c.id = e /\ c.amount = drawn /\ drawn > 0
      BY <1>4, <3>1
    <3>3. e \notin undisbursed
      <4>1. e \in undisbursed => e <= lastExpense
        BY DEF DisburseInv
      <4> QED BY <1>2, <1>8, <4>1
    <3>4. \A x \in entries : x.expense # e
      BY <1>8, EntryFields
    <3> QED BY <1>7, <1>11, <2>1, <3>2, <3>3, <3>4
  <2>2. CASE j # k
    <3>1. c = call[j]
      BY <1>5, <1>12, <2>2
    <3>2. c.id \in Nat /\ c.id <= lastExpense /\ c.id # 0
      BY <1>12, <3>1, Disbursing
    <3>3. /\ c.amount = owed[c.id] /\ owed[c.id] > 0 /\ c.id \notin undisbursed
          /\ \A x \in entries : x.expense # c.id
          /\ \A i \in Calls : Disburses(call[i], c.id) => i = j
      BY <1>12, <3>1 DEF DisburseInv
    <3>4. owed'[c.id] = owed[c.id]
      BY <1>7, <1>8, <1>9, <3>2
    <3> QED BY <1>10, <3>2, <3>3, <3>4
  <2> QED BY <2>1, <2>2
<1>13. ASSUME NEW x \in entries, x.expense # 0
       PROVE  /\ x.amount = 0 - owed'[x.expense] /\ owed'[x.expense] > 0
              /\ \A y \in entries : y.expense = x.expense => y = x
  <2>1. owed'[x.expense] = owed[x.expense]
    BY <1>7, <1>8, <1>9, <1>13, EntryFields
  <2> QED BY <1>13, <2>1 DEF DisburseInv
<1>14. ASSUME NEW d \in 1 .. lastExpense', owed'[d] > 0
       PROVE  \/ d \in undisbursed
              \/ \E x \in entries : x.expense = d
              \/ \E j \in Calls : Disburses(call'[j], d)
  <2>1. CASE d = e
    <3>1. n.op = "expense" /\ n.id = e
      BY <1>4, <1>7, <1>14, <2>1
    <3> QED BY <1>5, <2>1, <3>1 DEF Disburses
  <2>2. CASE d # e
    <3>1. d \in 1 .. lastExpense /\ d \in Nat /\ d <= lastExpense /\ d # 0
      BY <1>2, <1>3, <2>2
    <3>2. owed'[d] = owed[d]
      BY <1>7, <1>9, <2>2, <3>1
    <3> QED BY <1>10, <1>14, <3>1, <3>2 DEF DisburseInv
  <2> QED BY <2>1, <2>2
<1>15. \A d \in undisbursed : d <= lastExpense'
  <2>1. \A d \in undisbursed : d \in Nat /\ d <= lastExpense
    <3>1. \A d \in ExpenseIds : d \in Nat
      BY Bounds DEF ExpenseIds
    <3> QED BY <3>1 DEF DisburseInv, MoneyInv, HistoryTyped
  <2> QED BY <1>2, <1>3, <2>1
<1> QED BY <1>3, <1>12, <1>13, <1>14, <1>15 DEF DisburseInv

LEMMA DisbursementFails ==
  ASSUME MoneyInv, DisburseInv, NEW k \in Calls, CutOff(k)
  PROVE  DisburseInv'
<1>1. PICK c \in Call : c = call[k]
  BY CallOf
<1>2. /\ entries' = entries /\ owed' = owed /\ lastExpense' = lastExpense
      /\ undisbursed' = IF c.op = "expense" THEN undisbursed \cup {c.id} ELSE undisbursed
  BY <1>1 DEF CutOff, cash, spending
<1>3. call'[k] = Idle /\ \A j \in Calls : j # k => call'[j] = call[j]
  BY EndingCall, BecomesIs
<1>4. ASSUME NEW j \in Calls, NEW d \in Call, d = call'[j], d.op = "expense"
      PROVE  /\ d.amount = owed[d.id] /\ owed[d.id] > 0 /\ d.id \notin undisbursed'
             /\ \A x \in entries : x.expense # d.id
             /\ \A i \in Calls : Disburses(call'[i], d.id) => i = j
  <2>1. j # k /\ d = call[j]
    BY <1>3, <1>4, IdleCall
  <2>2. /\ d.amount = owed[d.id] /\ owed[d.id] > 0 /\ d.id \notin undisbursed
        /\ \A x \in entries : x.expense # d.id
        /\ \A i \in Calls : Disburses(call[i], d.id) => i = j
    BY <1>4, <2>1 DEF DisburseInv
  <2>3. ~(c.op = "expense" /\ c.id = d.id)
    BY <1>1, <2>1, <2>2 DEF Disburses
  <2>4. \A i \in Calls : Disburses(call'[i], d.id) => Disburses(call[i], d.id)
    BY <1>3, IdleCall DEF Disburses
  <2> QED BY <1>2, <2>2, <2>3, <2>4
<1>5. ASSUME NEW e \in 1 .. lastExpense, owed[e] > 0
      PROVE  \/ e \in undisbursed'
             \/ \E x \in entries : x.expense = e
             \/ \E j \in Calls : Disburses(call'[j], e)
  <2>1. \/ e \in undisbursed
        \/ \E x \in entries : x.expense = e
        \/ \E j \in Calls : Disburses(call[j], e)
    BY <1>5 DEF DisburseInv
  <2>2. \A j \in Calls : Disburses(call[j], e) => j = k \/ Disburses(call'[j], e)
    BY <1>3
  <2>3. Disburses(call[k], e) => e \in undisbursed'
    BY <1>1, <1>2 DEF Disburses
  <2> QED BY <1>2, <2>1, <2>2, <2>3
<1>6. \A e \in undisbursed' : e <= lastExpense
  BY <1>1, <1>2, Disbursing DEF DisburseInv
<1>7. \A x \in entries : x.expense # 0 =>
        /\ x.amount = 0 - owed[x.expense] /\ owed[x.expense] > 0
        /\ \A y \in entries : y.expense = x.expense => y = x
  BY DEF DisburseInv
<1> QED BY <1>2, <1>4, <1>5, <1>6, <1>7 DEF DisburseInv

(* What a call that records adds to the entries.                           *)
NewEntry(c) == [id |-> Cardinality(entries) + 1, account |-> c.account, amount |-> Signed(c),
                after |-> NewBalance(c), expense |-> c.id]
LEMMA EntryRecorded ==
  ASSUME MoneyInv, NEW k \in Calls, NEW c \in Call, c = call[k], RecordEntry(k)
  PROVE  /\ c.pc = "record" /\ c.op \in {"replenish", "expense"} /\ (c.op = "replenish" => c.id = 0)
         /\ entries' = entries \cup {NewEntry(c)} /\ Becomes(k, Idle)
         /\ UNCHANGED <<balance, lastAccount, plans, spending, ofCash, raced, ofPlans>>
<1>1. c.pc = "record"
  BY DEF RecordEntry, At
<1>2. entries' = entries \cup {NewEntry(c)}
  BY DEF RecordEntry, NewEntry
<1>3. UNCHANGED <<balance, lastAccount, plans, spending, ofCash, raced, ofPlans>>
  BY DEF RecordEntry
<1> QED BY <1>1, <1>2, <1>3, EndingCall, CallOf DEF Fits, CashPcs

LEMMA DisbursementRecorded ==
  ASSUME MoneyInv, DisburseInv, NEW k \in Calls, RecordEntry(k)
  PROVE  DisburseInv'
<1>1. PICK c \in Call : c = call[k]
  BY CallOf
<1>2. PICK new : new = NewEntry(c)
  OBVIOUS
<1>3. new.expense = c.id /\ new.amount = Signed(c)
  BY <1>2 DEF NewEntry
<1>4. /\ entries' = entries \cup {new} /\ owed' = owed /\ lastExpense' = lastExpense
      /\ undisbursed' = undisbursed
  BY <1>1, <1>2, EntryRecorded DEF ofCash, spending
<1>5. call'[k] = Idle /\ \A j \in Calls : j # k => call'[j] = call[j]
  BY <1>1, EntryRecorded, BecomesIs
<1>6. (c.op = "replenish" /\ c.id = 0) \/ c.op = "expense"
  BY <1>1, EntryRecorded
<1>7. c.op = "expense" =>
        /\ c.amount = owed[c.id] /\ owed[c.id] > 0 /\ c.id \notin undisbursed
        /\ \A x \in entries : x.expense # c.id
        /\ \A j \in Calls : Disburses(call[j], c.id) => j = k
  BY <1>1 DEF DisburseInv
<1>8. ASSUME NEW j \in Calls, NEW d \in Call, d = call'[j], d.op = "expense"
      PROVE  /\ d.amount = owed[d.id] /\ owed[d.id] > 0 /\ d.id \notin undisbursed
             /\ \A x \in entries' : x.expense # d.id
             /\ \A i \in Calls : Disburses(call'[i], d.id) => i = j
  <2>1. j # k /\ d = call[j]
    BY <1>5, <1>8, IdleCall
  <2>2. /\ d.amount = owed[d.id] /\ owed[d.id] > 0 /\ d.id \notin undisbursed
        /\ \A x \in entries : x.expense # d.id
        /\ \A i \in Calls : Disburses(call[i], d.id) => i = j
    BY <1>8, <2>1 DEF DisburseInv
  <2>3. ~(c.op = "expense" /\ c.id = d.id)
    BY <1>1, <2>1, <2>2 DEF Disburses
  <2>4. \A i \in Calls : Disburses(call'[i], d.id) => Disburses(call[i], d.id)
    BY <1>5, IdleCall DEF Disburses
  <2>5. new.expense # d.id
    BY <1>3, <1>6, <1>8, <2>1, <2>3, Disbursing
  <2> QED BY <1>4, <2>2, <2>4, <2>5
<1>9. ASSUME NEW x \in entries', x.expense # 0
      PROVE  /\ x.amount = 0 - owed[x.expense] /\ owed[x.expense] > 0
             /\ \A y \in entries' : y.expense = x.expense => y = x
  <2>1. CASE x \in entries
    <3>1. /\ x.amount = 0 - owed[x.expense] /\ owed[x.expense] > 0
          /\ \A y \in entries : y.expense = x.expense => y = x
      BY <1>9, <2>1 DEF DisburseInv
    <3>2. new.expense # x.expense
      BY <1>3, <1>6, <1>7, <1>9, <2>1
    <3> QED BY <1>4, <3>1, <3>2
  <2>2. CASE x = new
    <3>1. c.op = "expense" /\ x.expense = c.id
      BY <1>3, <1>6, <1>9, <2>2
    <3>2. x.amount = 0 - c.amount
      BY <1>3, <2>2, <3>1 DEF Signed
    <3> QED BY <1>4, <1>7, <2>2, <3>1, <3>2
  <2> QED BY <1>4, <1>9, <2>1, <2>2
<1>10. ASSUME NEW e \in 1 .. lastExpense, owed[e] > 0
       PROVE  \/ e \in undisbursed
              \/ \E x \in entries' : x.expense = e
              \/ \E j \in Calls : Disburses(call'[j], e)
  <2>1. \/ e \in undisbursed
        \/ \E x \in entries : x.expense = e
        \/ \E j \in Calls : Disburses(call[j], e)
    BY <1>10 DEF DisburseInv
  <2>2. \A j \in Calls : Disburses(call[j], e) => j = k \/ Disburses(call'[j], e)
    BY <1>5
  <2>3. Disburses(call[k], e) => new.expense = e
    BY <1>1, <1>3 DEF Disburses
  <2> QED BY <1>4, <2>1, <2>2, <2>3
<1>11. \A e \in undisbursed : e <= lastExpense
  BY DEF DisburseInv
<1> QED BY <1>4, <1>8, <1>9, <1>10, <1>11 DEF DisburseInv

LEMMA DisburseStep ==
  ASSUME MoneyInv, DisburseInv, NEW k \in Calls, BeginSpending(k) \/ BeginPlanning(k) \/ Step(k)
  PROVE  DisburseInv'
<1>1. CASE \E amount \in Amounts : Replenish(k, amount)
  <2>1. PICK n \in Call : Becomes(k, n) /\ n.op = "replenish"
    BY <1>1, ReplenishCall
  <2>2. call[k].op # "expense"
    BY <1>1, ReplenishCall, NoDisbursement, IdlePc
  <2>3. UNCHANGED <<entries, owed, undisbursed, lastExpense>>
    BY <1>1, ReplenishCall DEF cash, spending
  <2> QED BY <2>1, <2>2, <2>3, DisburseKept
<1>2. CASE Creates(k)
  BY <1>2, ExpenseCreated
<1>3. CASE \E e, o : Saves(k, e, o)
  <2>1. PICK e, o : Saves(k, e, o)
    BY <1>3
  <2>2. PICK n : n = [Idle EXCEPT !.pc = "save expense", !.id = e, !.object = o]
    OBVIOUS
  <2>3. Becomes(k, n) /\ n.op = "none" /\ call[k].pc = "idle"
    BY <2>1, <2>2 DEF Saves, Begins, Busy, At, Becomes, Idle
  <2>4. UNCHANGED <<entries, owed, undisbursed, lastExpense>>
    BY <2>1 DEF Saves, cash, spending, ofCash
  <2>5. n.op # "expense" /\ call[k].op # "expense"
    BY <2>3, NoDisbursement, IdlePc
  <2> QED BY <2>3, <2>4, <2>5, DisburseKept
<1>4. CASE BeginPlanning(k)
  <2>1. PICK n \in Call : Becomes(k, n) /\ n.op # "expense"
    BY <1>4, PlanningCall
  <2>2. call[k].op # "expense"
    BY <1>4, PlanningCall, NoDisbursement, IdlePc
  <2>3. UNCHANGED <<entries, owed, undisbursed, lastExpense>>
    BY <1>4, PlanningCall DEF cash, spending, ofCash
  <2> QED BY <2>1, <2>2, <2>3, DisburseKept
<1>5. CASE GetAccount(k) \/ CreateAccount(k) \/ SaveBalance(k)
  <2>1. PICK n \in Call : /\ Becomes(k, n) /\ n.op = call[k].op /\ n.id = call[k].id
                          /\ n.amount = call[k].amount
    BY <1>5, AccountCall
  <2>2. UNCHANGED <<entries, owed, undisbursed, lastExpense>>
    BY <1>5, AccountCall DEF spending, ofCash
  <2> QED BY <2>1, <2>2, DisburseKept
<1>6. CASE SaveExpense(k) \/ SaveCategory(k) \/ SaveBudget(k) \/ SaveDue(k)
  <2>1. Becomes(k, Idle) /\ Idle.op # "expense" /\ Idle \in Call
    BY <1>6, EndingCall, IdleCall, IdleFits
  <2>2. call[k].op # "expense"
    BY <1>6, NoDisbursement DEF SaveExpense, SaveCategory, SaveBudget, SaveDue, At, CashPcs
  <2>3. UNCHANGED <<entries, owed, undisbursed, lastExpense>>
    BY <1>6 DEF SaveExpense, SaveCategory, SaveBudget, SaveDue, Refuses, cash, spending, ofCash
  <2> QED BY <2>1, <2>2, <2>3, DisburseKept
<1>7. CASE RecordEntry(k)
  BY <1>7, DisbursementRecorded
<1>8. CASE CutOff(k)
  BY <1>8, DisbursementFails
<1> QED BY <1>1, <1>2, <1>3, <1>4, <1>5, <1>6, <1>7, <1>8
        DEF BeginSpending, Creates, VoidExpense, UpdateExpense, Step

LEMMA DisburseStarts == TreasuryInit => DisburseInv
<1>1. ASSUME TreasuryInit PROVE DisburseInv
  <2>1. \A k \in Calls : call[k].op = "none"
    BY <1>1, IdleCall DEF TreasuryInit
  <2>2. entries = {} /\ undisbursed = {} /\ lastExpense = 0
    BY <1>1 DEF TreasuryInit
  <2>3. 1 .. 0 = {}
    OBVIOUS
  <2> QED BY <2>1, <2>2, <2>3 DEF DisburseInv
<1> QED BY <1>1

LEMMA DisburseInvKept == MoneyInv /\ DisburseInv /\ [TreasuryNext]_treasuryVars => DisburseInv'
<1>1. ASSUME MoneyInv, DisburseInv, TreasuryNext PROVE DisburseInv'
  BY <1>1, DisburseStep DEF TreasuryNext
<1>2. ASSUME DisburseInv, UNCHANGED treasuryVars PROVE DisburseInv'
  BY <1>2 DEF treasuryVars, cash, spending, ofCash, DisburseInv
<1> QED BY <1>1, <1>2

LEMMA DisburseInvAlways == TreasurySpec => []DisburseInv
BY MoneyInvAlways, DisburseStarts, DisburseInvKept, PTL DEF TreasurySpec

LEMMA OnceDisbursed == MoneyInv /\ DisburseInv => DisbursedOnce
<1>1. ASSUME MoneyInv, DisburseInv, NEW e \in 1 .. lastExpense
      PROVE  LET of == {x \in entries : x.expense = e}
             IN  /\ Cardinality(of) <= 1 /\ \A x \in of : x.amount = 0 - owed[e]
                 /\ e \notin undisbursed
                    /\ ~(\E k \in Calls : call[k].op = "expense" /\ call[k].id = e)
                      => (of # {} <=> owed[e] > 0)
  <2>1. PICK of : of = {x \in entries : x.expense = e}
    OBVIOUS
  <2>2. e # 0
    <3>1. lastExpense \in Nat
      BY <1>1, RowCounts
    <3> QED BY <1>1, <3>1
  <2>3. \A x \in of : x.amount = 0 - owed[e] /\ owed[e] > 0 /\ \A y \in of : y = x
    BY <1>1, <2>1, <2>2 DEF DisburseInv
  <2>4. Cardinality(of) <= 1
    <3>1. CASE of = {}
      BY <3>1, FS_EmptySet
    <3>2. CASE of # {}
      <4>1. PICK x \in of : of = {x}
        BY <2>3, <3>2
      <4>2. Cardinality({x}) = 1
        BY FS_Singleton
      <4> QED BY <4>1, <4>2
    <3> QED BY <3>1, <3>2
  <2>5. e \notin undisbursed /\ ~(\E k \in Calls : call[k].op = "expense" /\ call[k].id = e)
          /\ owed[e] > 0 => of # {}
    BY <1>1, <2>1 DEF DisburseInv, Disburses
  <2>6. of # {} => owed[e] > 0
    BY <2>3
  <2> QED BY <2>1, <2>3, <2>4, <2>5, <2>6
<1> QED BY <1>1 DEF DisbursedOnce

-----------------------------------------------------------------------------
(* The petty cash adds up.                                                 *)
LEMMA FlowOfNone == Flow({}) = 0
<1>1. PICK A \in [{} -> Int] : \A y \in {} : A[y] = y.amount
  <2>1. [y \in {} |-> 0] \in [{} -> Int]
    OBVIOUS
  <2> QED BY <2>1
<1>2. IsFiniteSet({})
  BY FS_EmptySet
<1>3. MapThenSumSet(LAMBDA y : y.amount, {}) = SumOf(A, {})
  BY <1>1, <1>2, SumOfAmounts
<1> QED BY <1>1, <1>3, SumOfNone DEF Flow

LEMMA FlowTyped ==
  ASSUME NEW E, IsFiniteSet(E), \A y \in E : y.amount \in Int
  PROVE  Flow(E) \in Int
<1>1. PICK A \in [E -> Int] : \A y \in E : A[y] = y.amount
  <2>1. PICK A : A = [y \in E |-> y.amount]
    OBVIOUS
  <2>2. A \in [E -> Int] /\ \A y \in E : A[y] = y.amount
    BY <2>1
  <2> QED BY <2>2
<1>2. MapThenSumSet(LAMBDA y : y.amount, E) = SumOf(A, E)
  BY <1>1, SumOfAmounts
<1> QED BY <1>1, <1>2, SumOfTyped DEF Flow

LEMMA FlowOfMore ==
  ASSUME NEW E, IsFiniteSet(E), \A y \in E : y.amount \in Int,
         NEW x, x \notin E, x.amount \in Int
  PROVE  Flow(E \cup {x}) = Flow(E) + x.amount
<1>1. PICK V : V = E \cup {x}
  OBVIOUS
<1>2. IsFiniteSet(V) /\ \A y \in V : y.amount \in Int
  BY <1>1, FS_AddElement
<1>3. PICK A \in [V -> Int] : \A y \in V : A[y] = y.amount
  <2>1. PICK A : A = [y \in V |-> y.amount]
    OBVIOUS
  <2>2. A \in [V -> Int] /\ \A y \in V : A[y] = y.amount
    BY <1>2, <2>1
  <2> QED BY <2>2
<1>4. PICK B \in [E -> Int] : \A y \in E : B[y] = y.amount
  <2>1. PICK B : B = [y \in E |-> y.amount]
    OBVIOUS
  <2>2. B \in [E -> Int] /\ \A y \in E : B[y] = y.amount
    BY <2>1
  <2> QED BY <2>2
<1>5. MapThenSumSet(LAMBDA y : y.amount, V) = SumOf(A, V)
  BY <1>2, <1>3, SumOfAmounts
<1>6. MapThenSumSet(LAMBDA y : y.amount, E) = SumOf(B, E)
  BY <1>4, SumOfAmounts
<1>7. A \in [E \cup {x} -> Int] /\ \A y \in E : A[y] = B[y]
  BY <1>1, <1>3, <1>4
<1>8. SumOf(A, E \cup {x}) = A[x] + SumOf(B, E)
  BY <1>7, SumOfMore
<1>9. A[x] = x.amount /\ SumOf(B, E) \in Int
  BY <1>1, <1>3, SumOfTyped
<1>10. \A a, b \in Int : a + b = b + a
  OBVIOUS
<1>11. Flow(V) = SumOf(A, V) /\ Flow(E) = SumOf(B, E)
  BY <1>5, <1>6 DEF Flow
<1> QED BY <1>1, <1>8, <1>9, <1>10, <1>11

LEMMA EntriesAdd ==
  ASSUME MoneyInv
  PROVE  /\ IsFiniteSet(entries) /\ Cardinality(entries) \in Nat
         /\ Flow(entries) \in Int /\ \A y \in entries : y.amount \in Int
<1>1. IsFiniteSet(entries) /\ \A y \in entries : y.amount \in Int
  BY EntryFields DEF MoneyInv, CashTyped
<1> QED BY <1>1, FlowTyped, FS_CardinalityType

(* The entry a call records comes after all others.                        *)
LEMMA NewEntryLast ==
  ASSUME MoneyInv, EntriesInv, NEW c \in Call, NEW new, new = NewEntry(c)
  PROVE  /\ new \notin entries /\ new.id = Cardinality(entries) + 1 /\ new.id \in Nat
         /\ new.amount = Signed(c) /\ new.amount \in Int /\ new.after = NewBalance(c)
         /\ \A y \in entries : y.id \in Nat /\ y.id < new.id
         /\ Cardinality(entries \cup {new}) = Cardinality(entries) + 1
<1>1. new.id = Cardinality(entries) + 1 /\ new.amount = Signed(c) /\ new.after = NewBalance(c)
  BY DEF NewEntry
<1>2. PICK n \in Nat : n = Cardinality(entries)
  BY EntriesAdd
<1>3. \A y \in entries : y.id \in Nat /\ y.id <= n
  BY <1>2, EntryFields DEF EntriesInv
<1>4. \A y \in entries : y.id \in Nat /\ y.id < new.id
  BY <1>1, <1>2, <1>3
<1>5. new.id \in Nat
  BY <1>1, <1>2
<1>6. new \notin entries
  BY <1>4, <1>5
<1>7. Cardinality(entries \cup {new}) = Cardinality(entries) + 1
  BY <1>6, EntriesAdd, FS_AddElement
<1> QED BY <1>1, <1>4, <1>5, <1>6, <1>7, NewBalanceTyped

LEMMA EntriesNumbered ==
  ASSUME MoneyInv, EntriesInv, NEW k \in Calls, BeginSpending(k) \/ BeginPlanning(k) \/ Step(k)
  PROVE  EntriesInv'
<1>1. entries' = entries => EntriesInv'
  BY DEF EntriesInv
<1>2. CASE RecordEntry(k)
  <2>1. PICK c \in Call : c = call[k]
    BY CallOf
  <2>2. PICK new : new = NewEntry(c)
    OBVIOUS
  <2>3. entries' = entries \cup {new}
    BY <1>2, <2>1, <2>2, EntryRecorded
  <2>4. PICK n \in Nat : n = Cardinality(entries)
    BY EntriesAdd
  <2>5. Cardinality(entries') = n + 1 /\ new.id = n + 1
    BY <2>2, <2>3, <2>4, NewEntryLast
  <2>6. \A y \in entries : y.id \in Nat /\ y.id <= n
    BY <2>4, EntryFields DEF EntriesInv
  <2>7. \A y \in entries' : y.id <= n + 1
    BY <2>3, <2>4, <2>5, <2>6
  <2> QED BY <2>5, <2>7 DEF EntriesInv
<1>3. CASE BeginSpending(k)
  BY <1>1, <1>3 DEF BeginSpending, Replenish, CreateExpense, VoidExpense, UpdateExpense, Saves, cash
<1>4. CASE BeginPlanning(k)
  BY <1>1, <1>4, PlanningCall DEF cash
<1>5. CASE Step(k) /\ ~RecordEntry(k)
  BY <1>1, <1>5 DEF Step, GetAccount, CreateAccount, SaveBalance, SaveExpense, SaveCategory,
     SaveBudget, SaveDue, CutOff, Refuses, cash
<1> QED BY <1>2, <1>3, <1>4, <1>5

LEMMA EntriesInvKept == MoneyInv /\ EntriesInv /\ [TreasuryNext]_treasuryVars => EntriesInv'
<1>1. ASSUME MoneyInv, EntriesInv, TreasuryNext PROVE EntriesInv'
  BY <1>1, EntriesNumbered DEF TreasuryNext
<1>2. ASSUME EntriesInv, UNCHANGED treasuryVars PROVE EntriesInv'
  BY <1>2 DEF treasuryVars, cash, EntriesInv
<1> QED BY <1>1, <1>2

LEMMA EntriesInvAlways == TreasurySpec => []EntriesInv
<1>1. TreasuryInit => EntriesInv
  BY DEF TreasuryInit, EntriesInv
<1> QED BY <1>1, MoneyInvAlways, EntriesInvKept, PTL DEF TreasurySpec

(* A call outside of the account.                                          *)
LEMMA CashKept ==
  ASSUME MoneyInv, CashInv, NEW k \in Calls, NEW n, Becomes(k, n), n.pc \notin CashPcs,
         UNCHANGED <<balance, lastAccount, entries>>,
         quiet' => quiet /\ call[k].pc \notin CashPcs
  PROVE  CashInv'
<1>1. SUFFICES ASSUME quiet, call[k].pc \notin CashPcs PROVE CashInv'
  BY DEF CashInv
<1>2. call'[k] = n /\ \A j \in Calls : j # k => call'[j] = call[j]
  BY BecomesIs
<1>3. \A j \in Calls : OnCash(j)' => j # k /\ OnCash(j)
  BY <1>2 DEF OnCash, CashPcs
<1>4. \A j, i \in Calls : OnCash(j)' /\ OnCash(i)' => j = i
  BY <1>1, <1>3 DEF CashInv
<1>5. (\E j \in Calls : call'[j].pc = "record") <=> (\E j \in Calls : call[j].pc = "record")
  BY <1>1, <1>2 DEF CashPcs
<1>6. ASSUME NEW j \in Calls, NEW c \in Call, c = call'[j] PROVE Adding(c)'
  <2>1. CASE j = k
    <3>1. c.pc \notin {"create account", "save balance", "record"}
      BY <1>2, <1>6, <2>1 DEF CashPcs
    <3> QED BY <3>1 DEF Adding
  <2>2. CASE j # k
    <3>1. Adding(c)
      BY <1>1, <1>2, <1>6, <2>2 DEF CashInv
    <3> QED BY <3>1 DEF Adding
  <2> QED BY <2>1, <2>2
<1> QED BY <1>1, <1>4, <1>5, <1>6 DEF CashInv

(* A call begins to use the account.                                       *)
LEMMA CashBegins ==
  ASSUME MoneyInv, CashInv, NEW k \in Calls, NEW n, Becomes(k, n), n.pc = "account",
         call[k].pc = "idle",
         UNCHANGED <<balance, lastAccount, entries>>,
         quiet' = (quiet /\ ~\E j \in Calls : OnCash(j))
  PROVE  CashInv'
<1>1. SUFFICES ASSUME quiet, ~\E j \in Calls : OnCash(j) PROVE CashInv'
  BY DEF CashInv
<1>2. call'[k] = n /\ \A j \in Calls : j # k => call'[j] = call[j]
  BY BecomesIs
<1>3. \A j \in Calls : OnCash(j)' => j = k
  BY <1>1, <1>2 DEF OnCash
<1>4. \A j \in Calls : call[j].pc # "record" /\ call'[j].pc # "record"
  BY <1>1, <1>2 DEF OnCash
<1>5. ASSUME NEW j \in Calls, NEW c \in Call, c = call'[j] PROVE Adding(c)'
  <2>1. c.pc \notin {"create account", "save balance", "record"}
    BY <1>1, <1>2, <1>5 DEF OnCash
  <2> QED BY <2>1 DEF Adding
<1> QED BY <1>1, <1>3, <1>4, <1>5 DEF CashInv

(* The one call on the account gets on.                                    *)
LEMMA CashMoves ==
  ASSUME MoneyInv, CashInv, NEW k \in Calls, NEW n, Becomes(k, n), call[k].pc \in CashPcs,
         quiet' = quiet, quiet => lastAccount' <= 1,
         quiet => \A x \in entries' : x.after = Flow({y \in entries' : y.id <= x.id}),
         quiet /\ lastAccount' = 1 /\ n.pc # "record" => balance'[1] = Flow(entries'),
         quiet /\ n \in Call => Adding(n)'
  PROVE  CashInv'
<1>1. SUFFICES ASSUME quiet PROVE CashInv'
  BY DEF CashInv
<1>2. call'[k] = n /\ \A j \in Calls : j # k => call'[j] = call[j]
  BY BecomesIs
<1>3. \A j \in Calls : call[j].pc \in CashPcs => j = k
  BY <1>1 DEF CashInv, OnCash, CashPcs
<1>4. \A j \in Calls : call'[j].pc \in CashPcs => j = k
  BY <1>2, <1>3
<1>5. \A j, i \in Calls : OnCash(j)' /\ OnCash(i)' => j = i
  BY <1>4 DEF OnCash, CashPcs
<1>6. ASSUME NEW j \in Calls, NEW c \in Call, c = call'[j] PROVE Adding(c)'
  <2>1. CASE j = k
    BY <1>1, <1>2, <1>6, <2>1
  <2>2. CASE j # k
    <3>1. c.pc \notin {"create account", "save balance", "record"}
      BY <1>4, <1>6, <2>2 DEF CashPcs
    <3> QED BY <3>1 DEF Adding
  <2> QED BY <2>1, <2>2
<1>7. lastAccount' = 1 /\ ~(\E j \in Calls : call'[j].pc = "record") => balance'[1] = Flow(entries')
  BY <1>1, <1>2
<1> QED BY <1>1, <1>5, <1>6, <1>7 DEF CashInv

LEMMA CashRead ==
  ASSUME MoneyInv, CashInv, NEW k \in Calls, GetAccount(k)
  PROVE  CashInv'
<1>1. /\ call[k].pc = "account" /\ call[k].pc \in CashPcs
      /\ UNCHANGED <<balance, lastAccount, entries, quiet>>
  BY DEF GetAccount, At, cash, ofCash, CashPcs
<1>2. PICK c \in Call : c = call[k]
  BY CallOf
<1>3. quiet => /\ lastAccount' <= 1
               /\ \A x \in entries' : x.after = Flow({y \in entries' : y.id <= x.id})
  BY <1>1 DEF CashInv
<1>4. quiet /\ lastAccount = 1 => balance[1] = Flow(entries)
  <2>1. \A j \in Calls : quiet /\ call[j].pc = "record" => j = k
    BY <1>1 DEF CashInv, OnCash
  <2> QED BY <1>1, <2>1 DEF CashInv
<1>5. CASE lastAccount = 0
  <2>1. PICK n : n = [c EXCEPT !.pc = "create account"]
    OBVIOUS
  <2>2. Becomes(k, n) /\ n.pc = "create account"
    BY <1>2, <1>5, <2>1 DEF GetAccount, Becomes, Call
  <2>3. Adding(n)'
    BY <1>1, <1>5, <2>2 DEF Adding
  <2> QED BY <1>1, <1>3, <1>4, <2>2, <2>3, CashMoves
<1>6. CASE lastAccount # 0
  <2>1. PICK a \in 1 .. lastAccount :
          call' = [call EXCEPT ![k].account = a, ![k].read = balance[a],
                               ![k].pc = "save balance"]
    BY <1>6 DEF GetAccount
  <2>2. PICK b : b = balance[a]
    OBVIOUS
  <2>3. PICK n : n = [c EXCEPT !.account = a, !.read = b, !.pc = "save balance"]
    OBVIOUS
  <2>4. Becomes(k, n) /\ n.pc = "save balance" /\ n.read = b
    BY <1>2, <2>1, <2>2, <2>3 DEF MoneyInv, CallsFitted, Becomes, Call
  <2>5. quiet => a = 1 /\ lastAccount = 1
    BY <1>1, <1>3, RowCounts
  <2>6. quiet => Adding(n)'
    BY <1>1, <1>4, <2>2, <2>4, <2>5 DEF Adding
  <2> QED BY <1>1, <1>3, <1>4, <2>4, <2>6, CashMoves
<1> QED BY <1>5, <1>6

LEMMA NoAccountNoEntries == ASSUME MoneyInv, lastAccount = 0 PROVE entries = {}
<1>1. ASSUME NEW x \in entries PROVE FALSE
  <2>1. x.account \in 1 .. MaxAccounts /\ x.account <= 0
    BY DEF MoneyInv, CashTyped, Entry, Accounts
  <2> QED BY <2>1, Bounds
<1> QED BY <1>1

LEMMA CashOpened ==
  ASSUME MoneyInv, CashInv, NEW k \in Calls, CreateAccount(k)
  PROVE  CashInv'
<1>1. /\ call[k].pc = "create account" /\ call[k].pc \in CashPcs
      /\ UNCHANGED <<entries, quiet>>
  BY DEF CreateAccount, At, ofCash, CashPcs
<1>2. PICK c \in Call : c = call[k]
  BY CallOf
<1>3. PICK a : a = lastAccount + 1
  OBVIOUS
<1>4. PICK z \in Int : z = 0
  OBVIOUS
<1>5. PICK n : n = [c EXCEPT !.account = a, !.read = z, !.pc = "save balance"]
  OBVIOUS
<1>6. Becomes(k, n) /\ n.pc = "save balance" /\ n.read = z
  BY <1>2, <1>3, <1>4, <1>5 DEF CreateAccount, MoneyInv, CallsFitted, Becomes, Call
<1>7. quiet => lastAccount = 0
  BY <1>1, <1>2 DEF CashInv, Adding
<1>8. quiet => entries' = {} /\ Flow(entries') = 0
  BY <1>1, <1>7, NoAccountNoEntries, FlowOfNone
<1>9. quiet => a = 1 /\ lastAccount' = 1
  <2>1. lastAccount' = a
    BY <1>3 DEF CreateAccount
  <2>2. quiet => a = 1
    BY <1>3, <1>7
  <2> QED BY <2>1, <2>2
<1>10. quiet => balance'[1] = z
  <2>1. balance' = [balance EXCEPT ![a] = z] /\ balance \in [Accounts -> Int] /\ a <= MaxAccounts
    BY <1>3, <1>4 DEF CreateAccount, MoneyInv, CashTyped
  <2>2. quiet => 1 \in Accounts
    BY <1>9, <2>1, Bounds DEF Accounts
  <2> QED BY <1>9, <2>1, <2>2
<1>11. quiet => Adding(n)'
  BY <1>4, <1>6, <1>8 DEF Adding
<1>12. /\ quiet => lastAccount' <= 1
       /\ quiet => \A x \in entries' : x.after = Flow({y \in entries' : y.id <= x.id})
       /\ quiet /\ lastAccount' = 1 /\ n.pc # "record" => balance'[1] = Flow(entries')
  BY <1>4, <1>8, <1>9, <1>10
<1> QED BY <1>1, <1>6, <1>11, <1>12, CashMoves

LEMMA CashSaved ==
  ASSUME MoneyInv, CashInv, NEW k \in Calls, SaveBalance(k)
  PROVE  CashInv'
<1>1. /\ call[k].pc = "save balance" /\ call[k].pc \in CashPcs
      /\ UNCHANGED <<lastAccount, entries, quiet>>
  BY DEF SaveBalance, At, ofCash, CashPcs
<1>2. PICK c \in Call : c = call[k]
  BY CallOf
<1>3. PICK n : n = [c EXCEPT !.pc = "record"]
  OBVIOUS
<1>4. Becomes(k, n) /\ n.pc = "record" /\ n.op = c.op /\ n.amount = c.amount /\ n.read = c.read
  BY <1>2, <1>3 DEF SaveBalance, Becomes, Call
<1>5. quiet => /\ lastAccount' <= 1
               /\ \A x \in entries' : x.after = Flow({y \in entries' : y.id <= x.id})
  BY <1>1 DEF CashInv
<1>6. quiet => c.account = 1 /\ 1 \in Accounts
  <2>1. c.account \in 1 .. lastAccount
    BY <1>1, <1>2, CallOf DEF Fits
  <2>2. \A m \in Nat : \A i \in 1 .. m : m <= 1 => i = 1 /\ m = 1
    OBVIOUS
  <2>3. lastAccount \in Nat /\ lastAccount <= MaxAccounts /\ MaxAccounts \in Nat
    BY RowCounts, Bounds
  <2>4. quiet => c.account = 1 /\ lastAccount = 1
    BY <1>1, <1>5, <2>1, <2>2, <2>3
  <2> QED BY <2>3, <2>4 DEF Accounts
<1>7. quiet => balance'[1] = NewBalance(c)
  BY <1>2, <1>6 DEF SaveBalance, MoneyInv, CashTyped
<1>8. NewBalance(n) = NewBalance(c)
  BY <1>4 DEF NewBalance, Signed
<1>9. quiet => c.read = Flow(entries)
  BY <1>1, <1>2 DEF CashInv, Adding
<1>10. quiet => Adding(n)'
  BY <1>1, <1>4, <1>7, <1>8, <1>9 DEF Adding
<1> QED BY <1>1, <1>4, <1>5, <1>10, CashMoves

LEMMA CashRecorded ==
  ASSUME MoneyInv, EntriesInv, CashInv, NEW k \in Calls, RecordEntry(k)
  PROVE  CashInv'
<1>1. PICK c \in Call : c = call[k]
  BY CallOf
<1>2. PICK new : new = NewEntry(c)
  OBVIOUS
<1>3. /\ c.pc = "record" /\ call[k].pc \in CashPcs /\ entries' = entries \cup {new}
      /\ Becomes(k, Idle) /\ UNCHANGED <<balance, lastAccount, quiet>>
  BY <1>1, <1>2, EntryRecorded DEF ofCash, CashPcs
<1>4. /\ new \notin entries /\ new.id \in Nat /\ new.amount = Signed(c) /\ new.amount \in Int
      /\ new.after = NewBalance(c) /\ \A y \in entries : y.id \in Nat /\ y.id < new.id
  BY <1>2, NewEntryLast
<1>5. Flow(entries') = Flow(entries) + new.amount
  BY <1>3, <1>4, EntriesAdd, FlowOfMore
<1>6. quiet => NewBalance(c) = Flow(entries')
  <2>1. quiet => c.read = Flow(entries)
    BY <1>1, <1>3 DEF CashInv, Adding
  <2> QED BY <1>4, <1>5, <2>1, NewBalanceTyped
<1>7. quiet => balance'[1] = Flow(entries')
  BY <1>1, <1>3, <1>6 DEF CashInv, Adding
<1>8. ASSUME quiet, NEW x \in entries'
      PROVE  x.after = Flow({y \in entries' : y.id <= x.id})
  <2>1. CASE x = new
    <3>1. {y \in entries' : y.id <= x.id} = entries'
      BY <1>3, <1>4, <2>1
    <3> QED BY <1>4, <1>6, <1>8, <2>1, <3>1
  <2>2. CASE x \in entries
    <3>1. {y \in entries' : y.id <= x.id} = {y \in entries : y.id <= x.id}
      BY <1>3, <1>4, <2>2
    <3> QED BY <1>8, <2>2, <3>1 DEF CashInv
  <2> QED BY <1>3, <1>8, <2>1, <2>2
<1>9. quiet => lastAccount' <= 1
  BY <1>3 DEF CashInv
<1>10. Adding(Idle)'
  BY IdleCall DEF Adding
<1> QED BY <1>3, <1>7, <1>8, <1>9, <1>10, CashMoves

LEMMA CashStep ==
  ASSUME MoneyInv, EntriesInv, CashInv, NEW k \in Calls,
         BeginSpending(k) \/ BeginPlanning(k) \/ Step(k)
  PROVE  CashInv'
<1>1. CASE \E amount \in Amounts : Replenish(k, amount)
  <2>1. PICK amount \in Amounts : Replenish(k, amount)
    BY <1>1
  <2>2. PICK n \in Call : Becomes(k, n) /\ n.pc = "account"
    BY <2>1, ReplenishCall
  <2>3. call[k].pc = "idle" /\ UNCHANGED <<balance, lastAccount, entries>>
    BY <2>1, ReplenishCall DEF cash
  <2>4. quiet' = (quiet /\ ~\E j \in Calls : OnCash(j))
    BY <2>1 DEF Replenish, ToAccount
  <2> QED BY <2>2, <2>3, <2>4, CashBegins
<1>2. CASE Creates(k)
  <2>1. PICK n \in Call :
          /\ Becomes(k, n)
          /\ \/ n.pc = "account" /\ quiet' = (quiet /\ ~\E j \in Calls : OnCash(j))
             \/ n = Idle /\ quiet' = quiet
    BY <1>2, CreateExpenseCall
  <2>2. call[k].pc = "idle" /\ UNCHANGED <<balance, lastAccount, entries>>
    BY <1>2, CreateExpenseCall DEF cash
  <2>3. CASE n.pc = "account" /\ quiet' = (quiet /\ ~\E j \in Calls : OnCash(j))
    BY <2>1, <2>2, <2>3, CashBegins
  <2>4. CASE n = Idle /\ quiet' = quiet
    BY <2>1, <2>2, <2>4, IdleCall, IdlePc, CashKept
  <2> QED BY <2>1, <2>3, <2>4
<1>3. CASE \E e, o : Saves(k, e, o)
  <2>1. PICK e, o : Saves(k, e, o)
    BY <1>3
  <2>2. PICK n : n = [Idle EXCEPT !.pc = "save expense", !.id = e, !.object = o]
    OBVIOUS
  <2>3. Becomes(k, n) /\ n.pc \notin CashPcs /\ call[k].pc \notin CashPcs
    BY <2>1, <2>2, IdlePc DEF Saves, Begins, Busy, At, Becomes, Idle, CashPcs
  <2>4. UNCHANGED <<balance, lastAccount, entries, quiet>>
    BY <2>1 DEF Saves, cash, ofCash
  <2> QED BY <2>3, <2>4, CashKept
<1>4. CASE BeginPlanning(k)
  <2>1. PICK n \in Call : Becomes(k, n) /\ n.pc \notin CashPcs
    BY <1>4, PlanningCall DEF CashPcs
  <2>2. call[k].pc \notin CashPcs /\ UNCHANGED <<balance, lastAccount, entries, quiet>>
    BY <1>4, PlanningCall, IdlePc DEF cash, ofCash
  <2> QED BY <2>1, <2>2, CashKept
<1>5. CASE SaveExpense(k) \/ SaveCategory(k) \/ SaveBudget(k) \/ SaveDue(k)
  <2>1. Becomes(k, Idle) /\ Idle.pc \notin CashPcs
    BY <1>5, EndingCall, IdleCall, IdlePc
  <2>2. call[k].pc \notin CashPcs
    BY <1>5 DEF SaveExpense, SaveCategory, SaveBudget, SaveDue, At, CashPcs
  <2>3. UNCHANGED <<balance, lastAccount, entries, quiet>>
    BY <1>5 DEF SaveExpense, SaveCategory, SaveBudget, SaveDue, Refuses, cash, ofCash
  <2> QED BY <2>1, <2>2, <2>3, CashKept
<1>6. CASE CutOff(k)
  <2>1. Becomes(k, Idle) /\ Idle.pc \notin CashPcs
    BY <1>6, EndingCall, IdleCall, IdlePc
  <2>2. UNCHANGED <<balance, lastAccount, entries>>
    BY <1>6 DEF CutOff, cash
  <2>3. quiet' => quiet /\ call[k].pc \notin CashPcs
    BY <1>6 DEF CutOff, OnCash, CashPcs
  <2> QED BY <2>1, <2>2, <2>3, CashKept
<1>7. CASE GetAccount(k) \/ CreateAccount(k) \/ SaveBalance(k) \/ RecordEntry(k)
  BY <1>7, CashRead, CashOpened, CashSaved, CashRecorded
<1> QED BY <1>1, <1>2, <1>3, <1>4, <1>5, <1>6, <1>7
        DEF BeginSpending, Creates, VoidExpense, UpdateExpense, Step

LEMMA CashStarts == TreasuryInit => CashInv
<1>1. ASSUME TreasuryInit PROVE CashInv
  <2>1. \A k \in Calls : call[k].pc = "idle"
    BY <1>1, IdleCall DEF TreasuryInit
  <2>2. entries = {} /\ lastAccount = 0
    BY <1>1 DEF TreasuryInit
  <2>3. \A k \in Calls : ~OnCash(k)
    BY <2>1 DEF OnCash
  <2>4. ASSUME NEW k \in Calls, NEW c \in Call, c = call[k] PROVE Adding(c)
    BY <2>1, <2>4 DEF Adding
  <2> QED BY <2>2, <2>3, <2>4 DEF CashInv
<1> QED BY <1>1

LEMMA CashInvKept ==
  MoneyInv /\ EntriesInv /\ CashInv /\ [TreasuryNext]_treasuryVars => CashInv'
<1>1. ASSUME MoneyInv, EntriesInv, CashInv, TreasuryNext PROVE CashInv'
  BY <1>1, CashStep DEF TreasuryNext
<1>2. ASSUME CashInv, UNCHANGED treasuryVars PROVE CashInv'
  BY <1>2 DEF treasuryVars, cash, ofCash, CashInv, OnCash, Adding
<1> QED BY <1>1, <1>2

LEMMA CashInvAlways == TreasurySpec => []CashInv
BY MoneyInvAlways, EntriesInvAlways, CashStarts, CashInvKept, PTL DEF TreasurySpec

(* As long as the account is used by one call at a time and none stops     *)
(* half way, its entries tell its balance, each what was left after it;    *)
(* and whatever overlaps, what an expense takes out of it is taken once.   *)
THEOREM CashAccountedAlways == TreasurySpec => []CashAccounted
<1>1. CashInv => QuietCashAddsUp
  <2>1. ASSUME CashInv, quiet, ~(\E k \in Calls : OnCash(k))
        PROVE  /\ lastAccount <= 1
               /\ \A x \in entries : x.after = Flow({y \in entries : y.id <= x.id})
               /\ lastAccount = 1 => balance[1] = Flow(entries)
    <3>1. \A k \in Calls : call[k].pc # "record"
      BY <2>1 DEF OnCash
    <3> QED BY <2>1, <3>1 DEF CashInv
  <2> QED BY <2>1 DEF QuietCashAddsUp
<1>2. QuietCashAddsUp /\ DisbursedOnce => CashAccounted
  BY DEF CashAccounted
<1> QED BY <1>1, <1>2, MoneyInvAlways, CashInvAlways, DisburseInvAlways, OnceDisbursed, PTL

(* Sums of natural numbers are natural, and those of zeros are zero.       *)
LEMMA SumOfNaturals ==
  ASSUME NEW U, IsFiniteSet(U), NEW A \in [U -> Nat]
  PROVE  SumOf(A, U) \in Nat /\ ((\A x \in U : A[x] = 0) => SumOf(A, U) = 0)
<1>1. A \in [U -> Int]
  OBVIOUS
<1>2. PICK g \in [SUBSET U -> Int] : AddsUp(g, A, SUBSET U)
  BY <1>1, SumExists
<1>3. PICK T : T = {k \in Nat : \E R \in SUBSET U :
                      /\ Cardinality(R) = k
                      /\ ~(g[R] >= 0 /\ ((\A x \in U : A[x] = 0) => g[R] = 0))}
  OBVIOUS
<1>4. ASSUME T # {} PROVE FALSE
  <2>1. T \in SUBSET Nat
    BY <1>3
  <2>2. PICK k \in T : \A j \in T : k <= j
    BY <2>1, <1>4, LeastExists
  <2>3. PICK R \in SUBSET U : /\ Cardinality(R) = k
                              /\ ~(g[R] >= 0 /\ ((\A x \in U : A[x] = 0) => g[R] = 0))
    BY <1>3, <2>2
  <2>4. R # {}
    BY <1>2, <2>3 DEF AddsUp, SumStep
  <2>5. PICK z \in R : z = First(R)
    BY <2>4 DEF First
  <2>6. g[R] = A[z] + g[R \ {z}]
    BY <1>2, <2>5 DEF AddsUp, SumStep
  <2>7. k \in Nat /\ k > 0 /\ R \ {z} \in SUBSET U /\ Cardinality(R \ {z}) = k - 1
    BY <2>3, WithoutOne
  <2>8. k - 1 \in Nat /\ k - 1 \notin T
    BY <2>2, <2>7
  <2>9. g[R \ {z}] >= 0 /\ ((\A x \in U : A[x] = 0) => g[R \ {z}] = 0)
    BY <1>3, <2>7, <2>8
  <2>10. A[z] \in Nat /\ g[R \ {z}] \in Int
    BY <1>2, <2>7
  <2> QED BY <2>3, <2>6, <2>9, <2>10
<1>5. \A R \in SUBSET U : Cardinality(R) \in Nat
  BY FS_Subset, FS_CardinalityType
<1>6. PICK V \in SUBSET U : V = U
  OBVIOUS
<1>7. g[V] >= 0 /\ ((\A x \in U : A[x] = 0) => g[V] = 0)
  BY <1>3, <1>4, <1>5
<1>8. SumOf(A, U) = g[U]
  BY <1>1, <1>2, SumIs
<1> QED BY <1>2, <1>6, <1>7, <1>8

IsFoldOf(f, A) ==
  f = [S \in SUBSET DOMAIN A |-> IF S = {} THEN 0
         ELSE A[CHOOSE x \in S : TRUE] + f[S \ {CHOOSE x \in S : TRUE}]]

(* The community modules' sum of the values of a function.                 *)
LEMMA SumOfValues ==
  ASSUME NEW U, IsFiniteSet(U), NEW A \in [U -> Int]
  PROVE  TotalOf(A) = SumOf(A, U)
<1>1. PICK g \in [SUBSET U -> Int] : AddsUp(g, A, SUBSET U)
  BY SumExists
<1>2. IsFoldOf(g, A)
  <2>1. ASSUME NEW S \in SUBSET U, S # {}
        PROVE  g[S] = A[CHOOSE x \in S : TRUE] + g[S \ {CHOOSE x \in S : TRUE}]
    BY <1>1, <2>1 DEF AddsUp, SumStep, First
  <2>2. g[{}] = 0
    BY <1>1 DEF AddsUp, SumStep
  <2> QED BY <1>1, <2>1, <2>2 DEF IsFoldOf
<1>3. PICK f : f = CHOOSE iter : IsFoldOf(iter, A)
  OBVIOUS
<1>4. IsFoldOf(f, A)
  BY <1>2, <1>3
<1>5. AddsUp(f, A, SUBSET U)
  <2>1. ASSUME NEW S \in SUBSET U PROVE f[S] = SumStep(f, A, S)
    BY <1>4 DEF SumStep, First, IsFoldOf
  <2> QED BY <2>1 DEF AddsUp
<1>6. f[U] = g[U]
  BY <1>1, <1>5, SumsAgree
<1>7. TotalOf(A) = f[U]
  BY <1>3 DEF TotalOf, FoldFunction, FoldFunctionOnSet, MapThenFoldSet, IsFoldOf
<1> QED BY <1>1, <1>6, <1>7, SumIs

LEMMA TotalOfNaturals ==
  ASSUME NEW U, IsFiniteSet(U), NEW A \in [U -> Nat]
  PROVE  TotalOf(A) \in Nat /\ ((\A x \in U : A[x] = 0) => TotalOf(A) = 0)
<1>1. A \in [U -> Int]
  OBVIOUS
<1>2. TotalOf(A) = SumOf(A, U)
  BY <1>1, SumOfValues
<1> QED BY <1>2, SumOfNaturals

-----------------------------------------------------------------------------
(* Result sheets.  A call in lone is the only one that runs; while the     *)
(* totals are sound, so is every call that runs.                           *)
AloneInv ==
  /\ \A k \in lone, j \in Tasks : j # k => task[j] = NoTask
  /\ sound => \A k \in Tasks : task[k] # NoTask => k \in lone
  /\ sheetStatus = "ABSENT" => \A k \in Tasks : task[k] = NoTask

(* Which decisions a call can be about to write, and that a score is of a  *)
(* pupil on the sheet.                                                     *)
TasksFit ==
  \A k \in Tasks, c \in Task : c = task[k] =>
    /\ c.pc = "advancing" /\ ~c.rank => c.last /\ c.to # "PUBLISHED"
    /\ c.pc = "advancing" /\ ~c.last => c.to = "SCORES_ENTERED"
    /\ c.pc = "writing" /\ c.what = "score" => result[c.pupil] # NoRow

(* What a lone call has read is still so, what it is about to save is      *)
(* right, and only a decision publishes.                                   *)
Place(st) == 1 + Cardinality({o \in OnSheet : Percentage(o) > Percentage(st)})
RightRow(row, st) == row.total = SubjectTotal(st) /\ row.position = Place(st)
Unpublished(c) ==
  \/ c.pc \in {"saving", "counting", "totalling", "totalled", "advancing"}
  \/ (c.pc \in {"ranking", "ranked"} /\ ~c.last)
LoneReads(c) ==
  /\ c.pc = "writing" /\ c.what = "score" => c.row = score[c.pupil][c.subject]
  /\ c.pc = "writing" /\ c.what = "result" => c.row = result[c.pupil]
  /\ c.pc = "writing" /\ c.what = "status" => c.status = sheetStatus
LoneSaves(c) ==
  /\ c.pc \in {"ranked", "totalled"} =>
       \A st \in Pupils : /\ c.rows[st] = NoRow <=> result[st] = NoRow
                          /\ result[st] # NoRow => c.rows[st].total = SubjectTotal(st)
  /\ c.pc = "ranked" => \A st \in OnSheet : RightRow(c.rows[st], st)
LoneInv ==
  \A k \in lone, c \in Task : c = task[k] =>
    LoneReads(c) /\ LoneSaves(c) /\ (Unpublished(c) => sheetStatus # "PUBLISHED")

(* The sheet is right when nobody is about to make it so.                  *)
Settled ==
  \A k \in Tasks, c \in Task : c = task[k] =>
    c.pc \in {"idle", "writing"} \/ (c.pc = "advancing" /\ ~c.rank)
TotalsRight == \A st \in OnSheet : Points(result[st]) = SubjectTotal(st)
PlacesRight == \A st \in OnSheet : RightRow(result[st], st)
SoundInv ==
  sound /\ Settled => TotalsRight /\ (sheetStatus = "PUBLISHED" => PlacesRight)

(* Totals and percentages are numbers.                                     *)
LEMMA RowsApart ==
  /\ NoRow \notin ScoreRow /\ NoRow \notin ResultRow
  /\ \A row \in ScoreRow : Points(row) \in Nat
  /\ \A row \in ResultRow : Points(row) \in Nat
<1>1. \A row \in ScoreRow \cup ResultRow : row # NoRow
  <2>1. \A row \in ScoreRow \cup ResultRow : "none" \notin DOMAIN row
    BY DEF ScoreRow, ResultRow
  <2> QED BY <2>1 DEF NoRow
<1>2. MaxScore \in Nat
  BY SheetAssumption
<1>3. \A row \in ScoreRow : row.total = Unset \/ row.total \in Nat
  BY <1>2 DEF ScoreRow
<1>4. \A row \in ResultRow : row.total = Unset \/ row.total \in Nat
  BY DEF ResultRow
<1> QED BY <1>1, <1>3, <1>4 DEF Points

LEMMA SubjectTotalTyped ==
  ASSUME SheetTypeOK, NEW st \in Pupils
  PROVE  /\ SubjectTotal(st) \in Nat
         /\ (\A sub \in SubjectsOf(st) : Points(score[st][sub]) = 0) => SubjectTotal(st) = 0
<1>1. PICK U : U = SubjectsOf(st)
  OBVIOUS
<1>2. IsFiniteSet(U)
  BY <1>1, SheetAssumption, FS_Subset DEF SubjectsOf
<1>3. PICK A : A = [sub \in U |-> Points(score[st][sub])]
  OBVIOUS
<1>4. \A sub \in U : score[st][sub] \in ScoreRow
  BY <1>1 DEF SheetTypeOK, SubjectsOf
<1>5. A \in [U -> Nat]
  BY <1>3, <1>4, RowsApart
<1>6. TotalOf(A) \in Nat /\ ((\A sub \in U : A[sub] = 0) => TotalOf(A) = 0)
  BY <1>2, <1>5, TotalOfNaturals
<1>7. SubjectTotal(st) = TotalOf(A)
  BY <1>1, <1>3 DEF SubjectTotal
<1> QED BY <1>1, <1>3, <1>6, <1>7

LEMMA ObtainableTyped == ASSUME NEW st PROVE Obtainable(st) \in Nat /\ Obtainable(st) > 0
<1>1. PICK n : n = IF SubjectsOf(st) = {} THEN 1 ELSE Cardinality(SubjectsOf(st))
  OBVIOUS
<1>2. IsFiniteSet(SubjectsOf(st))
  BY SheetAssumption, FS_Subset DEF SubjectsOf
<1>3. Cardinality(SubjectsOf(st)) \in Nat /\ (Cardinality(SubjectsOf(st)) = 0 <=> SubjectsOf(st) = {})
  BY <1>2, FS_EmptySet, FS_CardinalityType
<1>4. n \in Nat /\ n > 0
  BY <1>1, <1>3
<1>5. MaxScore \in Nat /\ MaxScore > 0
  BY SheetAssumption
<1>6. \A a, b \in Nat : a > 0 /\ b > 0 => a * b \in Nat /\ a * b > 0
  OBVIOUS
<1>7. MaxScore * n \in Nat /\ MaxScore * n > 0
  BY <1>4, <1>5, <1>6
<1> QED BY <1>1, <1>7 DEF Obtainable

(* Of a total a out of o: what rounding to hundredths of a percent does.   *)
LEMMA Rounding ==
  ASSUME NEW a \in Nat, NEW o \in Nat, o > 0
  PROVE  LET q == (20000 * a + o) \div (2 * o)
         IN  q \in Nat /\ 2 * o * q <= 20000 * a + o /\ 20000 * a + o < 2 * o * (q + 1)
<1>1. PICK x \in Nat, y \in Nat : x = 20000 * a + o /\ y = 2 * o
  OBVIOUS
<1>2. y > 0
  BY <1>1
<1>3. x \div y \in Int /\ y * (x \div y) <= x /\ x < y * ((x \div y) + 1)
  BY <1>2
<1>4. x \div y >= 0
  BY <1>2, <1>3
<1> QED BY <1>1, <1>3, <1>4

LEMMA PercentageTyped == ASSUME SheetTypeOK, NEW st \in Pupils PROVE Percentage(st) \in Nat
<1>1. SubjectTotal(st) \in Nat /\ Obtainable(st) \in Nat /\ Obtainable(st) > 0
  BY SubjectTotalTyped, ObtainableTyped
<1> QED BY <1>1, Rounding DEF Percentage

-----------------------------------------------------------------------------
(* A finite set can be put in descending order of any numbers.             *)
Ordering(order, S, P) ==
  /\ order \in [1 .. Cardinality(S) -> S]
  /\ \A x \in S : \E i \in DOMAIN order : order[i] = x
  /\ \A i, j \in DOMAIN order : i < j => P[order[i]] >= P[order[j]]

LEMMA LowestExists ==
  ASSUME NEW S, S # {}, NEW P, \A x \in S : P[x] \in Nat
  PROVE  \E x \in S : \A y \in S : P[x] <= P[y]
<1>1. PICK T : T = {P[x] : x \in S}
  OBVIOUS
<1>2. T \in SUBSET Nat /\ T # {}
  BY <1>1
<1>3. PICK n \in T : \A m \in T : n <= m
  BY <1>2, LeastExists
<1>4. PICK x \in S : n = P[x]
  BY <1>1
<1> QED BY <1>1, <1>3, <1>4

LEMMA OrderingExists ==
  ASSUME NEW U, IsFiniteSet(U), NEW P, \A x \in U : P[x] \in Nat
  PROVE  \E order : Ordering(order, U, P)
<1>1. PICK T : T = {k \in Nat : \E R \in SUBSET U :
                      Cardinality(R) = k /\ ~\E order : Ordering(order, R, P)}
  OBVIOUS
<1>2. ASSUME T # {} PROVE FALSE
  <2>1. T \in SUBSET Nat
    BY <1>1
  <2>2. PICK k \in T : \A j \in T : k <= j
    BY <2>1, <1>2, LeastExists
  <2>3. PICK R \in SUBSET U : Cardinality(R) = k /\ ~\E order : Ordering(order, R, P)
    BY <1>1, <2>2
  <2>4. CASE R = {}
    <3>1. Cardinality(R) = 0
      BY <2>4, FS_EmptySet
    <3>2. 1 .. 0 = {}
      OBVIOUS
    <3>3. PICK order : order = [i \in 1 .. 0 |-> 0]
      OBVIOUS
    <3>4. order \in [1 .. 0 -> R] /\ DOMAIN order = {}
      BY <3>2, <3>3
    <3>5. Ordering(order, R, P)
      BY <2>4, <3>1, <3>4 DEF Ordering
    <3> QED BY <2>3, <3>5
  <2>5. CASE R # {}
    <3>1. PICK x \in R : \A y \in R : P[x] <= P[y]
      BY <2>5, LowestExists
    <3>2. PICK Q : Q = R \ {x}
      OBVIOUS
    <3>3. Q \in SUBSET U /\ k \in Nat /\ k > 0 /\ Cardinality(Q) = k - 1
      BY <2>3, <3>2, WithoutOne
    <3>4. k - 1 \in Nat /\ k - 1 \notin T
      BY <2>2, <3>3
    <3>5. PICK rest : Ordering(rest, Q, P)
      BY <1>1, <3>3, <3>4
    <3>6. /\ rest \in [1 .. (k - 1) -> Q]
          /\ \A y \in Q : \E i \in 1 .. (k - 1) : rest[i] = y
          /\ \A i, j \in 1 .. (k - 1) : i < j => P[rest[i]] >= P[rest[j]]
      BY <3>3, <3>5 DEF Ordering
    <3>7. PICK order : order = [i \in 1 .. k |-> IF i = k THEN x ELSE rest[i]]
      OBVIOUS
    <3>8. \A i \in 1 .. k : i # k => i \in 1 .. (k - 1)
      BY <3>3
    <3>9. order \in [1 .. k -> R] /\ DOMAIN order = 1 .. k
      BY <3>2, <3>6, <3>7, <3>8
    <3>10. ASSUME NEW y \in R PROVE \E i \in 1 .. k : order[i] = y
      <4>1. CASE y = x
        <5>1. k \in 1 .. k
          BY <3>3
        <5> QED BY <3>7, <4>1, <5>1
      <4>2. CASE y # x
        <5>1. PICK i \in 1 .. (k - 1) : rest[i] = y
          BY <3>2, <3>6, <4>2
        <5>2. i \in 1 .. k /\ i # k
          BY <3>3
        <5> QED BY <3>7, <5>1, <5>2
      <4> QED BY <4>1, <4>2
    <3>11. ASSUME NEW i \in 1 .. k, NEW j \in 1 .. k, i < j
           PROVE  P[order[i]] >= P[order[j]]
      <4>1. i # k /\ i \in 1 .. (k - 1)
        BY <3>3, <3>11
      <4>2. order[i] = rest[i] /\ rest[i] \in R
        BY <3>2, <3>6, <3>7, <4>1
      <4>3. CASE j = k
        <5>1. order[j] = x
          BY <3>7, <4>3
        <5>2. P[rest[i]] \in Nat /\ P[x] \in Nat /\ P[x] <= P[rest[i]]
          BY <3>1, <4>2
        <5> QED BY <4>2, <5>1, <5>2
      <4>4. CASE j # k
        <5>1. j \in 1 .. (k - 1) /\ order[j] = rest[j]
          BY <3>7, <3>8, <4>4
        <5> QED BY <3>6, <3>11, <4>1, <4>2, <5>1
      <4> QED BY <4>3, <4>4
    <3>12. Ordering(order, R, P)
      BY <2>3, <3>9, <3>10, <3>11 DEF Ordering
    <3> QED BY <2>3, <3>12
  <2> QED BY <2>4, <2>5
<1>3. PICK V \in SUBSET U : V = U
  OBVIOUS
<1>4. Cardinality(V) \in Nat
  BY FS_Subset, FS_CardinalityType
<1> QED BY <1>1, <1>2, <1>3, <1>4

-----------------------------------------------------------------------------
(* The positions calculatePositions gives are those of a competition.      *)
LEMMA PlaceTyped ==
  ASSUME NEW st
  PROVE  Place(st) \in Nat /\ Cardinality({o \in OnSheet : Percentage(o) > Percentage(st)}) \in Nat
<1>1. PICK B : B = {o \in OnSheet : Percentage(o) > Percentage(st)}
  OBVIOUS
<1>2. B \in SUBSET Pupils
  BY <1>1 DEF OnSheet
<1>3. IsFiniteSet(B)
  BY <1>2, SheetAssumption, FS_Subset
<1>4. Cardinality(B) \in Nat
  BY <1>3, FS_CardinalityType
<1> QED BY <1>1, <1>4 DEF Place

LEMMA RankedIsOrdering ==
  ASSUME SheetTypeOK
  PROVE  /\ Ranked \in [1 .. Cardinality(OnSheet) -> OnSheet]
         /\ \A st \in OnSheet : \E i \in DOMAIN Ranked : Ranked[i] = st
         /\ \A i, j \in DOMAIN Ranked : i < j => Percentage(Ranked[i]) >= Percentage(Ranked[j])
<1>1. PICK U, P : U = OnSheet /\ P = [st \in Pupils |-> Percentage(st)]
  OBVIOUS
<1>2. U \in SUBSET Pupils
  BY <1>1 DEF OnSheet
<1>3. IsFiniteSet(U)
  BY <1>2, SheetAssumption, FS_Subset
<1>4. \A x \in U : P[x] \in Nat
  BY <1>1, <1>2, PercentageTyped
<1>5. PICK order : Ordering(order, U, P)
  BY <1>3, <1>4, OrderingExists
<1>6. \A x \in U : P[x] = Percentage(x)
  BY <1>1, <1>2
<1>7. /\ order \in [1 .. Cardinality(OnSheet) -> OnSheet]
      /\ \A st \in OnSheet : \E i \in DOMAIN order : order[i] = st
      /\ \A i, j \in DOMAIN order : i < j => Percentage(order[i]) >= Percentage(order[j])
  <2>1. \A i \in DOMAIN order : order[i] \in U
    BY <1>5 DEF Ordering
  <2> QED BY <1>1, <1>5, <1>6, <2>1 DEF Ordering
<1> QED BY <1>7 DEF Ranked

(* As many have a better percentage as come before one whose predecessor's *)
(* percentage is another.                                                  *)
LEMMA BetterComeBefore ==
  ASSUME SheetTypeOK, NEW i \in DOMAIN Ranked,
         i > 1 => Percentage(Ranked[i]) # Percentage(Ranked[i - 1])
  PROVE  Place(Ranked[i]) = i
<1>1. PICK n : n = Cardinality(OnSheet)
  OBVIOUS
<1>2. IsFiniteSet(OnSheet)
  <2>1. OnSheet \in SUBSET Pupils
    BY DEF OnSheet
  <2> QED BY <2>1, SheetAssumption, FS_Subset
<1>3. n \in Nat
  BY <1>1, <1>2, FS_CardinalityType
<1>4. /\ DOMAIN Ranked = 1 .. n /\ i \in 1 .. n
      /\ \A j \in 1 .. n : Ranked[j] \in OnSheet /\ Percentage(Ranked[j]) \in Nat
  BY <1>1, RankedIsOrdering, PercentageTyped DEF OnSheet
<1>5. Ranked \in Injection(1 .. n, OnSheet)
  <2>1. IsFiniteSet(1 .. n) /\ Cardinality(1 .. n) = n
    BY <1>3, FS_Interval
  <2>2. Ranked \in Surjection(1 .. n, OnSheet)
    BY <1>1, <1>4, RankedIsOrdering DEF Surjection
  <2> QED BY <1>1, <2>1, <2>2, FS_SurjSameCardinalityImpliesInj
<1>6. PICK m : m = i - 1
  OBVIOUS
<1>7. m \in Nat /\ m <= n /\ \A j \in 1 .. m : j \in 1 .. n /\ j < i
  BY <1>3, <1>4, <1>6
<1>8. PICK B : B = {o \in OnSheet : Percentage(o) > Percentage(Ranked[i])}
  OBVIOUS
<1>9. ASSUME NEW j \in 1 .. m PROVE Ranked[j] \in B
  <2>1. i > 1 /\ i - 1 \in 1 .. n
    BY <1>4, <1>6, <1>7
  <2>2. j < i - 1 \/ j = i - 1
    BY <1>4, <1>6, <1>7
  <2>3. Percentage(Ranked[j]) >= Percentage(Ranked[i - 1])
    <3>1. CASE j < i - 1
      BY <1>4, <1>7, <2>1, <3>1, RankedIsOrdering
    <3>2. CASE j = i - 1
      <4>1. \A a, b \in Nat : a = b => a >= b
        OBVIOUS
      <4>2. Ranked[j] = Ranked[i - 1]
        BY <3>2
      <4> QED BY <1>4, <1>7, <2>1, <4>1, <4>2
    <3> QED BY <2>2, <3>1, <3>2
  <2>4. i - 1 < i
    BY <1>4
  <2>5. Percentage(Ranked[i - 1]) >= Percentage(Ranked[i])
    BY <1>4, <2>1, <2>4, RankedIsOrdering
  <2>6. Percentage(Ranked[i - 1]) # Percentage(Ranked[i])
    BY <2>1
  <2>7. Percentage(Ranked[j]) > Percentage(Ranked[i])
    BY <1>4, <1>7, <2>1, <2>3, <2>5, <2>6
  <2> QED BY <1>4, <1>7, <1>8, <2>7
<1>10. ASSUME NEW o \in B PROVE \E j \in 1 .. m : Ranked[j] = o
  <2>1. PICK j \in 1 .. n : Ranked[j] = o
    BY <1>4, <1>8, RankedIsOrdering
  <2>2. Percentage(Ranked[j]) > Percentage(Ranked[i])
    BY <1>8, <2>1
  <2>3. ~(i < j) /\ i # j
    <3>1. i < j => Percentage(Ranked[i]) >= Percentage(Ranked[j])
      BY <1>4, RankedIsOrdering
    <3> QED BY <1>4, <2>2, <3>1
  <2>4. j \in 1 .. m
    BY <1>3, <1>4, <1>6, <2>3
  <2> QED BY <2>1, <2>4
<1>11. PICK f : f = [j \in 1 .. m |-> Ranked[j]]
  OBVIOUS
<1>12. f \in Injection(1 .. m, B) /\ f \in Surjection(1 .. m, B)
  <2>1. f \in [1 .. m -> B]
    BY <1>9, <1>11
  <2>2. \A j, l \in 1 .. m : f[j] = f[l] => j = l
    BY <1>5, <1>7, <1>11 DEF Injection, IsInjective
  <2>3. \A o \in B : \E j \in 1 .. m : f[j] = o
    BY <1>10, <1>11
  <2> QED BY <2>1, <2>2, <2>3 DEF Injection, Surjection, IsInjective
<1>13. IsFiniteSet(1 .. m) /\ Cardinality(1 .. m) = m
  BY <1>7, FS_Interval
<1>14. Cardinality(B) = m
  BY <1>12, <1>13, FS_Surjection
<1> QED BY <1>3, <1>4, <1>6, <1>8, <1>14 DEF Place

IsPositions(f) ==
  f = [i \in DOMAIN Ranked |->
         IF i > 1 /\ Percentage(Ranked[i]) = Percentage(Ranked[i - 1])
         THEN f[i - 1] ELSE i]

LEMMA PositionsArePlaces ==
  ASSUME SheetTypeOK, NEW st \in OnSheet
  PROVE  Positions[st] = Place(st)
<1>1. PICK n \in Nat : DOMAIN Ranked = 1 .. n
  <2>1. OnSheet \in SUBSET Pupils
    BY DEF OnSheet
  <2>2. IsFiniteSet(OnSheet)
    BY <2>1, SheetAssumption, FS_Subset
  <2>3. Cardinality(OnSheet) \in Nat
    BY <2>2, FS_CardinalityType
  <2> QED BY <2>3, RankedIsOrdering
<1>2. ASSUME NEW i \in 1 .. n, i > 1, Percentage(Ranked[i]) = Percentage(Ranked[i - 1])
      PROVE  Place(Ranked[i]) = Place(Ranked[i - 1])
  BY <1>2 DEF Place
<1>3. ASSUME NEW i \in 1 .. n, ~(i > 1 /\ Percentage(Ranked[i]) = Percentage(Ranked[i - 1]))
      PROVE  Place(Ranked[i]) = i
  BY <1>1, <1>3, BetterComeBefore
<1>4. PICK q : q = [i \in 1 .. n |-> Place(Ranked[i])]
  OBVIOUS
<1>5. \A i \in 1 .. n : i > 1 => i - 1 \in 1 .. n
  OBVIOUS
<1>6. IsPositions(q)
  BY <1>1, <1>2, <1>3, <1>4, <1>5 DEF IsPositions
<1>7. PICK pos : pos = CHOOSE f : IsPositions(f)
  OBVIOUS
<1>8. IsPositions(pos)
  BY <1>6, <1>7
<1>9. \A i \in 1 .. n :
        pos[i] = IF i > 1 /\ Percentage(Ranked[i]) = Percentage(Ranked[i - 1])
                 THEN pos[i - 1] ELSE i
  BY <1>1, <1>8 DEF IsPositions
<1>10. PICK T : T = {i \in 1 .. n : pos[i] # Place(Ranked[i])}
  OBVIOUS
<1>11. ASSUME T # {} PROVE FALSE
  <2>1. T \in SUBSET Nat
    BY <1>10
  <2>2. PICK i \in T : \A j \in T : i <= j
    BY <2>1, <1>11, LeastExists
  <2>3. i \in 1 .. n /\ pos[i] # Place(Ranked[i])
    BY <1>10, <2>2
  <2>4. CASE i > 1 /\ Percentage(Ranked[i]) = Percentage(Ranked[i - 1])
    <3>1. i - 1 \in 1 .. n /\ i - 1 \notin T
      BY <2>2, <2>3, <2>4
    <3>2. pos[i - 1] = Place(Ranked[i - 1])
      BY <1>10, <3>1
    <3> QED BY <1>2, <1>9, <2>3, <2>4, <3>2
  <2>5. CASE ~(i > 1 /\ Percentage(Ranked[i]) = Percentage(Ranked[i - 1]))
    BY <1>3, <1>9, <2>3, <2>5
  <2> QED BY <2>4, <2>5
<1>12. PICK i : i = CHOOSE j \in DOMAIN Ranked : Ranked[j] = st
  OBVIOUS
<1>13. i \in 1 .. n /\ Ranked[i] = st
  BY <1>1, <1>12, RankedIsOrdering
<1>14. Positions = [s \in OnSheet |-> pos[CHOOSE j \in DOMAIN Ranked : Ranked[j] = s]]
  BY <1>7 DEF Positions, IsPositions
<1>15. Positions[st] = pos[i]
  BY <1>12, <1>14
<1> QED BY <1>10, <1>11, <1>13, <1>15

-----------------------------------------------------------------------------
(* What a call carries, by where it is.                                    *)
SavingTask == [pc : {"saving"}, subject : Subjects, given : Given, submit : BOOLEAN,
               done : SUBSET Pupils]
Deciding == [pc : {"advancing", "ranking"}, to : Statuses, rank : BOOLEAN, last : BOOLEAN]

LEMMA TaskParts ==
  ASSUME NEW c \in Task
  PROVE  /\ c.pc = "idle" <=> c = NoTask
         /\ c.pc = "saving" => c \in SavingTask
         /\ c.pc \in {"advancing", "ranking"} => c \in Deciding
         /\ c.pc = "ranked" => c.rows \in Rows /\ c.last \in BOOLEAN
         /\ c.pc = "totalled" => c.rows \in Rows
         /\ c.pc = "writing" => c.what \in {"score", "result", "status"}
         /\ c.pc = "writing" /\ c.what = "score" =>
              c.pupil \in Pupils /\ c.subject \in Subjects /\ c.row \in ScoreRow
         /\ c.pc = "writing" /\ c.what = "result" => c.pupil \in Pupils /\ c.row \in ResultRow
         /\ c.pc = "writing" /\ c.what = "status" => c.status \in Statuses
<1>1. NoTask.pc = "idle"
  BY DEF NoTask
<1>2. CASE c = NoTask
  BY <1>1, <1>2
<1>3. CASE c \in SavingTask
  BY <1>1, <1>3 DEF SavingTask
<1>4. CASE c \in [pc : {"counting", "totalling"}]
  BY <1>1, <1>4
<1>5. CASE c \in Deciding
  BY <1>1, <1>5 DEF Deciding
<1>6. CASE c \in [pc : {"ranked"}, last : BOOLEAN, rows : Rows]
  BY <1>1, <1>6
<1>7. CASE c \in [pc : {"totalled"}, rows : Rows]
  BY <1>1, <1>7
<1>8. CASE c \in [pc : {"writing"}, what : {"score"}, pupil : Pupils, subject : Subjects,
                  row : ScoreRow]
  BY <1>1, <1>8
<1>9. CASE c \in [pc : {"writing"}, what : {"result"}, pupil : Pupils, row : ResultRow]
  BY <1>1, <1>9
<1>10. CASE c \in [pc : {"writing"}, what : {"status"}, status : Statuses]
  BY <1>1, <1>10
<1> QED BY <1>2, <1>3, <1>4, <1>5, <1>6, <1>7, <1>8, <1>9, <1>10 DEF Task, SavingTask, Deciding

LEMMA TasksMade ==
  /\ NoTask \in Task /\ [pc |-> "counting"] \in Task /\ [pc |-> "totalling"] \in Task
  /\ SavingTask \subseteq Task /\ Deciding \subseteq Task
  /\ \A b \in BOOLEAN, rows \in Rows : [pc |-> "ranked", last |-> b, rows |-> rows] \in Task
  /\ \A rows \in Rows : [pc |-> "totalled", rows |-> rows] \in Task
  /\ \A st \in Pupils, sub \in Subjects, row \in ScoreRow :
       [pc |-> "writing", what |-> "score", pupil |-> st, subject |-> sub, row |-> row] \in Task
  /\ \A st \in Pupils, row \in ResultRow :
       [pc |-> "writing", what |-> "result", pupil |-> st, row |-> row] \in Task
  /\ \A s \in Statuses : [pc |-> "writing", what |-> "status", status |-> s] \in Task
<1>1. NoTask \in Task
  BY DEF Task
<1>2. [pc |-> "counting"] \in Task /\ [pc |-> "totalling"] \in Task
  BY DEF Task
<1>3. SavingTask \subseteq Task
  BY DEF Task, SavingTask
<1>4. Deciding \subseteq Task
  BY DEF Task, Deciding
<1>5. ASSUME NEW b \in BOOLEAN, NEW rows \in Rows
      PROVE  [pc |-> "ranked", last |-> b, rows |-> rows] \in Task
  <2>1. [pc |-> "ranked", last |-> b, rows |-> rows]
          \in [pc : {"ranked"}, last : BOOLEAN, rows : Rows]
    OBVIOUS
  <2> QED BY <2>1 DEF Task
<1>6. ASSUME NEW rows \in Rows PROVE [pc |-> "totalled", rows |-> rows] \in Task
  BY DEF Task
<1>7. ASSUME NEW st \in Pupils, NEW sub \in Subjects, NEW row \in ScoreRow
      PROVE [pc |-> "writing", what |-> "score", pupil |-> st, subject |-> sub, row |-> row] \in Task
  BY DEF Task
<1>8. ASSUME NEW st \in Pupils, NEW row \in ResultRow
      PROVE  [pc |-> "writing", what |-> "result", pupil |-> st, row |-> row] \in Task
  BY DEF Task
<1>9. ASSUME NEW s \in Statuses
      PROVE  [pc |-> "writing", what |-> "status", status |-> s] \in Task
  BY DEF Task
<1> QED BY <1>1, <1>2, <1>3, <1>4, <1>5, <1>6, <1>7, <1>8, <1>9

-----------------------------------------------------------------------------
(* How calls begin: with what they have read, of a sheet that is there.    *)
BeginFits(n) ==
  /\ n # NoTask /\ n.pc \in {"saving", "advancing", "writing"}
  /\ n.pc = "advancing" => n.last /\ (~n.rank => n.to # "PUBLISHED")
  /\ n.pc = "writing" /\ n.what = "score" => result[n.pupil] # NoRow
  /\ LoneReads(n) /\ (Unpublished(n) => sheetStatus # "PUBLISHED")
  /\ sheetStatus # "ABSENT"

Starts(k) ==
  \/ \E sub \in Subjects, given \in Given, submit \in BOOLEAN : SaveScores(k, sub, given, submit)
  \/ SubmitForAdminReview(k) \/ SubmitForPrincipalApproval(k) \/ ReturnResult(k)
  \/ ApproveResult(k) \/ PublishResultSheet(k)
  \/ \E st \in Pupils : \/ SaveResultRemark(k, st)
                        \/ \E sub \in Subjects : SaveTeacherRemark(k, st, sub)
  \/ ArchiveResultSheet(k)

LEMMA DecisionBegins ==
  ASSUME NEW k \in Tasks, NEW to \in Statuses, NEW rank \in BOOLEAN, DecideOnSheet(k, to, rank),
         sheetStatus \notin {"ABSENT", "PUBLISHED"}, to = "PUBLISHED" => rank
  PROVE  \E n \in Task : Begin(k, n) /\ BeginFits(n)
<1>1. PICK n : n = [pc |-> "advancing", to |-> to, rank |-> rank, last |-> TRUE]
  OBVIOUS
<1>2. n \in Deciding
  BY <1>1 DEF Deciding
<1>3. n \in Task
  BY <1>2, TasksMade
<1>4. Begin(k, n)
  BY <1>1 DEF DecideOnSheet
<1>5. n.pc = "advancing" /\ n.last /\ (~n.rank => n.to # "PUBLISHED")
  BY <1>1
<1>6. n # NoTask
  BY <1>3, <1>5, TaskParts
<1> QED BY <1>3, <1>4, <1>5, <1>6 DEF BeginFits, LoneReads

LEMMA ScoresBegin ==
  ASSUME NEW k \in Tasks, NEW sub \in Subjects, NEW given \in Given, NEW submit \in BOOLEAN,
         SaveScores(k, sub, given, submit)
  PROVE  \E n \in Task : Begin(k, n) /\ BeginFits(n)
<1>1. PICK d : d = {st \in DOMAIN given : score[st][sub] # NoRow /\ score[st][sub].submitted}
  OBVIOUS
<1>2. PICK n : n = [pc |-> "saving", subject |-> sub, given |-> given, submit |-> submit,
                    done |-> d]
  OBVIOUS
<1>3. d \in SUBSET Pupils
  <2>1. DOMAIN given \in SUBSET Pupils
    BY DEF Given
  <2> QED BY <1>1, <2>1
<1>4. n \in SavingTask
  BY <1>2, <1>3 DEF SavingTask
<1>5. n \in Task
  BY <1>4, TasksMade
<1>6. Begin(k, n) /\ sheetStatus \notin {"ABSENT", "PUBLISHED"}
  BY <1>1, <1>2 DEF SaveScores, Editable
<1>7. n.pc = "saving"
  BY <1>2
<1>8. n # NoTask
  BY <1>5, <1>7, TaskParts
<1> QED BY <1>5, <1>6, <1>7, <1>8 DEF BeginFits, LoneReads

LEMMA RemarksBegin ==
  ASSUME SheetTypeOK, NEW k \in Tasks, NEW st \in Pupils,
         SaveResultRemark(k, st) \/ \E sub \in Subjects : SaveTeacherRemark(k, st, sub)
  PROVE  \E n \in Task : Begin(k, n) /\ BeginFits(n)
<1>1. CASE SaveResultRemark(k, st)
  <2>1. PICK n : n = [pc |-> "writing", what |-> "result", pupil |-> st, row |-> result[st]]
    OBVIOUS
  <2>2. result[st] \in ResultRow /\ sheetStatus \notin {"ABSENT", "PUBLISHED"} /\ Begin(k, n)
    BY <1>1, <2>1 DEF SaveResultRemark, SheetTypeOK, Editable
  <2>3. n \in Task
    BY <2>1, <2>2, TasksMade
  <2>4. n.pc = "writing" /\ n.what = "result" /\ n.pupil = st /\ n.row = result[st]
    BY <2>1
  <2>5. n # NoTask
    BY <2>3, <2>4, TaskParts
  <2> QED BY <2>2, <2>3, <2>4, <2>5 DEF BeginFits, LoneReads
<1>2. CASE \E sub \in Subjects : SaveTeacherRemark(k, st, sub)
  <2>1. PICK sub \in Subjects : SaveTeacherRemark(k, st, sub)
    BY <1>2
  <2>2. PICK n : n = [pc |-> "writing", what |-> "score", pupil |-> st, subject |-> sub,
                      row |-> score[st][sub]]
    OBVIOUS
  <2>3. score[st][sub] \in ScoreRow /\ sheetStatus \notin {"ABSENT", "PUBLISHED"} /\ Begin(k, n)
    BY <2>1, <2>2 DEF SaveTeacherRemark, SheetTypeOK, Editable
  <2>4. result[st] # NoRow
    BY <2>1 DEF SaveTeacherRemark, SheetTypeOK
  <2>5. n \in Task
    BY <2>2, <2>3, TasksMade
  <2>6. n.pc = "writing" /\ n.what = "score" /\ n.pupil = st /\ n.subject = sub
          /\ n.row = score[st][sub]
    BY <2>2
  <2>7. n # NoTask
    BY <2>5, <2>6, TaskParts
  <2> QED BY <2>3, <2>4, <2>5, <2>6, <2>7 DEF BeginFits, LoneReads
<1> QED BY <1>1, <1>2

LEMMA BeginningsFit ==
  ASSUME SheetTypeOK, NEW k \in Tasks, Starts(k)
  PROVE  \E n \in Task : Begin(k, n) /\ BeginFits(n)
<1>1. CASE \E sub \in Subjects, given \in Given, submit \in BOOLEAN :
             SaveScores(k, sub, given, submit)
  BY <1>1, ScoresBegin
<1>2. CASE SubmitForAdminReview(k) \/ SubmitForPrincipalApproval(k) \/ ReturnResult(k)
  <2>1. PICK to \in {"PENDING_ADMIN_REVIEW", "PENDING_PRINCIPAL_APPROVAL", "RETURNED"} :
          DecideOnSheet(k, to, FALSE) /\ sheetStatus \notin {"ABSENT", "PUBLISHED"}
    BY <1>2 DEF SubmitForAdminReview, SubmitForPrincipalApproval, ReturnResult, Editable
  <2>2. to \in Statuses /\ to # "PUBLISHED"
    BY DEF Statuses
  <2> QED BY <2>1, <2>2, DecisionBegins
<1>3. CASE ApproveResult(k) \/ PublishResultSheet(k)
  <2>1. DecideOnSheet(k, "PUBLISHED", TRUE) /\ sheetStatus \notin {"ABSENT", "PUBLISHED"}
    BY <1>3 DEF ApproveResult, PublishResultSheet, Editable
  <2>2. "PUBLISHED" \in Statuses /\ TRUE \in BOOLEAN
    BY DEF Statuses
  <2> QED BY <2>1, <2>2, DecisionBegins
<1>4. CASE \E st \in Pupils : \/ SaveResultRemark(k, st)
                              \/ \E sub \in Subjects : SaveTeacherRemark(k, st, sub)
  BY <1>4, RemarksBegin
<1>5. CASE ArchiveResultSheet(k)
  <2>1. PICK n : n = [pc |-> "writing", what |-> "status", status |-> sheetStatus]
    OBVIOUS
  <2>2. sheetStatus \in Statuses /\ sheetStatus # "ABSENT" /\ Begin(k, n)
    BY <1>5, <2>1 DEF ArchiveResultSheet, SheetTypeOK
  <2>3. n \in Task
    BY <2>1, <2>2, TasksMade
  <2>4. n.pc = "writing" /\ n.what = "status" /\ n.status = sheetStatus
    BY <2>1
  <2>5. n # NoTask
    BY <2>3, <2>4, TaskParts
  <2> QED BY <2>2, <2>3, <2>4, <2>5 DEF BeginFits, LoneReads, Unpublished
<1> QED BY <1>1, <1>2, <1>3, <1>4, <1>5 DEF Starts

-----------------------------------------------------------------------------
(* How calls go on: a lone one right, and to an end that leaves the sheet  *)
(* right if it is sound.                                                   *)
SheetInv == SheetTypeOK /\ AloneInv /\ TasksFit /\ LoneInv /\ SoundInv

Proceeds(k, n) ==
  /\ n \in Task /\ task[k] # NoTask /\ task' = [task EXCEPT ![k] = n]
  /\ lone' = IF n = NoTask THEN lone \ {k} ELSE lone
  /\ sound' => sound \/ k \in lone
  /\ sheetStatus' # "ABSENT"
  /\ \A st \in Pupils : result[st] # NoRow => result'[st] # NoRow
  /\ n.pc # "writing" /\ (n.pc = "advancing" => n.rank /\ (~n.last => n.to = "SCORES_ENTERED"))
  /\ k \in lone => LoneSaves(n)' /\ (Unpublished(n) => sheetStatus' # "PUBLISHED")
  /\ k \in lone /\ sound' /\ n = NoTask =>
       TotalsRight' /\ (sheetStatus' = "PUBLISHED" => PlacesRight')

LEMMA SheetStands ==
  ASSUME SheetInv, NEW k \in Tasks, NEW c \in Task, c = task[k], c.pc # "idle"
  PROVE  /\ task[k] # NoTask /\ sheetStatus \in Statuses /\ sheetStatus # "ABSENT"
         /\ k \in lone => /\ LoneReads(c) /\ LoneSaves(c)
                          /\ Unpublished(c) => sheetStatus # "PUBLISHED"
         /\ sound => k \in lone
         /\ k \in lone => \A j \in Tasks : j # k => task[j] = NoTask
<1>1. task[k] # NoTask
  BY TaskParts
<1> QED BY <1>1 DEF SheetInv, SheetTypeOK, AloneInv, LoneInv

(* What the sheet says of its students changes with scores and rows only.  *)
LEMMA SheetFrame ==
  ASSUME score' = score, \A st \in Pupils : result'[st] = NoRow <=> result[st] = NoRow
  PROVE  /\ OnSheet' = OnSheet
         /\ \A st : SubjectTotal(st)' = SubjectTotal(st)
         /\ \A st : Percentage(st)' = Percentage(st)
         /\ \A st : Place(st)' = Place(st)
<1>1. OnSheet' = OnSheet
  BY DEF OnSheet
<1>2. \A st : SubjectsOf(st)' = SubjectsOf(st)
  BY DEF SubjectsOf
<1>3. \A st : SubjectTotal(st)' = SubjectTotal(st)
  BY <1>2 DEF SubjectTotal
<1>4. \A st : Obtainable(st)' = Obtainable(st)
  BY <1>2 DEF Obtainable
<1>5. \A st : Percentage(st)' = Percentage(st)
  BY <1>3, <1>4 DEF Percentage
<1>6. \A st : Place(st)' = Place(st)
  BY <1>1, <1>5 DEF Place
<1> QED BY <1>1, <1>3, <1>5, <1>6

LEMMA SheetUnchanged ==
  ASSUME score' = score, result' = result
  PROVE  /\ TotalsRight => TotalsRight'
         /\ PlacesRight => PlacesRight'
         /\ \A c : LoneSaves(c) => LoneSaves(c)'
<1>1. /\ OnSheet' = OnSheet
      /\ \A st : SubjectTotal(st)' = SubjectTotal(st)
      /\ \A st : Place(st)' = Place(st)
  BY SheetFrame
<1>2. TotalsRight => TotalsRight'
  BY <1>1 DEF TotalsRight
<1>3. \A row, st : RightRow(row, st) => RightRow(row, st)'
  BY <1>1 DEF RightRow
<1>4. PlacesRight => PlacesRight'
  BY <1>1 DEF PlacesRight, RightRow
<1>5. ASSUME NEW c, LoneSaves(c) PROVE LoneSaves(c)'
  BY <1>1, <1>5 DEF LoneSaves, RightRow
<1> QED BY <1>2, <1>4, <1>5

LEMMA SaveScoreProceeds ==
  ASSUME SheetInv, NEW k \in Tasks, NEW st \in Pupils, SaveScore(k, st)
  PROVE  SheetTypeOK' /\ \E n : Proceeds(k, n)
<1>1. PICK c \in Task : c = task[k]
  BY DEF SheetInv, SheetTypeOK
<1>2. /\ c.pc = "saving" /\ st \in DOMAIN c.given /\ UNCHANGED <<sheetStatus, sound, lone>>
      /\ score' = [score EXCEPT ![st][c.subject] =
           [total |-> IF c.given[st] = Unset THEN 0 ELSE c.given[st],
            submitted |-> c.submit \/ st \in c.done]]
      /\ result' = WithRow(st)
  BY <1>1 DEF SaveScore, history
<1>3. c \in SavingTask /\ c.subject \in Subjects /\ c.given \in Given /\ c.submit \in BOOLEAN
  BY <1>2, TaskParts DEF SavingTask
<1>4. PICK group \in (SUBSET Pupils) \ {{}} : c.given \in [group -> Scores]
  BY <1>3 DEF Given
<1>5. PICK rest : rest = [s \in DOMAIN c.given \ {st} |-> c.given[s]]
  OBVIOUS
<1>6. DOMAIN rest # {} => rest \in Given
  <2>1. rest \in [group \ {st} -> Scores] /\ DOMAIN rest = group \ {st}
    BY <1>4, <1>5
  <2> QED BY <2>1 DEF Given
<1>7. PICK n : n = IF DOMAIN rest # {} THEN [c EXCEPT !.given = rest]
                   ELSE IF c.submit THEN [pc |-> "counting"] ELSE [pc |-> "totalling"]
  OBVIOUS
<1>8. task' = [task EXCEPT ![k] = n]
  BY <1>1, <1>5, <1>7 DEF SaveScore
<1>9. n \in Task /\ n.pc \in {"saving", "counting", "totalling"}
  <2>1. CASE DOMAIN rest # {}
    <3>1. n \in SavingTask /\ n.pc = "saving"
      BY <1>3, <1>6, <1>7, <2>1 DEF SavingTask
    <3> QED BY <3>1, TasksMade
  <2>2. CASE DOMAIN rest = {}
    BY <1>7, <2>2, TasksMade
  <2> QED BY <2>1, <2>2
<1>10. n # NoTask
  BY <1>9, TaskParts
<1>11. [total |-> IF c.given[st] = Unset THEN 0 ELSE c.given[st],
        submitted |-> c.submit \/ st \in c.done] \in ScoreRow
  <2>1. c.given[st] \in Scores /\ MaxScore \in Nat /\ Scores \subseteq {Unset} \cup 0 .. MaxScore
    BY <1>2, <1>4, SheetAssumption
  <2>2. (IF c.given[st] = Unset THEN 0 ELSE c.given[st]) \in {Unset} \cup 0 .. MaxScore
    BY <2>1
  <2>3. (c.submit \/ st \in c.done) \in BOOLEAN
    OBVIOUS
  <2> QED BY <2>2, <2>3 DEF ScoreRow
<1>12. [total |-> Unset, position |-> Unset] \in ResultRow
  BY DEF ResultRow
<1>13. /\ result' \in [Pupils -> ResultRow \cup {NoRow}] /\ result'[st] # NoRow
       /\ \A s \in Pupils : result[s] # NoRow => result'[s] # NoRow
  <2>1. result \in [Pupils -> ResultRow \cup {NoRow}]
    BY DEF SheetInv, SheetTypeOK
  <2>2. [total |-> Unset, position |-> Unset] # NoRow
    BY <1>12, RowsApart
  <2> QED BY <1>2, <1>12, <2>1, <2>2 DEF WithRow
<1>14. /\ score' \in [Pupils -> [Subjects -> ScoreRow \cup {NoRow}]]
       /\ \A s \in Pupils : s # st => score'[s] = score[s]
  <2>1. score \in [Pupils -> [Subjects -> ScoreRow \cup {NoRow}]]
    BY DEF SheetInv, SheetTypeOK
  <2> QED BY <1>2, <1>3, <1>11, <2>1
<1>15. SheetTypeOK'
  <2>1. task' \in [Tasks -> Task]
    BY <1>8, <1>9 DEF SheetInv, SheetTypeOK
  <2>2. \A s \in Pupils : result'[s] = NoRow => \A sub \in Subjects : score'[s][sub] = NoRow
    BY <1>13, <1>14 DEF SheetInv, SheetTypeOK
  <2> QED BY <1>2, <1>13, <1>14, <2>1, <2>2 DEF SheetInv, SheetTypeOK
<1>16. task[k] # NoTask /\ sheetStatus # "ABSENT"
         /\ (k \in lone => (Unpublished(c) => sheetStatus # "PUBLISHED"))
  BY <1>1, <1>2, SheetStands
<1>17. LoneSaves(n)'
  BY <1>9 DEF LoneSaves
<1>18. Unpublished(c)
  BY <1>2 DEF Unpublished
<1>19. Proceeds(k, n)
  BY <1>2, <1>8, <1>9, <1>10, <1>13, <1>16, <1>17, <1>18 DEF Proceeds
<1> QED BY <1>15, <1>19

LEMMA CountSubmittedProceeds ==
  ASSUME SheetInv, NEW k \in Tasks, CountSubmitted(k)
  PROVE  SheetTypeOK' /\ \E n : Proceeds(k, n)
<1>1. PICK c \in Task : c = task[k]
  BY DEF SheetInv, SheetTypeOK
<1>2. c.pc = "counting" /\ UNCHANGED <<sheetStatus, score, result, sound, lone>>
  BY <1>1 DEF CountSubmitted, tables, history
<1>3. PICK n \in {[pc |-> "advancing", to |-> "SCORES_ENTERED", rank |-> TRUE, last |-> FALSE],
                  [pc |-> "totalling"]} : task' = [task EXCEPT ![k] = n]
  BY DEF CountSubmitted
<1>4. /\ n \in Task /\ n.pc \in {"advancing", "totalling"}
      /\ n.pc = "advancing" => n.rank /\ n.to = "SCORES_ENTERED"
  <2>1. CASE n = [pc |-> "totalling"]
    BY <2>1, TasksMade
  <2>2. CASE n = [pc |-> "advancing", to |-> "SCORES_ENTERED", rank |-> TRUE, last |-> FALSE]
    <3>1. n \in Deciding
      BY <2>2 DEF Deciding, Statuses
    <3> QED BY <2>2, <3>1, TasksMade
  <2> QED BY <1>3, <2>1, <2>2
<1>5. n # NoTask
  BY <1>4, TaskParts
<1>6. SheetTypeOK'
  BY <1>2, <1>3, <1>4 DEF SheetInv, SheetTypeOK
<1>7. task[k] # NoTask /\ sheetStatus # "ABSENT"
        /\ (k \in lone => (Unpublished(c) => sheetStatus # "PUBLISHED"))
  BY <1>1, <1>2, SheetStands
<1>8. LoneSaves(n)' /\ Unpublished(c)
  BY <1>2, <1>4 DEF LoneSaves, Unpublished
<1>9. Proceeds(k, n)
  BY <1>2, <1>3, <1>4, <1>5, <1>7, <1>8 DEF Proceeds
<1> QED BY <1>6, <1>9

LEMMA UpdateStatusProceeds ==
  ASSUME SheetInv, NEW k \in Tasks, UpdateStatus(k)
  PROVE  SheetTypeOK' /\ \E n : Proceeds(k, n)
<1>1. PICK c \in Task : c = task[k]
  BY DEF SheetInv, SheetTypeOK
<1>2. c.pc = "advancing" /\ sheetStatus' = c.to /\ UNCHANGED <<score, result, sound>>
  BY <1>1 DEF UpdateStatus
<1>3. c \in Deciding
  BY <1>2, TaskParts
<1>4. c.to \in Statuses /\ c.to # "ABSENT" /\ c.rank \in BOOLEAN /\ c.last \in BOOLEAN
  BY <1>3 DEF Deciding, Statuses
<1>5. /\ ~c.rank => c.last /\ c.to # "PUBLISHED"
      /\ ~c.last => c.to = "SCORES_ENTERED"
  BY <1>1, <1>2 DEF SheetInv, TasksFit
<1>6. task[k] # NoTask /\ (k \in lone => \A j \in Tasks : j # k => task[j] = NoTask)
  BY <1>1, <1>2, SheetStands
<1>7. ASSUME NEW n \in Task, task' = [task EXCEPT ![k] = n], lone' \subseteq lone
      PROVE  SheetTypeOK'
  BY <1>2, <1>4, <1>7 DEF SheetInv, SheetTypeOK
<1>8. CASE c.rank
  <2>1. PICK n : n = [c EXCEPT !.pc = "ranking"]
    OBVIOUS
  <2>2. n \in Deciding /\ n.pc = "ranking" /\ n.to = c.to /\ n.last = c.last
    BY <1>3, <2>1 DEF Deciding
  <2>3. n \in Task
    BY <2>2, TasksMade
  <2>4. n # NoTask
    BY <2>2, <2>3, TaskParts
  <2>5. task' = [task EXCEPT ![k] = n] /\ lone' = lone
    BY <1>1, <1>8, <2>1 DEF UpdateStatus, GoTo
  <2>6. LoneSaves(n)'
    BY <2>2 DEF LoneSaves
  <2>7. Unpublished(n) => sheetStatus' # "PUBLISHED"
    BY <1>2, <1>5, <2>2 DEF Unpublished
  <2>8. Proceeds(k, n)
    BY <1>2, <1>4, <1>6, <2>2, <2>3, <2>4, <2>5, <2>6, <2>7 DEF Proceeds
  <2> QED BY <1>7, <2>3, <2>5, <2>8
<1>9. CASE ~c.rank
  <2>1. task' = [task EXCEPT ![k] = NoTask] /\ lone' = lone \ {k}
    BY <1>1, <1>9 DEF UpdateStatus, End
  <2>2. NoTask \in Task /\ NoTask.pc = "idle"
    BY TasksMade DEF NoTask
  <2>3. LoneSaves(NoTask)' /\ ~Unpublished(NoTask)
    BY <2>2 DEF LoneSaves, Unpublished
  <2>4. ASSUME k \in lone, sound' PROVE TotalsRight'
    <3>1. Settled
      BY <1>1, <1>2, <1>6, <1>9, <2>2, <2>4 DEF Settled
    <3>2. TotalsRight
      BY <1>2, <2>4, <3>1 DEF SheetInv, SoundInv
    <3> QED BY <1>2, <3>2, SheetUnchanged
  <2>5. Proceeds(k, NoTask)
    BY <1>2, <1>4, <1>5, <1>6, <1>9, <2>1, <2>2, <2>3, <2>4 DEF Proceeds
  <2>6. lone' \subseteq lone
    BY <2>1
  <2> QED BY <1>7, <2>1, <2>2, <2>5, <2>6
<1> QED BY <1>8, <1>9

(* A row is read for each pupil that is on the sheet.                      *)
LEMMA RowsRead ==
  ASSUME SheetTypeOK, NEW R \in [OnSheet -> ResultRow], NEW rows,
         rows = [st \in Pupils |-> IF st \notin OnSheet THEN NoRow ELSE R[st]]
  PROVE  /\ rows \in Rows
         /\ \A st \in Pupils : rows[st] = NoRow <=> result[st] = NoRow
         /\ \A st \in OnSheet : rows[st] = R[st]
<1>1. \A st \in OnSheet : R[st] \in ResultRow /\ R[st] # NoRow /\ st \in Pupils
  BY RowsApart DEF OnSheet
<1>2. rows \in Rows
  BY <1>1 DEF Rows
<1> QED BY <1>1, <1>2 DEF OnSheet

LEMMA ReadForRankingProceeds ==
  ASSUME SheetInv, NEW k \in Tasks, ReadForRanking(k)
  PROVE  SheetTypeOK' /\ \E n : Proceeds(k, n)
<1>1. PICK c \in Task : c = task[k]
  BY DEF SheetInv, SheetTypeOK
<1>2. c.pc = "ranking" /\ UNCHANGED <<sheetStatus, score, result, sound, lone>>
  BY <1>1 DEF ReadForRanking, tables, history
<1>3. c.last \in BOOLEAN
  BY <1>2, TaskParts DEF Deciding
<1>4. PICK R : R = [st \in OnSheet |-> [total |-> SubjectTotal(st), position |-> Positions[st]]]
  OBVIOUS
<1>5. SheetTypeOK
  BY DEF SheetInv
<1>6. ASSUME NEW st \in OnSheet
      PROVE  R[st] \in ResultRow /\ R[st].total = SubjectTotal(st) /\ R[st].position = Place(st)
  <2>1. SubjectTotal(st) \in Nat
    BY <1>5, SubjectTotalTyped DEF OnSheet
  <2>2. Positions[st] = Place(st) /\ Place(st) \in Nat
    BY <1>5, PositionsArePlaces, PlaceTyped
  <2> QED BY <1>4, <2>1, <2>2 DEF ResultRow
<1>7. R \in [OnSheet -> ResultRow]
  BY <1>4, <1>6
<1>8. PICK rows : rows = [st \in Pupils |-> IF st \notin OnSheet THEN NoRow ELSE R[st]]
  OBVIOUS
<1>9. /\ rows \in Rows
      /\ \A st \in Pupils : rows[st] = NoRow <=> result[st] = NoRow
      /\ \A st \in OnSheet : rows[st] = R[st]
  BY <1>5, <1>7, <1>8, RowsRead
<1>10. PICK n : n = [pc |-> "ranked", last |-> c.last, rows |-> rows]
  OBVIOUS
<1>11. task' = [task EXCEPT ![k] = n]
  <2>1. rows = [st \in Pupils |-> IF st \notin OnSheet THEN NoRow ELSE
                  [total |-> SubjectTotal(st), position |-> Positions[st]]]
    BY <1>4, <1>8
  <2> QED BY <1>1, <1>10, <2>1 DEF ReadForRanking
<1>12. n \in Task /\ n.pc = "ranked" /\ n.rows = rows /\ n.last = c.last
  BY <1>3, <1>9, <1>10, TasksMade
<1>13. n # NoTask
  BY <1>12, TaskParts
<1>14. SheetTypeOK'
  BY <1>2, <1>5, <1>11, <1>12 DEF SheetTypeOK
<1>15. LoneSaves(n)
  BY <1>6, <1>9, <1>12 DEF LoneSaves, RightRow, OnSheet
<1>16. LoneSaves(n)'
  BY <1>2, <1>15, SheetUnchanged
<1>17. task[k] # NoTask /\ sheetStatus # "ABSENT"
         /\ (k \in lone => (Unpublished(c) => sheetStatus # "PUBLISHED"))
  BY <1>1, <1>2, SheetStands
<1>18. Unpublished(n) => Unpublished(c)
  BY <1>2, <1>12 DEF Unpublished
<1>19. Proceeds(k, n)
  BY <1>2, <1>11, <1>12, <1>13, <1>16, <1>17, <1>18 DEF Proceeds
<1> QED BY <1>14, <1>19

LEMMA ReadForTotalsProceeds ==
  ASSUME SheetInv, NEW k \in Tasks, ReadForTotals(k)
  PROVE  SheetTypeOK' /\ \E n : Proceeds(k, n)
<1>1. PICK c \in Task : c = task[k]
  BY DEF SheetInv, SheetTypeOK
<1>2. c.pc = "totalling" /\ UNCHANGED <<sheetStatus, score, result, sound, lone>>
  BY <1>1 DEF ReadForTotals, tables, history
<1>3. PICK R : R = [st \in OnSheet |-> [result[st] EXCEPT !.total = SubjectTotal(st)]]
  OBVIOUS
<1>4. SheetTypeOK
  BY DEF SheetInv
<1>5. ASSUME NEW st \in OnSheet PROVE R[st] \in ResultRow /\ R[st].total = SubjectTotal(st)
  <2>1. SubjectTotal(st) \in Nat
    BY <1>4, SubjectTotalTyped DEF OnSheet
  <2>2. result[st] \in ResultRow
    BY <1>4 DEF SheetTypeOK, OnSheet
  <2> QED BY <1>3, <2>1, <2>2 DEF ResultRow
<1>6. R \in [OnSheet -> ResultRow]
  BY <1>3, <1>5
<1>7. PICK rows : rows = [st \in Pupils |-> IF st \notin OnSheet THEN NoRow ELSE R[st]]
  OBVIOUS
<1>8. /\ rows \in Rows
      /\ \A st \in Pupils : rows[st] = NoRow <=> result[st] = NoRow
      /\ \A st \in OnSheet : rows[st] = R[st]
  BY <1>4, <1>6, <1>7, RowsRead
<1>9. PICK n : n = [pc |-> "totalled", rows |-> rows]
  OBVIOUS
<1>10. task' = [task EXCEPT ![k] = n]
  <2>1. rows = [st \in Pupils |-> IF st \notin OnSheet THEN NoRow ELSE
                  [result[st] EXCEPT !.total = SubjectTotal(st)]]
    BY <1>3, <1>7
  <2> QED BY <1>9, <2>1 DEF ReadForTotals
<1>11. n \in Task /\ n.pc = "totalled" /\ n.rows = rows
  BY <1>8, <1>9, TasksMade
<1>12. n # NoTask
  BY <1>11, TaskParts
<1>13. SheetTypeOK'
  BY <1>2, <1>4, <1>10, <1>11 DEF SheetTypeOK
<1>14. LoneSaves(n)
  BY <1>5, <1>8, <1>11 DEF LoneSaves, OnSheet
<1>15. LoneSaves(n)'
  BY <1>2, <1>14, SheetUnchanged
<1>16. task[k] # NoTask /\ sheetStatus # "ABSENT"
         /\ (k \in lone => (Unpublished(c) => sheetStatus # "PUBLISHED"))
  BY <1>1, <1>2, SheetStands
<1>17. Unpublished(c)
  BY <1>2 DEF Unpublished
<1>18. Proceeds(k, n)
  BY <1>2, <1>10, <1>11, <1>12, <1>15, <1>16, <1>17 DEF Proceeds
<1> QED BY <1>13, <1>18

(* What the save of a call's rows leaves: right rows, if the call is lone. *)
LEMMA RowsSaved ==
  ASSUME SheetInv, NEW k \in Tasks, NEW c \in Task, c = task[k], c.pc \in {"ranked", "totalled"},
         SaveRows(k)
  PROVE  /\ result' \in [Pupils -> ResultRow \cup {NoRow}]
         /\ \A st \in Pupils : result[st] # NoRow => result'[st] # NoRow
         /\ k \in lone => TotalsRight' /\ (c.pc = "ranked" => PlacesRight')
<1>1. c.rows \in [Pupils -> ResultRow \cup {NoRow}]
  BY TaskParts DEF Rows
<1>2. result \in [Pupils -> ResultRow \cup {NoRow}] /\ SheetTypeOK
  BY DEF SheetInv, SheetTypeOK
<1>3. /\ \A st \in Pupils : result'[st] = IF c.rows[st] # NoRow THEN c.rows[st] ELSE result[st]
      /\ DOMAIN result' = Pupils /\ score' = score
      /\ result' = [st \in Pupils |-> result'[st]]
  BY DEF SaveRows
<1>4. result' \in [Pupils -> ResultRow \cup {NoRow}]
  BY <1>1, <1>2, <1>3
<1>5. ASSUME k \in lone PROVE TotalsRight' /\ (c.pc = "ranked" => PlacesRight')
  <2>1. LoneSaves(c)
    BY <1>5, SheetStands
  <2>2. \A st \in Pupils : (c.rows[st] = NoRow <=> result[st] = NoRow)
    BY <2>1 DEF LoneSaves
  <2>3. \A st \in Pupils : (result'[st] = NoRow <=> result[st] = NoRow)
    BY <1>3, <2>2
  <2>4. /\ OnSheet' = OnSheet
        /\ \A st : SubjectTotal(st)' = SubjectTotal(st)
        /\ \A st : Place(st)' = Place(st)
    BY <1>3, <2>3, SheetFrame
  <2>5. \A st \in OnSheet : result'[st] = c.rows[st] /\ st \in Pupils /\ result[st] # NoRow
    BY <1>3, <2>2 DEF OnSheet
  <2>6. \A st \in OnSheet : result'[st].total = SubjectTotal(st)
    BY <2>1, <2>5 DEF LoneSaves
  <2>7. \A st \in OnSheet : SubjectTotal(st) \in Nat
    BY <1>2, <2>5, SubjectTotalTyped
  <2>8. \A st \in OnSheet : Points(result'[st]) = SubjectTotal(st)
    BY <2>6, <2>7 DEF Points, Unset
  <2>9. TotalsRight'
    BY <2>4, <2>8 DEF TotalsRight, Points
  <2>10. ASSUME c.pc = "ranked" PROVE PlacesRight'
    <3>1. \A st \in OnSheet : result'[st].position = Place(st)
      BY <2>1, <2>5, <2>10 DEF LoneSaves, RightRow
    <3> QED BY <2>4, <2>6, <3>1 DEF PlacesRight, RightRow
  <2> QED BY <2>9, <2>10
<1>6. \A st \in Pupils : result[st] # NoRow => result'[st] # NoRow
  BY <1>3
<1> QED BY <1>4, <1>5, <1>6

LEMMA SaveRowsTyped ==
  ASSUME SheetInv, NEW k \in Tasks, NEW c \in Task, c = task[k], c.pc \in {"ranked", "totalled"},
         SaveRows(k), NEW n \in Task, task' = [task EXCEPT ![k] = n], lone' \subseteq lone
  PROVE  SheetTypeOK'
<1>1. /\ result' \in [Pupils -> ResultRow \cup {NoRow}]
      /\ \A st \in Pupils : result[st] # NoRow => result'[st] # NoRow
  BY RowsSaved
<1>2. UNCHANGED <<sheetStatus, score>> /\ sound' = (sound \/ k \in lone)
  BY DEF SaveRows
<1>3. sound' \in BOOLEAN
  BY <1>2
<1>4. task' \in [Tasks -> Task] /\ lone' \subseteq Tasks
  BY DEF SheetInv, SheetTypeOK
<1>5. \A st \in Pupils : result'[st] = NoRow => \A sub \in Subjects : score'[st][sub] = NoRow
  BY <1>1, <1>2 DEF SheetInv, SheetTypeOK
<1> QED BY <1>1, <1>2, <1>3, <1>4, <1>5 DEF SheetInv, SheetTypeOK

LEMMA SavePositionsProceeds ==
  ASSUME SheetInv, NEW k \in Tasks, SavePositions(k)
  PROVE  SheetTypeOK' /\ \E n : Proceeds(k, n)
<1>1. PICK c \in Task : c = task[k]
  BY DEF SheetInv, SheetTypeOK
<1>2. c.pc = "ranked" /\ SaveRows(k)
  BY <1>1 DEF SavePositions
<1>3. /\ \A st \in Pupils : result[st] # NoRow => result'[st] # NoRow
      /\ k \in lone => TotalsRight' /\ PlacesRight'
  BY <1>1, <1>2, RowsSaved
<1>4. (sound' => sound \/ k \in lone) /\ sheetStatus' = sheetStatus
  BY <1>2 DEF SaveRows
<1>5. task[k] # NoTask /\ sheetStatus # "ABSENT"
        /\ (k \in lone => (Unpublished(c) => sheetStatus # "PUBLISHED"))
  BY <1>1, <1>2, SheetStands
<1>6. PICK n : n = IF c.last THEN NoTask ELSE [pc |-> "totalling"]
  OBVIOUS
<1>7. /\ task' = [task EXCEPT ![k] = n]
      /\ lone' = IF c.last THEN lone \ {k} ELSE lone
  BY <1>1, <1>6 DEF SavePositions, End, GoTo
<1>8. /\ n \in Task /\ (~c.last => n.pc = "totalling") /\ (c.last => n = NoTask)
      /\ n.pc \in {"idle", "totalling"}
  BY <1>6, TasksMade DEF NoTask
<1>9. n = NoTask <=> c.last
  BY <1>8, TaskParts
<1>10. lone' = (IF n = NoTask THEN lone \ {k} ELSE lone) /\ lone' \subseteq lone
  BY <1>7, <1>9
<1>11. SheetTypeOK'
  BY <1>1, <1>2, <1>7, <1>8, <1>10, SaveRowsTyped
<1>12. LoneSaves(n)' /\ (Unpublished(n) => Unpublished(c))
  BY <1>2, <1>8, <1>9 DEF LoneSaves, Unpublished, NoTask
<1>13. Proceeds(k, n)
  BY <1>3, <1>4, <1>5, <1>7, <1>8, <1>10, <1>12 DEF Proceeds
<1> QED BY <1>11, <1>13

LEMMA SaveTotalsProceeds ==
  ASSUME SheetInv, NEW k \in Tasks, SaveTotals(k)
  PROVE  SheetTypeOK' /\ \E n : Proceeds(k, n)
<1>1. PICK c \in Task : c = task[k]
  BY DEF SheetInv, SheetTypeOK
<1>2. c.pc = "totalled" /\ SaveRows(k)
  BY <1>1 DEF SaveTotals
<1>3. /\ \A st \in Pupils : result[st] # NoRow => result'[st] # NoRow
      /\ k \in lone => TotalsRight'
  BY <1>1, <1>2, RowsSaved
<1>4. (sound' => sound \/ k \in lone) /\ sheetStatus' = sheetStatus
  BY <1>2 DEF SaveRows
<1>5. task[k] # NoTask /\ sheetStatus # "ABSENT"
        /\ (k \in lone => (Unpublished(c) => sheetStatus # "PUBLISHED"))
  BY <1>1, <1>2, SheetStands
<1>6. task' = [task EXCEPT ![k] = NoTask] /\ lone' = lone \ {k} /\ lone' \subseteq lone
  BY DEF SaveTotals, End
<1>7. NoTask \in Task /\ NoTask.pc = "idle"
  BY TasksMade DEF NoTask
<1>8. SheetTypeOK'
  BY <1>1, <1>2, <1>6, <1>7, SaveRowsTyped
<1>9. LoneSaves(NoTask)' /\ ~Unpublished(NoTask) /\ Unpublished(c)
  BY <1>2, <1>7 DEF LoneSaves, Unpublished
<1>10. Proceeds(k, NoTask)
  BY <1>3, <1>4, <1>5, <1>6, <1>7, <1>9 DEF Proceeds
<1> QED BY <1>8, <1>10

(* A call that ends, whatever it writes last.                              *)
LEMMA EndProceeds ==
  ASSUME SheetInv, NEW k \in Tasks, task[k] # NoTask, End(k), sound' => sound,
         sheetStatus' # "ABSENT", \A st \in Pupils : result[st] # NoRow => result'[st] # NoRow,
         k \in lone /\ sound' => TotalsRight' /\ (sheetStatus' = "PUBLISHED" => PlacesRight')
  PROVE  Proceeds(k, NoTask)
<1>1. task' = [task EXCEPT ![k] = NoTask] /\ lone' = lone \ {k}
  BY DEF End
<1>2. NoTask \in Task /\ NoTask.pc = "idle"
  BY TasksMade DEF NoTask
<1>3. LoneSaves(NoTask)' /\ ~Unpublished(NoTask)
  BY <1>2 DEF LoneSaves, Unpublished
<1> QED BY <1>1, <1>2, <1>3 DEF Proceeds

LEMMA WriteBackTyped ==
  ASSUME SheetInv, NEW k \in Tasks, NEW c \in Task, c = task[k], WriteBack(k)
  PROVE  /\ SheetTypeOK' /\ sheetStatus' # "ABSENT"
         /\ \A st \in Pupils : result[st] # NoRow => result'[st] # NoRow
<1>1. c.pc = "writing" /\ sound' = sound /\ End(k)
  BY DEF WriteBack
<1>2. /\ score \in [Pupils -> [Subjects -> ScoreRow \cup {NoRow}]]
      /\ result \in [Pupils -> ResultRow \cup {NoRow}]
      /\ \A st \in Pupils : result[st] = NoRow => \A sub \in Subjects : score[st][sub] = NoRow
      /\ sheetStatus \in Statuses /\ sheetStatus # "ABSENT"
  BY <1>1, SheetStands DEF SheetInv, SheetTypeOK
<1>3. task' \in [Tasks -> Task] /\ lone' \subseteq Tasks /\ sound' \in BOOLEAN
  BY <1>1, TasksMade DEF End, SheetInv, SheetTypeOK
<1>4. CASE c.what = "score"
  <2>1. /\ score' = [score EXCEPT ![c.pupil][c.subject] = c.row]
        /\ UNCHANGED <<sheetStatus, result>>
    BY <1>4 DEF WriteBack
  <2>2. c.pupil \in Pupils /\ c.subject \in Subjects /\ c.row \in ScoreRow
    BY <1>1, <1>4, TaskParts
  <2>3. result[c.pupil] # NoRow
    BY <1>1, <1>4 DEF SheetInv, TasksFit
  <2>4. score' \in [Pupils -> [Subjects -> ScoreRow \cup {NoRow}]]
    BY <1>2, <2>1, <2>2
  <2>5. \A st \in Pupils : st # c.pupil => score'[st] = score[st]
    BY <1>2, <2>1
  <2>6. \A st \in Pupils : result'[st] = NoRow => \A sub \in Subjects : score'[st][sub] = NoRow
    BY <1>2, <2>1, <2>3, <2>5
  <2> QED BY <1>2, <1>3, <2>1, <2>4, <2>6 DEF SheetTypeOK
<1>5. CASE c.what = "result"
  <2>1. result' = [result EXCEPT ![c.pupil] = c.row] /\ UNCHANGED <<sheetStatus, score>>
    BY <1>5 DEF WriteBack
  <2>2. c.pupil \in Pupils /\ c.row \in ResultRow /\ c.row # NoRow
    BY <1>1, <1>5, TaskParts, RowsApart
  <2>3. result' \in [Pupils -> ResultRow \cup {NoRow}]
          /\ \A st \in Pupils : result[st] # NoRow => result'[st] # NoRow
    BY <1>2, <2>1, <2>2
  <2>4. \A st \in Pupils : result'[st] = NoRow => \A sub \in Subjects : score'[st][sub] = NoRow
    BY <1>2, <2>1, <2>3
  <2> QED BY <1>2, <1>3, <2>1, <2>3, <2>4 DEF SheetTypeOK
<1>6. CASE c.what = "status"
  <2>1. sheetStatus' = c.status /\ UNCHANGED <<score, result>>
    BY <1>6 DEF WriteBack
  <2>2. c.status \in Statuses /\ "ABSENT" \notin Statuses
    BY <1>1, <1>6, TaskParts DEF Statuses
  <2> QED BY <1>2, <1>3, <2>1, <2>2 DEF SheetTypeOK
<1> QED BY <1>1, <1>4, <1>5, <1>6, TaskParts

LEMMA WriteBackProceeds ==
  ASSUME SheetInv, NEW k \in Tasks, WriteBack(k)
  PROVE  SheetTypeOK' /\ \E n : Proceeds(k, n)
<1>1. PICK c \in Task : c = task[k]
  BY DEF SheetInv, SheetTypeOK
<1>2. c.pc = "writing" /\ sound' = sound /\ End(k)
  BY <1>1 DEF WriteBack
<1>3. /\ SheetTypeOK' /\ sheetStatus' # "ABSENT"
      /\ \A st \in Pupils : result[st] # NoRow => result'[st] # NoRow
  BY <1>1, WriteBackTyped
<1>4. /\ task[k] # NoTask
      /\ k \in lone => LoneReads(c) /\ \A j \in Tasks : j # k => task[j] = NoTask
  BY <1>1, <1>2, SheetStands
<1>5. ASSUME k \in lone PROVE UNCHANGED <<sheetStatus, score, result>>
  <2>1. LoneReads(c)
    BY <1>4, <1>5
  <2>2. /\ score \in [Pupils -> [Subjects -> ScoreRow \cup {NoRow}]]
        /\ result \in [Pupils -> ResultRow \cup {NoRow}]
    BY DEF SheetInv, SheetTypeOK
  <2>3. CASE c.what = "score"
    <3>1. c.pupil \in Pupils /\ c.subject \in Subjects /\ c.row = score[c.pupil][c.subject]
      BY <1>2, <2>1, <2>3, TaskParts DEF LoneReads
    <3>2. score' = [score EXCEPT ![c.pupil][c.subject] = c.row] /\ UNCHANGED <<sheetStatus, result>>
      BY <1>1, <2>3 DEF WriteBack
    <3> QED BY <2>2, <3>1, <3>2
  <2>4. CASE c.what = "result"
    <3>1. c.pupil \in Pupils /\ c.row = result[c.pupil]
      BY <1>2, <2>1, <2>4, TaskParts DEF LoneReads
    <3>2. result' = [result EXCEPT ![c.pupil] = c.row] /\ UNCHANGED <<sheetStatus, score>>
      BY <1>1, <2>4 DEF WriteBack
    <3> QED BY <2>2, <3>1, <3>2
  <2>5. CASE c.what = "status"
    BY <1>1, <1>2, <2>1, <2>5 DEF WriteBack, LoneReads
  <2> QED BY <1>2, <2>3, <2>4, <2>5, TaskParts
<1>6. ASSUME k \in lone, sound'
      PROVE  TotalsRight' /\ (sheetStatus' = "PUBLISHED" => PlacesRight')
  <2>1. NoTask.pc = "idle"
    BY DEF NoTask
  <2>2. Settled
    BY <1>1, <1>2, <1>4, <1>6, <2>1 DEF Settled
  <2>3. TotalsRight /\ (sheetStatus = "PUBLISHED" => PlacesRight)
    BY <1>2, <1>6, <2>2 DEF SheetInv, SoundInv
  <2> QED BY <1>5, <1>6, <2>3, SheetUnchanged
<1>7. Proceeds(k, NoTask)
  BY <1>2, <1>3, <1>4, <1>6, EndProceeds
<1> QED BY <1>3, <1>7

LEMMA CutShortProceeds ==
  ASSUME SheetInv, NEW k \in Tasks, CutShort(k)
  PROVE  SheetTypeOK' /\ \E n : Proceeds(k, n)
<1>1. task[k] # NoTask /\ End(k) /\ ~sound' /\ UNCHANGED <<sheetStatus, score, result>>
        /\ sound' = FALSE
  BY DEF CutShort, tables
<1>2. sheetStatus # "ABSENT"
  BY <1>1 DEF SheetInv, AloneInv
<1>3. SheetTypeOK'
  BY <1>1, TasksMade DEF End, SheetInv, SheetTypeOK
<1>4. Proceeds(k, NoTask)
  BY <1>1, <1>2, EndProceeds
<1> QED BY <1>3, <1>4

-----------------------------------------------------------------------------
(* The invariant.                                                          *)
LEMMA SheetInvInit == SheetInit => SheetInv
<1> SUFFICES ASSUME SheetInit PROVE SheetInv
  OBVIOUS
<1>1. NoTask \in Task /\ NoTask.pc = "idle"
  BY TasksMade DEF NoTask
<1>2. SheetTypeOK
  BY <1>1 DEF SheetInit, SheetTypeOK
<1>3. AloneInv
  BY DEF SheetInit, AloneInv
<1>4. TasksFit
  BY <1>1 DEF SheetInit, TasksFit
<1>5. LoneInv
  BY DEF SheetInit, LoneInv
<1>6. SoundInv
  BY DEF SheetInit, SoundInv, TotalsRight, OnSheet
<1> QED BY <1>2, <1>3, <1>4, <1>5, <1>6 DEF SheetInv

LEMMA CreationKeepsSheetInv ==
  ASSUME SheetInv, NEW class \in SUBSET Pupils, CreateResultSheet(class) PROVE SheetInv'
<1>1. /\ sheetStatus = "ABSENT" /\ sheetStatus' = "DRAFT" /\ UNCHANGED <<sound, lone, task>>
      /\ result' = [st \in Pupils |->
            IF st \in class THEN [total |-> Unset, position |-> Unset] ELSE NoRow]
      /\ score' = [st \in Pupils |-> [sub \in Subjects |->
            IF st \in class THEN [total |-> Unset, submitted |-> FALSE] ELSE NoRow]]
  BY DEF CreateResultSheet, history
<1>2. \A k \in Tasks : task[k] = NoTask /\ task'[k] = NoTask
  BY <1>1 DEF SheetInv, AloneInv
<1>3. NoTask \in Task /\ NoTask.pc = "idle"
  BY TasksMade DEF NoTask
<1>4. /\ [total |-> Unset, position |-> Unset] \in ResultRow
      /\ [total |-> Unset, submitted |-> FALSE] \in ScoreRow
  BY DEF ResultRow, ScoreRow
<1>5. SheetTypeOK'
  <2>1. "DRAFT" \in Statuses
    BY DEF Statuses
  <2>2. result' \in [Pupils -> ResultRow \cup {NoRow}]
    BY <1>1, <1>4
  <2>3. score' \in [Pupils -> [Subjects -> ScoreRow \cup {NoRow}]]
    BY <1>1, <1>4
  <2>4. \A st \in Pupils : result'[st] = NoRow => \A sub \in Subjects : score'[st][sub] = NoRow
    BY <1>1, <1>4, RowsApart
  <2> QED BY <1>1, <2>1, <2>2, <2>3, <2>4 DEF SheetInv, SheetTypeOK
<1>6. AloneInv' /\ TasksFit' /\ LoneInv'
  <2>1. AloneInv'
    BY <1>1, <1>2 DEF SheetInv, AloneInv
  <2>2. TasksFit'
    BY <1>2, <1>3 DEF TasksFit
  <2>3. lone \subseteq Tasks
    BY DEF SheetInv, SheetTypeOK
  <2>4. LoneReads(NoTask)' /\ LoneSaves(NoTask)' /\ ~Unpublished(NoTask)
    BY <1>3 DEF LoneReads, LoneSaves, Unpublished
  <2>5. LoneInv'
    BY <1>1, <1>2, <2>3, <2>4 DEF LoneInv
  <2> QED BY <2>1, <2>2, <2>5
<1>7. ASSUME NEW st \in Pupils, result'[st] # NoRow
      PROVE  Points(result'[st]) = 0 /\ SubjectTotal(st)' = 0
  <2>1. st \in class
    BY <1>1, <1>7
  <2>2. Points(result'[st]) = 0
    BY <1>1, <2>1 DEF Points
  <2>3. PICK U : U = SubjectsOf(st)'
    OBVIOUS
  <2>4. U \subseteq Subjects /\ IsFiniteSet(U)
    BY <2>3, SheetAssumption, FS_Subset DEF SubjectsOf
  <2>5. PICK A : A = [sub \in U |-> Points(score'[st][sub])]
    OBVIOUS
  <2>6. \A sub \in U : A[sub] = 0
    BY <1>1, <2>1, <2>4, <2>5 DEF Points
  <2>7. A \in [U -> Nat]
    BY <2>5, <2>6
  <2>8. TotalOf(A) = 0
    BY <2>4, <2>6, <2>7, TotalOfNaturals
  <2>9. SubjectTotal(st)' = TotalOf(A)
    BY <2>3, <2>5 DEF SubjectTotal, Points
  <2> QED BY <2>2, <2>8, <2>9
<1>8. SoundInv'
  <2>1. TotalsRight'
    BY <1>7 DEF TotalsRight, OnSheet, Points
  <2> QED BY <1>1, <2>1 DEF SoundInv
<1> QED BY <1>5, <1>6, <1>8 DEF SheetInv

LEMMA BeginKeepsSheetInv ==
  ASSUME SheetInv, NEW k \in Tasks, NEW n \in Task, Begin(k, n), BeginFits(n)
  PROVE  SheetInv'
<1>1. PICK clear \in BOOLEAN : clear = \A other \in Tasks : task[other] = NoTask
  OBVIOUS
<1>2. /\ task' = [task EXCEPT ![k] = n] /\ UNCHANGED <<sheetStatus, score, result>>
      /\ clear => lone' = {k} /\ sound' = sound
      /\ ~clear => lone' = {} /\ sound' = FALSE
  BY <1>1 DEF Begin, tables
<1>3. task \in [Tasks -> Task] /\ sound \in BOOLEAN
  BY DEF SheetInv, SheetTypeOK
<1>4. task'[k] = n /\ \A j \in Tasks : j # k => task'[j] = task[j]
  BY <1>2, <1>3
<1>5. SheetTypeOK'
  <2>1. lone' \subseteq Tasks /\ sound' \in BOOLEAN
    BY <1>2, <1>3
  <2> QED BY <1>2, <2>1 DEF SheetInv, SheetTypeOK
<1>6. AloneInv'
  BY <1>1, <1>2, <1>4 DEF AloneInv, BeginFits
<1>7. TasksFit'
  <2>1. /\ n.pc = "advancing" => n.last /\ (~n.rank => n.to # "PUBLISHED")
        /\ n.pc = "writing" /\ n.what = "score" => result[n.pupil] # NoRow
    BY DEF BeginFits
  <2> QED BY <1>2, <1>4, <2>1 DEF SheetInv, TasksFit
<1>8. LoneInv'
  <2>1. LoneReads(n)' /\ (Unpublished(n) => sheetStatus' # "PUBLISHED")
    BY <1>2 DEF BeginFits, LoneReads
  <2>2. LoneSaves(n)'
    BY DEF BeginFits, LoneSaves
  <2>3. \A j \in lone' : j = k
    BY <1>2
  <2> QED BY <1>4, <2>1, <2>2, <2>3 DEF LoneInv
<1>9. ASSUME sound' PROVE TotalsRight' /\ (sheetStatus' = "PUBLISHED" => PlacesRight')
  <2>1. clear /\ sound
    BY <1>2, <1>9
  <2>2. NoTask.pc = "idle"
    BY DEF NoTask
  <2>3. Settled
    BY <1>1, <2>1, <2>2 DEF Settled
  <2>4. TotalsRight /\ (sheetStatus = "PUBLISHED" => PlacesRight)
    BY <2>1, <2>3 DEF SheetInv, SoundInv
  <2> QED BY <1>2, <2>4, SheetUnchanged
<1>10. SoundInv'
  BY <1>9 DEF SoundInv
<1> QED BY <1>5, <1>6, <1>7, <1>8, <1>10 DEF SheetInv

LEMMA ProceedingKeepsSheetInv ==
  ASSUME SheetInv, SheetTypeOK', NEW k \in Tasks, NEW n, Proceeds(k, n) PROVE SheetInv'
<1>1. /\ n \in Task /\ task[k] # NoTask /\ task' = [task EXCEPT ![k] = n]
      /\ lone' = (IF n = NoTask THEN lone \ {k} ELSE lone)
      /\ sound' => sound \/ k \in lone
      /\ sheetStatus' # "ABSENT"
      /\ \A st \in Pupils : result[st] # NoRow => result'[st] # NoRow
  BY DEF Proceeds
<1>2. task'[k] = n /\ \A j \in Tasks : j # k => task'[j] = task[j]
  BY <1>1 DEF SheetInv, SheetTypeOK
<1>3. \A j \in lone : j = k
  BY <1>1 DEF SheetInv, AloneInv
<1>4. sound' => k \in lone /\ \A j \in Tasks : j # k => task[j] = NoTask
  BY <1>1 DEF SheetInv, AloneInv
<1>5. AloneInv'
  <2>1. \A j \in lone', i \in Tasks : i # j => task'[i] = NoTask
    BY <1>1, <1>2, <1>3 DEF SheetInv, AloneInv
  <2>2. sound' => \A j \in Tasks : task'[j] # NoTask => j \in lone'
    BY <1>1, <1>2, <1>4
  <2> QED BY <1>1, <2>1, <2>2 DEF AloneInv
<1>6. /\ n.pc # "writing"
      /\ n.pc = "advancing" => n.rank /\ (~n.last => n.to = "SCORES_ENTERED")
  BY DEF Proceeds
<1>7. TasksFit'
  <2>1. ASSUME NEW j \in Tasks, NEW c \in Task, c = task'[j]
        PROVE  /\ c.pc = "advancing" /\ ~c.rank => c.last /\ c.to # "PUBLISHED"
               /\ c.pc = "advancing" /\ ~c.last => c.to = "SCORES_ENTERED"
               /\ c.pc = "writing" /\ c.what = "score" => result'[c.pupil] # NoRow
    <3>1. CASE j = k
      BY <1>2, <1>6, <2>1, <3>1
    <3>2. CASE j # k
      <4>1. c = task[j]
        BY <1>2, <2>1, <3>2
      <4>2. /\ c.pc = "advancing" /\ ~c.rank => c.last /\ c.to # "PUBLISHED"
            /\ c.pc = "advancing" /\ ~c.last => c.to = "SCORES_ENTERED"
            /\ c.pc = "writing" /\ c.what = "score" => result[c.pupil] # NoRow
        BY <4>1 DEF SheetInv, TasksFit
      <4> QED BY <1>1, <4>2, TaskParts
    <3> QED BY <3>1, <3>2
  <2> QED BY <2>1 DEF TasksFit
<1>8. LoneInv'
  <2>1. \A j \in lone' : j = k /\ k \in lone
    BY <1>1, <1>3
  <2>2. k \in lone => LoneSaves(n)' /\ (Unpublished(n) => sheetStatus' # "PUBLISHED")
    BY DEF Proceeds
  <2>3. LoneReads(n)'
    BY <1>6 DEF LoneReads
  <2> QED BY <1>2, <2>1, <2>2, <2>3 DEF LoneInv
<1>9. ASSUME sound', Settled'
      PROVE  TotalsRight' /\ (sheetStatus' = "PUBLISHED" => PlacesRight')
  <2>1. n.pc \in {"idle", "writing"} \/ (n.pc = "advancing" /\ ~n.rank)
    BY <1>1, <1>2, <1>9 DEF Settled
  <2>2. n = NoTask
    BY <1>1, <1>6, <2>1, TaskParts
  <2> QED BY <1>4, <1>9, <2>2 DEF Proceeds
<1>10. SoundInv'
  BY <1>9 DEF SoundInv
<1> QED BY <1>5, <1>7, <1>8, <1>10 DEF SheetInv

LEMMA SheetInvStutters == ASSUME SheetInv, UNCHANGED sheetVars PROVE SheetInv'
<1>1. UNCHANGED <<sheetStatus, score, result, sound, lone, task>>
  BY DEF sheetVars
<1>2. SheetTypeOK' /\ AloneInv' /\ TasksFit'
  BY <1>1 DEF SheetInv, SheetTypeOK, AloneInv, TasksFit
<1>3. \A c : LoneReads(c) => LoneReads(c)'
  BY <1>1 DEF LoneReads
<1>4. \A c : LoneSaves(c) => LoneSaves(c)'
  BY <1>1, SheetUnchanged
<1>5. LoneInv'
  BY <1>1, <1>3, <1>4 DEF SheetInv, LoneInv
<1>6. Settled' => Settled
  BY <1>1 DEF Settled
<1>7. SoundInv'
  BY <1>1, <1>6, SheetUnchanged DEF SheetInv, SoundInv
<1> QED BY <1>2, <1>5, <1>7 DEF SheetInv

GoesOn(k) ==
  \/ \E st \in Pupils : SaveScore(k, st)
  \/ CountSubmitted(k) \/ UpdateStatus(k) \/ ReadForRanking(k) \/ SavePositions(k)
  \/ ReadForTotals(k) \/ SaveTotals(k) \/ WriteBack(k) \/ CutShort(k)

LEMMA SheetInvStep == ASSUME SheetInv, [SheetNext]_sheetVars PROVE SheetInv'
<1>1. CASE \E class \in SUBSET Pupils : CreateResultSheet(class)
  BY <1>1, CreationKeepsSheetInv
<1>2. ASSUME NEW k \in Tasks, Starts(k) PROVE SheetInv'
  <2>1. SheetTypeOK
    BY DEF SheetInv
  <2>2. PICK n \in Task : Begin(k, n) /\ BeginFits(n)
    BY <1>2, <2>1, BeginningsFit
  <2> QED BY <2>2, BeginKeepsSheetInv
<1>3. ASSUME NEW k \in Tasks, GoesOn(k) PROVE SheetInv'
  <2>1. SheetTypeOK' /\ \E n : Proceeds(k, n)
    BY <1>3, SaveScoreProceeds, CountSubmittedProceeds, UpdateStatusProceeds,
       ReadForRankingProceeds, SavePositionsProceeds, ReadForTotalsProceeds,
       SaveTotalsProceeds, WriteBackProceeds, CutShortProceeds DEF GoesOn
  <2> QED BY <2>1, ProceedingKeepsSheetInv
<1>4. CASE UNCHANGED sheetVars
  BY <1>4, SheetInvStutters
<1>5. SheetNext => \/ \E class \in SUBSET Pupils : CreateResultSheet(class)
                   \/ \E k \in Tasks : Starts(k) \/ GoesOn(k)
  BY Zenon DEF SheetNext, Starts, GoesOn
<1> QED BY <1>1, <1>2, <1>3, <1>4, <1>5

LEMMA SheetInvAlways == SheetSpec => []SheetInv
<1>1. SheetInv /\ [SheetNext]_sheetVars => SheetInv'
  BY SheetInvStep
<1> QED BY <1>1, SheetInvInit, PTL DEF SheetSpec

(* The tables, the place and the memory of every call stay of their types, *)
(* and no score is recorded of a pupil who is not on the sheet.            *)
THEOREM SheetTypeCorrect == SheetSpec => []SheetTypeOK
<1>1. SheetInv => SheetTypeOK
  BY DEF SheetInv
<1> QED BY <1>1, SheetInvAlways, PTL

LEMMA IdlingIsSettled == ASSUME SheetInv, Idling, sound
                         PROVE  TotalsRight /\ (sheetStatus = "PUBLISHED" => PlacesRight)
<1>1. NoTask.pc = "idle"
  BY DEF NoTask
<1>2. Settled
  BY <1>1 DEF Idling, Settled
<1> QED BY <1>2 DEF SheetInv, SoundInv

(* Whatever calls overlapped or were cut short before, one that runs alone *)
(* and to its end leaves every pupil's total the sum of the scores on the  *)
(* sheet, and it stays so until calls overlap or are cut short again.      *)
THEOREM SoundTotalsAddUpAlways == SheetSpec => []SoundTotalsAddUp
<1>1. SheetInv => SoundTotalsAddUp
  BY IdlingIsSettled DEF SoundTotalsAddUp, TotalsRight
<1> QED BY <1>1, SheetInvAlways, PTL

(* Rounding and grading lose order, and do not turn it round.              *)
LEMMA Products ==
  /\ \A a, b, c \in Nat : a <= b => a * c <= b * c
  /\ \A a, b, c \in Nat : c > 0 /\ a < b => a * c < b * c
  /\ \A a, b, c \in Nat : a * c < b * c => a < b
  /\ \A a, b, c \in Nat : (a * b) * c = (a * c) * b /\ a * b = b * a /\ a * b \in Nat
<1>1. \A a, b, c \in Nat : a <= b => a * c <= b * c
  OBVIOUS
<1>2. \A a, b, c \in Nat : c > 0 /\ a < b => a * c < b * c
  OBVIOUS
<1>3. \A a, b, c \in Nat : a * c < b * c => a < b
  OBVIOUS
<1>4. \A a, b, c \in Nat : (a * b) * c = (a * c) * b /\ a * b = b * a /\ a * b \in Nat
  OBVIOUS
<1> QED BY <1>1, <1>2, <1>3, <1>4

LEMMA HigherIsMore ==
  ASSUME NEW a \in Nat, NEW b \in Nat, NEW m \in Nat, NEW n \in Nat, NEW p \in Nat, NEW q \in Nat,
         m > 0, n > 0, q < p, 2 * m * p <= 20000 * a + m, 20000 * b + n < 2 * n * (q + 1)
  PROVE  b * m < a * n
<1>1. PICK w \in Nat, x \in Nat, y \in Nat, z \in Nat :
        w = a * n /\ x = b * m /\ y = m * n /\ z = y * p
  BY Products
<1>2. 2 * z <= 20000 * w + y
  <2>1. (2 * m * p) * n <= (20000 * a + m) * n
    BY Products
  <2>2. (2 * m * p) * n = 2 * z /\ (20000 * a + m) * n = 20000 * w + y
    BY <1>1
  <2> QED BY <2>1, <2>2
<1>3. 20000 * x + y < 2 * z
  <2>1. (20000 * b + n) * m < (2 * n * (q + 1)) * m
    BY Products
  <2>2. q + 1 <= p
    OBVIOUS
  <2>3. (q + 1) * y <= p * y
    BY <1>1, <2>2, Products
  <2>4. (20000 * b + n) * m = 20000 * x + y /\ (2 * n * (q + 1)) * m = 2 * ((q + 1) * y)
    BY <1>1
  <2>5. p * y = z
    BY <1>1, Products
  <2>6. (q + 1) * y \in Nat
    BY <1>1, Products
  <2> QED BY <1>1, <2>1, <2>3, <2>4, <2>5, <2>6
<1>4. x < w
  BY <1>1, <1>2, <1>3
<1> QED BY <1>1, <1>4

LEMMA GradeFollows ==
  ASSUME NEW a \in Nat, NEW b \in Nat, NEW m \in Nat, NEW n \in Nat, m > 0, n > 0, b * m < a * n
  PROVE  Grade(a, m) <= Grade(b, n)
<1>1. PICK A, B : /\ A = {i \in DOMAIN WAECBounds : 100 * a < WAECBounds[i] * m}
                  /\ B = {i \in DOMAIN WAECBounds : 100 * b < WAECBounds[i] * n}
  OBVIOUS
<1>2. ASSUME NEW w \in Nat, 100 * a < w * m PROVE 100 * b < w * n
  <2>1. (100 * a) * n < (w * m) * n
    BY <1>2, Products
  <2>2. (100 * b) * m < (100 * a) * n
    <3>1. b * m \in Nat /\ a * n \in Nat
      BY Products
    <3>2. (100 * b) * m = 100 * (b * m) /\ (100 * a) * n = 100 * (a * n)
      OBVIOUS
    <3> QED BY <3>1, <3>2
  <2>3. (w * m) * n = (w * n) * m
    BY Products
  <2>4. (100 * b) * m < (w * n) * m
    <3>1. (100 * b) * m \in Nat /\ (100 * a) * n \in Nat /\ (w * n) * m \in Nat
      BY Products
    <3> QED BY <2>1, <2>2, <2>3, <3>1
  <2>5. 100 * b \in Nat /\ w * n \in Nat
    BY Products
  <2> QED BY <2>4, <2>5, Products
<1>3. \A i \in DOMAIN WAECBounds : WAECBounds[i] \in Nat
  BY DEF WAECBounds
<1>4. A \subseteq B
  BY <1>1, <1>2, <1>3
<1>5. IsFiniteSet(B)
  <2>1. DOMAIN WAECBounds = 1 .. 8
    BY DEF WAECBounds
  <2>2. PICK k \in Nat : DOMAIN WAECBounds = 1 .. k
    BY <2>1
  <2>3. IsFiniteSet(DOMAIN WAECBounds)
    <3>1. IsFiniteSet(1 .. k)
      BY FS_Interval
    <3> QED BY <2>2, <3>1
  <2>4. B \in SUBSET DOMAIN WAECBounds
    BY <1>1
  <2> QED BY <2>3, <2>4, FS_Subset
<1>6. Cardinality(A) <= Cardinality(B) /\ Cardinality(A) \in Nat /\ Cardinality(B) \in Nat
  BY <1>4, <1>5, FS_Subset, FS_CardinalityType
<1> QED BY <1>1, <1>6 DEF Grade

LEMMA BetterIsPlacedBefore ==
  ASSUME SheetTypeOK, NEW a \in OnSheet, NEW b \in OnSheet, Place(a) < Place(b)
  PROVE  Percentage(b) < Percentage(a)
<1>1. PICK A, B : /\ A = {o \in OnSheet : Percentage(o) > Percentage(a)}
                  /\ B = {o \in OnSheet : Percentage(o) > Percentage(b)}
  OBVIOUS
<1>2. \A o \in OnSheet : Percentage(o) \in Nat
  BY PercentageTyped DEF OnSheet
<1>3. IsFiniteSet(A)
  <2>1. A \in SUBSET Pupils
    BY <1>1 DEF OnSheet
  <2> QED BY <2>1, SheetAssumption, FS_Subset
<1>4. Cardinality(A) < Cardinality(B) /\ Cardinality(A) \in Nat /\ Cardinality(B) \in Nat
  BY <1>1, PlaceTyped DEF Place
<1>5. ~(B \subseteq A)
  <2>1. B \subseteq A => Cardinality(B) <= Cardinality(A)
    BY <1>3, FS_Subset
  <2> QED BY <1>4, <2>1
<1>6. PICK o \in OnSheet : Percentage(o) > Percentage(b) /\ ~(Percentage(o) > Percentage(a))
  BY <1>1, <1>5
<1> QED BY <1>2, <1>6

LEMMA GradesFollowPlaces ==
  ASSUME SheetTypeOK, NEW a \in OnSheet, NEW b \in OnSheet, Place(a) < Place(b)
  PROVE  Grade(SubjectTotal(a), Obtainable(a)) <= Grade(SubjectTotal(b), Obtainable(b))
<1>1. PICK s \in Nat, t \in Nat : s = SubjectTotal(a) /\ t = SubjectTotal(b)
  BY SubjectTotalTyped DEF OnSheet
<1>2. PICK m \in Nat, n \in Nat : m = Obtainable(a) /\ n = Obtainable(b) /\ m > 0 /\ n > 0
  BY ObtainableTyped
<1>3. PICK p \in Nat, q \in Nat : p = Percentage(a) /\ q = Percentage(b) /\ q < p
  BY BetterIsPlacedBefore, PercentageTyped DEF OnSheet
<1>4. p = (20000 * s + m) \div (2 * m) /\ q = (20000 * t + n) \div (2 * n)
  BY <1>1, <1>2, <1>3 DEF Percentage
<1>5. 2 * m * p <= 20000 * s + m
  BY <1>2, <1>4, Rounding
<1>6. 20000 * t + n < 2 * n * (q + 1)
  BY <1>2, <1>4, Rounding
<1>7. t * m < s * n
  BY <1>2, <1>3, <1>5, <1>6, HigherIsMore
<1> QED BY <1>1, <1>2, <1>7, GradeFollows

(* A sheet that is published while its totals are sound ranks its pupils   *)
(* as a competition does, by the rounded percentage, and no pupil comes    *)
(* before one with a better grade, though grades are not rounded.          *)
THEOREM PublishedRankingAlways == SheetSpec => []PublishedRanking
<1>1. ASSUME SheetInv, Idling, sound, sheetStatus = "PUBLISHED" PROVE PlacesRight /\ SheetTypeOK
  BY <1>1, IdlingIsSettled DEF SheetInv
<1>2. SheetInv => RankedByPercentage
  BY <1>1 DEF RankedByPercentage, PlacesRight, RightRow, Place
<1>3. SheetInv => GradesFollowRanking
  <2>1. ASSUME SheetInv, Idling, sound, sheetStatus = "PUBLISHED", NEW a \in OnSheet,
               NEW b \in OnSheet, result[a].position < result[b].position
        PROVE  Grade(result[a].total, Obtainable(a)) <= Grade(result[b].total, Obtainable(b))
    <3>1. PlacesRight /\ SheetTypeOK
      BY <1>1, <2>1
    <3>2. /\ result[a].total = SubjectTotal(a) /\ result[b].total = SubjectTotal(b)
          /\ Place(a) < Place(b)
      BY <2>1, <3>1 DEF PlacesRight, RightRow
    <3> QED BY <3>1, <3>2, GradesFollowPlaces
  <2> QED BY <2>1 DEF GradesFollowRanking
<1>4. SheetInv => PublishedRanking
  BY <1>2, <1>3 DEF PublishedRanking
<1> QED BY <1>4, SheetInvAlways, PTL
-----------------------------------------------------------------------------
(* FeeLedger.                                                              *)

(* One number changed, and two columns of numbers added up to a third.     *)
LEMMA SumChanged ==
  ASSUME NEW U, IsFiniteSet(U), NEW A \in [U -> Int], NEW B \in [U -> Int], NEW x \in U,
         \A y \in U \ {x} : A[y] = B[y]
  PROVE  SumOf(B, U) = SumOf(A, U) - A[x] + B[x]
<1>1. PICK V : V = U \ {x}
  OBVIOUS
<1>2. PICK C \in [V -> Int] : C = [y \in V |-> A[y]]
  BY <1>1
<1>3. IsFiniteSet(V) /\ x \notin V /\ V \cup {x} = U
  BY <1>1, FS_Subset
<1>4. (\A y \in V : A[y] = C[y]) /\ (\A y \in V : B[y] = C[y])
  BY <1>1, <1>2
<1>5. A \in [V \cup {x} -> Int] /\ B \in [V \cup {x} -> Int]
  BY <1>3
<1>6. SumOf(A, V \cup {x}) = A[x] + SumOf(C, V)
  BY <1>3, <1>4, <1>5, SumOfMore
<1>7. SumOf(B, V \cup {x}) = B[x] + SumOf(C, V)
  BY <1>3, <1>4, <1>5, SumOfMore
<1>8. SumOf(C, V) \in Int /\ A[x] \in Int /\ B[x] \in Int
  BY <1>3, SumOfTyped
<1>9. SumOf(A, U) = A[x] + SumOf(C, V) /\ SumOf(B, U) = B[x] + SumOf(C, V)
  BY <1>3, <1>6, <1>7, Zenon
<1>10. \A a, b, c \in Int : b + c = (a + c) - a + b
  OBVIOUS
<1>11. B[x] + SumOf(C, V) = (A[x] + SumOf(C, V)) - A[x] + B[x]
  BY <1>8, <1>10, Zenon
<1> QED BY <1>9, <1>11, Zenon

LEMMA SumPlus ==
  ASSUME NEW U, IsFiniteSet(U), NEW A \in [U -> Int], NEW B \in [U -> Int],
         NEW C \in [U -> Int], \A x \in U : C[x] = A[x] + B[x]
  PROVE  SumOf(C, U) = SumOf(A, U) + SumOf(B, U)
<1>1. PICK g \in [SUBSET U -> Int] : AddsUp(g, A, SUBSET U)
  BY SumExists
<1>2. PICK h \in [SUBSET U -> Int] : AddsUp(h, B, SUBSET U)
  BY SumExists
<1>3. PICK k \in [SUBSET U -> Int] : k = [S \in SUBSET U |-> g[S] + h[S]]
  <2>1. \A S \in SUBSET U : g[S] + h[S] \in Int
    OBVIOUS
  <2>2. [S \in SUBSET U |-> g[S] + h[S]] \in [SUBSET U -> Int]
    BY <2>1
  <2> QED BY <2>2
<1>4. AddsUp(k, C, SUBSET U)
  <2>1. ASSUME NEW S \in SUBSET U PROVE k[S] = SumStep(k, C, S)
    <3>1. g[S] = SumStep(g, A, S) /\ h[S] = SumStep(h, B, S)
      BY <1>1, <1>2 DEF AddsUp
    <3>2. CASE S = {}
      BY <1>3, <3>1, <3>2 DEF SumStep
    <3>3. CASE S # {}
      <4>1. PICK z \in S : z = First(S)
        BY <3>3 DEF First
      <4>2. g[S] = A[z] + g[S \ {z}] /\ h[S] = B[z] + h[S \ {z}]
        BY <3>1, <3>3, <4>1 DEF SumStep
      <4>3. k[S] = g[S] + h[S] /\ k[S \ {z}] = g[S \ {z}] + h[S \ {z}] /\ C[z] = A[z] + B[z]
        BY <1>3
      <4>4. /\ A[z] \in Int /\ B[z] \in Int /\ g[S \ {z}] \in Int /\ h[S \ {z}] \in Int
        OBVIOUS
      <4>5. k[S] = C[z] + k[S \ {z}]
        BY <4>2, <4>3, <4>4
      <4> QED BY <3>3, <4>1, <4>5 DEF SumStep
    <3> QED BY <3>2, <3>3
  <2> QED BY <2>1 DEF AddsUp
<1>5. SumOf(A, U) = g[U] /\ SumOf(B, U) = h[U] /\ SumOf(C, U) = k[U]
  BY <1>1, <1>2, <1>3, <1>4, SumIs
<1>6. PICK V \in SUBSET U : V = U
  OBVIOUS
<1> QED BY <1>3, <1>5, <1>6

LEMMA AddedUpIs ==
  ASSUME NEW U, IsFiniteSet(U), NEW A \in [U -> Nat]
  PROVE  AddedUp(A) = SumOf(A, U) /\ AddedUp(A) \in Nat
<1>1. A \in [U -> Int]
  OBVIOUS
<1>2. AddedUp(A) = TotalOf(A)
  BY Zenon DEF AddedUp, TotalOf
<1>3. TotalOf(A) = SumOf(A, U) /\ SumOf(A, U) \in Nat
  BY <1>1, SumOfValues, SumOfNaturals
<1> QED BY <1>2, <1>3

LEMMA AddedUpZero ==
  ASSUME NEW U, IsFiniteSet(U), NEW A \in [U -> Nat], \A x \in U : A[x] = 0
  PROVE  AddedUp(A) = 0
BY AddedUpIs, SumOfNaturals

LEMMA AddedUpChanged ==
  ASSUME NEW U, IsFiniteSet(U), NEW A \in [U -> Nat], NEW B \in [U -> Nat], NEW x \in U,
         \A y \in U \ {x} : A[y] = B[y]
  PROVE  AddedUp(B) = AddedUp(A) - A[x] + B[x]
<1>1. A \in [U -> Int] /\ B \in [U -> Int]
  OBVIOUS
<1>2. SumOf(B, U) = SumOf(A, U) - A[x] + B[x]
  BY <1>1, SumChanged
<1> QED BY <1>2, AddedUpIs

LEMMA AddedUpPlus ==
  ASSUME NEW U, IsFiniteSet(U), NEW A \in [U -> Nat], NEW B \in [U -> Nat],
         NEW C \in [U -> Nat], \A x \in U : C[x] = A[x] + B[x]
  PROVE  AddedUp(C) = AddedUp(A) + AddedUp(B)
<1>1. A \in [U -> Int] /\ B \in [U -> Int] /\ C \in [U -> Int]
  OBVIOUS
<1>2. SumOf(C, U) = SumOf(A, U) + SumOf(B, U)
  BY <1>1, SumPlus
<1> QED BY <1>2, AddedUpIs

(* One invoice: what its items come to, and what the code makes of it.     *)
Items == [Structures -> Item \cup {None}]
Row == [Keys -> Invoice \cup {None}]
RightItems(items) ==
  \A f \in Billed(items) : items[f].balance = Floor(items[f].amount - items[f].paid)
Sound(inv) == inv.total = AmountOf(inv.items) /\ RightItems(inv.items)
RightInvoice(inv) == /\ inv.paid = PaidOf(inv.items)
                     /\ inv.balance = Floor(inv.total - inv.paid)
                     /\ inv.status = Status(inv.balance, inv.paid)

LEMMA NotNone ==
  /\ None \notin Item /\ None \notin Invoice
  /\ \A items \in Items, f \in Structures :
       (f \in Billed(items) <=> items[f] \in Item) /\ (f \notin Billed(items) <=> items[f] = None)
<1>1. None \notin Item
  BY DEF None, Item
<1>2. None \notin Invoice
  BY DEF None, Invoice
<1> QED BY <1>1, <1>2 DEF Items, Billed

LEMMA ItemsAddUp ==
  ASSUME NEW items \in Items
  PROVE  AmountOf(items) \in Nat /\ PaidOf(items) \in Nat
<1>1. \A f \in Structures : items[f] # None => items[f].amount \in Nat /\ items[f].paid \in Nat
  BY DEF Items, Item
<1>2. /\ [f \in Structures |-> IF items[f] = None THEN 0 ELSE items[f].amount] \in [Structures -> Nat]
      /\ [f \in Structures |-> IF items[f] = None THEN 0 ELSE items[f].paid] \in [Structures -> Nat]
  BY <1>1
<1>3. IsFiniteSet(Structures)
  BY LedgerAssumption
<1> QED BY <1>2, <1>3, AddedUpIs DEF AmountOf, PaidOf

LEMMA InvoiceFields ==
  ASSUME NEW inv \in Invoice
  PROVE  /\ inv.items \in Items /\ inv.total \in Nat /\ inv.paid \in Nat /\ inv.balance \in Nat
         /\ inv.at \in Nat
         /\ inv = [items |-> inv.items, total |-> inv.total, paid |-> inv.paid,
                   balance |-> inv.balance, status |-> inv.status, at |-> inv.at]
BY DEF Invoice, Items

LEMMA FloorTyped == ASSUME NEW n \in Int PROVE Floor(n) \in Nat
BY DEF Floor

LEMMA StatusTyped ==
  ASSUME NEW b, NEW p PROVE Status(b, p) \in {"OPEN", "PARTIALLY_PAID", "PAID"}
BY DEF Status

LEMMA Recalculated ==
  ASSUME NEW inv \in Invoice
  PROVE  LET new == Recalculate(inv)
         IN  /\ new \in Invoice /\ new.items = inv.items /\ new.total = inv.total /\ new.at = inv.at
             /\ RightInvoice(new)
<1>1. PICK p \in Nat : p = PaidOf(inv.items)
  BY InvoiceFields, ItemsAddUp
<1>2. PICK b \in Nat : b = Floor(inv.total - p)
  BY FloorTyped, InvoiceFields
<1>3. PICK s : s = Status(b, p)
  OBVIOUS
<1>4. Recalculate(inv) = [inv EXCEPT !.paid = p, !.balance = b, !.status = s]
  BY <1>1, <1>2, <1>3 DEF Recalculate
<1>5. s \in {"OPEN", "PARTIALLY_PAID", "PAID"}
  BY <1>3, StatusTyped
<1>6. PICK new : new = Recalculate(inv)
  OBVIOUS
<1>7. /\ new \in Invoice /\ new.items = inv.items /\ new.total = inv.total /\ new.at = inv.at
      /\ new.paid = p /\ new.balance = b /\ new.status = s
  BY <1>4, <1>5, <1>6 DEF Invoice
<1> QED BY <1>1, <1>2, <1>3, <1>6, <1>7 DEF RightInvoice

(* The items with another one for f.                                       *)
LEMMA ItemsChanged ==
  ASSUME NEW items \in Items, NEW f \in Billed(items), NEW new, NEW item \in Item,
         new = [items EXCEPT ![f] = item]
  PROVE  /\ new \in Items /\ Billed(new) = Billed(items) /\ new[f] = item
         /\ \A g \in Structures \ {f} : new[g] = items[g]
         /\ AmountOf(new) = AmountOf(items) - items[f].amount + item.amount
         /\ PaidOf(new) = PaidOf(items) - items[f].paid + item.paid
<1>1. f \in Structures /\ items[f] \in Item /\ item # None /\ items[f] # None
  BY NotNone DEF Billed
<1>2. /\ new \in Items /\ new[f] = item
      /\ \A g \in Structures \ {f} : new[g] = items[g]
  BY <1>1 DEF Items
<1>3. Billed(new) = Billed(items)
  BY <1>1, <1>2 DEF Billed
<1>4. PICK A : A = [g \in Structures |-> IF items[g] = None THEN 0 ELSE items[g].amount]
  OBVIOUS
<1>5. PICK B : B = [g \in Structures |-> IF new[g] = None THEN 0 ELSE new[g].amount]
  OBVIOUS
<1>6. PICK C : C = [g \in Structures |-> IF items[g] = None THEN 0 ELSE items[g].paid]
  OBVIOUS
<1>7. PICK D : D = [g \in Structures |-> IF new[g] = None THEN 0 ELSE new[g].paid]
  OBVIOUS
<1>8. \A any \in Items, g \in Structures :
        any[g] # None => any[g].amount \in Nat /\ any[g].paid \in Nat
  BY DEF Items, Item
<1>9. A \in [Structures -> Nat] /\ B \in [Structures -> Nat]
  BY <1>2, <1>4, <1>5, <1>8
<1>10. C \in [Structures -> Nat] /\ D \in [Structures -> Nat]
  BY <1>2, <1>6, <1>7, <1>8
<1>11. IsFiniteSet(Structures)
  BY LedgerAssumption
<1>12. AddedUp(B) = AddedUp(A) - A[f] + B[f]
  <2>1. \A y \in Structures \ {f} : A[y] = B[y]
    BY <1>2, <1>4, <1>5
  <2> QED BY <1>1, <1>9, <1>11, <2>1, AddedUpChanged
<1>13. AddedUp(D) = AddedUp(C) - C[f] + D[f]
  <2>1. \A y \in Structures \ {f} : C[y] = D[y]
    BY <1>2, <1>6, <1>7
  <2> QED BY <1>1, <1>10, <1>11, <2>1, AddedUpChanged
<1>14. A[f] = items[f].amount /\ B[f] = item.amount /\ C[f] = items[f].paid /\ D[f] = item.paid
  BY <1>1, <1>2, <1>4, <1>5, <1>6, <1>7
<1>15. /\ AmountOf(items) = AddedUp(A) /\ AmountOf(new) = AddedUp(B)
       /\ PaidOf(items) = AddedUp(C) /\ PaidOf(new) = AddedUp(D)
  BY <1>4, <1>5, <1>6, <1>7 DEF AmountOf, PaidOf
<1> QED BY <1>2, <1>3, <1>12, <1>13, <1>14, <1>15

(* A payment of an item adds to what is paid on it and moves nothing else. *)
LEMMA ItemPaid ==
  ASSUME NEW inv \in Invoice, Sound(inv), NEW f \in Billed(inv.items), NEW applied \in Nat
  PROVE  LET new == PayItem(inv, f, applied)
         IN  /\ new \in Invoice /\ Sound(new) /\ new.at = inv.at
             /\ Billed(new.items) = Billed(inv.items)
             /\ \A g \in Billed(inv.items) : new.items[g].amount = inv.items[g].amount
             /\ \A g \in Billed(inv.items) \ {f} : new.items[g] = inv.items[g]
             /\ new.items[f].paid = inv.items[f].paid + applied
             /\ PaidOf(new.items) = PaidOf(inv.items) + applied
<1>1. f \in Structures /\ inv.items \in Items /\ inv.items[f] \in Item
  BY InvoiceFields, NotNone DEF Billed
<1>2. PICK a \in Nat : a = inv.items[f].amount
  BY <1>1 DEF Item
<1>3. PICK p \in Nat : p = inv.items[f].paid + applied
  BY <1>1 DEF Item
<1>4. PICK b \in Nat : b = Floor(a - p)
  BY FloorTyped
<1>5. PICK item \in Item : item = [amount |-> a, paid |-> p, balance |-> b]
  BY DEF Item
<1>6. PICK items : items = [inv.items EXCEPT ![f] = item]
  OBVIOUS
<1>7. PICK new : new = PayItem(inv, f, applied)
  OBVIOUS
<1>8. new = [inv EXCEPT !.items = items]
  <2>1. new = [inv EXCEPT !.items[f] = item]
    BY <1>2, <1>3, <1>4, <1>5, <1>7 DEF PayItem
  <2> QED BY <1>6, <2>1
<1>9. /\ items \in Items /\ Billed(items) = Billed(inv.items) /\ items[f] = item
      /\ \A g \in Structures \ {f} : items[g] = inv.items[g]
      /\ AmountOf(items) = AmountOf(inv.items) - a + item.amount
      /\ PaidOf(items) = PaidOf(inv.items) - inv.items[f].paid + item.paid
  BY <1>1, <1>2, <1>6, ItemsChanged
<1>10. AmountOf(inv.items) \in Nat /\ PaidOf(inv.items) \in Nat /\ inv.items[f].paid \in Nat
  BY <1>1, ItemsAddUp DEF Item
<1>11. item.amount = a /\ item.paid = p /\ item.balance = b
  BY <1>5
<1>12. AmountOf(items) = AmountOf(inv.items)
  BY <1>9, <1>10, <1>11
<1>13. PaidOf(items) = PaidOf(inv.items) + applied
  BY <1>3, <1>9, <1>10, <1>11
<1>14. /\ new \in Invoice /\ new.items = items /\ new.total = inv.total /\ new.at = inv.at
  BY <1>8, <1>9 DEF Invoice, Items
<1>15. RightItems(items)
  <2>1. ASSUME NEW g \in Billed(items)
        PROVE  items[g].balance = Floor(items[g].amount - items[g].paid)
    <3>1. CASE g = f
      BY <1>4, <1>9, <1>11, <3>1
    <3>2. CASE g # f
      <4>1. items[g] = inv.items[g] /\ g \in Billed(inv.items)
        BY <1>9, <2>1, <3>2 DEF Billed
      <4> QED BY <4>1 DEF Sound, RightItems
    <3> QED BY <3>1, <3>2
  <2> QED BY <2>1 DEF RightItems
<1>16. Sound(new)
  BY <1>12, <1>14, <1>15 DEF Sound
<1>17. \A g \in Billed(inv.items) : items[g].amount = inv.items[g].amount
  BY <1>2, <1>9, <1>11 DEF Billed
<1>18. \A g \in Billed(inv.items) \ {f} : items[g] = inv.items[g]
  BY <1>9 DEF Billed
<1> QED BY <1>3, <1>7, <1>9, <1>11, <1>13, <1>14, <1>16, <1>17, <1>18

(* A synchronized item keeps what is paid on it, and the invoice follows.  *)
LEMMA ItemSynced ==
  ASSUME NEW inv \in Invoice, Sound(inv), NEW g \in Billed(inv.items), NEW amount \in Nat
  PROVE  LET new == SyncInvoice(inv, g, amount)
         IN  /\ new \in Invoice /\ Sound(new) /\ RightInvoice(new)
             /\ Billed(new.items) = Billed(inv.items)
             /\ \A h \in Billed(inv.items) \ {g} : new.items[h] = inv.items[h]
             /\ new.items[g].amount = amount
             /\ PaidOf(new.items) = PaidOf(inv.items)
<1>1. g \in Structures /\ inv.items \in Items /\ inv.items[g] \in Item
  BY InvoiceFields, NotNone DEF Billed
<1>2. PICK p \in Nat : p = inv.items[g].paid
  BY <1>1 DEF Item
<1>3. PICK b \in Nat : b = Floor(amount - p)
  BY FloorTyped
<1>4. PICK item \in Item : item = [amount |-> amount, paid |-> p, balance |-> b]
  BY DEF Item
<1>5. PICK items : items = [inv.items EXCEPT ![g] = item]
  OBVIOUS
<1>6. item.amount = amount /\ item.paid = p /\ item.balance = b
  BY <1>4
<1>7. /\ items \in Items /\ Billed(items) = Billed(inv.items) /\ items[g] = item
      /\ \A h \in Structures \ {g} : items[h] = inv.items[h]
      /\ PaidOf(items) = PaidOf(inv.items) - p + item.paid
  BY <1>1, <1>2, <1>5, ItemsChanged
<1>8. PICK total \in Nat : total = AmountOf(items)
  BY <1>7, ItemsAddUp
<1>9. PICK paid2 \in Nat : paid2 = PaidOf(items)
  BY <1>7, ItemsAddUp
<1>10. PICK balance2 \in Nat : balance2 = Floor(total - paid2)
  BY FloorTyped
<1>11. PICK status2 : status2 = Status(balance2, paid2)
  OBVIOUS
<1>12. PICK new : new = SyncInvoice(inv, g, amount)
  OBVIOUS
<1>13. new = [inv EXCEPT !.items = items, !.total = total, !.paid = paid2,
                         !.balance = balance2, !.status = status2]
  BY <1>2, <1>3, <1>4, <1>5, <1>8, <1>9, <1>10, <1>11, <1>12 DEF SyncInvoice
<1>14. status2 \in {"OPEN", "PARTIALLY_PAID", "PAID"}
  BY <1>11, StatusTyped
<1>15. /\ new \in Invoice /\ new.items = items /\ new.total = total
       /\ new.paid = paid2 /\ new.balance = balance2 /\ new.status = status2
  BY <1>7, <1>13, <1>14 DEF Invoice, Items
<1>16. RightInvoice(new)
  BY <1>9, <1>10, <1>11, <1>15 DEF RightInvoice
<1>17. RightItems(items)
  <2>1. ASSUME NEW h \in Billed(items)
        PROVE  items[h].balance = Floor(items[h].amount - items[h].paid)
    <3>1. CASE h = g
      BY <1>3, <1>6, <1>7, <3>1
    <3>2. CASE h # g
      <4>1. items[h] = inv.items[h] /\ h \in Billed(inv.items)
        BY <1>7, <2>1, <3>2 DEF Billed
      <4> QED BY <4>1 DEF Sound, RightItems
    <3> QED BY <3>1, <3>2
  <2> QED BY <2>1 DEF RightItems
<1>18. Sound(new)
  BY <1>8, <1>15, <1>17 DEF Sound
<1>19. PaidOf(inv.items) \in Nat
  BY <1>1, ItemsAddUp
<1>20. PaidOf(items) = PaidOf(inv.items)
  BY <1>6, <1>7, <1>19
<1>21. \A h \in Billed(inv.items) \ {g} : items[h] = inv.items[h]
  BY <1>7 DEF Billed
<1> QED BY <1>6, <1>7, <1>12, <1>15, <1>16, <1>18, <1>20, <1>21

(* A new invoice has an item of every structure that applies.              *)
LEMMA InvoiceIssued ==
  ASSUME NEW st \in Children, NEW t \in Keys, generations \in Nat,
         \A f \in Applicable(st, t) :
            NewItem(st, f) \in Item /\ NewItem(st, f).paid = 0
            /\ NewItem(st, f).balance = NewItem(st, f).amount
  PROVE  LET new == NewInvoice(st, t)
         IN  /\ new \in Invoice /\ Sound(new) /\ RightInvoice(new)
             /\ Billed(new.items) = Applicable(st, t)
             /\ \A f \in Applicable(st, t) : new.items[f] = NewItem(st, f)
             /\ PaidOf(new.items) = 0
<1>1. PICK B : B = Applicable(st, t)
  OBVIOUS
<1>2. PICK items : items = [f \in Structures |-> IF f \in B THEN NewItem(st, f) ELSE None]
  OBVIOUS
<1>3. B \subseteq Structures
  BY <1>1 DEF Applicable, Active
<1>4. \A f \in B : items[f] = NewItem(st, f) /\ items[f] \in Item
  BY <1>1, <1>2, <1>3
<1>5. items \in Items /\ Billed(items) = B
  <2>1. items \in Items
    BY <1>1, <1>2 DEF Items
  <2>2. ASSUME NEW f \in Structures PROVE f \in Billed(items) <=> f \in B
    BY <1>2, <1>4, <2>1, NotNone
  <2>3. Billed(items) \subseteq Structures
    BY DEF Billed
  <2> QED BY <1>3, <2>1, <2>2, <2>3
<1>6. PICK total \in Nat : total = AmountOf(items)
  BY <1>5, ItemsAddUp
<1>7. PaidOf(items) = 0
  <2>1. PICK C : C = [f \in Structures |-> IF items[f] = None THEN 0 ELSE items[f].paid]
    OBVIOUS
  <2>2. ASSUME NEW f \in Structures PROVE C[f] = 0
    BY <1>1, <1>2, <1>4, <2>1
  <2>3. C \in [Structures -> Nat] /\ \A f \in Structures : C[f] = 0
    BY <2>1, <2>2
  <2>4. IsFiniteSet(Structures)
    BY LedgerAssumption
  <2>5. AddedUp(C) = 0
    BY <2>3, <2>4, AddedUpZero
  <2> QED BY <2>1, <2>5 DEF PaidOf
<1>8. PICK s : s = Status(total, 0)
  OBVIOUS
<1>9. PICK new : new = NewInvoice(st, t)
  OBVIOUS
<1>10. new = [items |-> items, total |-> total, paid |-> 0, balance |-> total,
              status |-> s, at |-> generations]
  BY <1>1, <1>2, <1>6, <1>8, <1>9 DEF NewInvoice
<1>11. s \in {"OPEN", "PARTIALLY_PAID", "PAID"}
  BY <1>8, StatusTyped
<1>12. /\ new \in Invoice /\ new.items = items /\ new.total = total /\ new.paid = 0
       /\ new.balance = total /\ new.status = s
  BY <1>5, <1>10, <1>11 DEF Invoice, Items
<1>13. Floor(total - 0) = total
  BY DEF Floor
<1>14. RightInvoice(new)
  BY <1>7, <1>8, <1>12, <1>13 DEF RightInvoice
<1>15. RightItems(items)
  <2>1. ASSUME NEW f \in Billed(items)
        PROVE  items[f].balance = Floor(items[f].amount - items[f].paid)
    <3>1. /\ items[f].paid = 0 /\ items[f].balance = items[f].amount /\ items[f].amount \in Nat
      BY <1>1, <1>4, <1>5, <2>1 DEF Item
    <3> QED BY <3>1 DEF Floor
  <2> QED BY <2>1 DEF RightItems
<1>16. Sound(new)
  BY <1>6, <1>12, <1>15 DEF Sound
<1> QED BY <1>1, <1>4, <1>5, <1>7, <1>9, <1>12, <1>14, <1>16

-----------------------------------------------------------------------------
(* What is paid on the invoices of all students.                           *)
MoneyIn(rows) == AddedUp([st \in Children |-> AddedUp([t \in Keys |-> Paid(rows[st][t])])])

LEMMA PaidTyped ==
  ASSUME NEW inv \in Invoice \cup {None} PROVE Paid(inv) \in Nat
BY InvoiceFields, ItemsAddUp DEF Paid

LEMMA KeysFinite == IsFiniteSet(Keys)
BY LedgerAssumption, FS_AddElement DEF Keys

LEMMA RowTotal ==
  ASSUME NEW row \in Row
  PROVE  /\ [t \in Keys |-> Paid(row[t])] \in [Keys -> Nat]
         /\ AddedUp([t \in Keys |-> Paid(row[t])]) \in Nat
<1>1. \A t \in Keys : row[t] \in Invoice \cup {None}
  BY DEF Row
<1>2. [t \in Keys |-> Paid(row[t])] \in [Keys -> Nat]
  BY <1>1, PaidTyped
<1> QED BY <1>2, KeysFinite, AddedUpIs

LEMMA MoneyTyped ==
  ASSUME NEW rows \in [Children -> Row]
  PROVE  /\ [st \in Children |-> AddedUp([t \in Keys |-> Paid(rows[st][t])])] \in [Children -> Nat]
         /\ MoneyIn(rows) \in Nat
<1>1. ASSUME NEW st \in Children PROVE AddedUp([t \in Keys |-> Paid(rows[st][t])]) \in Nat
  BY RowTotal
<1>2. [st \in Children |-> AddedUp([t \in Keys |-> Paid(rows[st][t])])] \in [Children -> Nat]
  BY <1>1
<1>3. IsFiniteSet(Children)
  BY LedgerAssumption
<1> QED BY <1>2, <1>3, AddedUpIs DEF MoneyIn

LEMMA MoneyMoved ==
  ASSUME NEW A \in [Children -> Row], NEW B \in [Children -> Row], NEW x \in Children, NEW y \in Keys,
         \A s \in Children \ {x} : A[s] = B[s], \A u \in Keys \ {y} : A[x][u] = B[x][u]
  PROVE  MoneyIn(B) = MoneyIn(A) - Paid(A[x][y]) + Paid(B[x][y])
<1>1. PICK S : S = [st \in Children |-> AddedUp([t \in Keys |-> Paid(A[st][t])])]
  OBVIOUS
<1>2. PICK T : T = [st \in Children |-> AddedUp([t \in Keys |-> Paid(B[st][t])])]
  OBVIOUS
<1>3. S \in [Children -> Nat] /\ T \in [Children -> Nat]
  BY <1>1, <1>2, MoneyTyped
<1>4. \A s \in Children \ {x} : S[s] = T[s]
  BY <1>1, <1>2
<1>5. IsFiniteSet(Children)
  BY LedgerAssumption
<1>6. AddedUp(T) = AddedUp(S) - S[x] + T[x]
  BY <1>3, <1>4, <1>5, AddedUpChanged
<1>7. PICK C : C = [t \in Keys |-> Paid(A[x][t])]
  OBVIOUS
<1>8. PICK D : D = [t \in Keys |-> Paid(B[x][t])]
  OBVIOUS
<1>9. C \in [Keys -> Nat] /\ D \in [Keys -> Nat]
  BY <1>7, <1>8, RowTotal
<1>10. \A u \in Keys \ {y} : C[u] = D[u]
  BY <1>7, <1>8
<1>11. AddedUp(D) = AddedUp(C) - C[y] + D[y]
  BY <1>9, <1>10, KeysFinite, AddedUpChanged
<1>12. S[x] = AddedUp(C) /\ T[x] = AddedUp(D)
  BY <1>1, <1>2, <1>7, <1>8
<1>13. MoneyIn(A) = AddedUp(S) /\ MoneyIn(B) = AddedUp(T)
  BY <1>1, <1>2 DEF MoneyIn
<1>14. /\ C[y] \in Nat /\ D[y] \in Nat /\ AddedUp(S) \in Nat
       /\ AddedUp(C) \in Nat /\ C[y] = Paid(A[x][y]) /\ D[y] = Paid(B[x][y])
  BY <1>3, <1>5, <1>7, <1>8, <1>9, KeysFinite, AddedUpIs
<1>15. \A s, c, p, q \in Nat : s - c + (c - p + q) = s - p + q
  OBVIOUS
<1>16. AddedUp(T) = AddedUp(S) - AddedUp(C) + (AddedUp(C) - C[y] + D[y])
  BY <1>6, <1>11, <1>12
<1>17. AddedUp(T) = AddedUp(S) - C[y] + D[y]
  BY <1>14, <1>15, <1>16
<1> QED BY <1>13, <1>14, <1>17

LEMMA MoneyStays ==
  ASSUME NEW A, NEW B, \A s \in Children, u \in Keys : Paid(A[s][u]) = Paid(B[s][u])
  PROVE  MoneyIn(A) = MoneyIn(B)
<1>1. ASSUME NEW s \in Children
      PROVE  AddedUp([t \in Keys |-> Paid(A[s][t])]) = AddedUp([t \in Keys |-> Paid(B[s][t])])
  <2>1. [t \in Keys |-> Paid(A[s][t])] = [t \in Keys |-> Paid(B[s][t])]
    OBVIOUS
  <2> QED BY <2>1
<1>2. [st \in Children |-> AddedUp([t \in Keys |-> Paid(A[st][t])])]
        = [st \in Children |-> AddedUp([t \in Keys |-> Paid(B[st][t])])]
  BY <1>1
<1> QED BY <1>2 DEF MoneyIn

(* The invoices of one term are deleted: what R says was paid on them.     *)
LEMMA MoneyRemoved ==
  ASSUME NEW A \in [Children -> Row], NEW B \in [Children -> Row], NEW R \in [Children -> Nat],
         NEW y \in Keys,
         \A s \in Children : /\ \A u \in Keys \ {y} : A[s][u] = B[s][u]
                             /\ Paid(A[s][y]) = Paid(B[s][y]) + R[s]
  PROVE  MoneyIn(A) = MoneyIn(B) + AddedUp(R)
<1>1. PICK S : S = [st \in Children |-> AddedUp([t \in Keys |-> Paid(A[st][t])])]
  OBVIOUS
<1>2. PICK T : T = [st \in Children |-> AddedUp([t \in Keys |-> Paid(B[st][t])])]
  OBVIOUS
<1>3. S \in [Children -> Nat] /\ T \in [Children -> Nat]
  BY <1>1, <1>2, MoneyTyped
<1>4. ASSUME NEW s \in Children PROVE S[s] = T[s] + R[s]
  <2>1. PICK C : C = [t \in Keys |-> Paid(A[s][t])]
    OBVIOUS
  <2>2. PICK D : D = [t \in Keys |-> Paid(B[s][t])]
    OBVIOUS
  <2>3. C \in [Keys -> Nat] /\ D \in [Keys -> Nat]
    BY <2>1, <2>2, RowTotal
  <2>4. \A u \in Keys \ {y} : C[u] = D[u]
    BY <2>1, <2>2
  <2>5. AddedUp(D) = AddedUp(C) - C[y] + D[y]
    BY <2>3, <2>4, KeysFinite, AddedUpChanged
  <2>6. S[s] = AddedUp(C) /\ T[s] = AddedUp(D)
    BY <1>1, <1>2, <2>1, <2>2
  <2>7. C[y] = D[y] + R[s]
    BY <2>1, <2>2
  <2>8. C[y] \in Nat /\ D[y] \in Nat /\ R[s] \in Nat /\ AddedUp(C) \in Nat /\ AddedUp(D) \in Nat
    BY <2>3, KeysFinite, AddedUpIs
  <2>9. \A c, d, p, q, r \in Nat : d = c - p + q /\ p = q + r => c = d + r
    OBVIOUS
  <2>10. AddedUp(C) = AddedUp(D) + R[s]
    BY <2>5, <2>7, <2>8, <2>9
  <2> QED BY <2>6, <2>10
<1>5. IsFiniteSet(Children)
  BY LedgerAssumption
<1>6. AddedUp(S) = AddedUp(T) + AddedUp(R)
  BY <1>3, <1>4, <1>5, AddedUpPlus
<1> QED BY <1>1, <1>2, <1>6 DEF MoneyIn

(* The inductive invariant of a school's books: every invoice but the one  *)
(* being paid adds up, what the payment that is being applied still holds  *)
(* is all that is missing, its targets exist, what it has been through is  *)
(* paid, and every item is of a structure of the term.                     *)
Open(p, st, t) == p.at = "items" /\ st = p.student /\ t = p.term
Books(p, rows) ==
  \A st \in Children, t \in Keys : rows[st][t] # None =>
    Sound(rows[st][t]) /\ (~Open(p, st, t) => RightInvoice(rows[st][t]))
Funds(p, rows, k) == IF p = NoPayment THEN MoneyIn(rows) = k
                     ELSE MoneyIn(rows) + p.rest = k + p.amount
IsTarget(a, rows) == /\ rows[a.student][a.term] # None
                     /\ a.structure \in Billed(rows[a.student][a.term].items)
Covered(inv, but) == \A f \in Billed(inv.items) \ but : inv.items[f].paid >= inv.items[f].amount
Unpaid(p, t) == IF p.at = "items" /\ t = p.term THEN p.items ELSE {}
Fitting(p, rows) ==
  /\ p.at = "allocations" => \A i \in 1 .. Len(p.named) : IsTarget(p.named[i], rows)
  /\ p.at = "items" => /\ rows[p.student][p.term] # None
                       /\ p.items \subseteq Billed(rows[p.student][p.term].items)
  /\ \A t \in p.left : rows[p.student][t] # None
  /\ p.at # "allocations" /\ p.rest > 0 =>
       \A t \in Keys \ p.left : rows[p.student][t] # None => Covered(rows[p.student][t], Unpaid(p, t))
Issued(rows) ==
  \A st \in Children, t \in Keys : rows[st][t] # None =>
    \A f \in Billed(rows[st][t].items) : TermOf[f] = t
SameFees(A, B) ==
  \A st \in Children, t \in Keys :
    /\ A[st][t] = None <=> B[st][t] = None
    /\ A[st][t] # None =>
         /\ Billed(B[st][t].items) = Billed(A[st][t].items)
         /\ \A f \in Billed(A[st][t].items) : B[st][t].items[f].amount = A[st][t].items[f].amount
AllRows == [Children -> Row]

LEMMA PaymentApart ==
  /\ NoPayment \notin Payment /\ NoPayment.at = "none"
  /\ \A p \in Payment : p.at \in {"allocations", "invoices", "items"}
BY DEF NoPayment, Payment

LEMMA PaymentFields ==
  ASSUME NEW p \in Payment
  PROVE  /\ p.student \in Children /\ p.amount \in Nat /\ p.rest \in Nat
         /\ p.named \in Seq(Allocation) /\ p.left \in SUBSET Keys /\ p.term \in Keys
         /\ p.items \in SUBSET Structures
BY DEF Payment

LEMMA SameFeesTargets ==
  ASSUME NEW A, NEW B, SameFees(A, B), NEW a \in Allocation, IsTarget(a, A)
  PROVE  IsTarget(a, B)
<1>1. a.student \in Children /\ a.term \in Keys
  BY DEF Allocation
<1> QED BY <1>1 DEF SameFees, IsTarget

LEMMA SameFeesIssued ==
  ASSUME NEW A, NEW B, SameFees(A, B), Issued(A)
  PROVE  Issued(B)
<1>1. ASSUME NEW st \in Children, NEW t \in Keys, B[st][t] # None, NEW f \in Billed(B[st][t].items)
      PROVE  TermOf[f] = t
  <2>1. A[st][t] # None /\ Billed(B[st][t].items) = Billed(A[st][t].items)
    BY <1>1 DEF SameFees
  <2> QED BY <1>1, <2>1 DEF Issued
<1> QED BY <1>1 DEF Issued

(* One invoice becomes another, of the same fees.                          *)
Replaces(A, B, x, y, new) ==
  /\ A \in AllRows /\ B \in AllRows /\ new \in Invoice /\ A[x][y] \in Invoice /\ B[x][y] = new
  /\ \A s \in Children \ {x} : A[s] = B[s]
  /\ \A u \in Keys \ {y} : A[x][u] = B[x][u]
  /\ Billed(new.items) = Billed(A[x][y].items)
  /\ \A f \in Billed(A[x][y].items) : new.items[f].amount = A[x][y].items[f].amount

LEMMA InvoiceReplaced ==
  ASSUME NEW A \in AllRows, NEW x \in Children, NEW y \in Keys, NEW inv \in Invoice,
         NEW new \in Invoice, inv = A[x][y], Billed(new.items) = Billed(inv.items),
         \A f \in Billed(inv.items) : new.items[f].amount = inv.items[f].amount
  PROVE  Replaces(A, [A EXCEPT ![x][y] = new], x, y, new)
<1>1. PICK B : B = [A EXCEPT ![x][y] = new]
  OBVIOUS
<1>2. B \in AllRows
  BY <1>1 DEF AllRows, Row
<1>3. /\ B[x][y] = new /\ \A s \in Children \ {x} : A[s] = B[s]
      /\ \A u \in Keys \ {y} : A[x][u] = B[x][u]
  BY <1>1 DEF AllRows, Row
<1>4. Replaces(A, B, x, y, new)
  BY <1>2, <1>3 DEF Replaces
<1> QED BY <1>1, <1>4

LEMMA FeesStay ==
  ASSUME NEW A, NEW B, NEW x \in Children, NEW y \in Keys, NEW new, Replaces(A, B, x, y, new)
  PROVE  SameFees(A, B)
<1>1. new # None /\ A[x][y] # None
  BY NotNone DEF Replaces
<1>2. ASSUME NEW st \in Children, NEW t \in Keys
      PROVE  /\ A[st][t] = None <=> B[st][t] = None
             /\ A[st][t] # None =>
                  /\ Billed(B[st][t].items) = Billed(A[st][t].items)
                  /\ \A f \in Billed(A[st][t].items) : B[st][t].items[f].amount = A[st][t].items[f].amount
  <2>1. CASE st = x /\ t = y
    BY <1>1, <2>1 DEF Replaces
  <2>2. CASE ~(st = x /\ t = y)
    <3>1. A[st][t] = B[st][t]
      BY <2>2 DEF Replaces
    <3> QED BY <3>1
  <2> QED BY <2>1, <2>2
<1> QED BY <1>2 DEF SameFees

LEMMA MoneyPaid ==
  ASSUME NEW A, NEW B, NEW x \in Children, NEW y \in Keys, NEW new, Replaces(A, B, x, y, new)
  PROVE  MoneyIn(B) = MoneyIn(A) - PaidOf(A[x][y].items) + PaidOf(new.items)
<1>1. new # None /\ A[x][y] # None
  BY NotNone DEF Replaces
<1>2. Paid(A[x][y]) = PaidOf(A[x][y].items) /\ Paid(B[x][y]) = PaidOf(new.items)
  BY <1>1 DEF Paid, Replaces
<1>3. A \in [Children -> Row] /\ B \in [Children -> Row]
  BY DEF AllRows, Replaces
<1>4. \A s \in Children \ {x} : A[s] = B[s]
  BY DEF Replaces
<1>5. \A u \in Keys \ {y} : A[x][u] = B[x][u]
  BY DEF Replaces
<1>6. MoneyIn(B) = MoneyIn(A) - Paid(A[x][y]) + Paid(B[x][y])
  BY ONLY <1>3, <1>4, <1>5, MoneyMoved
<1> QED BY <1>2, <1>6

Opens(p, q, x, y) == \A s \in Children, u \in Keys :
                       (s # x \/ u # y) /\ Open(p, s, u) => Open(q, s, u)
LEMMA BooksKept ==
  ASSUME NEW p, NEW q, NEW A, NEW B, NEW x \in Children, NEW y \in Keys, NEW new,
         Books(p, A), Replaces(A, B, x, y, new), Sound(new),
         Open(q, x, y) \/ RightInvoice(new), Opens(p, q, x, y)
  PROVE  Books(q, B)
<1>1. ASSUME NEW s \in Children, NEW u \in Keys, B[s][u] # None
      PROVE  Sound(B[s][u]) /\ (~Open(q, s, u) => RightInvoice(B[s][u]))
  <2>1. CASE s = x /\ u = y
    BY <2>1 DEF Replaces
  <2>2. CASE s # x \/ u # y
    <3>1. A[s][u] = B[s][u]
      BY <2>2 DEF Replaces
    <3> QED BY <1>1, <2>2, <3>1 DEF Books, Opens
  <2> QED BY <2>1, <2>2
<1> QED BY <1>1 DEF Books

LEMMA SameFeesItself == ASSUME NEW A PROVE SameFees(A, A)
BY DEF SameFees

LEMMA LeastTyped ==
  ASSUME NEW a \in Nat, NEW b \in Nat
  PROVE  Least(a, b) \in Nat /\ Least(a, b) <= b /\ b - Least(a, b) \in Nat
         /\ (b - Least(a, b) > 0 => Least(a, b) = a)
BY DEF Least

(* What a step of a payment from p and A to q and B keeps.                 *)
Steps(p, A, q, B) ==
  /\ q \in Payment /\ B \in AllRows /\ Books(q, B) /\ Fitting(q, B) /\ SameFees(A, B)
  /\ MoneyIn(B) + q.rest = MoneyIn(A) + p.rest /\ q.amount = p.amount

LEMMA RowsStep ==
  ASSUME NEW p \in Payment, NEW q \in Payment, NEW A, NEW B, NEW x \in Children, NEW y \in Keys,
         NEW new, NEW applied \in Nat, Books(p, A), Replaces(A, B, x, y, new), Sound(new),
         Open(q, x, y) \/ RightInvoice(new), Opens(p, q, x, y), Fitting(q, B),
         PaidOf(new.items) = PaidOf(A[x][y].items) + applied,
         q.rest = p.rest - applied, q.amount = p.amount
  PROVE  Steps(p, A, q, B)
<1>1. Books(q, B) /\ SameFees(A, B)
  BY BooksKept, FeesStay
<1>2. MoneyIn(B) = MoneyIn(A) - PaidOf(A[x][y].items) + PaidOf(new.items)
  BY MoneyPaid
<1>3. A \in [Children -> Row] /\ A[x][y] \in Invoice /\ B \in AllRows
  BY DEF Replaces, AllRows
<1>4. MoneyIn(A) \in Nat /\ PaidOf(A[x][y].items) \in Nat /\ p.rest \in Nat
  BY <1>3, MoneyTyped, InvoiceFields, ItemsAddUp, PaymentFields
<1>5. MoneyIn(B) + q.rest = MoneyIn(A) - PaidOf(A[x][y].items)
                            + (PaidOf(A[x][y].items) + applied) + (p.rest - applied)
  BY <1>2
<1>6. \A m, n, k, r \in Nat : m - n + (n + k) + (r - k) = m + r
  OBVIOUS
<1>7. MoneyIn(A) - PaidOf(A[x][y].items) + (PaidOf(A[x][y].items) + applied) + (p.rest - applied)
        = MoneyIn(A) + p.rest
  BY <1>4, <1>6
<1>8. MoneyIn(B) + q.rest = MoneyIn(A) + p.rest
  BY <1>5, <1>7
<1> QED BY <1>1, <1>3, <1>8 DEF Steps

(* One turn of the loop over the explicit allocations.                     *)
LEMMA Allocated ==
  ASSUME NEW p \in Payment, NEW A \in AllRows, NEW q, NEW B, Books(p, A), Fitting(p, A),
         p.at = "allocations", p.named # <<>>, NEW applied,
         applied = Least(Head(p.named).amount, p.rest)
  PROVE  /\ q = [p EXCEPT !.named = Tail(@), !.rest = @ - applied]
         /\ B = IF applied = 0 THEN A
                ELSE [A EXCEPT ![Head(p.named).student][Head(p.named).term] =
                        Recalculate(PayItem(@, Head(p.named).structure, applied))]
         => Steps(p, A, q, B)
<1>0. SUFFICES ASSUME
         q = [p EXCEPT !.named = Tail(@), !.rest = @ - applied],
         B = IF applied = 0 THEN A
             ELSE [A EXCEPT ![Head(p.named).student][Head(p.named).term] =
                     Recalculate(PayItem(@, Head(p.named).structure, applied))]
       PROVE  Steps(p, A, q, B)
  OBVIOUS
<1>1. PICK a \in Allocation : a = Head(p.named)
  BY PaymentFields
<1>2. a.student \in Children /\ a.term \in Keys /\ a.structure \in Structures /\ a.amount \in Nat
  BY DEF Allocation
<1>3. applied \in Nat /\ p.rest \in Nat /\ p.rest - applied \in Nat
  BY <1>1, <1>2, LeastTyped, PaymentFields
<1>4. Tail(p.named) \in Seq(Allocation)
  BY PaymentFields
<1>5. /\ q \in Payment /\ q.rest = p.rest - applied /\ q.amount = p.amount
      /\ q.named = Tail(p.named) /\ q.at = "allocations" /\ q.left = p.left
      /\ q.student = p.student
  BY <1>0, <1>3, <1>4 DEF Payment
<1>6. IsTarget(a, A)
  <2>1. 1 \in 1 .. Len(p.named) /\ p.named[1] = a
    BY <1>1, PaymentFields
  <2> QED BY <2>1 DEF Fitting
<1>7. \A i \in 1 .. Len(Tail(p.named)) :
        IsTarget(Tail(p.named)[i], A) /\ Tail(p.named)[i] \in Allocation
  <2>1. ASSUME NEW i \in 1 .. Len(Tail(p.named))
        PROVE  IsTarget(Tail(p.named)[i], A) /\ Tail(p.named)[i] \in Allocation
    <3>1. i + 1 \in 1 .. Len(p.named) /\ Tail(p.named)[i] = p.named[i + 1]
      BY PaymentFields
    <3>2. p.named[i + 1] \in Allocation
      BY <3>1, PaymentFields
    <3> QED BY <3>1, <3>2 DEF Fitting
  <2> QED BY <2>1
<1>8. ASSUME NEW C, SameFees(A, C) PROVE Fitting(q, C)
  <2>1. \A i \in 1 .. Len(q.named) : IsTarget(q.named[i], C)
    BY <1>5, <1>7, <1>8, SameFeesTargets
  <2>2. \A t \in q.left : C[q.student][t] # None
    <3>1. p.student \in Children /\ p.left \in SUBSET Keys
      BY PaymentFields
    <3> QED BY <1>5, <1>8, <3>1 DEF SameFees, Fitting
  <2> QED BY <1>5, <2>1, <2>2 DEF Fitting
<1>9. CASE applied = 0
  <2>1. B = A /\ q.rest = p.rest
    BY <1>0, <1>3, <1>5, <1>9
  <2>2. Books(q, B)
    BY <1>5, <2>1 DEF Books, Open
  <2> QED BY <1>5, <1>8, <2>1, <2>2, SameFeesItself DEF Steps
<1>10. CASE applied # 0
  <2>1. PICK x \in Children : x = a.student
    BY <1>2
  <2>2. PICK y \in Keys : y = a.term
    BY <1>2
  <2>3. PICK inv \in Invoice : inv = A[x][y]
    BY <1>6, <2>1, <2>2, NotNone DEF IsTarget, AllRows, Row
  <2>4. Sound(inv) /\ a.structure \in Billed(inv.items)
    BY <1>6, <2>1, <2>2, <2>3 DEF IsTarget, Books
  <2>5. PICK mid : mid = PayItem(inv, a.structure, applied)
    OBVIOUS
  <2>6. /\ mid \in Invoice /\ Sound(mid) /\ Billed(mid.items) = Billed(inv.items)
        /\ \A g \in Billed(inv.items) : mid.items[g].amount = inv.items[g].amount
        /\ PaidOf(mid.items) = PaidOf(inv.items) + applied
    BY <1>3, <2>4, <2>5, ItemPaid
  <2>7. PICK new : new = Recalculate(mid)
    OBVIOUS
  <2>8. /\ new \in Invoice /\ new.items = mid.items /\ new.total = mid.total /\ RightInvoice(new)
    BY <2>6, <2>7, Recalculated
  <2>9. Sound(new)
    BY <2>6, <2>8 DEF Sound
  <2>10. B = [A EXCEPT ![x][y] = new]
    <3>1. B = [A EXCEPT ![x][y] = Recalculate(PayItem(@, a.structure, applied))]
      BY <1>0, <1>1, <1>10, <2>1, <2>2
    <3> QED BY <2>3, <2>5, <2>7, <3>1 DEF AllRows, Row
  <2>11. Replaces(A, [A EXCEPT ![x][y] = new], x, y, new)
    BY <2>3, <2>6, <2>8, InvoiceReplaced
  <2>12. Replaces(A, B, x, y, new)
    BY <2>10, <2>11
  <2>13. Fitting(q, B)
    BY <1>8, <2>12, FeesStay
  <2>14. Opens(p, q, x, y)
    BY DEF Opens, Open
  <2>15. PaidOf(new.items) = PaidOf(A[x][y].items) + applied
    BY <2>3, <2>6, <2>8
  <2>16. q \in Payment /\ q.rest = p.rest - applied /\ q.amount = p.amount
    BY <1>5
  <2> QED BY <1>3, <2>8, <2>9, <2>12, <2>13, <2>14, <2>15, <2>16, RowsStep
<1> QED BY <1>9, <1>10

(* One turn of the loop over the items of an invoice.                      *)
LEMMA NextItemPaid ==
  ASSUME NEW p \in Payment, NEW A \in AllRows, NEW q, NEW B, Books(p, A), Fitting(p, A),
         p.at = "items", NEW f \in p.items, NEW inv, NEW applied
  PROVE  /\ inv = A[p.student][p.term]
         /\ applied = Least(Floor(inv.items[f].amount - inv.items[f].paid), p.rest)
         /\ q = [p EXCEPT !.items = @ \ {f}, !.rest = @ - applied]
         /\ B = [A EXCEPT ![p.student][p.term] = PayItem(inv, f, applied)]
         => Steps(p, A, q, B)
<1>0. SUFFICES ASSUME inv = A[p.student][p.term],
                      applied = Least(Floor(inv.items[f].amount - inv.items[f].paid), p.rest),
                      q = [p EXCEPT !.items = @ \ {f}, !.rest = @ - applied],
                      B = [A EXCEPT ![p.student][p.term] = PayItem(inv, f, applied)]
               PROVE  Steps(p, A, q, B)
  OBVIOUS
<1>1. PICK x \in Children : x = p.student
  BY PaymentFields
<1>2. PICK y \in Keys : y = p.term
  BY PaymentFields
<1>3. PICK r \in Nat : r = p.rest
  BY PaymentFields
<1>4. PICK I \in SUBSET Structures : I = p.items
  BY PaymentFields
<1>5. PICK L \in SUBSET Keys : L = p.left
  BY PaymentFields
<1>6. inv = A[x][y] /\ inv # None /\ I \subseteq Billed(inv.items) /\ f \in I
  BY <1>0, <1>1, <1>2, <1>4 DEF Fitting
<1>7. inv \in Invoice /\ Sound(inv)
  BY <1>6, NotNone DEF AllRows, Row, Books
<1>8. f \in Billed(inv.items)
  BY <1>6
<1>9. inv.items \in Items /\ f \in Structures
  BY <1>7, <1>8, InvoiceFields DEF Billed
<1>10. inv.items[f] \in Item
  BY <1>8, <1>9, NotNone
<1>11. PICK a \in Nat : a = inv.items[f].amount
  BY <1>10 DEF Item
<1>12. PICK b \in Nat : b = inv.items[f].paid
  BY <1>10 DEF Item
<1>13. PICK n \in Nat : n = Floor(a - b)
  BY FloorTyped
<1>14. applied = Least(n, r)
  BY <1>0, <1>3, <1>11, <1>12, <1>13
<1>15. applied \in Nat /\ r - applied \in Nat /\ (r - applied > 0 => applied = n)
  BY <1>14, LeastTyped
<1>16. /\ q \in Payment /\ q.rest = r - applied /\ q.amount = p.amount
       /\ q.items = I \ {f} /\ q.at = "items" /\ q.left = L /\ q.student = x /\ q.term = y
  BY <1>0, <1>1, <1>2, <1>3, <1>4, <1>5, <1>15 DEF Payment
<1>17. PICK new : new = PayItem(inv, f, applied)
  OBVIOUS
<1>18. /\ new \in Invoice /\ Sound(new) /\ Billed(new.items) = Billed(inv.items)
       /\ \A g \in Billed(inv.items) : new.items[g].amount = inv.items[g].amount
       /\ \A g \in Billed(inv.items) \ {f} : new.items[g] = inv.items[g]
       /\ new.items[f].paid = inv.items[f].paid + applied
       /\ PaidOf(new.items) = PaidOf(inv.items) + applied
  BY <1>7, <1>8, <1>15, <1>17, ItemPaid
<1>19. B = [A EXCEPT ![x][y] = new]
  BY <1>0, <1>1, <1>2, <1>17
<1>20. Replaces(A, [A EXCEPT ![x][y] = new], x, y, new)
  BY <1>6, <1>7, <1>18, InvoiceReplaced
<1>21. Replaces(A, B, x, y, new)
  BY <1>19, <1>20
<1>22. SameFees(A, B) /\ B[x][y] = new
  <2>1. SameFees(A, B)
    BY <1>21, FeesStay
  <2>2. B[x][y] = new
    BY <1>21 DEF Replaces
  <2> QED BY <2>1, <2>2
<1>23. q.rest > 0 => new.items[f].paid >= new.items[f].amount
  <2>1. \A k, l \in Nat : l + Floor(k - l) >= k
    BY DEF Floor
  <2>2. b + n >= a
    BY <1>13, <2>1
  <2>3. new.items[f].paid = b + applied /\ new.items[f].amount = a
    BY <1>8, <1>11, <1>12, <1>18
  <2> QED BY <1>15, <1>16, <2>2, <2>3
<1>24. Fitting(q, B)
  <2>1. B[x][y] # None /\ I \ {f} \subseteq Billed(new.items)
    BY <1>6, <1>18, <1>22, NotNone
  <2>2. \A t \in L : B[x][t] # None
    <3>1. \A t \in L : A[x][t] # None
      BY <1>1, <1>5 DEF Fitting
    <3> QED BY <1>22, <3>1 DEF SameFees
  <2>3. ASSUME q.rest > 0, NEW t \in Keys \ L, B[x][t] # None
        PROVE  Covered(B[x][t], Unpaid(q, t))
    <3>1. A[x][t] # None
      BY <1>22, <2>3 DEF SameFees
    <3>2. p.rest > 0
      BY <1>3, <1>15, <1>16, <2>3
    <3>3. Covered(A[x][t], Unpaid(p, t))
      BY <1>1, <1>5, <3>1, <3>2 DEF Fitting
    <3>4. CASE t = y
      <4>1. Unpaid(p, t) = I /\ Unpaid(q, t) = I \ {f}
        BY <1>2, <1>4, <1>16, <3>4 DEF Unpaid
      <4>2. ASSUME NEW g \in Billed(new.items) \ (I \ {f})
            PROVE  new.items[g].paid >= new.items[g].amount
        <5>1. CASE g = f
          BY <1>23, <2>3, <5>1
        <5>2. CASE g # f
          <6>1. g \in Billed(inv.items) \ I /\ new.items[g] = inv.items[g]
            BY <1>18, <4>2, <5>2
          <6> QED BY <1>6, <3>3, <3>4, <4>1, <6>1 DEF Covered
        <5> QED BY <5>1, <5>2
      <4> QED BY <1>22, <3>4, <4>1, <4>2 DEF Covered
    <3>5. CASE t # y
      <4>1. B[x][t] = A[x][t] /\ Unpaid(q, t) = Unpaid(p, t)
        BY <1>2, <1>16, <1>21, <3>5 DEF Unpaid, Replaces
      <4> QED BY <3>3, <4>1
    <3> QED BY <3>4, <3>5
  <2> QED BY <1>16, <1>22, <2>1, <2>2, <2>3 DEF Fitting
<1>25. Opens(p, q, x, y) /\ Open(q, x, y)
  BY <1>1, <1>2, <1>16 DEF Opens, Open
<1>26. q.rest = p.rest - applied /\ PaidOf(new.items) = PaidOf(A[x][y].items) + applied
  BY <1>3, <1>6, <1>16, <1>18
<1> QED BY <1>15, <1>16, <1>18, <1>21, <1>24, <1>25, <1>26, RowsStep

(* The items have been gone through, or the share is used up.              *)
LEMMA InvoiceClosed ==
  ASSUME NEW p \in Payment, NEW A \in AllRows, NEW q, NEW B, Books(p, A), Fitting(p, A),
         p.at = "items", p.rest = 0 \/ p.items = {}
  PROVE  /\ q = [p EXCEPT !.at = "invoices"]
         /\ B = [A EXCEPT ![p.student][p.term] = Recalculate(@)]
         => Steps(p, A, q, B)
<1>0. SUFFICES ASSUME q = [p EXCEPT !.at = "invoices"],
                      B = [A EXCEPT ![p.student][p.term] = Recalculate(@)]
               PROVE  Steps(p, A, q, B)
  OBVIOUS
<1>1. PICK x \in Children : x = p.student
  BY PaymentFields
<1>2. PICK y \in Keys : y = p.term
  BY PaymentFields
<1>3. PICK r \in Nat : r = p.rest
  BY PaymentFields
<1>4. PICK L \in SUBSET Keys : L = p.left
  BY PaymentFields
<1>5. PICK inv : inv = A[x][y]
  OBVIOUS
<1>6. inv # None
  BY <1>1, <1>2, <1>5 DEF Fitting
<1>7. inv \in Invoice /\ Sound(inv)
  BY <1>5, <1>6, NotNone DEF AllRows, Row, Books
<1>8. /\ q \in Payment /\ q.rest = r /\ q.amount = p.amount
      /\ q.at = "invoices" /\ q.left = L /\ q.student = x /\ q.term = y
  BY <1>0, <1>1, <1>2, <1>3, <1>4 DEF Payment
<1>9. PICK new : new = Recalculate(inv)
  OBVIOUS
<1>10. new \in Invoice /\ new.items = inv.items /\ new.total = inv.total /\ RightInvoice(new)
  BY <1>7, <1>9, Recalculated
<1>11. Sound(new)
  BY <1>7, <1>10 DEF Sound
<1>12. B = [A EXCEPT ![x][y] = new]
  BY <1>0, <1>1, <1>2, <1>5, <1>9 DEF AllRows, Row
<1>13. Replaces(A, [A EXCEPT ![x][y] = new], x, y, new)
  BY <1>5, <1>7, <1>10, InvoiceReplaced
<1>14. Replaces(A, B, x, y, new)
  BY <1>12, <1>13
<1>15. SameFees(A, B) /\ B[x][y] = new
  <2>1. SameFees(A, B)
    BY <1>14, FeesStay
  <2>2. B[x][y] = new
    BY <1>14 DEF Replaces
  <2> QED BY <2>1, <2>2
<1>16. Fitting(q, B)
  <2>1. \A t \in L : B[x][t] # None
    <3>1. \A t \in L : A[x][t] # None
      BY <1>1, <1>4 DEF Fitting
    <3> QED BY <1>15, <3>1 DEF SameFees
  <2>2. ASSUME q.rest > 0, NEW t \in Keys \ L, B[x][t] # None
        PROVE  Covered(B[x][t], Unpaid(q, t))
    <3>1. A[x][t] # None
      BY <1>15, <2>2 DEF SameFees
    <3>2. p.rest > 0
      BY <1>3, <1>8, <2>2
    <3>3. Covered(A[x][t], Unpaid(p, t))
      BY <1>1, <1>4, <3>1, <3>2 DEF Fitting
    <3>4. Unpaid(p, t) = {} /\ Unpaid(q, t) = {}
      BY <1>8, <3>2 DEF Unpaid
    <3>5. B[x][t].items = A[x][t].items
      BY <1>5, <1>10, <1>14 DEF Replaces
    <3> QED BY <3>3, <3>4, <3>5 DEF Covered
  <2> QED BY <1>8, <2>1, <2>2 DEF Fitting
<1>17. Opens(p, q, x, y)
  BY <1>1, <1>2 DEF Opens, Open
<1>18. PICK none \in Nat : none = 0
  OBVIOUS
<1>19. PaidOf(new.items) = PaidOf(A[x][y].items) + none /\ q.rest = p.rest - none
  <2>1. PaidOf(inv.items) \in Nat
    BY <1>7, InvoiceFields, ItemsAddUp
  <2> QED BY <1>3, <1>5, <1>8, <1>10, <1>18, <2>1
<1> QED BY <1>8, <1>10, <1>11, <1>14, <1>16, <1>17, <1>19, RowsStep

Priced(over, rows) ==
  \A st \in Children, f \in Structures : over[st][f] # NoOverride => rows[f] # None
LedgerInv ==
  /\ LedgerTypeOK
  /\ Books(paying, invoice) /\ Funds(paying, invoice, kept)
  /\ paying # NoPayment => Fitting(paying, invoice)
  /\ Issued(invoice) /\ Priced(override, structure)

(* An override reaches an invoice by making one of its items cost amount.  *)
Resynced(inv, new, t, f, amount) ==
  /\ t \in Reached(f) /\ inv # None
  /\ \E g \in ItemsToSync(inv.items, f) : new = SyncInvoice(inv, g, amount)

LEMMA Outcome ==
  ASSUME NEW row, NEW f, NEW amount, NEW mine \in SyncOutcomes(row, f, amount), NEW t \in Keys
  PROVE  /\ mine[t] = row[t] \/ Resynced(row[t], mine[t], t, f, amount)
         /\ t \in Reached(f) /\ row[t] # None /\ ItemsToSync(row[t].items, f) # {}
              => Resynced(row[t], mine[t], t, f, amount)
<1>1. mine[t] \in Synced(row[t], t, f, amount)
  BY DEF SyncOutcomes
<1>2. PICK inv : inv = row[t]
  OBVIOUS
<1>3. PICK new : new = mine[t]
  OBVIOUS
<1>4. new \in Synced(inv, t, f, amount)
  BY <1>1, <1>2, <1>3
<1>5. CASE t \in Reached(f) /\ inv # None /\ ItemsToSync(inv.items, f) # {}
  <2>1. \E g \in ItemsToSync(inv.items, f) : new = SyncInvoice(inv, g, amount)
    BY <1>4, <1>5 DEF Synced
  <2>2. Resynced(inv, new, t, f, amount)
    BY <1>5, <2>1 DEF Resynced
  <2> QED BY <1>2, <1>3, <2>2
<1>6. CASE ~(t \in Reached(f) /\ inv # None /\ ItemsToSync(inv.items, f) # {})
  <2>1. new = inv
    BY <1>4, <1>6, Zenon DEF Synced
  <2> QED BY <1>2, <1>3, <1>6, <2>1
<1> QED BY <1>5, <1>6

LEMMA InvoiceResynced ==
  ASSUME NEW inv \in Invoice, Sound(inv), NEW new, NEW t \in Keys, NEW f \in Structures,
         NEW amount \in Nat, Resynced(inv, new, t, f, amount)
  PROVE  /\ new \in Invoice /\ Sound(new) /\ RightInvoice(new)
         /\ Billed(new.items) = Billed(inv.items) /\ PaidOf(new.items) = PaidOf(inv.items)
<1>1. PICK g \in ItemsToSync(inv.items, f) : new = SyncInvoice(inv, g, amount)
  BY DEF Resynced
<1>2. g \in Billed(inv.items)
  BY DEF ItemsToSync
<1> QED BY <1>1, <1>2, ItemSynced

LEMMA RowsResynced ==
  ASSUME NEW A \in AllRows, NEW B, Books(NoPayment, A), Issued(A), NEW f \in Structures,
         NEW amount \in Nat, B = [st \in Children |-> B[st]],
         \A st \in Children : B[st] = A[st] \/ B[st] \in SyncOutcomes(A[st], f, amount)
  PROVE  /\ B \in AllRows /\ Books(NoPayment, B) /\ Issued(B) /\ MoneyIn(B) = MoneyIn(A)
<1>1. \A st \in Children, t \in Keys : A[st][t] \in Invoice \cup {None}
  BY DEF AllRows, Row
<1>2. ASSUME NEW st \in Children, NEW t \in Keys
      PROVE  /\ B[st][t] \in Invoice \cup {None} /\ (A[st][t] = None => B[st][t] = None)
             /\ A[st][t] # None => /\ B[st][t] # None /\ Sound(B[st][t]) /\ RightInvoice(B[st][t])
                                   /\ Billed(B[st][t].items) = Billed(A[st][t].items)
                                   /\ PaidOf(B[st][t].items) = PaidOf(A[st][t].items)
  <2>1. PICK inv \in Invoice \cup {None} : inv = A[st][t]
    BY <1>1
  <2>2. PICK new : new = B[st][t]
    OBVIOUS
  <2>3. new = inv \/ Resynced(inv, new, t, f, amount)
    BY <2>1, <2>2, Outcome
  <2>4. inv # None => Sound(inv) /\ RightInvoice(inv)
    BY <2>1, PaymentApart DEF Books, Open
  <2>5. CASE new = inv
    BY <2>1, <2>2, <2>4, <2>5
  <2>6. CASE Resynced(inv, new, t, f, amount)
    <3>1. inv # None
      BY <2>6 DEF Resynced
    <3>2. inv \in Invoice /\ Sound(inv)
      BY <2>4, <3>1
    <3>3. /\ new \in Invoice /\ Sound(new) /\ RightInvoice(new)
          /\ Billed(new.items) = Billed(inv.items) /\ PaidOf(new.items) = PaidOf(inv.items)
      BY <2>6, <3>2, InvoiceResynced
    <3> QED BY <2>1, <2>2, <3>1, <3>3, NotNone
  <2> QED BY <2>3, <2>5, <2>6
<1>3. B \in AllRows
  <2>1. ASSUME NEW st \in Children PROVE B[st] \in Row
    <3>1. B[st] = A[st] \/ \E V : B[st] \in [Keys -> V]
      BY DEF SyncOutcomes
    <3>2. \A t \in Keys : B[st][t] \in Invoice \cup {None}
      BY <1>2
    <3>3. CASE B[st] = A[st]
      BY <3>3 DEF AllRows
    <3>4. CASE \E V : B[st] \in [Keys -> V]
      BY <3>2, <3>4 DEF Row
    <3> QED BY <3>1, <3>3, <3>4
  <2> QED BY <2>1 DEF AllRows
<1>4. Books(NoPayment, B)
  BY <1>2 DEF Books
<1>5. Issued(B)
  <2>1. ASSUME NEW st \in Children, NEW t \in Keys, B[st][t] # None, NEW g \in Billed(B[st][t].items)
        PROVE  TermOf[g] = t
    BY <1>2, <2>1 DEF Issued
  <2> QED BY <2>1 DEF Issued
<1>6. \A s \in Children, u \in Keys : Paid(B[s][u]) = Paid(A[s][u])
  BY <1>2 DEF Paid
<1>7. MoneyIn(B) = MoneyIn(A)
  BY <1>6, MoneyStays
<1> QED BY <1>3, <1>4, <1>5, <1>7

LEMMA LedgerTyped ==
  ASSUME LedgerTypeOK
  PROVE  /\ structure \in [Structures -> Structure \cup {None}]
         /\ override \in [Children -> [Structures -> Nat \cup {NoOverride}]]
         /\ invoice \in AllRows /\ invoice \in [Children -> Row]
         /\ generations \in Nat /\ payments \in Nat /\ paying \in Payment \cup {NoPayment}
         /\ kept \in Nat /\ unapplied \in Children \cup {None}
BY DEF LedgerTypeOK, AllRows, Row

LEMMA LedgerTypedIf ==
  ASSUME structure \in [Structures -> Structure \cup {None}],
         override \in [Children -> [Structures -> Nat \cup {NoOverride}]],
         invoice \in AllRows, generations \in Nat, payments \in Nat,
         paying \in Payment \cup {NoPayment}, kept \in Nat, unapplied \in Children \cup {None}
  PROVE  LedgerTypeOK
BY DEF LedgerTypeOK, AllRows, Row

LEMMA NoneIsNoStructure == None \notin Structure
BY DEF None, Structure

(* Fee structures.                                                         *)
LEMMA StructureStep ==
  ASSUME LedgerInv, NEW f \in Structures, NEW s \in Structure,
         structure' = [structure EXCEPT ![f] = s],
         UNCHANGED <<override, invoice, generations, payments, paying, kept, unapplied>>
  PROVE  LedgerInv'
<1>1. structure \in [Structures -> Structure \cup {None}] /\ s # None
  BY LedgerTyped, NoneIsNoStructure DEF LedgerInv
<1>2. /\ structure' \in [Structures -> Structure \cup {None}]
      /\ \A g \in Structures : structure[g] # None => structure'[g] # None
  BY <1>1
<1>3. LedgerTypeOK' /\ Priced(override, structure)'
  BY <1>2 DEF LedgerInv, LedgerTypeOK, Priced
<1>4. /\ Books(paying, invoice)' /\ Funds(paying, invoice, kept)'
      /\ (paying # NoPayment => Fitting(paying, invoice))' /\ Issued(invoice)'
  BY DEF LedgerInv
<1> QED BY <1>3, <1>4 DEF LedgerInv

LEMMA CreateStep ==
  ASSUME LedgerInv, NEW f \in Structures, NEW a \in FeeAmounts[f],
         CreateFeeStructure(f, a) \/ UpdateFeeStructure(f, a)
  PROVE  LedgerInv'
<1>1. structure \in [Structures -> Structure \cup {None}] /\ a \in Nat
  BY LedgerTyped, LedgerAssumption DEF LedgerInv
<1>2. UNCHANGED <<override, invoice, generations, payments, paying, kept, unapplied>>
  BY DEF CreateFeeStructure, UpdateFeeStructure, counts
<1>3. \E s \in Structure : structure' = [structure EXCEPT ![f] = s]
  <2>1. CASE CreateFeeStructure(f, a)
    <3>1. PICK s \in Structure : s = [amount |-> a, active |-> TRUE]
      BY <1>1 DEF Structure
    <3> QED BY <2>1, <3>1 DEF CreateFeeStructure
  <2>2. CASE UpdateFeeStructure(f, a)
    <3>1. structure[f] \in Structure
      BY <1>1, <2>2 DEF UpdateFeeStructure
    <3>2. PICK s \in Structure : s = [structure[f] EXCEPT !.amount = a]
      BY <1>1, <3>1 DEF Structure
    <3> QED BY <1>1, <2>2, <3>2 DEF UpdateFeeStructure
  <2> QED BY <2>1, <2>2
<1> QED BY <1>2, <1>3, StructureStep

LEMMA DeactivateStep ==
  ASSUME LedgerInv, NEW f \in Structures, DeactivateFeeStructure(f)
  PROVE  LedgerInv'
<1>1. structure \in [Structures -> Structure \cup {None}] /\ structure[f] # None
  BY LedgerTyped DEF LedgerInv, DeactivateFeeStructure
<1>2. /\ UNCHANGED <<override, invoice, generations, payments, paying, kept, unapplied>>
      /\ structure' = [structure EXCEPT ![f].active = FALSE]
  BY DEF DeactivateFeeStructure, counts
<1>3. PICK s \in Structure : s = [structure[f] EXCEPT !.active = FALSE]
  BY <1>1 DEF Structure
<1>4. structure' = [structure EXCEPT ![f] = s]
  BY <1>1, <1>2, <1>3
<1> QED BY <1>2, <1>4, StructureStep

(* Overrides.                                                              *)
LEMMA ResyncStep ==
  ASSUME LedgerInv, Committed, NEW f \in Structures, NEW a \in Nat,
         invoice' = [st \in Children |-> invoice'[st]],
         \A st \in Children : \/ invoice'[st] = invoice[st]
                              \/ invoice'[st] \in SyncOutcomes(invoice[st], f, a),
         UNCHANGED <<structure, generations, payments, paying, kept, unapplied>>,
         override' \in [Children -> [Structures -> Nat \cup {NoOverride}]],
         Priced(override', structure)
  PROVE  LedgerInv'
<1>1. /\ LedgerTypeOK /\ Books(NoPayment, invoice) /\ Issued(invoice)
      /\ MoneyIn(invoice) = kept /\ paying = NoPayment
  BY DEF LedgerInv, Committed, Funds
<1>2. invoice \in AllRows
  BY <1>1, LedgerTyped
<1>3. /\ invoice' \in AllRows /\ Books(NoPayment, invoice') /\ Issued(invoice')
      /\ MoneyIn(invoice') = MoneyIn(invoice)
  BY <1>1, <1>2, RowsResynced
<1>4. invoice' \in [Children -> [Keys -> Invoice \cup {None}]]
  BY <1>3 DEF AllRows, Row
<1>5. LedgerTypeOK'
  BY <1>1, <1>4 DEF LedgerTypeOK
<1>6. Books(paying, invoice)' /\ Issued(invoice)' /\ Priced(override, structure)'
  BY <1>1, <1>3
<1>7. Funds(paying, invoice, kept)'
  BY <1>1, <1>3 DEF Funds
<1> QED BY <1>1, <1>5, <1>6, <1>7 DEF LedgerInv

LEMMA OverrideStep ==
  ASSUME LedgerInv, NEW f \in Structures, NEW a \in Overrides, NEW group \in SUBSET Children,
         BulkCreateOverrides(f, group, a)
  PROVE  LedgerInv'
<1>1. a \in Nat
  BY LedgerAssumption
<1>2. /\ override \in [Children -> [Structures -> Nat \cup {NoOverride}]]
      /\ Priced(override, structure)
  BY LedgerTyped DEF LedgerInv
<1>3. /\ Committed /\ structure[f] # None
      /\ override' = [st \in Children |->
            IF st \in group THEN [override[st] EXCEPT ![f] = a] ELSE override[st]]
      /\ UNCHANGED <<structure, generations, payments, paying, kept, unapplied>>
  BY DEF BulkCreateOverrides, counts
<1>4. override' \in [Children -> [Structures -> Nat \cup {NoOverride}]]
  BY <1>1, <1>2, <1>3
<1>5. Priced(override', structure)
  <2>1. ASSUME NEW st \in Children, NEW g \in Structures, override'[st][g] # NoOverride
        PROVE  structure[g] # None
    <3>1. g = f \/ override'[st][g] = override[st][g]
      BY <1>2, <1>3
    <3> QED BY <1>2, <1>3, <2>1, <3>1 DEF Priced
  <2> QED BY <2>1 DEF Priced
<1>6. PICK rows : /\ \A st \in group : rows[st] \in SyncOutcomes(invoice[st], f, a)
                  /\ invoice' = [st \in Children |->
                                   IF st \in group THEN rows[st] ELSE invoice[st]]
  BY DEF BulkCreateOverrides
<1>7. /\ invoice' = [st \in Children |-> invoice'[st]]
      /\ \A st \in Children : \/ invoice'[st] = invoice[st]
                              \/ invoice'[st] \in SyncOutcomes(invoice[st], f, a)
  BY <1>6
<1> QED BY <1>1, <1>3, <1>4, <1>5, <1>7, ResyncStep

LEMMA RemovalStep ==
  ASSUME LedgerInv, NEW st \in Children, NEW f \in Structures, RemoveOverride(st, f)
  PROVE  LedgerInv'
<1>1. /\ override \in [Children -> [Structures -> Nat \cup {NoOverride}]]
      /\ structure \in [Structures -> Structure \cup {None}]
      /\ Priced(override, structure) /\ invoice \in AllRows
  BY LedgerTyped DEF LedgerInv
<1>2. /\ Committed /\ override[st][f] # NoOverride
      /\ override' = [override EXCEPT ![st][f] = NoOverride]
      /\ UNCHANGED <<structure, generations, payments, paying, kept, unapplied>>
  BY DEF RemoveOverride, counts
<1>3. structure[f].amount \in Nat
  <2>1. structure[f] # None
    BY <1>1, <1>2 DEF Priced
  <2> QED BY <1>1, <2>1 DEF Structure
<1>4. override' \in [Children -> [Structures -> Nat \cup {NoOverride}]]
  BY <1>1, <1>2
<1>5. Priced(override', structure)
  <2>1. ASSUME NEW s \in Children, NEW g \in Structures, override'[s][g] # NoOverride
        PROVE  structure[g] # None
    <3>1. override'[s][g] = override[s][g]
      BY <1>1, <1>2, <2>1
    <3> QED BY <1>1, <2>1, <3>1 DEF Priced
  <2> QED BY <2>1 DEF Priced
<1>6. PICK row \in SyncOutcomes(invoice[st], f, structure[f].amount) :
         invoice' = [invoice EXCEPT ![st] = row]
  BY DEF RemoveOverride
<1>7. /\ invoice' = [s \in Children |-> invoice'[s]]
      /\ \A s \in Children : \/ invoice'[s] = invoice[s]
                             \/ invoice'[s] \in SyncOutcomes(invoice[s], f, structure[f].amount)
  BY <1>1, <1>6 DEF AllRows
<1> QED BY <1>2, <1>3, <1>4, <1>5, <1>7, ResyncStep

(* Generation.                                                             *)
LEMMA NewItemTyped ==
  ASSUME LedgerTypeOK, NEW st \in Children, NEW t \in Keys, NEW f \in Applicable(st, t)
  PROVE  /\ NewItem(st, f) \in Item /\ NewItem(st, f).paid = 0
         /\ NewItem(st, f).balance = NewItem(st, f).amount
         /\ (override[st][f] # NoOverride => NewItem(st, f).amount = override[st][f])
         /\ TermOf[f] = t
<1>1. f \in Structures /\ structure[f] # None /\ TermOf[f] = t
  BY DEF Applicable, Active
<1>2. structure[f].amount \in Nat
  BY <1>1, LedgerTyped DEF Structure
<1>3. override[st][f] # NoOverride => override[st][f] \in Nat
  BY <1>1, LedgerTyped
<1>4. PICK n \in Nat : n = IF override[st][f] # NoOverride THEN override[st][f]
                           ELSE structure[f].amount
  BY <1>2, <1>3
<1>5. NewItem(st, f) = [amount |-> n, paid |-> 0, balance |-> n]
  BY <1>4 DEF NewItem
<1> QED BY <1>1, <1>4, <1>5 DEF Item

LEMMA GenerateStep ==
  ASSUME LedgerInv, NEW t \in Keys, NEW force \in BOOLEAN, GenerateInvoices(t, force)
  PROVE  LedgerInv'
<1>1. /\ LedgerTypeOK /\ invoice \in AllRows /\ invoice \in [Children -> Row]
      /\ kept \in Nat /\ generations \in Nat
      /\ paying = NoPayment /\ Books(NoPayment, invoice) /\ MoneyIn(invoice) = kept
      /\ Issued(invoice) /\ Priced(override, structure)
  BY LedgerTyped DEF LedgerInv, Funds, GenerateInvoices, Committed
<1>2. PICK R : R = [st \in Children |-> IF Generates(st, t, force) THEN Paid(invoice[st][t]) ELSE 0]
  OBVIOUS
<1>3. PICK B : B = [st \in Children |->
                      IF Generates(st, t, force) THEN [invoice[st] EXCEPT ![t] = NewInvoice(st, t)]
                      ELSE invoice[st]]
  OBVIOUS
<1>4. /\ invoice' = B /\ kept' = kept - AddedUp(R) /\ generations' = generations + 1
      /\ UNCHANGED <<structure, override, payments, paying, unapplied>>
  BY <1>2, <1>3 DEF GenerateInvoices
<1>5. \A st \in Children : /\ invoice[st] \in Row
                           /\ \A u \in Keys : invoice[st][u] \in Invoice \cup {None}
  BY <1>1 DEF Row
<1>6. ASSUME NEW st \in Children
      PROVE  LET new == NewInvoice(st, t)
             IN  /\ new \in Invoice /\ Sound(new) /\ RightInvoice(new)
                 /\ \A f \in Billed(new.items) : TermOf[f] = t
                 /\ PaidOf(new.items) = 0
  <2>1. \A f \in Applicable(st, t) :
           NewItem(st, f) \in Item /\ NewItem(st, f).paid = 0
           /\ NewItem(st, f).balance = NewItem(st, f).amount
    BY <1>1, NewItemTyped
  <2>2. \A f \in Applicable(st, t) : TermOf[f] = t
    BY DEF Applicable, Active
  <2> QED BY <1>1, <2>1, <2>2, InvoiceIssued
<1>7. ASSUME NEW st \in Children
      PROVE  /\ B[st] \in Row /\ \A u \in Keys \ {t} : invoice[st][u] = B[st][u]
             /\ Paid(invoice[st][t]) = Paid(B[st][t]) + R[st] /\ R[st] \in Nat
             /\ \A u \in Keys : B[st][u] = invoice[st][u] \/ (u = t /\ B[st][u] = NewInvoice(st, t))
  <2>1. Paid(invoice[st][t]) \in Nat
    BY <1>5, PaidTyped
  <2>2. CASE Generates(st, t, force)
    <3>1. PICK new : new = NewInvoice(st, t)
      OBVIOUS
    <3>2. new \in Invoice /\ PaidOf(new.items) = 0 /\ new # None
      BY <1>6, <3>1, NotNone
    <3>3. B[st] = [invoice[st] EXCEPT ![t] = new] /\ R[st] = Paid(invoice[st][t])
      BY <1>2, <1>3, <2>2, <3>1
    <3>4. /\ B[st] \in Row /\ B[st][t] = new /\ \A u \in Keys \ {t} : invoice[st][u] = B[st][u]
      BY <1>5, <3>2, <3>3 DEF Row
    <3>5. Paid(B[st][t]) = 0
      BY <3>2, <3>4 DEF Paid
    <3> QED BY <2>1, <3>1, <3>3, <3>4, <3>5
  <2>3. CASE ~Generates(st, t, force)
    <3>1. B[st] = invoice[st] /\ R[st] = 0
      BY <1>2, <1>3, <2>3
    <3> QED BY <1>5, <2>1, <3>1
  <2> QED BY <2>2, <2>3
<1>8. B \in [Children -> Row] /\ B \in AllRows /\ R \in [Children -> Nat]
  <2>1. B = [st \in Children |-> B[st]] /\ R = [st \in Children |-> R[st]]
    BY <1>2, <1>3
  <2>2. (\A st \in Children : B[st] \in Row) /\ \A st \in Children : R[st] \in Nat
    BY <1>7
  <2> QED BY <2>1, <2>2 DEF AllRows
<1>9. MoneyIn(invoice) = MoneyIn(B) + AddedUp(R)
  BY <1>1, <1>7, <1>8, MoneyRemoved
<1>10. MoneyIn(B) \in Nat /\ AddedUp(R) \in Nat
  <2>1. IsFiniteSet(Children)
    BY LedgerAssumption
  <2> QED BY <1>8, <2>1, MoneyTyped, AddedUpIs
<1>11. kept' = MoneyIn(B)
  BY <1>1, <1>4, <1>9, <1>10
<1>12. ASSUME NEW st \in Children, NEW u \in Keys, B[st][u] # None
       PROVE  /\ Sound(B[st][u]) /\ RightInvoice(B[st][u])
              /\ \A f \in Billed(B[st][u].items) : TermOf[f] = u
  <2>1. CASE B[st][u] = invoice[st][u]
    BY <1>1, <1>12, <2>1, PaymentApart DEF Books, Open, Issued
  <2>2. CASE u = t /\ B[st][u] = NewInvoice(st, t)
    BY <1>6, <2>2
  <2> QED BY <1>7, <2>1, <2>2
<1>13. Books(NoPayment, B) /\ Issued(B)
  BY <1>12 DEF Books, Issued
<1>14. invoice' \in [Children -> [Keys -> Invoice \cup {None}]]
  BY <1>4, <1>8 DEF Row
<1>15. LedgerTypeOK'
  BY <1>1, <1>4, <1>10, <1>11, <1>14 DEF LedgerTypeOK
<1>16. Books(paying, invoice)' /\ Issued(invoice)' /\ Priced(override, structure)'
  BY <1>1, <1>4, <1>13
<1>17. Funds(paying, invoice, kept)'
  BY <1>1, <1>4, <1>11 DEF Funds
<1> QED BY <1>1, <1>4, <1>15, <1>16, <1>17 DEF LedgerInv

(* Payments.                                                               *)
LEMMA PayingTyped ==
  ASSUME LedgerInv, paying.at \in {"allocations", "invoices", "items"}
  PROVE  /\ paying \in Payment /\ invoice \in AllRows /\ Books(paying, invoice)
         /\ Fitting(paying, invoice) /\ MoneyIn(invoice) + paying.rest = kept + paying.amount
BY PaymentApart, LedgerTyped DEF LedgerInv, Funds

LEMMA StepStep ==
  ASSUME LedgerInv, paying \in Payment, MoneyIn(invoice) + paying.rest = kept + paying.amount,
         Steps(paying, invoice, paying', invoice'),
         UNCHANGED <<structure, override, generations, payments, kept, unapplied>>
  PROVE  LedgerInv'
<1>1. /\ paying' \in Payment /\ invoice' \in AllRows /\ Books(paying', invoice')
      /\ Fitting(paying', invoice') /\ SameFees(invoice, invoice')
      /\ MoneyIn(invoice') + paying'.rest = MoneyIn(invoice) + paying.rest
      /\ paying'.amount = paying.amount
  BY DEF Steps
<1>2. Issued(invoice') /\ Priced(override, structure)'
  BY <1>1, SameFeesIssued DEF LedgerInv
<1>3. invoice' \in [Children -> [Keys -> Invoice \cup {None}]]
  BY <1>1 DEF AllRows, Row
<1>4. LedgerTypeOK'
  BY <1>1, <1>3 DEF LedgerInv, LedgerTypeOK
<1>5. Funds(paying, invoice, kept)'
  BY <1>1, PaymentApart DEF Funds
<1> QED BY <1>1, <1>2, <1>4, <1>5 DEF LedgerInv

LEMMA AllocateStep ==
  ASSUME LedgerInv, Allocate
  PROVE  LedgerInv' /\ Steps(paying, invoice, paying', invoice')
<1>1. PICK p \in Payment : p = paying
  BY PayingTyped DEF Allocate
<1>2. PICK A \in AllRows : A = invoice
  BY PayingTyped DEF Allocate
<1>3. PICK q : q = paying'
  OBVIOUS
<1>4. PICK B : B = invoice'
  OBVIOUS
<1>5. Books(p, A) /\ Fitting(p, A) /\ p.at = "allocations" /\ p.named # <<>>
  BY <1>1, <1>2, PayingTyped DEF Allocate
<1>6. PICK applied : applied = Least(Head(p.named).amount, p.rest)
  OBVIOUS
<1>7. /\ q = [p EXCEPT !.named = Tail(@), !.rest = @ - applied]
      /\ B = IF applied = 0 THEN A
             ELSE [A EXCEPT ![Head(p.named).student][Head(p.named).term] =
                     Recalculate(PayItem(@, Head(p.named).structure, applied))]
  BY <1>1, <1>2, <1>3, <1>4, <1>6 DEF Allocate
<1>8. Steps(p, A, q, B)
  BY <1>5, <1>6, <1>7, Allocated
<1>9. Steps(paying, invoice, paying', invoice')
  BY <1>1, <1>2, <1>3, <1>4, <1>8
<1>10. /\ UNCHANGED <<structure, override, generations, payments, kept, unapplied>>
       /\ paying.at = "allocations"
  BY DEF Allocate
<1> QED BY <1>1, <1>9, <1>10, PayingTyped, StepStep

LEMMA PayItemStep ==
  ASSUME LedgerInv, NEW f \in Structures, PayNextItem(f)
  PROVE  LedgerInv' /\ Steps(paying, invoice, paying', invoice')
<1>0. paying.at = "items" /\ f \in paying.items
  BY DEF PayNextItem
<1>1. PICK p \in Payment : p = paying
  BY <1>0, PayingTyped
<1>2. PICK A \in AllRows : A = invoice
  BY <1>0, PayingTyped
<1>3. PICK q : q = paying'
  OBVIOUS
<1>4. PICK B : B = invoice'
  OBVIOUS
<1>5. Books(p, A) /\ Fitting(p, A) /\ p.at = "items" /\ f \in p.items
  BY <1>0, <1>1, <1>2, PayingTyped
<1>6. PICK inv : inv = A[p.student][p.term]
  OBVIOUS
<1>7. PICK applied : applied = Least(Floor(inv.items[f].amount - inv.items[f].paid), p.rest)
  OBVIOUS
<1>8. /\ q = [p EXCEPT !.items = @ \ {f}, !.rest = @ - applied]
      /\ B = [A EXCEPT ![p.student][p.term] = PayItem(inv, f, applied)]
  BY <1>1, <1>2, <1>3, <1>4, <1>6, <1>7 DEF PayNextItem
<1>9. Steps(p, A, q, B)
  BY <1>5, <1>6, <1>7, <1>8, NextItemPaid
<1>10. Steps(paying, invoice, paying', invoice')
  BY <1>1, <1>2, <1>3, <1>4, <1>9
<1>11. UNCHANGED <<structure, override, generations, payments, kept, unapplied>>
  BY DEF PayNextItem
<1> QED BY <1>0, <1>1, <1>10, <1>11, PayingTyped, StepStep

LEMMA CloseStep ==
  ASSUME LedgerInv, CloseInvoice
  PROVE  LedgerInv' /\ Steps(paying, invoice, paying', invoice')
<1>0. paying.at = "items" /\ (paying.rest = 0 \/ paying.items = {})
  BY DEF CloseInvoice
<1>1. PICK p \in Payment : p = paying
  BY <1>0, PayingTyped
<1>2. PICK A \in AllRows : A = invoice
  BY <1>0, PayingTyped
<1>3. PICK q : q = paying'
  OBVIOUS
<1>4. PICK B : B = invoice'
  OBVIOUS
<1>5. Books(p, A) /\ Fitting(p, A) /\ p.at = "items" /\ (p.rest = 0 \/ p.items = {})
  BY <1>0, <1>1, <1>2, PayingTyped
<1>6. /\ q = [p EXCEPT !.at = "invoices"]
      /\ B = [A EXCEPT ![p.student][p.term] = Recalculate(@)]
  BY <1>1, <1>2, <1>3, <1>4 DEF CloseInvoice, LeaveInvoice
<1>7. Steps(p, A, q, B)
  BY <1>5, <1>6, InvoiceClosed
<1>8. Steps(paying, invoice, paying', invoice')
  BY <1>1, <1>2, <1>3, <1>4, <1>7
<1>9. UNCHANGED <<structure, override, generations, payments, kept, unapplied>>
  BY DEF CloseInvoice, LeaveInvoice
<1> QED BY <1>0, <1>1, <1>8, <1>9, PayingTyped, StepStep

LEMMA ApplyStep ==
  ASSUME LedgerInv, NEW st \in Children, NEW amount \in Payments, NEW split \in Splits,
         ApplyPayment(st, amount, split)
  PROVE  LedgerInv'
<1>1. /\ LedgerTypeOK /\ paying = NoPayment /\ Books(NoPayment, invoice)
      /\ MoneyIn(invoice) = kept /\ Issued(invoice) /\ Priced(override, structure)
      /\ UNCHANGED <<structure, override, invoice, generations, payments, kept, unapplied>>
  BY DEF LedgerInv, Funds, ApplyPayment, Committed
<1>2. amount \in Nat /\ split \in Seq(Nat)
  BY LedgerAssumption
<1>3. PICK target \in [DOMAIN split -> Payable] :
         paying' = [at |-> "allocations", student |-> st, amount |-> amount, rest |-> amount,
                    named |-> [i \in DOMAIN split |->
                                 [student |-> target[i].student, term |-> target[i].term,
                                  structure |-> target[i].structure, amount |-> split[i]]],
                    left |-> {}, term |-> NoTerm, items |-> {}]
  BY DEF ApplyPayment
<1>4. PICK n \in Nat : n = Len(split) /\ DOMAIN split = 1 .. n /\ \A i \in 1 .. n : split[i] \in Nat
  BY <1>2
<1>5. PICK named : named = [i \in DOMAIN split |->
                              [student |-> target[i].student, term |-> target[i].term,
                               structure |-> target[i].structure, amount |-> split[i]]]
  OBVIOUS
<1>6. ASSUME NEW i \in 1 .. n PROVE named[i] \in Allocation /\ IsTarget(named[i], invoice)
  <2>1. PICK a \in Payable : a = target[i]
    BY <1>4
  <2>2. /\ a.student \in Children /\ a.term \in Keys /\ a.structure \in Structures
        /\ invoice[a.student][a.term] # None
        /\ a.structure \in Billed(invoice[a.student][a.term].items)
    BY DEF Payable
  <2>3. named[i] = [student |-> a.student, term |-> a.term, structure |-> a.structure,
                    amount |-> split[i]]
    BY <1>4, <1>5, <2>1
  <2>4. split[i] \in Nat
    BY <1>4
  <2> QED BY <2>2, <2>3, <2>4 DEF Allocation, IsTarget
<1>7. named \in Seq(Allocation) /\ Len(named) = n
  <2>1. named = [i \in 1 .. n |-> named[i]]
    BY <1>4, <1>5
  <2>2. named \in [1 .. n -> Allocation]
    BY <1>6, <2>1
  <2> QED BY <2>2
<1>8. PICK q : q = [at |-> "allocations", student |-> st, amount |-> amount, rest |-> amount,
                    named |-> named, left |-> {}, term |-> NoTerm, items |-> {}]
  OBVIOUS
<1>9. NoTerm \in Keys
  BY DEF Keys
<1>10. /\ q \in Payment /\ q.at = "allocations" /\ q.student = st /\ q.amount = amount
       /\ q.rest = amount /\ q.named = named /\ q.left = {}
  BY <1>2, <1>7, <1>8, <1>9 DEF Payment
<1>11. paying' = q
  BY <1>3, <1>5, <1>8
<1>12. Fitting(q, invoice)
  BY <1>6, <1>7, <1>10 DEF Fitting
<1>13. Books(q, invoice)
  BY <1>1, <1>10, PaymentApart DEF Books, Open
<1>14. Funds(q, invoice, kept)
  BY <1>1, <1>10, PaymentApart DEF Funds
<1>15. LedgerTypeOK'
  BY <1>1, <1>10, <1>11 DEF LedgerTypeOK
<1>16. Books(paying, invoice)' /\ Funds(paying, invoice, kept)' /\ Fitting(paying, invoice)'
  BY <1>1, <1>11, <1>12, <1>13, <1>14
<1>17. Issued(invoice)' /\ Priced(override, structure)'
  BY <1>1
<1> QED BY <1>15, <1>16, <1>17 DEF LedgerInv

LEMMA FindStep ==
  ASSUME LedgerInv, FindInvoices
  PROVE  LedgerInv' /\ Steps(paying, invoice, paying', invoice')
<1>1. PICK p \in Payment : p = paying
  BY PayingTyped DEF FindInvoices
<1>2. PICK A \in AllRows : A = invoice
  BY PayingTyped DEF FindInvoices
<1>3. PICK L \in SUBSET Keys : L = {t \in Keys : A[p.student][t] # None}
  OBVIOUS
<1>4. PICK q : q = [p EXCEPT !.at = "invoices", !.left = L]
  OBVIOUS
<1>5. paying' = q /\ p.at = "allocations" /\ invoice' = A
  BY <1>1, <1>2, <1>3, <1>4 DEF FindInvoices
<1>6. /\ q \in Payment /\ q.at = "invoices" /\ q.student = p.student /\ q.rest = p.rest
      /\ q.amount = p.amount /\ q.left = L
  BY <1>4 DEF Payment
<1>7. Books(q, A)
  <2>1. Books(p, A) /\ \A s \in Children, u \in Keys : ~Open(p, s, u)
    BY <1>1, <1>2, <1>5, PayingTyped DEF Open
  <2> QED BY <2>1 DEF Books
<1>8. Fitting(q, A)
  <2>1. \A t \in L : A[q.student][t] # None
    BY <1>3, <1>6
  <2>2. \A t \in Keys \ L : A[q.student][t] = None
    BY <1>3, <1>6
  <2> QED BY <1>6, <2>1, <2>2 DEF Fitting
<1>9. Steps(p, A, q, A)
  BY <1>6, <1>7, <1>8, SameFeesItself DEF Steps
<1>10. Steps(paying, invoice, paying', invoice')
  BY <1>1, <1>2, <1>5, <1>9
<1>11. UNCHANGED <<structure, override, generations, payments, kept, unapplied>>
  BY DEF FindInvoices
<1> QED BY <1>1, <1>5, <1>10, <1>11, PayingTyped, StepStep

LEMMA NextInvoiceStep ==
  ASSUME LedgerInv, NEW t \in Keys, NextInvoice(t)
  PROVE  LedgerInv' /\ Steps(paying, invoice, paying', invoice')
<1>0. paying.at = "invoices" /\ t \in paying.left
  BY DEF NextInvoice
<1>1. PICK p \in Payment : p = paying
  BY <1>0, PayingTyped
<1>2. PICK A \in AllRows : A = invoice
  BY <1>0, PayingTyped
<1>3. PICK x \in Children : x = p.student
  BY PaymentFields
<1>4. PICK L \in SUBSET Keys : L = p.left
  BY PaymentFields
<1>5. PICK I \in SUBSET Structures : I = Billed(A[x][t].items)
  BY DEF Billed
<1>6. PICK q : q = [p EXCEPT !.at = "items", !.left = L \ {t}, !.term = t, !.items = I]
  OBVIOUS
<1>7. paying' = q /\ invoice' = A
  BY <1>1, <1>2, <1>3, <1>4, <1>5, <1>6 DEF NextInvoice
<1>8. /\ q \in Payment /\ q.at = "items" /\ q.student = x /\ q.rest = p.rest
      /\ q.amount = p.amount /\ q.left = L \ {t} /\ q.term = t /\ q.items = I
  BY <1>3, <1>4, <1>5, <1>6 DEF Payment
<1>9. p.at = "invoices" /\ t \in L /\ Books(p, A) /\ Fitting(p, A)
  BY <1>0, <1>1, <1>2, <1>4, PayingTyped
<1>10. Books(q, A)
  <2>1. \A s \in Children, u \in Keys : ~Open(p, s, u)
    BY <1>9 DEF Open
  <2> QED BY <1>9, <2>1 DEF Books
<1>11. Fitting(q, A)
  <2>1. \A u \in L : A[x][u] # None
    BY <1>3, <1>4, <1>9 DEF Fitting
  <2>2. ASSUME q.rest > 0, NEW u \in Keys \ (L \ {t}), A[x][u] # None
        PROVE  Covered(A[x][u], Unpaid(q, u))
    <3>1. CASE u = t
      <4>1. Unpaid(q, u) = Billed(A[x][u].items)
        BY <1>5, <1>8, <3>1 DEF Unpaid
      <4> QED BY <4>1 DEF Covered
    <3>2. CASE u # t
      <4>1. Covered(A[x][u], Unpaid(p, u))
        BY <1>3, <1>4, <1>8, <1>9, <2>2, <3>2 DEF Fitting
      <4>2. Unpaid(p, u) = {} /\ Unpaid(q, u) = {}
        BY <1>8, <1>9, <3>2 DEF Unpaid
      <4> QED BY <4>1, <4>2
    <3> QED BY <3>1, <3>2
  <2> QED BY <1>5, <1>8, <1>9, <2>1, <2>2 DEF Fitting
<1>12. Steps(p, A, q, A)
  BY <1>8, <1>10, <1>11, SameFeesItself DEF Steps
<1>13. Steps(paying, invoice, paying', invoice')
  BY <1>1, <1>2, <1>7, <1>12
<1>14. UNCHANGED <<structure, override, generations, payments, kept, unapplied>>
  BY DEF NextInvoice
<1> QED BY <1>0, <1>1, <1>13, <1>14, PayingTyped, StepStep

LEMMA FinishStep ==
  ASSUME LedgerInv, FinishPayment
  PROVE  LedgerInv'
<1>1. /\ paying \in Payment /\ invoice \in AllRows /\ Books(paying, invoice)
      /\ Fitting(paying, invoice) /\ MoneyIn(invoice) + paying.rest = kept + paying.amount
      /\ paying.at = "invoices"
  BY PayingTyped DEF FinishPayment
<1>2. /\ paying' = NoPayment /\ payments' = payments + 1
      /\ kept' = kept + paying.amount - paying.rest
      /\ unapplied' = IF paying.rest > 0 THEN paying.student ELSE None
      /\ UNCHANGED <<structure, override, invoice, generations>>
  BY DEF FinishPayment
<1>3. MoneyIn(invoice) \in Nat /\ paying.rest \in Nat /\ paying.amount \in Nat /\ kept \in Nat
      /\ paying.student \in Children /\ payments \in Nat
  BY <1>1, MoneyTyped, PaymentFields, LedgerTyped DEF AllRows, LedgerInv
<1>4. kept' = MoneyIn(invoice) /\ kept' \in Nat
  BY <1>1, <1>2, <1>3
<1>5. unapplied' \in Children \cup {None} /\ payments' \in Nat
  BY <1>2, <1>3
<1>6. LedgerTypeOK'
  BY <1>2, <1>4, <1>5 DEF LedgerInv, LedgerTypeOK
<1>7. Books(NoPayment, invoice)
  <2>1. \A s \in Children, u \in Keys : ~Open(paying, s, u)
    BY <1>1 DEF Open
  <2> QED BY <1>1, <2>1 DEF Books
<1>8. Books(paying, invoice)' /\ Issued(invoice)' /\ Priced(override, structure)'
  BY <1>2, <1>7 DEF LedgerInv
<1>9. Funds(paying, invoice, kept)'
  BY <1>2, <1>4 DEF Funds
<1> QED BY <1>2, <1>6, <1>8, <1>9 DEF LedgerInv

LEMMA LedgerStart == ASSUME LedgerInit PROVE LedgerInv
<1>1. /\ structure = [f \in Structures |-> None]
      /\ override = [st \in Children |-> [f \in Structures |-> NoOverride]]
      /\ invoice = [st \in Children |-> [t \in Keys |-> None]]
      /\ generations = 0 /\ payments = 0 /\ paying = NoPayment /\ kept = 0 /\ unapplied = None
  BY DEF LedgerInit
<1>2. LedgerTypeOK
  BY <1>1 DEF LedgerTypeOK
<1>3. \A st \in Children, t \in Keys : invoice[st][t] = None
  BY <1>1
<1>4. Books(paying, invoice) /\ Issued(invoice)
  BY <1>3 DEF Books, Issued
<1>5. MoneyIn(invoice) = 0
  <2>1. ASSUME NEW st \in Children PROVE AddedUp([t \in Keys |-> Paid(invoice[st][t])]) = 0
    <3>1. PICK R : R = [t \in Keys |-> Paid(invoice[st][t])]
      OBVIOUS
    <3>2. R \in [Keys -> Nat] /\ \A t \in Keys : R[t] = 0
      BY <1>3, <3>1 DEF Paid
    <3> QED BY <3>1, <3>2, KeysFinite, AddedUpZero
  <2>2. PICK S : S = [st \in Children |-> AddedUp([t \in Keys |-> Paid(invoice[st][t])])]
    OBVIOUS
  <2>3. S \in [Children -> Nat] /\ \A st \in Children : S[st] = 0
    BY <2>1, <2>2
  <2>4. IsFiniteSet(Children)
    BY LedgerAssumption
  <2>5. AddedUp(S) = 0
    BY <2>3, <2>4, AddedUpZero
  <2> QED BY <2>2, <2>5 DEF MoneyIn
<1>6. Funds(paying, invoice, kept)
  BY <1>1, <1>5 DEF Funds
<1>7. Priced(override, structure)
  BY <1>1 DEF Priced
<1> QED BY <1>1, <1>2, <1>4, <1>6, <1>7 DEF LedgerInv

LEMMA LedgerStep ==
  ASSUME LedgerInv, [LedgerNext]_ledgerVars
  PROVE  LedgerInv'
<1>1. ASSUME NEW f \in Structures, NEW a \in FeeAmounts[f],
             CreateFeeStructure(f, a) \/ UpdateFeeStructure(f, a)
      PROVE  LedgerInv'
  BY <1>1, CreateStep
<1>2. ASSUME NEW f \in Structures, NEW a \in Overrides, NEW group \in SUBSET Children,
             BulkCreateOverrides(f, group, a)
      PROVE  LedgerInv'
  BY <1>2, OverrideStep
<1>3. ASSUME NEW f \in Structures, DeactivateFeeStructure(f) PROVE LedgerInv'
  BY <1>3, DeactivateStep
<1>4. ASSUME NEW f \in Structures, NEW st \in Children, RemoveOverride(st, f) PROVE LedgerInv'
  BY <1>4, RemovalStep
<1>5. ASSUME NEW t \in Keys, NEW force \in BOOLEAN, GenerateInvoices(t, force) PROVE LedgerInv'
  BY <1>5, GenerateStep
<1>6. ASSUME NEW st \in Children, NEW a \in Payments, NEW split \in Splits,
             ApplyPayment(st, a, split)
      PROVE  LedgerInv'
  BY <1>6, ApplyStep
<1>7. CASE Allocate \/ FindInvoices \/ CloseInvoice \/ FinishPayment
  BY <1>7, AllocateStep, FindStep, CloseStep, FinishStep
<1>8. ASSUME NEW t \in Keys, NextInvoice(t) PROVE LedgerInv'
  BY <1>8, NextInvoiceStep
<1>9. ASSUME NEW f \in Structures, PayNextItem(f) PROVE LedgerInv'
  BY <1>9, PayItemStep
<1>10. CASE UNCHANGED ledgerVars
  <2>1. UNCHANGED <<structure, override, invoice, generations, payments, paying, kept, unapplied>>
    BY <1>10 DEF ledgerVars
  <2> QED BY <2>1 DEF LedgerInv, LedgerTypeOK
<1> QED BY <1>1, <1>2, <1>3, <1>4, <1>5, <1>6, <1>7, <1>8, <1>9, <1>10 DEF LedgerNext

LEMMA LedgerInvAlways == LedgerSpec => []LedgerInv
<1>1. LedgerInit => LedgerInv
  BY LedgerStart
<1>2. LedgerInv /\ [LedgerNext]_ledgerVars => LedgerInv'
  BY LedgerStep
<1> QED BY <1>1, <1>2, PTL DEF LedgerSpec

(* Every row of the fee tables keeps its shape: no amount, balance or sum  *)
(* of payments is ever negative, whatever is regenerated and overridden.   *)
THEOREM LedgerTypeCorrect == LedgerSpec => []LedgerTypeOK
<1>1. LedgerInv => LedgerTypeOK
  BY DEF LedgerInv
<1> QED BY <1>1, LedgerInvAlways, PTL

(* However generation, overrides and payments alternate, after every       *)
(* transaction each invoice has the totals of its items, and what is paid  *)
(* on all of them is what was approved, applied and not removed.           *)
THEOREM BooksAddUpAlways == LedgerSpec => []BooksAddUp
<1>1. ASSUME LedgerInv PROVE BooksAddUp
  <2>1. ASSUME Committed PROVE InvoiceAddsUp /\ MoneyAccounted
    <3>1. paying = NoPayment /\ Books(NoPayment, invoice) /\ MoneyIn(invoice) = kept
      BY <1>1, <2>1 DEF LedgerInv, Committed, Funds
    <3>2. MoneyAccounted
      BY <3>1 DEF MoneyAccounted, PaidByAll, MoneyIn
    <3>3. ASSUME NEW st \in Children, NEW t \in Keys, invoice[st][t] # None
          PROVE  LET inv == invoice[st][t]
                 IN  /\ inv.total = AmountOf(inv.items)
                     /\ inv.paid = PaidOf(inv.items)
                     /\ inv.balance = Floor(inv.total - inv.paid)
                     /\ inv.status = Status(inv.balance, inv.paid)
                     /\ \A f \in Billed(inv.items) :
                          inv.items[f].balance = Floor(inv.items[f].amount - inv.items[f].paid)
      <4>1. PICK inv : inv = invoice[st][t]
        OBVIOUS
      <4>2. Sound(inv) /\ RightInvoice(inv)
        BY <3>1, <3>3, <4>1, PaymentApart DEF Books, Open
      <4> QED BY <4>1, <4>2 DEF Sound, RightInvoice, RightItems
    <3>4. InvoiceAddsUp
      BY <3>3 DEF InvoiceAddsUp
    <3> QED BY <3>2, <3>4
  <2> QED BY <2>1 DEF BooksAddUp
<1>2. LedgerInv => BooksAddUp
  BY <1>1
<1> QED BY <1>2, LedgerInvAlways, PTL

(* With the categories of a term apart, an override reaches the item of    *)
(* its own structure and no other.                                         *)
LEMMA OnlyItem ==
  ASSUME CategoriesApart, NEW f \in Structures, NEW t \in Keys, NEW inv, NEW new, NEW amount,
         \A g \in Billed(inv.items) : TermOf[g] = t, Resynced(inv, new, t, f, amount)
  PROVE  new = SyncInvoice(inv, f, amount) /\ f \in Billed(inv.items)
<1>1. PICK g \in ItemsToSync(inv.items, f) : new = SyncInvoice(inv, g, amount)
  BY DEF Resynced
<1>2. /\ g \in Billed(inv.items) /\ CategoryOf[g] = CategoryOf[f] /\ g \in Structures
      /\ TermOf[g] = t
  BY DEF ItemsToSync, Billed
<1>3. t \in Reached(f)
  BY DEF Resynced
<1>4. ASSUME g # f PROVE FALSE
  <2>1. TermOf[f] # TermOf[g] /\ TermOf[f] # NoTerm
    BY <1>2, <1>4 DEF CategoriesApart
  <2> QED BY <1>2, <1>3, <2>1 DEF Reached
<1> QED BY <1>1, <1>2, <1>4

LEMMA ItemsAfterSync ==
  ASSUME CategoriesApart, NEW row \in Row, NEW f \in Structures, NEW amount \in Nat,
         NEW mine \in SyncOutcomes(row, f, amount), NEW h \in Structures, NEW t \in Keys, t = TermOf[h],
         row[t] # None => Sound(row[t]) /\ \A g \in Billed(row[t].items) : TermOf[g] = t,
         mine[t] # None, h \in Billed(mine[t].items)
  PROVE  /\ row[t] # None /\ h \in Billed(row[t].items)
         /\ (h = f => mine[t].items[h].amount = amount)
         /\ (h # f => mine[t].items[h].amount = row[t].items[h].amount)
<1>1. PICK inv \in Invoice \cup {None} : inv = row[t]
  BY DEF Row
<1>2. PICK new : new = mine[t]
  OBVIOUS
<1>3. /\ new = inv \/ Resynced(inv, new, t, f, amount)
      /\ t \in Reached(f) /\ inv # None /\ ItemsToSync(inv.items, f) # {}
           => Resynced(inv, new, t, f, amount)
  BY <1>1, <1>2, Outcome
<1>4. inv # None
  <2>1. Resynced(inv, new, t, f, amount) => inv # None
    BY DEF Resynced
  <2> QED BY <1>2, <1>3, <2>1
<1>5. /\ inv \in Invoice /\ Sound(inv) /\ \A g \in Billed(inv.items) : TermOf[g] = t
  BY <1>1, <1>4
<1>6. CASE Resynced(inv, new, t, f, amount)
  <2>1. new = SyncInvoice(inv, f, amount) /\ f \in Billed(inv.items)
    BY <1>5, <1>6, OnlyItem
  <2>2. /\ Billed(new.items) = Billed(inv.items) /\ new.items[f].amount = amount
        /\ \A g \in Billed(inv.items) \ {f} : new.items[g] = inv.items[g]
    BY <1>5, <2>1, ItemSynced
  <2> QED BY <1>1, <1>2, <1>4, <2>2
<1>7. CASE ~Resynced(inv, new, t, f, amount)
  <2>1. new = inv
    BY <1>3, <1>7
  <2>2. h # f
    <3>1. ASSUME h = f PROVE FALSE
      <4>1. t \in Reached(f)
        BY <3>1 DEF Reached
      <4>2. f \in ItemsToSync(inv.items, f)
        BY <1>2, <2>1, <3>1 DEF ItemsToSync
      <4> QED BY <1>3, <1>4, <1>7, <4>1, <4>2
    <3> QED BY <3>1
  <2> QED BY <1>1, <1>2, <1>4, <2>1, <2>2
<1> QED BY <1>6, <1>7

Follows(over, rows) ==
  \A st \in Children, h \in Structures, t \in Keys :
    t = TermOf[h] /\ over[st][h] # NoOverride /\ rows[st][t] # None /\ h \in Billed(rows[st][t].items)
      => rows[st][t].items[h].amount = over[st][h]

LEMMA FollowsMeans == ItemsFollowOverrides <=> Follows(override, invoice)
<1>1. \A h \in Structures : TermOf[h] \in Keys
  BY LedgerAssumption
<1> QED BY <1>1 DEF ItemsFollowOverrides, Follows

LEMMA FollowsSameFees ==
  ASSUME NEW over, NEW A, NEW B, SameFees(A, B), Follows(over, A)
  PROVE  Follows(over, B)
<1>1. ASSUME NEW st \in Children, NEW h \in Structures, NEW t \in Keys, t = TermOf[h],
             over[st][h] # NoOverride, B[st][t] # None, h \in Billed(B[st][t].items)
      PROVE  B[st][t].items[h].amount = over[st][h]
  <2>1. A[st][t] # None /\ h \in Billed(A[st][t].items)
        /\ B[st][t].items[h].amount = A[st][t].items[h].amount
    BY <1>1 DEF SameFees
  <2> QED BY <1>1, <2>1 DEF Follows
<1> QED BY <1>1 DEF Follows

LEMMA RowsReady ==
  ASSUME LedgerInv, Committed
  PROVE  /\ invoice \in AllRows
         /\ \A st \in Children, t \in Keys : invoice[st][t] # None =>
              Sound(invoice[st][t]) /\ \A g \in Billed(invoice[st][t].items) : TermOf[g] = t
<1>1. LedgerTypeOK /\ Books(paying, invoice) /\ Issued(invoice)
  BY DEF LedgerInv
<1> QED BY <1>1, LedgerTyped DEF Books, Issued

LEMMA OverrideFollows ==
  ASSUME CategoriesApart, LedgerInv, Follows(override, invoice), NEW f \in Structures,
         NEW a \in Overrides, NEW group \in SUBSET Children, BulkCreateOverrides(f, group, a)
  PROVE  Follows(override', invoice')
<1>1. a \in Nat /\ Committed
  BY LedgerAssumption DEF BulkCreateOverrides
<1>2. override \in [Children -> [Structures -> Nat \cup {NoOverride}]]
  BY LedgerTyped DEF LedgerInv
<1>3. override' = [st \in Children |->
          IF st \in group THEN [override[st] EXCEPT ![f] = a] ELSE override[st]]
  BY DEF BulkCreateOverrides
<1>4. PICK rows : /\ \A st \in group : rows[st] \in SyncOutcomes(invoice[st], f, a)
                  /\ invoice' = [st \in Children |->
                                   IF st \in group THEN rows[st] ELSE invoice[st]]
  BY DEF BulkCreateOverrides
<1>5. ASSUME NEW st \in Children, NEW h \in Structures, NEW t \in Keys, t = TermOf[h],
             override'[st][h] # NoOverride, invoice'[st][t] # None,
             h \in Billed(invoice'[st][t].items)
      PROVE  invoice'[st][t].items[h].amount = override'[st][h]
  <2>1. CASE st \in group
    <3>1. PICK mine \in SyncOutcomes(invoice[st], f, a) : mine = invoice'[st]
      BY <1>4, <2>1
    <3>2. invoice[st] \in Row
      BY <1>1, RowsReady DEF AllRows
    <3>3. invoice[st][t] # None => /\ Sound(invoice[st][t])
                                   /\ \A g \in Billed(invoice[st][t].items) : TermOf[g] = t
      BY <1>1, RowsReady
    <3>4. mine[t] # None /\ h \in Billed(mine[t].items)
      BY <1>5, <3>1
    <3>5. /\ invoice[st][t] # None /\ h \in Billed(invoice[st][t].items)
          /\ (h = f => mine[t].items[h].amount = a)
          /\ (h # f => mine[t].items[h].amount = invoice[st][t].items[h].amount)
      BY <1>1, <1>5, <3>2, <3>3, <3>4, ItemsAfterSync
    <3>6. (h = f => override'[st][h] = a) /\ (h # f => override'[st][h] = override[st][h])
      BY <1>2, <1>3, <2>1
    <3> QED BY <1>5, <3>1, <3>5, <3>6 DEF Follows
  <2>2. CASE st \notin group
    <3>1. invoice'[st] = invoice[st] /\ override'[st] = override[st]
      BY <1>3, <1>4, <2>2
    <3> QED BY <1>5, <3>1 DEF Follows
  <2> QED BY <2>1, <2>2
<1> QED BY <1>5 DEF Follows

LEMMA RemovalFollows ==
  ASSUME CategoriesApart, LedgerInv, NEW st \in Children, NEW f \in Structures, RemoveOverride(st, f)
  PROVE  /\ Follows(override, invoice) => Follows(override', invoice')
         /\ \A s \in Children, g \in Structures :
              override[s][g] # NoOverride /\ override'[s][g] = NoOverride => s = st /\ g = f
         /\ \A t \in Keys : t = TermOf[f] /\ invoice'[st][t] # None /\ f \in Billed(invoice'[st][t].items)
              => invoice'[st][t].items[f].amount = structure[f].amount
<1>1. /\ override \in [Children -> [Structures -> Nat \cup {NoOverride}]]
      /\ structure \in [Structures -> Structure \cup {None}]
      /\ Priced(override, structure) /\ invoice \in AllRows
  BY LedgerTyped DEF LedgerInv
<1>2. /\ Committed /\ override[st][f] # NoOverride
      /\ override' = [override EXCEPT ![st][f] = NoOverride]
  BY DEF RemoveOverride
<1>3. PICK a \in Nat : a = structure[f].amount
  <2>1. structure[f] # None
    BY <1>1, <1>2 DEF Priced
  <2> QED BY <1>1, <2>1 DEF Structure
<1>4. PICK mine \in SyncOutcomes(invoice[st], f, a) : invoice' = [invoice EXCEPT ![st] = mine]
  BY <1>3 DEF RemoveOverride
<1>5. /\ invoice'[st] = mine /\ \A s \in Children \ {st} : invoice'[s] = invoice[s]
      /\ invoice[st] \in Row
  BY <1>1, <1>4 DEF AllRows
<1>6. \A s \in Children, g \in Structures :
        override[s][g] # NoOverride /\ override'[s][g] = NoOverride => s = st /\ g = f
  BY <1>1, <1>2
<1>7. ASSUME NEW h \in Structures, NEW t \in Keys, t = TermOf[h], mine[t] # None,
             h \in Billed(mine[t].items)
      PROVE  /\ invoice[st][t] # None /\ h \in Billed(invoice[st][t].items)
             /\ (h = f => mine[t].items[h].amount = a)
             /\ (h # f => mine[t].items[h].amount = invoice[st][t].items[h].amount)
  <2>1. invoice[st][t] # None => /\ Sound(invoice[st][t])
                                 /\ \A g \in Billed(invoice[st][t].items) : TermOf[g] = t
    BY <1>2, RowsReady
  <2> QED BY <1>5, <1>7, <2>1, ItemsAfterSync
<1>8. \A t \in Keys : t = TermOf[f] /\ invoice'[st][t] # None /\ f \in Billed(invoice'[st][t].items)
        => invoice'[st][t].items[f].amount = structure[f].amount
  BY <1>3, <1>5, <1>7
<1>9. ASSUME Follows(override, invoice), NEW s \in Children, NEW h \in Structures, NEW t \in Keys,
             t = TermOf[h], override'[s][h] # NoOverride, invoice'[s][t] # None,
             h \in Billed(invoice'[s][t].items)
      PROVE  invoice'[s][t].items[h].amount = override'[s][h]
  <2>1. override'[s][h] = override[s][h] /\ ~(s = st /\ h = f)
    BY <1>1, <1>2, <1>9
  <2>2. CASE s = st
    <3>1. /\ invoice[st][t] # None /\ h \in Billed(invoice[st][t].items)
          /\ mine[t].items[h].amount = invoice[st][t].items[h].amount
      BY <1>5, <1>7, <1>9, <2>1, <2>2
    <3> QED BY <1>5, <1>9, <2>1, <2>2, <3>1 DEF Follows
  <2>3. CASE s # st
    <3>1. invoice'[s] = invoice[s]
      BY <1>5, <2>3
    <3> QED BY <1>9, <2>1, <3>1 DEF Follows
  <2> QED BY <2>2, <2>3
<1>10. Follows(override, invoice) => Follows(override', invoice')
  BY <1>9 DEF Follows
<1> QED BY <1>6, <1>8, <1>10

LEMMA GenerateFollows ==
  ASSUME LedgerInv, Follows(override, invoice), NEW t \in Keys, NEW force \in BOOLEAN,
         GenerateInvoices(t, force)
  PROVE  Follows(override', invoice')
<1>1. LedgerTypeOK /\ invoice \in AllRows /\ generations \in Nat /\ override' = override
  BY LedgerTyped DEF LedgerInv, GenerateInvoices
<1>2. invoice' = [st \in Children |->
        IF Generates(st, t, force) THEN [invoice[st] EXCEPT ![t] = NewInvoice(st, t)]
        ELSE invoice[st]]
  BY DEF GenerateInvoices
<1>3. ASSUME NEW st \in Children, NEW h \in Structures, NEW u \in Keys, u = TermOf[h],
             override[st][h] # NoOverride, invoice'[st][u] # None,
             h \in Billed(invoice'[st][u].items)
      PROVE  invoice'[st][u].items[h].amount = override[st][h]
  <2>1. invoice'[st][u] = invoice[st][u] \/ (u = t /\ invoice'[st][u] = NewInvoice(st, t))
    BY <1>1, <1>2 DEF AllRows, Row
  <2>2. CASE invoice'[st][u] = invoice[st][u]
    BY <1>3, <2>2 DEF Follows
  <2>3. CASE u = t /\ invoice'[st][u] = NewInvoice(st, t)
    <3>1. \A f \in Applicable(st, t) :
             NewItem(st, f) \in Item /\ NewItem(st, f).paid = 0
             /\ NewItem(st, f).balance = NewItem(st, f).amount
      BY <1>1, NewItemTyped
    <3>2. PICK new : new = NewInvoice(st, t)
      OBVIOUS
    <3>3. /\ Billed(new.items) = Applicable(st, t)
          /\ \A f \in Applicable(st, t) : new.items[f] = NewItem(st, f)
      BY <1>1, <3>1, <3>2, InvoiceIssued
    <3>4. h \in Applicable(st, t) /\ invoice'[st][u].items[h] = NewItem(st, h)
      BY <1>3, <2>3, <3>2, <3>3
    <3> QED BY <1>1, <1>3, <3>4, NewItemTyped
  <2> QED BY <2>1, <2>2, <2>3
<1> QED BY <1>1, <1>3 DEF Follows

LEMMA FollowsStep ==
  ASSUME CategoriesApart, LedgerInv, Follows(override, invoice), [LedgerNext]_ledgerVars
  PROVE  Follows(override', invoice')
<1>1. ASSUME UNCHANGED <<override, invoice>> PROVE Follows(override', invoice')
  BY <1>1
<1>2. ASSUME UNCHANGED override, Steps(paying, invoice, paying', invoice')
      PROVE  Follows(override', invoice')
  BY <1>2, FollowsSameFees DEF Steps
<1>3. ASSUME NEW f \in Structures, NEW a \in FeeAmounts[f],
             CreateFeeStructure(f, a) \/ UpdateFeeStructure(f, a)
      PROVE  Follows(override', invoice')
  BY <1>1, <1>3 DEF CreateFeeStructure, UpdateFeeStructure
<1>4. ASSUME NEW f \in Structures, NEW a \in Overrides, NEW group \in SUBSET Children,
             BulkCreateOverrides(f, group, a)
      PROVE  Follows(override', invoice')
  BY <1>4, OverrideFollows
<1>5. ASSUME NEW f \in Structures, DeactivateFeeStructure(f) PROVE Follows(override', invoice')
  BY <1>1, <1>5 DEF DeactivateFeeStructure
<1>6. ASSUME NEW f \in Structures, NEW st \in Children, RemoveOverride(st, f)
      PROVE  Follows(override', invoice')
  BY <1>6, RemovalFollows
<1>7. ASSUME NEW t \in Keys, NEW force \in BOOLEAN, GenerateInvoices(t, force)
      PROVE  Follows(override', invoice')
  BY <1>7, GenerateFollows
<1>8. ASSUME NEW st \in Children, NEW a \in Payments, NEW split \in Splits,
             ApplyPayment(st, a, split)
      PROVE  Follows(override', invoice')
  BY <1>1, <1>8 DEF ApplyPayment
<1>9. CASE Allocate
  BY <1>2, <1>9, AllocateStep DEF Allocate
<1>10. CASE FindInvoices
  BY <1>1, <1>10 DEF FindInvoices
<1>11. CASE CloseInvoice
  BY <1>2, <1>11, CloseStep DEF CloseInvoice, LeaveInvoice
<1>12. CASE FinishPayment
  BY <1>1, <1>12 DEF FinishPayment
<1>13. ASSUME NEW t \in Keys, NextInvoice(t) PROVE Follows(override', invoice')
  BY <1>1, <1>13 DEF NextInvoice
<1>14. ASSUME NEW f \in Structures, PayNextItem(f) PROVE Follows(override', invoice')
  BY <1>2, <1>14, PayItemStep DEF PayNextItem
<1>15. CASE UNCHANGED ledgerVars
  BY <1>1, <1>15 DEF ledgerVars
<1> QED BY <1>3, <1>4, <1>5, <1>6, <1>7, <1>8, <1>9, <1>10, <1>11, <1>12, <1>13, <1>14, <1>15
        DEF LedgerNext

(* With the categories of a term apart, an item whose structure is         *)
(* overridden for the student has the amount of the override, whichever of *)
(* invoice and override came first, and whatever was paid in between.      *)
THEOREM ItemsFollowOverridesAlways ==
  ASSUME CategoriesApart
  PROVE  LedgerSpec => []ItemsFollowOverrides
<1>1. LedgerInit => Follows(override, invoice)
  <2>1. ASSUME LedgerInit PROVE \A st \in Children, f \in Structures : override[st][f] = NoOverride
    BY <2>1 DEF LedgerInit
  <2> QED BY <2>1 DEF Follows
<1>2. LedgerInv /\ Follows(override, invoice) /\ [LedgerNext]_ledgerVars
        => Follows(override, invoice)'
  BY FollowsStep
<1>3. Follows(override, invoice) => ItemsFollowOverrides
  BY FollowsMeans
<1> QED BY <1>1, <1>2, <1>3, LedgerInvAlways, PTL DEF LedgerSpec

LEMMA NothingOwed ==
  ASSUME LedgerInv, [LedgerNext]_ledgerVars, NEW st \in Children,
         payments' = payments + 1, unapplied' = st, NEW t \in Keys, invoice'[st][t] # None,
         NEW f \in Billed(invoice'[st][t].items)
  PROVE  invoice'[st][t].items[f].paid >= invoice'[st][t].items[f].amount
<1>1. payments \in Nat
  BY LedgerTyped DEF LedgerInv
<1>2. payments' # payments
  BY <1>1
<1>3. FinishPayment
  BY <1>2 DEF LedgerNext, ledgerVars, counts, CreateFeeStructure, UpdateFeeStructure,
              DeactivateFeeStructure, BulkCreateOverrides, RemoveOverride, GenerateInvoices,
              ApplyPayment, Allocate, FindInvoices, CloseInvoice, LeaveInvoice, NextInvoice,
              PayNextItem
<1>4. /\ paying \in Payment /\ Fitting(paying, invoice) /\ paying.at = "invoices"
      /\ paying.rest \in Nat
  BY <1>3, PayingTyped, PaymentFields DEF FinishPayment
<1>5. unapplied' = IF paying.rest > 0 THEN paying.student ELSE None
  BY <1>3 DEF FinishPayment
<1>6. paying.rest > 0 /\ st = paying.student
  BY <1>5, LedgerAssumption
<1>7. paying.left = {} /\ invoice' = invoice
  BY <1>3, <1>4, <1>6 DEF FinishPayment
<1>8. Covered(invoice[st][t], Unpaid(paying, t))
  BY <1>4, <1>6, <1>7 DEF Fitting
<1>9. Unpaid(paying, t) = {}
  BY <1>4 DEF Unpaid
<1> QED BY <1>7, <1>8, <1>9 DEF Covered

LEMMA BaseAmountBack ==
  ASSUME CategoriesApart, LedgerInv, [LedgerNext]_ledgerVars, NEW st \in Children, NEW f \in Structures,
         override[st][f] # NoOverride, override'[st][f] = NoOverride,
         NEW t \in Keys, t = TermOf[f], invoice'[st][t] # None, f \in Billed(invoice'[st][t].items)
  PROVE  invoice'[st][t].items[f].amount = structure[f].amount
<1>1. override' # override
  OBVIOUS
<1>2. ASSUME NEW h \in Structures, NEW a \in Overrides, NEW group \in SUBSET Children,
             BulkCreateOverrides(h, group, a)
      PROVE  FALSE
  <2>1. a \in Nat /\ override \in [Children -> [Structures -> Nat \cup {NoOverride}]]
    BY LedgerAssumption, LedgerTyped DEF LedgerInv
  <2>2. override'[st] = IF st \in group THEN [override[st] EXCEPT ![h] = a] ELSE override[st]
    BY <1>2 DEF BulkCreateOverrides
  <2>3. override'[st][f] = a \/ override'[st][f] = override[st][f]
    BY <2>1, <2>2
  <2>4. a # NoOverride
    BY <2>1 DEF NoOverride
  <2> QED BY <2>3, <2>4
<1>3. \E s \in Children, g \in Structures : RemoveOverride(s, g)
  BY <1>1, <1>2 DEF LedgerNext, ledgerVars, counts, CreateFeeStructure, UpdateFeeStructure,
              DeactivateFeeStructure, GenerateInvoices,
              ApplyPayment, Allocate, FindInvoices, CloseInvoice, LeaveInvoice, NextInvoice,
              PayNextItem, FinishPayment
<1>4. PICK s \in Children, g \in Structures : RemoveOverride(s, g)
  BY <1>3
<1>5. s = st /\ g = f
  BY <1>4, RemovalFollows
<1> QED BY <1>4, <1>5, RemovalFollows

(* A payment leaves something over only when its student owes nothing; and *)
(* with the categories of a term apart, removing an override gives the     *)
(* item of its structure that structure's amount again.                    *)
THEOREM CallsSettleAlways ==
  ASSUME CategoriesApart
  PROVE  LedgerSpec => CallsSettle
<1>1. ASSUME LedgerInv, [LedgerNext]_ledgerVars
      PROVE  \A st \in Children :
               payments' = payments + 1 /\ unapplied' = st =>
                 \A t \in Keys : invoice'[st][t] # None =>
                    \A f \in Billed(invoice'[st][t].items) :
                       invoice'[st][t].items[f].paid >= invoice'[st][t].items[f].amount
  BY <1>1, NothingOwed
<1>2. ASSUME LedgerInv, [LedgerNext]_ledgerVars, NEW st \in Children, NEW f \in Structures,
             override[st][f] # NoOverride, override'[st][f] = NoOverride
      PROVE  LET inv == invoice'[st][TermOf[f]]
             IN  inv # None => (f \in Billed(inv.items) =>
                                  inv.items[f].amount = structure[f].amount)
  <2>1. PICK t \in Keys : t = TermOf[f]
    BY LedgerAssumption
  <2> QED BY <1>2, <2>1, BaseAmountBack
<1>3. LedgerInv /\ [LedgerNext]_ledgerVars =>
        \A st \in Children, f \in Structures :
          override[st][f] # NoOverride /\ override'[st][f] = NoOverride =>
            LET inv == invoice'[st][TermOf[f]]
            IN  inv # None => (f \in Billed(inv.items) =>
                                 inv.items[f].amount = structure[f].amount)
  BY <1>2
<1>4. LedgerSpec => LeftOverOnlyWhenNothingOwed
  BY <1>1, LedgerInvAlways, PTL DEF LedgerSpec, LeftOverOnlyWhenNothingOwed
<1>5. LedgerSpec => RemovalReverts
  BY <1>3, LedgerInvAlways, PTL DEF LedgerSpec, RemovalReverts
<1> QED BY <1>4, <1>5 DEF CallsSettle
=============================================================================
