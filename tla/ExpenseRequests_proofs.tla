----------------------- MODULE ExpenseRequests_proofs -----------------------
(***************************************************************************)
(* What holds of ExpenseRequests for any number of requests, overlapping   *)
(* calls and amounts: the variables keep their types, a request that says  *)
(* COMPLETED has an expense, and a request no two calls overlapped on      *)
(* agrees with its payments and its one expense.                           *)
(***************************************************************************)
EXTENDS ExpenseRequests, TLAPS

LEMMA NoRowTyped == NoRow \in Row /\ NoRequest \in Requests
<1>1. (CHOOSE u \in Staff : TRUE) \in Staff
  BY ExpenseAssumption
<1>2. (CHOOSE q \in Requests : TRUE) \in Requests
  BY ExpenseAssumption
<1> QED BY <1>1, <1>2 DEF NoRow, NoRequest, Row, Statuses, PaymentStatuses

(* The object a call will save is a row. *)
LEMMA ReadTyped ==
  ASSUME TypeOK, NEW k \in Calls, NEW q \in Requests, NEW next \in Row,
         NEW payment \in Nat, NEW place \in {"read", "converting"},
         Read(k, q, next, payment, place)
  PROVE  TypeOK'
BY DEF TypeOK, Read, tables

LEMMA AmountsTyped ==
  ASSUME NEW r \in Row, NEW a \in Amounts, NEW p \in Amounts \cup {0}
  PROVE  /\ a \in Nat /\ p \in Nat /\ Cap(r) \in Nat /\ r.paid + a \in Nat
         /\ PaymentFor(a, p) \in PaymentStatuses
BY ExpenseAssumption DEF Row, Cap, PaymentFor, PaymentStatuses

LEMMA BeginTyped ==
  ASSUME TypeOK, NEW k \in Calls, NEW q \in Requests, Begin(k, q)
  PROVE  TypeOK'
<1> DEFINE r == row[q]
<1>1. r \in Row
  BY DEF TypeOK
<1>2. ASSUME NEW a \in Amounts, NEW u \in Staff \cup Management, UpdateRequest(k, q, u, a)
      PROVE  TypeOK'
  <2>1. [r EXCEPT !.estimated = a] \in Row
    BY <1>1, AmountsTyped DEF Row
  <2> QED BY <1>2, <2>1, ReadTyped DEF UpdateRequest
<1>3. ASSUME NEW a \in Amounts \cup {0}, ApproveRequest(k, q, a) PROVE TypeOK'
  <2> DEFINE next == [r EXCEPT !.status = "APPROVED",
                               !.approved = IF a # 0 THEN a ELSE r.estimated]
  <2>1. next \in Row
    BY <1>1, AmountsTyped, ExpenseAssumption DEF Row, Statuses
  <2>2. Read(k, q, next, 0, "read")
    BY <1>3 DEF ApproveRequest
  <2> HIDE DEF next
  <2> QED BY <2>1, <2>2, ReadTyped
<1>4. ASSUME RejectRequest(k, q) PROVE TypeOK'
  <2>1. [r EXCEPT !.status = "REJECTED"] \in Row
    BY <1>1 DEF Row, Statuses
  <2> QED BY <1>4, <2>1, ReadTyped DEF RejectRequest
<1>5. ASSUME NEW u \in Staff \cup Management, CancelRequest(k, q, u) PROVE TypeOK'
  <2>1. [r EXCEPT !.status = "CANCELLED"] \in Row
    BY <1>1 DEF Row, Statuses
  <2> QED BY <1>5, <2>1, ReadTyped DEF CancelRequest
<1>6. ASSUME FundRequest(k, q) PROVE TypeOK'
  <2> DEFINE next == [r EXCEPT !.status = "FUNDED", !.payment = "PAID", !.paid = Cap(r)]
  <2>1. next \in Row
    BY <1>1 DEF Row, Statuses, PaymentStatuses, Cap
  <2>2. Read(k, q, next, 0, "read")
    BY <1>6 DEF FundRequest
  <2> HIDE DEF next
  <2> QED BY <2>1, <2>2, ReadTyped
<1>7. ASSUME NEW a \in Amounts, RecordRequestPayment(k, q, a) PROVE TypeOK'
  <2> DEFINE full == r.paid + a = Cap(r)
             next == [r EXCEPT !.paid = r.paid + a,
                        !.payment = IF full THEN "PAID" ELSE "PARTIALLY_PAID",
                        !.status = IF full THEN "FUNDED" ELSE r.status]
  <2>1. next \in Row
    <3>1. r.paid + a \in Nat
      BY <1>1, AmountsTyped
    <3> QED BY <1>1, <3>1 DEF Row, Statuses, PaymentStatuses
  <2>2. Read(k, q, next, a, "read")
    BY <1>7 DEF RecordRequestPayment
  <2>3. a \in Nat
    BY ExpenseAssumption
  <2> HIDE DEF next
  <2> QED BY <2>1, <2>2, <2>3, ReadTyped
<1>8. ASSUME NEW a \in Amounts, NEW p \in Amounts \cup {0}, ConvertRequest(k, q, a, p)
      PROVE  TypeOK'
  <2> DEFINE next == [r EXCEPT !.actual = a, !.paid = p, !.payment = PaymentFor(a, p)]
  <2>1. next \in Row
    BY <1>1, AmountsTyped DEF Row
  <2>2. Read(k, q, next, 0, "converting")
    BY <1>8 DEF ConvertRequest
  <2> HIDE DEF next
  <2> QED BY <2>1, <2>2, ReadTyped
<1> QED BY <1>2, <1>3, <1>4, <1>5, <1>6, <1>7, <1>8 DEF Begin

(* The variables hold values of their types: the columns of                *)
(* expense_requests and expenses, and what the calls hold in memory.       *)
THEOREM TypeCorrect == Spec => []TypeOK
<1>1. Init => TypeOK
  BY NoRowTyped DEF Init, TypeOK
<1>2. TypeOK /\ [Next]_vars => TypeOK'
  <2> SUFFICES ASSUME TypeOK, [Next]_vars PROVE TypeOK'
    OBVIOUS
  <2>1. ASSUME NEW q \in Requests, NEW u \in Staff, NEW a \in Amounts,
               CreateRequest(q, u, a)
        PROVE  TypeOK'
    <3>1. [NoRow EXCEPT !.owner = u, !.estimated = a, !.status = "PENDING_APPROVAL"] \in Row
      BY NoRowTyped, ExpenseAssumption DEF Row, Statuses
    <3> QED BY <2>1, <3>1 DEF CreateRequest, TypeOK
  <2>2. ASSUME NEW k \in Calls, InsertExpense(k) PROVE TypeOK'
    <3>1. mem[k] \in Row /\ req[k] \in Requests /\ lastExpense + 1 \in Nat
      BY DEF TypeOK
    <3>2. [mem[k] EXCEPT !.expense = lastExpense + 1, !.status = "COMPLETED"] \in Row
      BY <3>1 DEF Row, Statuses
    <3>3. expenses' \subseteq Expense
      BY <2>2, <3>1 DEF InsertExpense, TypeOK, Expense, Row
    <3>4. mem' \in [Calls -> Row]
      BY <2>2, <3>2 DEF InsertExpense, TypeOK
    <3> QED BY <2>2, <3>1, <3>3, <3>4 DEF InsertExpense, TypeOK
  <2>3. ASSUME NEW k \in Calls, Compare(k) PROVE TypeOK'
    BY <2>3 DEF Compare, TypeOK, tables
  <2>4. ASSUME NEW k \in Calls, Write(k) PROVE TypeOK'
    <3>1. mem[k] \in Row /\ row[req[k]] \in Row /\ req[k] \in Requests
      BY DEF TypeOK
    <3>2. [c \in Columns |-> IF c \in cols[k] THEN mem[k][c] ELSE row[req[k]][c]] \in Row
      BY <3>1 DEF Row, Columns
    <3>3. received[req[k]] + pay[k] \in Nat
      BY <3>1 DEF TypeOK
    <3>4. row' \in [Requests -> Row] /\ received' \in [Requests -> Nat]
      BY <2>4, <3>1, <3>2, <3>3 DEF Write, TypeOK
    <3> QED BY <2>4, <3>4, NoRowTyped DEF Write, Ends, TypeOK
  <2>5. ASSUME NEW k \in Calls, CutOff(k) PROVE TypeOK'
    BY <2>5, NoRowTyped DEF CutOff, Ends, TypeOK, tables
  <2>6. CASE UNCHANGED vars
    BY <2>6 DEF TypeOK, vars
  <2> QED BY <2>1, <2>2, <2>3, <2>4, <2>5, <2>6, BeginTyped DEF Next
<1> QED BY <1>1, <1>2, PTL DEF Spec

-----------------------------------------------------------------------------
(* CompletedHasExpense is not inductive: Write may copy COMPLETED from the *)
(* memory of a call.  So the same is said of that memory, once the call is *)
(* past the insert.                                                        *)
CallHasExpense ==
  \A k \in Calls : pc[k] \in {"read", "compared"} /\ mem[k].status = "COMPLETED"
                     => ExpensesOf(req[k]) # {}
ExpenseInv == TypeOK /\ CompletedHasExpense /\ CallHasExpense

(* Beginning a call changes nothing but its own memory, ... *)
LEMMA ReadKeepsExpense ==
  ASSUME ExpenseInv, NEW k \in Calls, NEW q \in Requests, NEW next, NEW payment, NEW place,
         Read(k, q, next, payment, place),
         place = "converting" \/ next.status # "COMPLETED"
  PROVE  CompletedHasExpense' /\ CallHasExpense'
BY DEF ExpenseInv, TypeOK, CompletedHasExpense, CallHasExpense, ExpensesOf, Read, tables

(* ... and no call that skips the insert has read a COMPLETED request. *)
LEMMA BeginKeepsExpense ==
  ASSUME ExpenseInv, NEW k \in Calls, NEW q \in Requests, Begin(k, q)
  PROVE  CompletedHasExpense' /\ CallHasExpense'
<1> DEFINE r == row[q]
<1>1. r \in Row
  BY DEF ExpenseInv, TypeOK
<1>2. ASSUME NEW a \in Amounts, NEW u \in Staff \cup Management, UpdateRequest(k, q, u, a)
      PROVE  CompletedHasExpense' /\ CallHasExpense'
  <2>1. [r EXCEPT !.estimated = a].status # "COMPLETED"
    BY <1>1, <1>2 DEF UpdateRequest, Editable, Row
  <2> QED BY <1>2, <2>1, ReadKeepsExpense DEF UpdateRequest
<1>3. ASSUME NEW a \in Amounts \cup {0}, ApproveRequest(k, q, a)
      PROVE  CompletedHasExpense' /\ CallHasExpense'
  <2> DEFINE next == [r EXCEPT !.status = "APPROVED",
                               !.approved = IF a # 0 THEN a ELSE r.estimated]
  <2>1. next.status # "COMPLETED"
    BY <1>1 DEF Row
  <2>2. Read(k, q, next, 0, "read")
    BY <1>3 DEF ApproveRequest
  <2> HIDE DEF next
  <2> QED BY <2>1, <2>2, ReadKeepsExpense
<1>4. ASSUME RejectRequest(k, q) PROVE CompletedHasExpense' /\ CallHasExpense'
  <2>1. [r EXCEPT !.status = "REJECTED"].status # "COMPLETED"
    BY <1>1 DEF Row
  <2> QED BY <1>4, <2>1, ReadKeepsExpense DEF RejectRequest
<1>5. ASSUME NEW u \in Staff \cup Management, CancelRequest(k, q, u)
      PROVE  CompletedHasExpense' /\ CallHasExpense'
  <2>1. [r EXCEPT !.status = "CANCELLED"].status # "COMPLETED"
    BY <1>1 DEF Row
  <2> QED BY <1>5, <2>1, ReadKeepsExpense DEF CancelRequest
<1>6. ASSUME FundRequest(k, q) PROVE CompletedHasExpense' /\ CallHasExpense'
  <2> DEFINE next == [r EXCEPT !.status = "FUNDED", !.payment = "PAID", !.paid = Cap(r)]
  <2>1. next.status # "COMPLETED"
    BY <1>1 DEF Row
  <2>2. Read(k, q, next, 0, "read")
    BY <1>6 DEF FundRequest
  <2> HIDE DEF next
  <2> QED BY <2>1, <2>2, ReadKeepsExpense
<1>7. ASSUME NEW a \in Amounts, RecordRequestPayment(k, q, a)
      PROVE  CompletedHasExpense' /\ CallHasExpense'
  <2> DEFINE full == r.paid + a = Cap(r)
             next == [r EXCEPT !.paid = r.paid + a,
                        !.payment = IF full THEN "PAID" ELSE "PARTIALLY_PAID",
                        !.status = IF full THEN "FUNDED" ELSE r.status]
  <2>1. r.status # "COMPLETED"
    BY <1>7 DEF RecordRequestPayment, Spendable
  <2>2. next.status # "COMPLETED"
    BY <1>1, <2>1 DEF Row
  <2>3. Read(k, q, next, a, "read")
    BY <1>7 DEF RecordRequestPayment
  <2> HIDE DEF next
  <2> QED BY <2>2, <2>3, ReadKeepsExpense
<1>8. ASSUME NEW a \in Amounts, NEW p \in Amounts \cup {0}, ConvertRequest(k, q, a, p)
      PROVE  CompletedHasExpense' /\ CallHasExpense'
  <2> DEFINE next == [r EXCEPT !.actual = a, !.paid = p, !.payment = PaymentFor(a, p)]
  <2>1. Read(k, q, next, 0, "converting")
    BY <1>8 DEF ConvertRequest
  <2> HIDE DEF next
  <2> QED BY <2>1, ReadKeepsExpense
<1> QED BY <1>2, <1>3, <1>4, <1>5, <1>6, <1>7, <1>8 DEF Begin

LEMMA ExpenseStep == ExpenseInv /\ [Next]_vars => CompletedHasExpense' /\ CallHasExpense'
<1> SUFFICES ASSUME ExpenseInv, [Next]_vars
             PROVE  CompletedHasExpense' /\ CallHasExpense'
  OBVIOUS
<1> USE DEF ExpenseInv
<1>1. ASSUME NEW q \in Requests, NEW u \in Staff, NEW a \in Amounts, CreateRequest(q, u, a)
      PROVE  CompletedHasExpense' /\ CallHasExpense'
  <2> DEFINE new == [NoRow EXCEPT !.owner = u, !.estimated = a,
                                  !.status = "PENDING_APPROVAL"]
  <2>1. new.status # "COMPLETED"
    BY NoRowTyped DEF Row
  <2>2. row' = [row EXCEPT ![q] = new] /\ UNCHANGED <<expenses, pc, mem, req>>
    BY <1>1 DEF CreateRequest
  <2> HIDE DEF new
  <2> QED BY <2>1, <2>2 DEF CompletedHasExpense, CallHasExpense, ExpensesOf, TypeOK
(* The insert gives req[k] an expense before the object says COMPLETED.    *)
<1>2. ASSUME NEW k \in Calls, InsertExpense(k)
      PROVE  CompletedHasExpense' /\ CallHasExpense'
  <2> DEFINE e == [id |-> lastExpense + 1, request |-> req[k], amount |-> mem[k].actual,
                   paid |-> mem[k].paid]
  <2>1. expenses' = expenses \cup {e} /\ e.request = req[k] /\ UNCHANGED <<row, req>>
    BY <1>2 DEF InsertExpense
  <2> HIDE DEF e
  <2>2. \A q \in Requests : ExpensesOf(q) # {} => ExpensesOf(q)' # {}
    BY <2>1 DEF ExpensesOf
  <2>3. ExpensesOf(req[k])' # {}
    BY <2>1 DEF ExpensesOf
  <2>4. \A o \in Calls \ {k} : pc'[o] = pc[o] /\ mem'[o] = mem[o] /\ req'[o] = req[o]
    BY <1>2 DEF InsertExpense, TypeOK
  <2>5. CallHasExpense'
    <3> SUFFICES ASSUME NEW o \in Calls, (pc[o] \in {"read", "compared"})',
                        (mem[o].status = "COMPLETED")'
                 PROVE  (ExpensesOf(req[o]) # {})'
      BY DEF CallHasExpense
    <3>1. CASE o = k
      BY <3>1, <2>1, <2>3
    <3>2. CASE o # k
      <4>1. ExpensesOf(req[o]) # {} /\ req[o] \in Requests
        BY <3>2, <2>4 DEF CallHasExpense, TypeOK
      <4> QED BY <4>1, <2>1, <2>2
    <3> QED BY <3>1, <3>2
  <2>6. CompletedHasExpense'
    BY <2>1, <2>2 DEF CompletedHasExpense
  <2> QED BY <2>5, <2>6
<1>3. ASSUME NEW k \in Calls, Compare(k) PROVE CompletedHasExpense' /\ CallHasExpense'
  BY <1>3 DEF Compare, tables, CompletedHasExpense, CallHasExpense, ExpensesOf, TypeOK
(* Write saves COMPLETED only from an object that said so.                 *)
<1>4. ASSUME NEW k \in Calls, Write(k) PROVE CompletedHasExpense' /\ CallHasExpense'
  <2> DEFINE q == req[k]
             new == [c \in Columns |-> IF c \in cols[k] THEN mem[k][c] ELSE row[q][c]]
  <2>1. /\ row' = [row EXCEPT ![q] = new] /\ UNCHANGED expenses /\ pc[k] = "compared"
        /\ q \in Requests
    BY <1>4 DEF Write, TypeOK
  <2>2. new.status = mem[k].status \/ new.status = row[q].status
    BY DEF Columns
  <2>3. new.status = "COMPLETED" => ExpensesOf(q) # {}
    BY <2>1, <2>2 DEF CompletedHasExpense, CallHasExpense
  <2> HIDE DEF new
  <2>4. CompletedHasExpense'
    BY <2>1, <2>3 DEF CompletedHasExpense, ExpensesOf, TypeOK
  <2>5. CallHasExpense'
    BY <1>4, <2>1 DEF Write, Ends, CallHasExpense, ExpensesOf, TypeOK
  <2> QED BY <2>4, <2>5
<1>5. ASSUME NEW k \in Calls, CutOff(k) PROVE CompletedHasExpense' /\ CallHasExpense'
  BY <1>5 DEF CutOff, Ends, tables, CompletedHasExpense, CallHasExpense, ExpensesOf, TypeOK
<1>6. CASE UNCHANGED vars
  BY <1>6 DEF vars, CompletedHasExpense, CallHasExpense, ExpensesOf
<1> QED BY <1>1, <1>2, <1>3, <1>4, <1>5, <1>6, BeginKeepsExpense DEF Next

(* A request that says COMPLETED has an expense, however many calls overlap*)
(* and wherever they are cut off: convertRequestToExpense inserts the      *)
(* expense before it saves the request.                                    *)
THEOREM CompletedHasExpenseAlways == Spec => []CompletedHasExpense
<1>1. Init => CompletedHasExpense /\ CallHasExpense
  BY NoRowTyped DEF Init, CompletedHasExpense, CallHasExpense, NoRow
<1>2. TypeOK /\ CompletedHasExpense /\ CallHasExpense /\ [Next]_vars
        => CompletedHasExpense' /\ CallHasExpense'
  BY ExpenseStep DEF ExpenseInv
<1> QED BY <1>1, <1>2, TypeCorrect, PTL DEF Spec

-----------------------------------------------------------------------------
(* QuietRequestsConsistent speaks of a request no call is working on.  To  *)
(* be inductive it must also say what the one call working on a request    *)
(* holds: the object it saves agrees with what will have been received and *)
(* with the expenses, and the columns it writes are all that differ.       *)

(* What a row r must agree with: the payments n and the expenses E of its  *)
(* request.  Beyond Consistent: nothing is received before an approval,    *)
(* and a pending request has an estimate to approve.                       *)
SoundRow(r, n, E) ==
  /\ r.status \notin {"DRAFT", "SUBMITTED"}
  /\ r.status \in {"ABSENT", "PENDING_APPROVAL", "REJECTED", "CANCELLED"} =>
       r.payment = "UNPAID" /\ r.paid = 0 /\ n = 0
  /\ r.status = "PENDING_APPROVAL" => r.estimated > 0
  /\ r.status = "APPROVED" => /\ r.approved > 0 /\ r.paid < r.approved /\ r.paid = n
                              /\ r.payment = PaymentFor(r.approved, r.paid)
  /\ r.status = "FUNDED" => r.approved > 0 /\ r.paid = r.approved /\ r.payment = "PAID"
  /\ r.status # "COMPLETED" => E = {} /\ r.expense = 0
  /\ r.status = "COMPLETED" =>
       \E e \in E : /\ E = {e} /\ e.id = r.expense
                    /\ e.amount = r.actual /\ e.paid = r.paid
                    /\ r.payment = PaymentFor(e.amount, e.paid)

(* What a conversion holds before it inserts the expense. *)
Converting(m, E) == E = {} /\ m.actual > 0 /\ m.payment = PaymentFor(m.actual, m.paid)

On(k, q) == pc[k] # "idle" /\ req[k] = q

QuietCall(k, q) ==
  /\ \A j \in Calls : On(j, q) => j = k
  /\ row[q].status # "ABSENT"
  /\ pc[k] = "converting" => Converting(mem[k], ExpensesOf(q))
  /\ pc[k] \in {"read", "compared"} =>
       SoundRow(mem[k], received[q] + pay[k], ExpensesOf(q))
  /\ pc[k] = "compared" => cols[k] = {c \in Columns : mem[k][c] # row[q][c]}

QuietOf(q) ==
  ~disturbed[q] => /\ ~Busy(q) => SoundRow(row[q], received[q], ExpensesOf(q))
                   /\ \A k \in Calls : On(k, q) => QuietCall(k, q)

QuietInv == \A q \in Requests : QuietOf(q)

(* Sound rows are consistent. *)
LEMMA SoundIsConsistent ==
  ASSUME NEW q \in Requests, SoundRow(row[q], received[q], ExpensesOf(q))
  PROVE  Consistent(q)
<1>1. ExpensesOf(q) \subseteq expenses
  BY DEF ExpensesOf
<1> QED BY <1>1 DEF SoundRow, Consistent

(* A step that touches neither q, nor its expenses, nor the calls on it,   *)
(* keeps QuietOf(q); so does any step after which q is disturbed.          *)
LEMMA OthersKept ==
  ASSUME NEW q \in Requests, QuietOf(q), ~disturbed'[q] => ~disturbed[q],
         ~disturbed'[q] =>
           /\ row'[q] = row[q] /\ received'[q] = received[q]
           /\ ExpensesOf(q)' = ExpensesOf(q)
           /\ \A j \in Calls : /\ On(j, q)' <=> On(j, q)
                               /\ On(j, q) => /\ pc'[j] = pc[j] /\ mem'[j] = mem[j]
                                              /\ cols'[j] = cols[j] /\ pay'[j] = pay[j]
  PROVE  QuietOf(q)'
<1> SUFFICES ASSUME ~disturbed'[q]
             PROVE  /\ ~Busy(q)' => SoundRow(row[q], received[q], ExpensesOf(q))'
                    /\ \A k \in Calls : On(k, q)' => QuietCall(k, q)'
  BY DEF QuietOf
<1>1. Busy(q)' <=> Busy(q)
  BY DEF Busy, On
<1>2. ~Busy(q)' => SoundRow(row[q], received[q], ExpensesOf(q))'
  BY <1>1 DEF QuietOf, SoundRow
<1>3. ASSUME NEW k \in Calls, On(k, q)' PROVE QuietCall(k, q)'
  <2>1. On(k, q) /\ QuietCall(k, q)
    BY <1>3 DEF QuietOf
  <2> QED BY <2>1 DEF QuietCall, SoundRow, Converting
<1> QED BY <1>2, <1>3

-----------------------------------------------------------------------------
(* The read of a call: a second call on q disturbs it, and the first is    *)
(* given an object its checks and its changes make sound.                  *)
LEMMA ReadKeepsQuiet ==
  ASSUME TypeOK, QuietInv, NEW k \in Calls, NEW q \in Requests, NEW next \in Row,
         NEW payment \in Nat, NEW place \in {"read", "converting"},
         Read(k, q, next, payment, place),
         row[q].status # "ABSENT",
         SoundRow(row[q], received[q], ExpensesOf(q)) =>
           IF place = "converting" THEN Converting(next, ExpensesOf(q))
           ELSE SoundRow(next, received[q] + payment, ExpensesOf(q))
  PROVE  QuietInv'
<1>1. /\ pc[k] = "idle" /\ pc'[k] = place /\ req'[k] = q /\ mem'[k] = next
      /\ pay'[k] = payment
      /\ UNCHANGED <<row, expenses, received, cols>>
      /\ disturbed'[q] = (disturbed[q] \/ Busy(q))
  BY DEF Read, TypeOK, tables
<1>2. \A j \in Calls \ {k} : /\ pc'[j] = pc[j] /\ req'[j] = req[j]
                             /\ mem'[j] = mem[j] /\ pay'[j] = pay[j]
  BY DEF Read, TypeOK
<1>3. \A p \in Requests : ExpensesOf(p)' = ExpensesOf(p)
  BY <1>1 DEF ExpensesOf
<1>4. ASSUME NEW p \in Requests \ {q} PROVE QuietOf(p)'
  <2>1. disturbed'[p] = disturbed[p]
    BY DEF Read, TypeOK
  <2>2. \A j \in Calls : On(j, p)' <=> On(j, p)
    BY <1>1, <1>2 DEF On
  <2>3. QuietOf(p) /\ ~On(k, p)
    BY <1>1 DEF QuietInv, On
  <2> QED BY <1>1, <1>2, <1>3, <2>1, <2>2, <2>3, OthersKept
<1>5. QuietOf(q)'
  <2> SUFFICES ASSUME ~disturbed[q], ~Busy(q)
               PROVE  \A j \in Calls : On(j, q)' => QuietCall(j, q)'
    <3>1. On(k, q)' /\ Busy(q)'
      BY <1>1 DEF On, Busy
    <3> QED BY <1>1, <3>1 DEF QuietOf
  <2>1. SoundRow(row[q], received[q], ExpensesOf(q))
    BY DEF QuietInv, QuietOf
  <2>2. \A j \in Calls : On(j, q)' => j = k
    BY <1>2 DEF Busy, On
  <2>3. QuietCall(k, q)'
    <3>1. place = "converting" => Converting(next, ExpensesOf(q))
      BY <2>1
    <3>2. place = "read" => SoundRow(next, received[q] + payment, ExpensesOf(q))
      BY <2>1
    <3>3. \A j \in Calls : On(j, q)' => j = k
      BY <2>2
    <3>4. (pc[k] = "converting" => Converting(mem[k], ExpensesOf(q)))'
      BY <1>1, <1>3, <3>1
    <3>5. (pc[k] \in {"read", "compared"} =>
             SoundRow(mem[k], received[q] + pay[k], ExpensesOf(q)))'
      BY <1>1, <1>3, <3>2
    <3> QED BY <1>1, <3>3, <3>4, <3>5 DEF QuietCall
  <2> QED BY <2>2, <2>3
<1> QED BY <1>4, <1>5 DEF QuietInv

(* Each way to begin a call makes a sound object of a sound row.           *)
LEMMA ApprovedIsSound ==
  ASSUME NEW r \in Row, NEW n \in Nat, NEW E, NEW a \in Amounts \cup {0},
         SoundRow(r, n, E), Undecided(r)
  PROVE  SoundRow([r EXCEPT !.status = "APPROVED",
                     !.approved = IF a # 0 THEN a ELSE r.estimated], n + 0, E)
<1> DEFINE ap == IF a # 0 THEN a ELSE r.estimated
           next == [r EXCEPT !.status = "APPROVED", !.approved = ap]
<1>1. r.status = "PENDING_APPROVAL"
  BY DEF SoundRow, Undecided
<1>2. ap > 0 /\ r.paid = 0 /\ r.payment = "UNPAID" /\ n + 0 = 0 /\ E = {} /\ r.expense = 0
  BY <1>1, ExpenseAssumption DEF SoundRow, Row
<1>3. /\ next.status = "APPROVED" /\ next.approved = ap /\ next.paid = r.paid
      /\ next.payment = r.payment /\ next.expense = r.expense
  BY DEF Row
<1> HIDE DEF next, ap
<1>4. next.payment = PaymentFor(next.approved, next.paid)
  BY <1>2, <1>3 DEF PaymentFor
<1>5. SoundRow(next, n + 0, E)
  BY <1>2, <1>3, <1>4 DEF SoundRow
<1> QED BY <1>5 DEF next, ap

LEMMA PaidIsSound ==
  ASSUME NEW r \in Row, NEW n \in Nat, NEW E, NEW a \in Amounts,
         SoundRow(r, n, E), Spendable(r), r.paid + a <= Cap(r)
  PROVE  SoundRow([r EXCEPT !.paid = r.paid + a,
                     !.payment = IF r.paid + a = Cap(r) THEN "PAID" ELSE "PARTIALLY_PAID",
                     !.status = IF r.paid + a = Cap(r) THEN "FUNDED" ELSE r.status], n + a, E)
<1> DEFINE full == r.paid + a = Cap(r)
           next == [r EXCEPT !.paid = r.paid + a,
                      !.payment = IF full THEN "PAID" ELSE "PARTIALLY_PAID",
                      !.status = IF full THEN "FUNDED" ELSE r.status]
<1>1. a \in Nat /\ a > 0 /\ r.paid \in Nat /\ r.approved \in Nat
  BY ExpenseAssumption DEF Row
<1>2. r.approved > 0 /\ Cap(r) = r.approved /\ E = {} /\ r.expense = 0
  BY <1>1 DEF SoundRow, Spendable, Cap
<1>3. r.status = "APPROVED" /\ r.paid = n
  BY <1>1, <1>2 DEF SoundRow, Spendable
<1>4. /\ next.paid = n + a /\ next.approved = r.approved /\ next.expense = r.expense
      /\ next.payment = IF full THEN "PAID" ELSE "PARTIALLY_PAID"
      /\ next.status = IF full THEN "FUNDED" ELSE "APPROVED"
  BY <1>3 DEF Row
<1>5. full <=> n + a = r.approved
  BY <1>2, <1>3
<1>6. n + a <= r.approved /\ n + a # 0
  BY <1>1, <1>2, <1>3
<1> HIDE DEF next, full
<1>7. ~full => next.payment = PaymentFor(next.approved, next.paid)
  BY <1>4, <1>5, <1>6 DEF PaymentFor
<1>8. SoundRow(next, n + a, E)
  <2>1. CASE full
    BY <2>1, <1>2, <1>4, <1>5 DEF SoundRow
  <2>2. CASE ~full
    <3>1. n + a < r.approved
      BY <2>2, <1>1, <1>5, <1>6
    <3> QED BY <2>2, <3>1, <1>2, <1>4, <1>7 DEF SoundRow
  <2> QED BY <2>1, <2>2
<1> QED BY <1>8 DEF next, full

LEMMA ConvertedIsConverting ==
  ASSUME NEW r \in Row, NEW n \in Nat, NEW E, NEW a \in Amounts, NEW p \in Amounts \cup {0},
         SoundRow(r, n, E), Spendable(r)
  PROVE  Converting([r EXCEPT !.actual = a, !.paid = p, !.payment = PaymentFor(a, p)], E)
<1> DEFINE next == [r EXCEPT !.actual = a, !.paid = p, !.payment = PaymentFor(a, p)]
<1>1. E = {} /\ a > 0
  BY ExpenseAssumption DEF SoundRow, Spendable
<1>2. next.actual = a /\ next.paid = p /\ next.payment = PaymentFor(a, p)
  BY DEF Row
<1> HIDE DEF next
<1>3. Converting(next, E)
  BY <1>1, <1>2 DEF Converting
<1> QED BY <1>3 DEF next

LEMMA FundedIsSound ==
  ASSUME NEW r \in Row, NEW n \in Nat, NEW E, SoundRow(r, n, E), r.status = "APPROVED"
  PROVE  SoundRow([r EXCEPT !.status = "FUNDED", !.payment = "PAID", !.paid = Cap(r)], n + 0, E)
<1> DEFINE next == [r EXCEPT !.status = "FUNDED", !.payment = "PAID", !.paid = Cap(r)]
<1>1. r.approved > 0 /\ Cap(r) = r.approved /\ E = {} /\ r.expense = 0
  BY DEF SoundRow, Cap, Row
<1>2. /\ next.status = "FUNDED" /\ next.payment = "PAID" /\ next.paid = r.approved
      /\ next.approved = r.approved /\ next.expense = r.expense
  BY <1>1 DEF Row
<1> HIDE DEF next
<1>3. SoundRow(next, n + 0, E)
  BY <1>1, <1>2 DEF SoundRow
<1> QED BY <1>3 DEF next

(* Rejected or cancelled before any decision. *)
LEMMA EndedIsSound ==
  ASSUME NEW r \in Row, NEW n \in Nat, NEW E, SoundRow(r, n, E), Editable(r),
         NEW s \in {"REJECTED", "CANCELLED"}
  PROVE  SoundRow([r EXCEPT !.status = s], n + 0, E)
<1> DEFINE next == [r EXCEPT !.status = s]
<1>1. r.payment = "UNPAID" /\ r.paid = 0 /\ n + 0 = 0 /\ E = {} /\ r.expense = 0
  BY DEF SoundRow, Editable
<1>2. /\ next.status = s /\ next.payment = r.payment /\ next.paid = r.paid
      /\ next.expense = r.expense
  BY DEF Row
<1> HIDE DEF next
<1>3. SoundRow(next, n + 0, E)
  BY <1>1, <1>2 DEF SoundRow
<1> QED BY <1>3 DEF next

LEMMA UpdatedIsSound ==
  ASSUME NEW r \in Row, NEW n \in Nat, NEW E, SoundRow(r, n, E), Editable(r), NEW a \in Amounts
  PROVE  SoundRow([r EXCEPT !.estimated = a], n + 0, E)
<1> DEFINE next == [r EXCEPT !.estimated = a]
<1>1. /\ r.payment = "UNPAID" /\ r.paid = 0 /\ n + 0 = 0 /\ E = {} /\ r.expense = 0
      /\ r.status = "PENDING_APPROVAL" /\ a > 0
  BY ExpenseAssumption DEF SoundRow, Editable
<1>2. /\ next.status = r.status /\ next.payment = r.payment /\ next.paid = r.paid
      /\ next.expense = r.expense /\ next.estimated = a
  BY DEF Row
<1> HIDE DEF next
<1>3. SoundRow(next, n + 0, E)
  BY <1>1, <1>2 DEF SoundRow
<1> QED BY <1>3 DEF next

LEMMA BeginKeepsQuiet ==
  ASSUME TypeOK, QuietInv, NEW k \in Calls, NEW q \in Requests, Begin(k, q)
  PROVE  QuietInv'
<1> DEFINE r == row[q]
           n == received[q]
           E == ExpensesOf(q)
<1>1. r \in Row /\ n \in Nat
  BY DEF TypeOK
<1>2. ASSUME NEW a \in Amounts, NEW u \in Staff \cup Management, UpdateRequest(k, q, u, a)
      PROVE  QuietInv'
  <2> DEFINE next == [r EXCEPT !.estimated = a]
  <2>1. next \in Row
    BY <1>1, AmountsTyped DEF Row
  <2>2. Read(k, q, next, 0, "read") /\ r.status # "ABSENT"
    BY <1>2 DEF UpdateRequest, Editable
  <2>3. SoundRow(r, n, E) => SoundRow(next, n + 0, E)
    BY <1>1, <1>2, UpdatedIsSound DEF UpdateRequest
  <2> HIDE DEF next
  <2> QED BY <2>1, <2>2, <2>3, ReadKeepsQuiet
<1>3. ASSUME NEW a \in Amounts \cup {0}, ApproveRequest(k, q, a) PROVE QuietInv'
  <2> DEFINE next == [r EXCEPT !.status = "APPROVED",
                               !.approved = IF a # 0 THEN a ELSE r.estimated]
  <2>1. next \in Row
    BY <1>1, AmountsTyped, ExpenseAssumption DEF Row, Statuses
  <2>2. Read(k, q, next, 0, "read") /\ r.status # "ABSENT"
    BY <1>3 DEF ApproveRequest, Undecided
  <2>3. SoundRow(r, n, E) => SoundRow(next, n + 0, E)
    BY <1>1, <1>3, ApprovedIsSound DEF ApproveRequest
  <2> HIDE DEF next
  <2> QED BY <2>1, <2>2, <2>3, ReadKeepsQuiet
<1>4. ASSUME NEW s \in {"REJECTED", "CANCELLED"}, Editable(r),
             Read(k, q, [r EXCEPT !.status = s], 0, "read")
      PROVE  QuietInv'
  <2> DEFINE next == [r EXCEPT !.status = s]
  <2>1. next \in Row
    BY <1>1 DEF Row, Statuses
  <2>2. Read(k, q, next, 0, "read") /\ r.status # "ABSENT"
    BY <1>4 DEF Editable
  <2>3. SoundRow(r, n, E) => SoundRow(next, n + 0, E)
    BY <1>1, <1>4, EndedIsSound
  <2> HIDE DEF next
  <2> QED BY <2>1, <2>2, <2>3, ReadKeepsQuiet
<1>5. ASSUME FundRequest(k, q) PROVE QuietInv'
  <2> DEFINE next == [r EXCEPT !.status = "FUNDED", !.payment = "PAID", !.paid = Cap(r)]
  <2>1. next \in Row
    BY <1>1 DEF Row, Statuses, PaymentStatuses, Cap
  <2>2. Read(k, q, next, 0, "read") /\ r.status # "ABSENT"
    BY <1>5 DEF FundRequest
  <2>3. SoundRow(r, n, E) => SoundRow(next, n + 0, E)
    BY <1>1, <1>5, FundedIsSound DEF FundRequest
  <2> HIDE DEF next
  <2> QED BY <2>1, <2>2, <2>3, ReadKeepsQuiet
<1>6. ASSUME NEW a \in Amounts, RecordRequestPayment(k, q, a) PROVE QuietInv'
  <2> DEFINE next == [r EXCEPT !.paid = r.paid + a,
                        !.payment = IF r.paid + a = Cap(r) THEN "PAID" ELSE "PARTIALLY_PAID",
                        !.status = IF r.paid + a = Cap(r) THEN "FUNDED" ELSE r.status]
  <2>1. next \in Row
    <3>1. r.paid + a \in Nat
      BY <1>1, AmountsTyped
    <3> QED BY <1>1, <3>1 DEF Row, Statuses, PaymentStatuses
  <2>2. Read(k, q, next, a, "read") /\ r.status # "ABSENT" /\ a \in Nat
    BY <1>6, ExpenseAssumption DEF RecordRequestPayment, Spendable
  <2>3. SoundRow(r, n, E) => SoundRow(next, n + a, E)
    BY <1>1, <1>6, PaidIsSound DEF RecordRequestPayment
  <2> HIDE DEF next
  <2> QED BY <2>1, <2>2, <2>3, ReadKeepsQuiet
<1>7. ASSUME NEW a \in Amounts, NEW p \in Amounts \cup {0}, ConvertRequest(k, q, a, p)
      PROVE  QuietInv'
  <2> DEFINE next == [r EXCEPT !.actual = a, !.paid = p, !.payment = PaymentFor(a, p)]
  <2>1. next \in Row
    BY <1>1, AmountsTyped DEF Row
  <2>2. Read(k, q, next, 0, "converting") /\ r.status # "ABSENT"
    BY <1>7 DEF ConvertRequest, Spendable
  <2>3. SoundRow(r, n, E) => Converting(next, E)
    BY <1>1, <1>7, ConvertedIsConverting DEF ConvertRequest
  <2> HIDE DEF next
  <2> QED BY <2>1, <2>2, <2>3, ReadKeepsQuiet
<1>8. RejectRequest(k, q) => QuietInv'
  BY <1>4 DEF RejectRequest, Undecided, Editable
<1>9. \A u \in Staff \cup Management : CancelRequest(k, q, u) => QuietInv'
  BY <1>4 DEF CancelRequest
<1> QED BY <1>2, <1>3, <1>5, <1>6, <1>7, <1>8, <1>9 DEF Begin

-----------------------------------------------------------------------------
LEMMA CreateKeepsQuiet ==
  ASSUME TypeOK, QuietInv, NEW q \in Requests, NEW u \in Staff, NEW a \in Amounts,
         CreateRequest(q, u, a)
  PROVE  QuietInv'
<1> DEFINE new == [NoRow EXCEPT !.owner = u, !.estimated = a, !.status = "PENDING_APPROVAL"]
<1>1. /\ new.status = "PENDING_APPROVAL" /\ new.estimated = a /\ new.payment = "UNPAID"
      /\ new.paid = 0 /\ new.expense = 0
  BY DEF NoRow
<1>2. /\ row[q].status = "ABSENT" /\ row' = [row EXCEPT ![q] = new]
      /\ UNCHANGED <<expenses, received, disturbed, pc, req, mem, cols, pay>>
  BY DEF CreateRequest
<1> HIDE DEF new
<1>3. \A p \in Requests : ExpensesOf(p)' = ExpensesOf(p) /\ \A j \in Calls : On(j, p)' <=> On(j, p)
  BY <1>2 DEF ExpensesOf, On
<1>4. ASSUME NEW p \in Requests \ {q} PROVE QuietOf(p)'
  <2>1. QuietOf(p) /\ row'[p] = row[p]
    BY <1>2 DEF QuietInv, TypeOK
  <2> QED BY <1>2, <1>3, <2>1, OthersKept
<1>5. QuietOf(q)'
  <2>1. CASE disturbed[q]
    BY <1>2, <2>1 DEF QuietOf
  <2>2. CASE ~disturbed[q]
    <3>1. ~Busy(q)
      BY <1>2, <2>2 DEF QuietInv, QuietOf, Busy, QuietCall, On
    <3>2. \A j \in Calls : ~On(j, q)'
      BY <1>3, <3>1 DEF Busy, On
    <3>3. SoundRow(row[q], received[q], ExpensesOf(q))
      BY <2>2, <3>1 DEF QuietInv, QuietOf
    <3>4. row'[q] = new /\ a > 0
      BY <1>2, ExpenseAssumption DEF TypeOK
    <3>5. SoundRow(new, received[q], ExpensesOf(q))
      BY <1>1, <1>2, <3>3, <3>4 DEF SoundRow
    <3>6. SoundRow(row[q], received[q], ExpensesOf(q))'
      BY <1>2, <1>3, <3>4, <3>5
    <3> QED BY <3>2, <3>6 DEF QuietOf
  <2> QED BY <2>1, <2>2
<1> QED BY <1>4, <1>5 DEF QuietInv

(* The insert of the expense: the request's one and only. *)
LEMMA InsertKeepsQuiet ==
  ASSUME TypeOK, QuietInv, NEW k \in Calls, InsertExpense(k)
  PROVE  QuietInv'
<1>0. PICK q \in Requests : q = req[k]
  BY DEF TypeOK
<1> DEFINE e == [id |-> lastExpense + 1, request |-> req[k], amount |-> mem[k].actual,
                 paid |-> mem[k].paid]
           next == [mem[k] EXCEPT !.expense = lastExpense + 1, !.status = "COMPLETED"]
<1>1. mem[k] \in Row /\ pc[k] = "converting" /\ On(k, q)
  BY <1>0 DEF InsertExpense, TypeOK, On
<1>2. /\ expenses' = expenses \cup {e} /\ mem'[k] = next /\ pc'[k] = "read"
      /\ UNCHANGED <<row, received, disturbed, req, cols, pay>>
      /\ \A j \in Calls \ {k} : pc'[j] = pc[j] /\ mem'[j] = mem[j]
  BY DEF InsertExpense, TypeOK
<1>3. /\ e.id = lastExpense + 1 /\ e.request = q /\ e.amount = mem[k].actual
      /\ e.paid = mem[k].paid
  BY <1>0
<1>4. /\ next.status = "COMPLETED" /\ next.expense = lastExpense + 1
      /\ next.actual = mem[k].actual /\ next.paid = mem[k].paid
      /\ next.payment = mem[k].payment
  BY <1>1 DEF Row
<1> HIDE DEF e, next
<1>5. \A p \in Requests, j \in Calls : On(j, p)' <=> On(j, p)
  BY <1>1, <1>2 DEF On
<1>6. ASSUME NEW p \in Requests \ {q} PROVE QuietOf(p)'
  <2>1. ExpensesOf(p)' = ExpensesOf(p)
    BY <1>2, <1>3 DEF ExpensesOf
  <2>2. QuietOf(p) /\ ~On(k, p)
    BY <1>0 DEF QuietInv, On
  <2> QED BY <1>2, <1>5, <2>1, <2>2, OthersKept
<1>7. QuietOf(q)'
  <2> SUFFICES ASSUME ~disturbed[q] PROVE \A j \in Calls : On(j, q)' => QuietCall(j, q)'
    BY <1>1, <1>2, <1>5 DEF QuietOf, Busy, On
  <2>1. QuietCall(k, q)
    BY <1>1 DEF QuietInv, QuietOf
  <2>2. Converting(mem[k], ExpensesOf(q))
    BY <1>1, <2>1 DEF QuietCall
  <2>3. ExpensesOf(q)' = {e}
    BY <1>1, <1>2, <1>3, <2>2 DEF ExpensesOf, Converting
  <2>4. SoundRow(next, received[q] + pay[k], {e})
    BY <1>3, <1>4, <2>2 DEF SoundRow, Converting
  <2>5. SoundRow(mem[k], received[q] + pay[k], ExpensesOf(q))'
    BY <1>2, <2>3, <2>4
  <2>6. \A j \in Calls : On(j, q)' => j = k
    BY <1>1, <1>5, <2>1 DEF QuietCall
  <2>7. QuietCall(k, q)'
    BY <1>2, <2>1, <2>5, <2>6 DEF QuietCall
  <2> QED BY <2>6, <2>7
<1> QED BY <1>6, <1>7 DEF QuietInv

LEMMA CompareKeepsQuiet ==
  ASSUME TypeOK, QuietInv, NEW k \in Calls, Compare(k)
  PROVE  QuietInv'
<1>0. PICK q \in Requests : q = req[k]
  BY DEF TypeOK
<1>1. pc[k] = "read" /\ On(k, q)
  BY <1>0 DEF Compare, On
<1>2. /\ pc'[k] = "compared" /\ cols'[k] = {c \in Columns : mem[k][c] # row[q][c]}
      /\ UNCHANGED <<row, expenses, received, disturbed, req, mem, pay>>
      /\ \A j \in Calls \ {k} : pc'[j] = pc[j] /\ cols'[j] = cols[j]
  BY <1>0 DEF Compare, TypeOK, tables
<1>3. \A p \in Requests : ExpensesOf(p)' = ExpensesOf(p) /\ \A j \in Calls : On(j, p)' <=> On(j, p)
  BY <1>1, <1>2 DEF ExpensesOf, On
<1>4. ASSUME NEW p \in Requests \ {q} PROVE QuietOf(p)'
  <2>1. QuietOf(p) /\ ~On(k, p)
    BY <1>0 DEF QuietInv, On
  <2> QED BY <1>2, <1>3, <2>1, OthersKept
<1>5. QuietOf(q)'
  <2> SUFFICES ASSUME ~disturbed[q] PROVE \A j \in Calls : On(j, q)' => QuietCall(j, q)'
    BY <1>1, <1>2, <1>3 DEF QuietOf, Busy, On
  <2>1. QuietCall(k, q)
    BY <1>1 DEF QuietInv, QuietOf
  <2>2. \A j \in Calls : On(j, q)' => j = k
    BY <1>1, <1>3, <2>1 DEF QuietCall
  <2>3. SoundRow(mem[k], received[q] + pay[k], ExpensesOf(q))'
    BY <1>1, <1>2, <1>3, <2>1 DEF QuietCall
  <2>4. (cols[k] = {c \in Columns : mem[k][c] # row[q][c]})'
    BY <1>2
  <2>5. QuietCall(k, q)'
    BY <1>2, <2>1, <2>2, <2>3, <2>4 DEF QuietCall
  <2> QED BY <2>2, <2>5
<1> QED BY <1>4, <1>5 DEF QuietInv

(* A call is over: no call is on its request any longer, except others     *)
(* that disturbed it.  What it leaves must be sound.                       *)
LEMMA EndKeepsQuiet ==
  ASSUME TypeOK, QuietInv, NEW k \in Calls, pc[k] # "idle", Ends(k), expenses' = expenses,
         \A p \in Requests \ {req[k]} : /\ row'[p] = row[p] /\ received'[p] = received[p]
                                        /\ disturbed'[p] = disturbed[p],
         ~disturbed'[req[k]] =>
           /\ ~disturbed[req[k]]
           /\ SoundRow(row'[req[k]], received'[req[k]], ExpensesOf(req[k]))
  PROVE  QuietInv'
<1>0. PICK q \in Requests : q = req[k]
  BY DEF TypeOK
<1>1. On(k, q)
  BY <1>0 DEF On
<1>2. /\ pc'[k] = "idle"
      /\ \A j \in Calls \ {k} : /\ pc'[j] = pc[j] /\ req'[j] = req[j] /\ mem'[j] = mem[j]
                                /\ cols'[j] = cols[j] /\ pay'[j] = pay[j]
  BY DEF Ends, TypeOK
<1>3. \A p \in Requests : ExpensesOf(p)' = ExpensesOf(p)
  BY DEF ExpensesOf
<1>4. ASSUME NEW p \in Requests \ {q} PROVE QuietOf(p)'
  <2>1. QuietOf(p) /\ ~On(k, p) /\ ~On(k, p)'
    BY <1>0, <1>2 DEF QuietInv, On
  <2>2. \A j \in Calls : On(j, p)' <=> On(j, p)
    BY <1>2, <2>1 DEF On
  <2>3. /\ row'[p] = row[p] /\ received'[p] = received[p] /\ disturbed'[p] = disturbed[p]
    BY <1>0
  <2> QED BY <1>2, <1>3, <2>1, <2>2, <2>3, OthersKept
<1>5. QuietOf(q)'
  <2> SUFFICES ASSUME ~disturbed'[q]
               PROVE  /\ SoundRow(row[q], received[q], ExpensesOf(q))'
                      /\ \A j \in Calls : ~On(j, q)'
    BY DEF QuietOf
  <2>1. QuietCall(k, q) /\ SoundRow(row'[q], received'[q], ExpensesOf(q))
    BY <1>0, <1>1 DEF QuietInv, QuietOf
  <2>2. \A j \in Calls : ~On(j, q)'
    BY <1>2, <2>1 DEF QuietCall, On
  <2>3. SoundRow(row[q], received[q], ExpensesOf(q))'
    BY <1>3, <2>1
  <2> QED BY <2>2, <2>3
<1> QED BY <1>4, <1>5 DEF QuietInv

(* The save writes the columns in which the object differs: the row        *)
(* becomes the object, since nobody changed it after the comparison.       *)
LEMMA WriteKeepsQuiet ==
  ASSUME TypeOK, QuietInv, NEW k \in Calls, Write(k)
  PROVE  QuietInv'
<1>0. PICK q \in Requests : q = req[k]
  BY DEF TypeOK
<1> DEFINE new == [c \in Columns |-> IF c \in cols[k] THEN mem[k][c] ELSE row[q][c]]
<1>1. /\ pc[k] = "compared" /\ row' = [row EXCEPT ![q] = new] /\ Ends(k)
      /\ received' = [received EXCEPT ![q] = received[q] + pay[k]]
      /\ expenses' = expenses /\ disturbed' = disturbed
  BY <1>0 DEF Write
<1>2. On(k, q) /\ mem[k] \in Row
  BY <1>0, <1>1 DEF On, TypeOK
<1>3. ASSUME ~disturbed[q]
      PROVE  SoundRow(row'[q], received'[q], ExpensesOf(q))
  <2>1. QuietCall(k, q)
    BY <1>2, <1>3 DEF QuietInv, QuietOf
  <2>2. /\ SoundRow(mem[k], received[q] + pay[k], ExpensesOf(q))
        /\ cols[k] = {c \in Columns : mem[k][c] # row[q][c]}
    BY <1>1, <2>1 DEF QuietCall
  <2>3. \A c \in Columns : new[c] = mem[k][c]
    BY <2>2
  <2>4. /\ new.status = mem[k].status /\ new.payment = mem[k].payment
        /\ new.paid = mem[k].paid /\ new.estimated = mem[k].estimated
        /\ new.approved = mem[k].approved /\ new.actual = mem[k].actual
        /\ new.expense = mem[k].expense
    BY <2>3 DEF Columns
  <2>5. row'[q] = new /\ received'[q] = received[q] + pay[k]
    BY <1>1 DEF TypeOK
  <2> HIDE DEF new
  <2>6. SoundRow(new, received[q] + pay[k], ExpensesOf(q))
    BY <2>2, <2>4 DEF SoundRow
  <2> QED BY <2>5, <2>6
<1> HIDE DEF new
<1>4. \A p \in Requests \ {q} : row'[p] = row[p] /\ received'[p] = received[p]
  BY <1>1 DEF TypeOK
<1> QED BY <1>0, <1>1, <1>3, <1>4, EndKeepsQuiet

LEMMA CutOffKeepsQuiet ==
  ASSUME TypeOK, QuietInv, NEW k \in Calls, CutOff(k)
  PROVE  QuietInv'
<1>1. disturbed'[req[k]] /\ \A p \in Requests \ {req[k]} : disturbed'[p] = disturbed[p]
  BY DEF CutOff, TypeOK
<1> QED BY <1>1, EndKeepsQuiet DEF CutOff, tables

LEMMA QuietStep == TypeOK /\ QuietInv /\ [Next]_vars => QuietInv'
<1> SUFFICES ASSUME TypeOK, QuietInv, [Next]_vars PROVE QuietInv'
  OBVIOUS
<1>1. CASE UNCHANGED vars
  <2> SUFFICES ASSUME NEW q \in Requests PROVE QuietOf(q)'
    BY DEF QuietInv
  <2>1. ExpensesOf(q)' = ExpensesOf(q) /\ \A j \in Calls : On(j, q)' <=> On(j, q)
    BY <1>1 DEF vars, ExpensesOf, On
  <2> QED BY <1>1, <2>1, OthersKept DEF vars, QuietInv
<1> QED BY <1>1, CreateKeepsQuiet, BeginKeepsQuiet, InsertKeepsQuiet, CompareKeepsQuiet,
           WriteKeepsQuiet, CutOffKeepsQuiet DEF Next

(* A request whose calls never overlapped and always finished agrees with  *)
(* its payments and has exactly the expense it names, whatever the         *)
(* sequence of updates, approvals, payments and conversions was and        *)
(* whatever the calls on other requests do.                                *)
THEOREM QuietRequestsConsistentAlways == Spec => []QuietRequestsConsistent
<1>1. Init => QuietInv
  <2>1. SoundRow(NoRow, 0, {})
    BY DEF NoRow, SoundRow
  <2> SUFFICES ASSUME Init, NEW q \in Requests PROVE QuietOf(q)
    BY DEF QuietInv
  <2>2. row[q] = NoRow /\ received[q] = 0 /\ ExpensesOf(q) = {}
    BY DEF Init, ExpensesOf
  <2>3. \A k \in Calls : ~On(k, q)
    BY DEF Init, On
  <2> QED BY <2>1, <2>2, <2>3 DEF QuietOf
<1>2. QuietInv => QuietRequestsConsistent
  BY SoundIsConsistent DEF QuietInv, QuietOf, QuietRequestsConsistent
<1> QED BY <1>1, <1>2, QuietStep, TypeCorrect, PTL DEF Spec
=============================================================================
