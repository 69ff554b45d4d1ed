-------------------------- MODULE ExpenseRequests --------------------------
(***************************************************************************)
(* Spending requests, from the request to the recorded expense, in         *)
(* src/src/expenses/services/expense-requests.service.ts.                  *)
(*                                                                         *)
(* No operation runs in a transaction or locks a row.  Each one reads the  *)
(* request, checks it, changes the object in memory and saves it; the save *)
(* compares the object with the row as it is by then and writes the columns*)
(* that differ, stale ones included.  So a call is                         *)
(*                                                                         *)
(*     idle -> read -> [recorded ->] compared -> idle                      *)
(*                                                                         *)
(* where recorded is the separate insert of the expense of a conversion.   *)
(* The activity log, which nothing reads back, is left out.                *)
(***************************************************************************)
EXTENDS Naturals, FiniteSets

CONSTANTS Requests,       \* expense_requests rows, created or not
          Calls,          \* slots in which calls run concurrently
          Staff,          \* users who make requests
          Management,     \* users with one of MANAGEMENT_ROLES
          Amounts,        \* amounts of money a caller may enter
          MaxExpenses,    \* bound: expenses recorded
          MaxReceived     \* bound: a payment begins while less was received

ASSUME ExpenseAssumption ==
  /\ Amounts \subseteq Nat \ {0} /\ MaxExpenses \in Nat /\ MaxReceived \in Nat
  /\ Requests # {} /\ Staff # {}

VARIABLES
  row,         \* row[q]: the expense_requests row
  expenses,    \* expenses rows that were created from requests
  lastExpense, \* the id of the last of them
  received,    \* history: received[q], the payments recordRequestPayment saved
  disturbed,   \* history: disturbed[q], two calls on q overlapped or one was cut off
  pc, req,     \* per call: place, request
  mem,         \* per call: the request object in memory
  cols,        \* per call: the columns its save found different
  pay          \* per call: the payment it records, 0 if none

vars == <<row, expenses, lastExpense, received, disturbed, pc, req, mem, cols, pay>>
tables == <<row, expenses, lastExpense, received>>

Statuses == {"ABSENT", "DRAFT", "SUBMITTED", "PENDING_APPROVAL", "APPROVED",
             "REJECTED", "FUNDED", "COMPLETED", "CANCELLED"}
PaymentStatuses == {"UNPAID", "PARTIALLY_PAID", "PAID"}

(* The columns the operations change.  A null amount or id is 0. *)
Row == [owner : Staff, status : Statuses, payment : PaymentStatuses, paid : Nat,
        estimated : Nat, approved : Nat, actual : Nat, expense : Nat]
Columns == {"owner", "status", "payment", "paid", "estimated", "approved",
            "actual", "expense"}
Expense == [id : Nat, request : Requests, amount : Nat, paid : Nat]

TypeOK ==
  /\ row \in [Requests -> Row]
  /\ expenses \subseteq Expense
  /\ lastExpense \in Nat
  /\ received \in [Requests -> Nat]
  /\ disturbed \in [Requests -> BOOLEAN]
  /\ pc \in [Calls -> {"idle", "read", "converting", "compared"}]
  /\ req \in [Calls -> Requests]
  /\ mem \in [Calls -> Row]
  /\ cols \in [Calls -> SUBSET Columns]
  /\ pay \in [Calls -> Nat]

NoRow == [owner |-> CHOOSE u \in Staff : TRUE, status |-> "ABSENT",
          payment |-> "UNPAID", paid |-> 0, estimated |-> 0, approved |-> 0,
          actual |-> 0, expense |-> 0]

NoRequest == CHOOSE q \in Requests : TRUE

Init ==
  /\ row = [q \in Requests |-> NoRow]
  /\ expenses = {} /\ lastExpense = 0
  /\ received = [q \in Requests |-> 0]
  /\ disturbed = [q \in Requests |-> FALSE]
  /\ pc = [k \in Calls |-> "idle"]
  /\ req = [k \in Calls |-> NoRequest]
  /\ mem = [k \in Calls |-> NoRow]
  /\ cols = [k \in Calls |-> {}]
  /\ pay = [k \in Calls |-> 0]

-----------------------------------------------------------------------------
(* createRequest: one insert. *)
CreateRequest(q, u, amount) ==
  /\ row[q].status = "ABSENT"
  /\ row' = [row EXCEPT ![q] = [NoRow EXCEPT !.owner = u, !.estimated = amount,
                                             !.status = "PENDING_APPROVAL"]]
  /\ UNCHANGED <<expenses, lastExpense, received, disturbed, pc, req, mem, cols, pay>>

-----------------------------------------------------------------------------
(* The read and the checks of a call, and the object it will save.         *)

Editable(r)   == r.status \in {"DRAFT", "SUBMITTED", "PENDING_APPROVAL"}
Undecided(r)  == r.status \in {"SUBMITTED", "PENDING_APPROVAL"}
Spendable(r)  == r.status \in {"APPROVED", "FUNDED"}
MayChange(u, r) == u = r.owner \/ u \in Management

(* approvedAmount ?? estimatedAmount *)
Cap(r) == IF r.approved # 0 THEN r.approved ELSE r.estimated

(* Call k has read request q and will save object next. *)
Busy(q) == \E k \in Calls : pc[k] # "idle" /\ req[k] = q

Read(k, q, next, payment, place) ==
  /\ pc[k] = "idle"
  /\ pc' = [pc EXCEPT ![k] = place]
  /\ req' = [req EXCEPT ![k] = q]
  /\ mem' = [mem EXCEPT ![k] = next]
  /\ pay' = [pay EXCEPT ![k] = payment]
  /\ disturbed' = [disturbed EXCEPT ![q] = disturbed[q] \/ Busy(q)]
  /\ UNCHANGED <<tables, cols>>

UpdateRequest(k, q, u, amount) ==
  /\ Editable(row[q]) /\ MayChange(u, row[q])
  /\ Read(k, q, [row[q] EXCEPT !.estimated = amount], 0, "read")

(* given = 0: no amount given, the estimate is approved. *)
ApproveRequest(k, q, given) ==
  /\ Undecided(row[q])
  /\ Read(k, q, [row[q] EXCEPT !.status = "APPROVED",
                   !.approved = IF given # 0 THEN given ELSE row[q].estimated], 0, "read")

RejectRequest(k, q) ==
  /\ Undecided(row[q])
  /\ Read(k, q, [row[q] EXCEPT !.status = "REJECTED"], 0, "read")

CancelRequestAnytime(k, q, u) ==
  /\ row[q].status # "ABSENT" /\ MayChange(u, row[q])
  /\ Read(k, q, [row[q] EXCEPT !.status = "CANCELLED"], 0, "read")
CancelRequest(k, q, u) ==
  /\ Editable(row[q]) /\ MayChange(u, row[q])
  /\ Read(k, q, [row[q] EXCEPT !.status = "CANCELLED"], 0, "read")

(* What was paid before is overwritten by the whole approved amount. *)
FundRequest(k, q) ==
  /\ row[q].status = "APPROVED"
  /\ Read(k, q, [row[q] EXCEPT !.status = "FUNDED", !.payment = "PAID",
                               !.paid = Cap(row[q])], 0, "read")

RecordRequestPayment(k, q, amount) ==
  LET r == row[q]
      full == r.paid + amount = Cap(r)
  IN  /\ received[q] < MaxReceived
      /\ Spendable(r) /\ r.expense = 0
      /\ r.paid + amount <= Cap(r)
      /\ Read(k, q, [r EXCEPT !.paid = r.paid + amount,
                       !.payment = IF full THEN "PAID" ELSE "PARTIALLY_PAID",
                       !.status = IF full THEN "FUNDED" ELSE r.status], amount, "read")

(* convertRequestToExpense, up to the insert of the expense: the payment   *)
(* status given must fit the amounts.                                      *)
PaymentFor(actual, paid) == IF paid = actual THEN "PAID"
                            ELSE IF paid = 0 THEN "UNPAID" ELSE "PARTIALLY_PAID"

ConvertRequest(k, q, actual, paid) ==
  /\ Spendable(row[q])
  /\ paid <= actual
  /\ Read(k, q, [row[q] EXCEPT !.actual = actual, !.paid = paid,
                               !.payment = PaymentFor(actual, paid)], 0, "converting")

(* The insert of the expense; then the object gets its id and is COMPLETED.*)
InsertExpenseDropped(k) ==
  /\ pc[k] = "converting"
  /\ lastExpense < MaxExpenses
  /\ mem' = [mem EXCEPT ![k] = [mem[k] EXCEPT !.expense = lastExpense + 1,
                                              !.status = "COMPLETED"]]
  /\ lastExpense' = lastExpense + 1
  /\ pc' = [pc EXCEPT ![k] = "read"]
  /\ UNCHANGED <<row, expenses, received, disturbed, req, cols, pay>>
InsertExpense(k) ==
  /\ pc[k] = "converting"
  /\ lastExpense < MaxExpenses
  /\ expenses' = expenses \cup
       {[id |-> lastExpense + 1, request |-> req[k], amount |-> mem[k].actual,
         paid |-> mem[k].paid]}
  /\ lastExpense' = lastExpense + 1
  /\ mem' = [mem EXCEPT ![k] = [mem[k] EXCEPT !.expense = lastExpense + 1,
                                              !.status = "COMPLETED"]]
  /\ pc' = [pc EXCEPT ![k] = "read"]
  /\ UNCHANGED <<row, received, disturbed, req, cols, pay>>

-----------------------------------------------------------------------------
(* Repository.save(request): a select, and an update of what differs.      *)

Compare(k) ==
  /\ pc[k] = "read"
  /\ cols' = [cols EXCEPT ![k] = {c \in Columns : mem[k][c] # row[req[k]][c]}]
  /\ pc' = [pc EXCEPT ![k] = "compared"]
  /\ UNCHANGED <<tables, disturbed, req, mem, pay>>

(* The call is over; its memory is gone. *)
Ends(k) ==
  /\ pc' = [pc EXCEPT ![k] = "idle"]
  /\ req' = [req EXCEPT ![k] = NoRequest]
  /\ mem' = [mem EXCEPT ![k] = NoRow]
  /\ cols' = [cols EXCEPT ![k] = {}]
  /\ pay' = [pay EXCEPT ![k] = 0]

Write(k) ==
  LET q == req[k]
  IN  /\ pc[k] = "compared"
      /\ row' = [row EXCEPT ![q] =
                   [c \in Columns |-> IF c \in cols[k] THEN mem[k][c] ELSE row[q][c]]]
      /\ received' = [received EXCEPT ![q] = received[q] + pay[k]]
      /\ Ends(k)
      /\ UNCHANGED <<expenses, lastExpense, disturbed>>

(* The call is cut off: an error of the database, a restart. *)
CutOff(k) ==
  /\ pc[k] # "idle"
  /\ Ends(k)
  /\ disturbed' = [disturbed EXCEPT ![req[k]] = TRUE]
  /\ UNCHANGED tables

-----------------------------------------------------------------------------
Begin(k, q) ==
  \/ \E a \in Amounts, u \in Staff \cup Management : UpdateRequest(k, q, u, a)
  \/ \E a \in Amounts \cup {0} : ApproveRequest(k, q, a)
  \/ RejectRequest(k, q)
  \/ \E u \in Staff \cup Management : CancelRequest(k, q, u)
  \/ FundRequest(k, q)
  \/ \E a \in Amounts : RecordRequestPayment(k, q, a)
  \/ \E a \in Amounts, p \in Amounts \cup {0} : ConvertRequest(k, q, a, p)

Next ==
  \/ \E q \in Requests, u \in Staff, a \in Amounts : CreateRequest(q, u, a)
  \/ \E k \in Calls :
       \/ \E q \in Requests : Begin(k, q)
       \/ InsertExpense(k) \/ Compare(k) \/ Write(k) \/ CutOff(k)

Spec == Init /\ [][Next]_vars

-----------------------------------------------------------------------------
(* Correctness.                                                            *)

ExpensesOf(q) == {e \in expenses : e.request = q}

(* Whatever overlaps or is cut off, a request that says COMPLETED has an   *)
(* expense: the expense is inserted before the request is saved.           *)
CompletedHasExpense ==
  \A q \in Requests : row[q].status = "COMPLETED" => ExpensesOf(q) # {}

(* What one row and its expenses must agree on. *)
Consistent(q) ==
  LET r == row[q]
  IN  /\ r.status \in {"ABSENT", "PENDING_APPROVAL", "REJECTED", "CANCELLED"}
           => r.payment = "UNPAID" /\ r.paid = 0
      /\ r.status = "APPROVED" => /\ r.approved > 0 /\ r.paid < r.approved
                                  /\ r.paid = received[q]
                                  /\ r.payment = PaymentFor(r.approved, r.paid)
      /\ r.status = "FUNDED" => /\ r.approved > 0 /\ r.paid = r.approved
                                /\ r.payment = "PAID"
      /\ r.status # "COMPLETED" => ExpensesOf(q) = {} /\ r.expense = 0
      /\ r.status = "COMPLETED" =>
           \E e \in expenses : /\ ExpensesOf(q) = {e} /\ e.id = r.expense
                               /\ e.amount = r.actual /\ e.paid = r.paid
                               /\ r.payment = PaymentFor(e.amount, e.paid)

(* A request whose calls never overlap and always finish agrees with its   *)
(* payments and its one expense, whatever the sequence of calls.           *)
QuietRequestsConsistent ==
  \A q \in Requests : ~disturbed[q] /\ ~Busy(q) => Consistent(q)
=============================================================================
