------------------------------ MODULE Treasury ------------------------------
(***************************************************************************)
(* The money a school spends: expenses and their categories, the petty     *)
(* cash account, budgets and recurring expenses, in                        *)
(* src/src/expenses/services/expenses.service.ts, petty-cash.service.ts,   *)
(* expense-budgets.service.ts and expense-recurring.service.ts.            *)
(*                                                                         *)
(* Only saveCategoryWithBudget is a transaction.  Every other operation    *)
(* reads, checks, and saves the object it read with its changes, stale     *)
(* columns included; a save is one step here.  Unique keys stand behind    *)
(* the names of categories and the periods of budgets, none behind the     *)
(* one petty cash account of a school.                                     *)
(***************************************************************************)
EXTENDS Integers, FiniteSets, FiniteSetsExt

CONSTANTS
  Calls,
  Amounts,       \* amounts of money a caller may enter
  Names,         \* names of categories
  Periods,       \* what a budget is for: a session, or one of its terms
  SessionPeriod, \* SessionPeriod[p]: the session itself, where p is one of its terms
  FirstDue,      \* the recurring expenses there are: [step, month, day]
  MaxExpenses, MaxCategories, MaxAccounts, MaxEntries, \* bounds: rows
  MaxMonths,     \* bound: the months recurring expenses run
  MaxCalls

Recurring == DOMAIN FirstDue
ExpenseIds == 1 .. MaxExpenses
CategoryIds == 1 .. MaxCategories
Accounts == 1 .. MaxAccounts
Category == [name : Names \cup {"none"}, active : BOOLEAN]
BudgetKeys == CategoryIds \X Periods   \* the unique key of expense_budgets
Entry == [id : Nat, account : Accounts, amount : Int, after : Int, expense : Nat]
DueDate == [month : Nat, day : 1 .. 31]

ASSUME TreasuryAssumption ==
  /\ Amounts \subseteq Nat \ {0}
  /\ Names # {} /\ MaxCategories \in Nat \ {0}
  /\ MaxExpenses \in Nat /\ MaxAccounts \in Nat /\ MaxEntries \in Nat
  /\ MaxMonths \in Nat /\ MaxCalls \in Nat
  /\ SessionPeriod \in [Periods -> Periods]
  /\ Recurring \subseteq Nat
  /\ \A r \in Recurring :
       FirstDue[r] \in [step : {1, 3, 12}, month : 0 .. 11, day : 1 .. 31]

NoExpense == [amount |-> 0, paid |-> 0, voided |-> FALSE]
Expense == [amount : Nat, paid : Nat, voided : BOOLEAN]
NoCategory == [name |-> "none", active |-> FALSE]

VARIABLES
  expense,     \* expense[e]: the expenses row
  lastExpense,
  balance,     \* balance[a]: currentBalance of petty cash account a
  lastAccount,
  entries,     \* petty_cash_transactions: [id, account, amount, after, expense]
  category,    \* category[c]: the expense_categories row
  lastCategory,
  budget,      \* budget[<<c, p>>]: the amount of the expense_budgets row, 0 if none
  due,         \* due[r]: [month, day] of nextDueDate, months counted on
  call,        \* call[k]: what the call in slot k has read and does next
  begun,       \* calls begun
  \* history
  alone,       \* calls that no other call has overlapped
  quiet,       \* no two calls used the account at once, and none was cut off in it
  owed,        \* owed[e]: what createExpense is to take out of the petty cash
  undisbursed, \* expenses whose disbursement failed or was cut off
  raced,       \* expenses that two calls changed at once
  set,         \* set[<<c, p>>]: the budget a lone call gave, 0 if others came between
  marked,      \* marked[r]: times r was recorded since its due date was given
  doubled      \* recurring expenses that two calls changed at once

cash == <<balance, lastAccount, entries>>
plans == <<category, lastCategory, budget, due>>
spending == <<expense, lastExpense>>
ofCash == <<quiet, owed, undisbursed>>
ofPlans == <<set, marked, doubled>>
treasuryVars == <<cash, plans, spending, call, begun, alone, ofCash, raced, ofPlans>>

Idle == [pc |-> "idle", op |-> "none", id |-> 0, account |-> 0, read |-> 0, amount |-> 0,
         object |-> NoExpense, row |-> NoCategory, period |-> "none", day |-> 0]
At(k, where) == call[k].pc = where
Busy(k) == ~At(k, "idle")
OnCash(k) == call[k].pc \in {"account", "create account", "save balance", "record"}
Changing(where, i) == \E j \in Calls : At(j, where) /\ call[j].id = i

Begins(k, first) ==
  /\ ~Busy(k) /\ begun < MaxCalls /\ begun' = begun + 1
  /\ call' = [call EXCEPT ![k] = first]
  /\ alone' = IF \E j \in Calls : Busy(j) THEN {} ELSE {k}
Ends(k) == call' = [call EXCEPT ![k] = Idle] /\ UNCHANGED <<begun, alone>>
Refuses(k) == Ends(k) /\ UNCHANGED <<cash, plans, spending, ofCash, raced, ofPlans>>

(* The call is cut off: an exception, an error of the database, a restart. *)
CutOff(k) ==
  /\ Busy(k) /\ Ends(k)
  /\ quiet' = (quiet /\ ~OnCash(k))
  /\ undisbursed' = IF call[k].op = "expense" THEN undisbursed \cup {call[k].id}
                    ELSE undisbursed
  /\ UNCHANGED <<cash, plans, spending, owed, raced, ofPlans>>

-----------------------------------------------------------------------------
(* The petty cash account.                                                 *)

ToAccount(k, first) ==
  /\ Begins(k, [first EXCEPT !.pc = "account"])
  /\ quiet' = (quiet /\ ~\E j \in Calls : OnCash(j))

Replenish(k, amount) ==
  /\ ToAccount(k, [Idle EXCEPT !.op = "replenish", !.amount = amount])
  /\ UNCHANGED <<cash, plans, spending, owed, undisbursed, raced, ofPlans>>

(* getAccount: the first account found, or a new one. *)
GetAccount(k) ==
  /\ At(k, "account")
  /\ IF lastAccount = 0 THEN call' = [call EXCEPT ![k].pc = "create account"]
     ELSE \E a \in 1 .. lastAccount :
            call' = [call EXCEPT ![k].account = a, ![k].read = balance[a],
                                 ![k].pc = "save balance"]
  /\ UNCHANGED <<cash, plans, spending, begun, alone, ofCash, raced, ofPlans>>

CreateAccount(k) ==
  LET a == lastAccount + 1
  IN  /\ At(k, "create account") /\ a <= MaxAccounts
      /\ balance' = [balance EXCEPT ![a] = 0] /\ lastAccount' = a
      /\ call' = [call EXCEPT ![k].account = a, ![k].read = 0, ![k].pc = "save balance"]
      /\ UNCHANGED <<entries, plans, spending, begun, alone, ofCash, raced, ofPlans>>

Signed(c) == IF c.op = "replenish" THEN c.amount ELSE 0 - c.amount
NewBalance(c) == c.read + Signed(c)

SaveBalance(k) ==
  /\ At(k, "save balance")
  /\ balance' = [balance EXCEPT ![call[k].account] = NewBalance(call[k])]
  /\ call' = [call EXCEPT ![k].pc = "record"]
  /\ UNCHANGED <<lastAccount, entries, plans, spending, begun, alone, ofCash, raced, ofPlans>>

RecordEntry(k) ==
  LET c == call[k]
      i == Cardinality(entries) + 1
  IN  /\ At(k, "record") /\ i <= MaxEntries
      /\ entries' = entries \cup {[id |-> i, account |-> c.account, amount |-> Signed(c),
                                   after |-> NewBalance(c), expense |-> c.id]}
      /\ Ends(k)
      /\ UNCHANGED <<balance, lastAccount, plans, spending, ofCash, raced, ofPlans>>

-----------------------------------------------------------------------------
(* Expenses.                                                               *)

(* createExpense: the row, and what was paid from the petty cash is        *)
(* disbursed; a failure there is only logged.                              *)
DisbursedInFull(amount, part) == amount
Disbursed(amount, part) == part

CreateExpense(k, amount, part, petty) ==
  LET e == lastExpense + 1
  IN  /\ e <= MaxExpenses /\ lastCategory > 0
      /\ expense' = [expense EXCEPT ![e] = [amount |-> amount, paid |-> part, voided |-> FALSE]]
      /\ lastExpense' = e
      /\ owed' = [owed EXCEPT ![e] = IF petty THEN part ELSE 0]
      /\ IF petty /\ part > 0
         THEN ToAccount(k, [Idle EXCEPT !.op = "expense", !.id = e,
                                !.amount = Disbursed(amount, part)])
         ELSE Begins(k, Idle) /\ quiet' = quiet
      /\ UNCHANGED <<cash, plans, undisbursed, raced, ofPlans>>

Saves(k, e, object) ==
  /\ Begins(k, [Idle EXCEPT !.pc = "save expense", !.id = e, !.object = object])
  /\ raced' = raced \cup (IF Changing("save expense", e) THEN {e} ELSE {})
  /\ UNCHANGED <<cash, plans, spending, ofCash, ofPlans>>

(* No money moves back into the petty cash, or out of it. *)
UpdateExpenseVoided(k, e, amount, part) ==
  /\ e \in 1 .. lastExpense
  /\ Saves(k, e, [amount |-> amount, paid |-> part, voided |-> FALSE])
UpdateExpense(k, e, amount, part) ==
  /\ e \in 1 .. lastExpense /\ ~expense[e].voided
  /\ Saves(k, e, [expense[e] EXCEPT !.amount = amount, !.paid = part])

VoidExpense(k, e) ==
  /\ e \in 1 .. lastExpense /\ ~expense[e].voided
  /\ Saves(k, e, [expense[e] EXCEPT !.voided = TRUE])

SaveExpense(k) ==
  /\ At(k, "save expense")
  /\ expense' = [expense EXCEPT ![call[k].id] = call[k].object]
  /\ Ends(k)
  /\ UNCHANGED <<cash, plans, lastExpense, ofCash, raced, ofPlans>>

-----------------------------------------------------------------------------
(* Categories and budgets.                                                 *)

Named(n) == {c \in 1 .. lastCategory : category[c].name = n}

(* A category that was archived comes back under its name. *)
CreateCategory(k, n) ==
  /\ \A c \in Named(n) : ~category[c].active
  /\ Begins(k, [Idle EXCEPT !.pc = "save category", !.row = [name |-> n, active |-> TRUE],
                 !.id = IF Named(n) = {} THEN 0 ELSE CHOOSE c \in Named(n) : TRUE])
  /\ UNCHANGED <<cash, plans, spending, ofCash, raced, ofPlans>>
UpdateCategory(k, c, n, active) ==
  /\ c \in 1 .. lastCategory /\ Named(n) \subseteq {c}
  /\ Begins(k, [Idle EXCEPT !.pc = "save category", !.id = c,
                 !.row = [name |-> n, active |-> active]])
  /\ UNCHANGED <<cash, plans, spending, ofCash, raced, ofPlans>>
ArchiveCategory(k, c) ==
  /\ c \in 1 .. lastCategory
  /\ Begins(k, [Idle EXCEPT !.pc = "save category", !.id = c,
                 !.row = [category[c] EXCEPT !.active = FALSE]])
  /\ UNCHANGED <<cash, plans, spending, ofCash, raced, ofPlans>>

(* saveCategoryWithBudget: both rows, new or found, in one transaction. *)
SaveCategoryWithBudget(k, n, p, amount) ==
  /\ \A c \in Named(n) : ~category[c].active
  /\ Begins(k, [Idle EXCEPT !.op = "both", !.pc = "save category", !.period = p,
                 !.amount = amount, !.row = [name |-> n, active |-> TRUE],
                 !.id = IF Named(n) = {} THEN 0 ELSE CHOOSE c \in Named(n) : TRUE])
  /\ UNCHANGED <<cash, plans, spending, ofCash, raced, ofPlans>>

UpdateCategoryWithBudget(k, c, n, p, amount) ==
  /\ c \in 1 .. lastCategory /\ Named(n) \subseteq {c}
  /\ Begins(k, [Idle EXCEPT !.op = "both", !.pc = "save category", !.period = p, !.id = c,
                 !.amount = amount, !.row = [category[c] EXCEPT !.name = n]])
  /\ UNCHANGED <<cash, plans, spending, ofCash, raced, ofPlans>>

BudgetSet(k, c, p) == set' = [set EXCEPT ![<<c, p>>] = IF k \in alone THEN call[k].amount ELSE 0]

(* The unique key refuses a second category of the name. *)
NameTaken(n, c) == Named(n) \ {c} # {}

SaveCategory(k) ==
  LET x == call[k]
      c == IF x.id = 0 THEN lastCategory + 1 ELSE x.id
  IN  /\ At(k, "save category") /\ c <= MaxCategories
      /\ IF NameTaken(x.row.name, c) THEN Refuses(k)
         ELSE /\ category' = [category EXCEPT ![c] = x.row]
              /\ lastCategory' = Max({lastCategory, c})
              /\ IF x.op = "both"
                 THEN /\ budget' = [budget EXCEPT ![<<c, x.period>>] = x.amount]
                      /\ BudgetSet(k, c, x.period)
                 ELSE UNCHANGED <<budget, set>>
              /\ Ends(k)
              /\ UNCHANGED <<cash, spending, due, ofCash, raced, marked, doubled>>

(* setBudget; bulkSetBudgets is one after the other.  A budget of the      *)
(* session is one without a term: the look-up asks for NULL.               *)
BudgetFor(c, p) == p

SetBudget(k, c, p, amount) ==
  /\ c \in 1 .. lastCategory
  /\ Begins(k, [Idle EXCEPT !.op = IF budget[c, BudgetFor(c, p)] = 0 THEN "insert" ELSE "update",
                 !.pc = "save budget", !.id = c, !.period = p, !.amount = amount])
  /\ set' = [set EXCEPT ![<<c, p>>] = 0]
  /\ UNCHANGED <<cash, plans, spending, ofCash, raced, marked, doubled>>

SaveBudget(k) ==
  LET x == call[k]
      p == IF x.op = "insert" THEN x.period ELSE BudgetFor(x.id, x.period)
  IN  /\ At(k, "save budget")
      /\ IF x.op = "insert" /\ budget[x.id, p] # 0 THEN Refuses(k)
         ELSE /\ budget' = [budget EXCEPT ![<<x.id, p>>] = x.amount]
              /\ BudgetSet(k, x.id, x.period)
              /\ Ends(k)
              /\ UNCHANGED <<cash, spending, category, lastCategory, due, ofCash, raced,
                             marked, doubled>>

-----------------------------------------------------------------------------
(* Recurring expenses.                                                     *)

(* Days of a month, counted from a January; no leap year. *)
DaysOf(month) == CASE month % 12 = 1 -> 28 [] month % 12 \in {3, 5, 8, 10} -> 30 [] OTHER -> 31

(* setUTCMonth: a day that the month does not have runs into the next one. *)
NextDueMonthly(d, by) == [month |-> d.month + 1, day |-> d.day]
NextDue(d, by) ==
  LET m == d.month + by
  IN  IF d.day <= DaysOf(m) THEN [month |-> m, day |-> d.day]
      ELSE [month |-> m + 1, day |-> d.day - DaysOf(m)]

(* markRecorded, and an update that gives another due date. *)
MarkRecorded(k, r) ==
  LET d == NextDue(due[r], FirstDue[r].step)
  IN  /\ d.month <= MaxMonths
      /\ Begins(k, [Idle EXCEPT !.op = "record", !.pc = "save due", !.id = r,
                                !.read = d.month, !.day = d.day])
      /\ doubled' = doubled \cup (IF Changing("save due", r) THEN {r} ELSE {})
      /\ UNCHANGED <<cash, plans, spending, ofCash, raced, set, marked>>
UpdateRecurringExpense(k, r) ==
  /\ Begins(k, [Idle EXCEPT !.op = "given", !.pc = "save due", !.id = r,
                            !.read = FirstDue[r].month, !.day = FirstDue[r].day])
  /\ doubled' = doubled \cup (IF Changing("save due", r) THEN {r} ELSE {})
  /\ UNCHANGED <<cash, plans, spending, ofCash, raced, set, marked>>

SaveDue(k) ==
  LET r == call[k].id
  IN  /\ At(k, "save due")
      /\ due' = [due EXCEPT ![r] = [month |-> call[k].read, day |-> call[k].day]]
      /\ marked' = [marked EXCEPT ![r] = IF call[k].op = "record" THEN @ + 1 ELSE 0]
      /\ Ends(k)
      /\ UNCHANGED <<cash, spending, category, lastCategory, budget, ofCash, raced, set, doubled>>

-----------------------------------------------------------------------------
Call ==
  [pc : {"idle", "account", "create account", "save balance", "record", "save expense",
         "save category", "save budget", "save due"},
   op : {"none", "replenish", "expense", "both", "insert", "update", "record", "given"},
   id : Nat, account : 0 .. MaxAccounts, read : Int, amount : Nat, object : Expense,
   row : Category, period : Periods \cup {"none"},
   day : 0 .. 31]

TreasuryTypeOK ==
  /\ expense \in [ExpenseIds -> Expense] /\ lastExpense \in 0 .. MaxExpenses
  /\ balance \in [Accounts -> Int] /\ lastAccount \in 0 .. MaxAccounts
  /\ entries \subseteq Entry
  /\ \A x \in entries : x.account <= lastAccount /\ x.expense <= lastExpense
  /\ category \in [CategoryIds -> Category]
  /\ \A c \in 1 .. lastCategory : Named(category[c].name) = {c}
  /\ budget \in [BudgetKeys -> Nat] /\ set \in [BudgetKeys -> Nat]
  /\ due \in [Recurring -> DueDate] /\ marked \in [Recurring -> Nat]
  /\ call \in [Calls -> Call] /\ begun \in 0 .. MaxCalls /\ alone \subseteq Calls
  /\ quiet \in BOOLEAN /\ owed \in [ExpenseIds -> Nat]
  /\ undisbursed \subseteq ExpenseIds /\ raced \subseteq ExpenseIds
  /\ doubled \subseteq Recurring

TreasuryInit ==
  /\ expense = [e \in ExpenseIds |-> NoExpense] /\ lastExpense = 0
  /\ balance = [a \in Accounts |-> 0] /\ lastAccount = 0 /\ entries = {}
  /\ category = [c \in CategoryIds |->
       IF c = 1 THEN [name |-> CHOOSE n \in Names : TRUE, active |-> TRUE] ELSE NoCategory]
  /\ lastCategory = 1
  /\ budget = [b \in BudgetKeys |-> 0] /\ set = budget
  /\ due = [r \in Recurring |-> [month |-> FirstDue[r].month, day |-> FirstDue[r].day]]
  /\ marked = [r \in Recurring |-> 0]
  /\ call = [k \in Calls |-> Idle] /\ begun = 0 /\ alone = {}
  /\ quiet = TRUE /\ owed = [e \in ExpenseIds |-> 0]
  /\ undisbursed = {} /\ raced = {} /\ doubled = {}

BeginSpending(k) ==
  \/ \E amount \in Amounts : Replenish(k, amount)
  \/ \E amount \in Amounts, part \in Amounts \cup {0}, petty \in BOOLEAN :
       CreateExpense(k, amount, part, petty)
  \/ \E e \in ExpenseIds : \/ VoidExpense(k, e)
                           \/ \E amount \in Amounts, part \in Amounts \cup {0} :
                                UpdateExpense(k, e, amount, part)

BeginPlanning(k) ==
  \/ \E n \in Names : CreateCategory(k, n)
  \/ \E n \in Names, p \in Periods, amount \in Amounts : SaveCategoryWithBudget(k, n, p, amount)
  \/ \E c \in CategoryIds : \/ ArchiveCategory(k, c)
                            \/ \E n \in Names, b \in BOOLEAN : UpdateCategory(k, c, n, b)
                            \/ \E p \in Periods, amount \in Amounts :
                                 \/ SetBudget(k, c, p, amount)
                                 \/ \E n \in Names : UpdateCategoryWithBudget(k, c, n, p, amount)
  \/ \E r \in Recurring : MarkRecorded(k, r) \/ UpdateRecurringExpense(k, r)

Step(k) ==
  \/ GetAccount(k) \/ CreateAccount(k) \/ SaveBalance(k) \/ RecordEntry(k)
  \/ SaveExpense(k) \/ SaveCategory(k) \/ SaveBudget(k) \/ SaveDue(k) \/ CutOff(k)

TreasuryNext == \E k \in Calls : BeginSpending(k) \/ BeginPlanning(k) \/ Step(k)

TreasurySpec == TreasuryInit /\ [][TreasuryNext]_treasuryVars

-----------------------------------------------------------------------------
(* Correctness.                                                            *)

(* What entries of the account add up to. *)
Flow(E) == MapThenSumSet(LAMBDA x : x.amount, E)

(* As long as no two calls use the account at once and none stops half way,*)
(* the entries tell the balance: each says what was left after it, and the *)
(* last one what is left now.                                              *)
QuietCashAddsUp ==
  quiet /\ ~(\E k \in Calls : OnCash(k)) =>
    /\ lastAccount <= 1
    /\ \A x \in entries :
         x.after = Flow({y \in entries : y.id <= x.id})
    /\ lastAccount = 1 => balance[1] = Flow(entries)

(* Whatever overlaps, an expense paid from the petty cash is taken out of  *)
(* it once, in the amount that was paid when it was recorded, unless the   *)
(* disbursement failed.                                                    *)
DisbursedOnce ==
  \A e \in 1 .. lastExpense :
    LET of == {x \in entries : x.expense = e}
    IN  /\ Cardinality(of) <= 1 /\ \A x \in of : x.amount = 0 - owed[e]
        /\ e \notin undisbursed /\ ~(\E k \in Calls : call[k].op = "expense" /\ call[k].id = e)
             => (of # {} <=> owed[e] > 0)

(* The petty cash is told by its entries, and they by the expenses.        *)
CashAccounted == QuietCashAddsUp /\ DisbursedOnce

(* 'Cannot update a voided expense': it stays voided as it was, unless a   *)
(* call that read it before its voiding is still to save it.               *)
VoidedIsFinal ==
  [][\A e \in 1 .. lastExpense : expense[e].voided /\ e \notin raced
                                   => expense'[e] = expense[e]]_treasuryVars

(* The budget of a session or of a term is what a lone call last set for   *)
(* that very period.                                                       *)
BudgetsAsSet ==
  \A c \in CategoryIds, p \in Periods : set[c, p] # 0 => budget[c, p] = set[c, p]

(* An expense that is due on a day every month has comes up once in every  *)
(* interval; due later in the month, it skips one month at most, once.     *)
DueOnceAnInterval ==
  \A r \in Recurring \ doubled :
    LET ahead == due[r].month - (FirstDue[r].month + marked[r] * FirstDue[r].step)
    IN  ahead \in {0, 1} /\ (FirstDue[r].day <= 28 => ahead = 0 /\ due[r].day = FirstDue[r].day)

(* What was planned ahead, budgets and due dates, is what was set.         *)
PlansKept == BudgetsAsSet /\ DueOnceAnInterval
=============================================================================
