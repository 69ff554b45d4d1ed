----------------------------- MODULE FeeLedger -----------------------------
(***************************************************************************)
(* Fee structures, per-student overrides, invoices and the payments applied*)
(* to them, for one school and one session, in                             *)
(* src/src/fees/fees.service.ts.  Every operation here is a transaction    *)
(* that no other one overlaps: FeeApproval is about what happens when two  *)
(* of them do, this module about what long sequences of them do to the     *)
(* amounts.  Each is one step, but for the payment, whose loops over       *)
(* allocations, invoices and items are taken one turn at a time:           *)
(*                                                                         *)
(*   none -> allocations -> invoices <-> items                             *)
(*                          invoices -> none                               *)
(*                                                                         *)
(* An invoice belongs to a student and a term and has one item per fee     *)
(* structure that applied when it was generated.  Amounts are whole units. *)
(***************************************************************************)
EXTENDS Integers, FiniteSets, Sequences, Functions

CONSTANTS Children,         \* the students
          Structures, Terms,
          ClassOf,          \* ClassOf[st]: currentClassId of student st
          ClassFor,         \* ClassFor[f]: classId of structure f, or NoClass
          TermOf,           \* TermOf[f]: termId of structure f, or NoTerm
          CategoryOf,       \* CategoryOf[f]: feeCategoryId of structure f
          NoClass, NoTerm,
          FeeAmounts,       \* FeeAmounts[f]: the amounts structure f may have
          Overrides,        \* amounts an override may have
          Payments,         \* amounts a payment share may have
          Splits,           \* lists of amounts an approver may allocate
          MaxGenerations, MaxPayments   \* bounds

Keys == Terms \cup {NoTerm}
None == [none |-> TRUE]
NoOverride == -1

ASSUME LedgerAssumption ==
  /\ IsFiniteSet(Children) /\ IsFiniteSet(Structures) /\ IsFiniteSet(Terms)
  /\ TermOf \in [Structures -> Keys] /\ NoTerm \notin Terms
  /\ FeeAmounts \in [Structures -> SUBSET Nat] /\ Overrides \subseteq Nat
  /\ Payments \subseteq Nat \ {0} /\ Splits \subseteq Seq(Nat \ {0})
  /\ MaxGenerations \in Nat /\ MaxPayments \in Nat /\ None \notin Children

VARIABLES
  structure,    \* structure[f]: fee_structures row, or None
  override,     \* override[st][f]: student_fee_overrides amount, or NoOverride
  invoice,      \* invoice[st][t]: student_invoices row with its items, or None
  generations,  \* how many invoices were generated; generatedAt of the next
  payments,     \* how many payments were applied
  paying,       \* the payment that is being applied, or NoPayment
  kept,         \* history: sum of the payments, less what was left unapplied
                \* and what forced regeneration removed
  unapplied     \* history: the student whose payment, the last one, left some

ledgerVars == <<structure, override, invoice, generations, payments, paying, kept, unapplied>>
counts == <<payments, paying, kept, unapplied>>

Structure  == [amount : Nat, active : BOOLEAN]
Item       == [amount : Nat, paid : Nat, balance : Nat]
Invoice    == [items : [Structures -> Item \cup {None}], total : Nat, paid : Nat,
               balance : Nat, status : {"OPEN", "PARTIALLY_PAID", "PAID"}, at : Nat]
Allocation == [student : Children, term : Keys, structure : Structures, amount : Nat]

(* rest: remainingToAllocate; named: the explicit allocations still to be  *)
(* applied; left: the invoices not yet come to; term, items: the invoice   *)
(* that is being paid and its items not yet come to.                       *)
Payment == [at : {"allocations", "invoices", "items"}, student : Children,
            amount : Nat, rest : Nat, named : Seq(Allocation),
            left : SUBSET Keys, term : Keys, items : SUBSET Structures]
NoPayment == [at |-> "none"]

LedgerTypeOK ==
  /\ structure \in [Structures -> Structure \cup {None}]
  /\ override \in [Children -> [Structures -> Nat \cup {NoOverride}]]
  /\ invoice \in [Children -> [Keys -> Invoice \cup {None}]]
  /\ generations \in Nat /\ payments \in Nat
  /\ paying \in Payment \cup {NoPayment}
  /\ kept \in Nat /\ unapplied \in Children \cup {None}

LedgerInit ==
  /\ structure = [f \in Structures |-> None]
  /\ override = [st \in Children |-> [f \in Structures |-> NoOverride]]
  /\ invoice = [st \in Children |-> [t \in Keys |-> None]]
  /\ generations = 0 /\ payments = 0 /\ paying = NoPayment
  /\ kept = 0 /\ unapplied = None

Committed == paying = NoPayment

-----------------------------------------------------------------------------
Least(a, b) == IF a <= b THEN a ELSE b
FloorSigned(n) == n
Floor(n) == IF n < 0 THEN 0 ELSE n      \* Math.max(0, n)

AddedUp(g) == FoldFunction(+, 0, g)
Billed(items)   == {f \in Structures : items[f] # None}
AmountOf(items) == AddedUp([f \in Structures |-> IF items[f] = None THEN 0 ELSE items[f].amount])
PaidOf(items)   == AddedUp([f \in Structures |-> IF items[f] = None THEN 0 ELSE items[f].paid])

(* What is paid on the invoice of a student and term, if there is one. *)
Paid(inv) == IF inv = None THEN 0 ELSE PaidOf(inv.items)

Status(balance, paid) == IF balance = 0 THEN "PAID"
                         ELSE IF paid > 0 THEN "PARTIALLY_PAID" ELSE "OPEN"

(* recalculateInvoice: totals from the items, the total amount as it is.   *)
Recalculate(inv) ==
  LET paid == PaidOf(inv.items)
      balance == Floor(inv.total - paid)
  IN  [inv EXCEPT !.paid = paid, !.balance = balance,
                  !.status = Status(balance, paid)]

-----------------------------------------------------------------------------
(* Fee structures.                                                         *)

CreateFeeStructure(f, amount) ==
  /\ Committed /\ structure[f] = None
  /\ structure' = [structure EXCEPT ![f] = [amount |-> amount, active |-> TRUE]]
  /\ UNCHANGED <<override, invoice, generations, counts>>

(* Invoices already generated keep the amount they have. *)
UpdateFeeStructure(f, amount) ==
  /\ Committed /\ structure[f] # None
  /\ structure' = [structure EXCEPT ![f].amount = amount]
  /\ UNCHANGED <<override, invoice, generations, counts>>

DeactivateFeeStructure(f) ==
  /\ Committed /\ structure[f] # None
  /\ structure' = [structure EXCEPT ![f].active = FALSE]
  /\ UNCHANGED <<override, invoice, generations, counts>>

-----------------------------------------------------------------------------
(* Overrides.                                                              *)

(* The item syncStudentInvoiceForStructure finds is some item of the       *)
(* category of the structure, not necessarily the one of the structure.    *)
ItemsToSync(items, f) == {g \in Billed(items) : CategoryOf[g] = CategoryOf[f]}

SyncItemOnly(inv, g, amount) ==
  [inv EXCEPT !.items[g] = [amount |-> amount, paid |-> inv.items[g].paid,
                            balance |-> Floor(amount - inv.items[g].paid)]]
SyncInvoice(inv, g, amount) ==
  LET item  == inv.items[g]
      items == [inv.items EXCEPT ![g] = [amount |-> amount, paid |-> item.paid,
                                         balance |-> Floor(amount - item.paid)]]
      total == AmountOf(items)
      paid  == PaidOf(items)
  IN  [inv EXCEPT !.items = items, !.total = total, !.paid = paid,
                  !.balance = Floor(total - paid),
                  !.status = Status(Floor(total - paid), paid)]

(* The invoices of one student that an override of f reaches: its term's,  *)
(* or every invoice of the session when f has no term.                     *)
Reached(f) == IF TermOf[f] = NoTerm THEN Keys ELSE {TermOf[f]}

(* What synchronizing may make of one invoice, and of a student's.         *)
Synced(inv, t, f, amount) ==
  IF t \in Reached(f) /\ inv # None /\ ItemsToSync(inv.items, f) # {}
  THEN {SyncInvoice(inv, g, amount) : g \in ItemsToSync(inv.items, f)}
  ELSE {inv}
SyncOutcomes(row, f, amount) ==
  {mine \in [Keys -> UNION {Synced(row[t], t, f, amount) : t \in Keys}] :
     \A t \in Keys : mine[t] \in Synced(row[t], t, f, amount)}

(* bulkCreateOverrides inserts or replaces the override of each student    *)
(* and synchronizes the invoices that exist.                               *)
BulkCreateOverrides(f, group, amount) ==
  /\ Committed /\ structure[f] # None
  /\ override' = [st \in Children |->
        IF st \in group THEN [override[st] EXCEPT ![f] = amount] ELSE override[st]]
  /\ \E rows \in [group -> UNION {SyncOutcomes(invoice[st], f, amount) : st \in group}] :
       /\ \A st \in group : rows[st] \in SyncOutcomes(invoice[st], f, amount)
       /\ invoice' = [st \in Children |->
                        IF st \in group THEN rows[st] ELSE invoice[st]]
  /\ UNCHANGED <<structure, generations, counts>>

(* removeOverride deletes it and synchronizes back to the amount of the    *)
(* structure.                                                              *)
RemoveOverride(st, f) ==
  /\ Committed /\ override[st][f] # NoOverride
  /\ override' = [override EXCEPT ![st][f] = NoOverride]
  /\ \E row \in SyncOutcomes(invoice[st], f, structure[f].amount) :
       invoice' = [invoice EXCEPT ![st] = row]
  /\ UNCHANGED <<structure, generations, counts>>

(* When no two structures of one category are for the same term, or for    *)
(* every term, that item is the one of the structure itself.               *)
CategoriesApart ==
  \A f, g \in Structures :
    f # g /\ CategoryOf[f] = CategoryOf[g] => TermOf[f] # TermOf[g] /\ TermOf[f] # NoTerm

-----------------------------------------------------------------------------
(* generateInvoices.                                                       *)

Active(t) == {f \in Structures : /\ structure[f] # None /\ structure[f].active
                                 /\ TermOf[f] = t}
Applicable(st, t) == {f \in Active(t) : ClassFor[f] \in {NoClass, ClassOf[st]}}

NewItemAtBase(st, f) ==
  [amount |-> structure[f].amount, paid |-> 0, balance |-> structure[f].amount]
NewItem(st, f) ==
  LET amount == IF override[st][f] # NoOverride THEN override[st][f]
                ELSE structure[f].amount
  IN  [amount |-> amount, paid |-> 0, balance |-> amount]

NewInvoice(st, t) ==
  LET items == [f \in Structures |-> IF f \in Applicable(st, t) THEN NewItem(st, f) ELSE None]
      total == AmountOf(items)
  IN  [items |-> items, total |-> total, paid |-> 0, balance |-> total,
       status |-> Status(total, 0), at |-> generations]

Generates(st, t, force) == /\ Applicable(st, t) # {}
                           /\ force \/ invoice[st][t] = None

(* Students with an invoice are skipped unless the caller forces it: then  *)
(* the invoice is deleted with its items and what was paid on them.        *)
GenerateInvoices(t, force) ==
  /\ Committed /\ generations < MaxGenerations
  /\ Active(t) # {}
  /\ invoice' = [st \in Children |->
        IF Generates(st, t, force) THEN [invoice[st] EXCEPT ![t] = NewInvoice(st, t)]
        ELSE invoice[st]]
  /\ kept' = kept - AddedUp([st \in Children |->
                        IF Generates(st, t, force) THEN Paid(invoice[st][t]) ELSE 0])
  /\ generations' = generations + 1
  /\ UNCHANGED <<structure, override, payments, paying, unapplied>>

-----------------------------------------------------------------------------
(* applyAllocationsToInvoice.                                              *)

PayItem(inv, f, applied) ==
  LET item == inv.items[f]
      paid == item.paid + applied
  IN  [inv EXCEPT !.items[f] = [amount |-> item.amount, paid |-> paid,
                                balance |-> Floor(item.amount - paid)]]

(* Allocations name items that exist; an approver may name any item.       *)
Payable == {a \in [student : Children, term : Keys, structure : Structures] :
            /\ invoice[a.student][a.term] # None
            /\ a.structure \in Billed(invoice[a.student][a.term].items)}

(* The payment of amount for st, with an allocation of each amount of      *)
(* split: what an approver re-specifies need not add up.                   *)
ApplyPayment(st, amount, split) ==
  /\ Committed /\ payments < MaxPayments
  /\ \E target \in [DOMAIN split -> Payable] :
       paying' = [at |-> "allocations", student |-> st, amount |-> amount, rest |-> amount,
                  named |-> [i \in DOMAIN split |->
                               [student |-> target[i].student, term |-> target[i].term,
                                structure |-> target[i].structure, amount |-> split[i]]],
                  left |-> {}, term |-> NoTerm, items |-> {}]
  /\ UNCHANGED <<structure, override, invoice, generations, payments, kept, unapplied>>

(* An explicit allocation goes to its item even beyond what it owes; what  *)
(* remains of the share caps it.                                           *)
Allocate ==
  /\ paying.at = "allocations" /\ paying.named # <<>>
  /\ LET alloc   == Head(paying.named)
         applied == Least(alloc.amount, paying.rest)
     IN  /\ invoice' = IF applied = 0 THEN invoice
                       ELSE [invoice EXCEPT ![alloc.student][alloc.term] =
                               Recalculate(PayItem(@, alloc.structure, applied))]
         /\ paying' = [paying EXCEPT !.named = Tail(@), !.rest = @ - applied]
  /\ UNCHANGED <<structure, override, generations, payments, kept, unapplied>>

FindInvoices ==
  /\ paying.at = "allocations" /\ paying.named = <<>>
  /\ paying' = [paying EXCEPT !.at = "invoices",
                              !.left = {t \in Keys : invoice[paying.student][t] # None}]
  /\ UNCHANGED <<structure, override, invoice, generations, payments, kept, unapplied>>

(* What is left of the share goes to the student's invoices, the oldest    *)
(* first, ...                                                              *)
NextInvoice(t) ==
  LET row == invoice[paying.student]
  IN  /\ paying.at = "invoices" /\ paying.rest > 0
      /\ t \in paying.left /\ \A u \in paying.left : row[t].at <= row[u].at
      /\ paying' = [paying EXCEPT !.at = "items", !.left = @ \ {t}, !.term = t,
                                  !.items = Billed(row[t].items)]
      /\ UNCHANGED <<structure, override, invoice, generations, payments, kept, unapplied>>

(* ... and there to the items, the largest balance first.                  *)
PayNextItem(f) ==
  LET inv     == invoice[paying.student][paying.term]
      item    == inv.items[f]
      applied == Least(Floor(item.amount - item.paid), paying.rest)
  IN  /\ paying.at = "items" /\ paying.rest > 0
      /\ f \in paying.items
      /\ \A g \in paying.items : inv.items[g].balance <= item.balance
      /\ invoice' = [invoice EXCEPT ![paying.student][paying.term] = PayItem(inv, f, applied)]
      /\ paying' = [paying EXCEPT !.items = @ \ {f}, !.rest = @ - applied]
      /\ UNCHANGED <<structure, override, generations, payments, kept, unapplied>>

LeaveInvoice ==
  /\ paying.at = "items"
  /\ invoice' = [invoice EXCEPT ![paying.student][paying.term] = Recalculate(@)]
  /\ paying' = [paying EXCEPT !.at = "invoices"]
  /\ UNCHANGED <<structure, override, generations, payments, kept, unapplied>>
CloseInvoice ==
  paying.at = "items" /\ (paying.rest = 0 \/ paying.items = {}) /\ LeaveInvoice

FinishPayment ==
  /\ paying.at = "invoices" /\ (paying.rest = 0 \/ paying.left = {})
  /\ paying' = NoPayment /\ payments' = payments + 1
  /\ kept' = kept + paying.amount - paying.rest
  /\ unapplied' = IF paying.rest > 0 THEN paying.student ELSE None
  /\ UNCHANGED <<structure, override, invoice, generations>>

-----------------------------------------------------------------------------
LedgerNext ==
  \/ \E f \in Structures : \E a \in FeeAmounts[f] :
        \/ CreateFeeStructure(f, a)
        \/ UpdateFeeStructure(f, a)
  \/ \E f \in Structures, a \in Overrides, group \in (SUBSET Children) \ {{}} :
        BulkCreateOverrides(f, group, a)
  \/ \E f \in Structures :
        \/ DeactivateFeeStructure(f)
        \/ \E st \in Children : RemoveOverride(st, f)
  \/ \E t \in Keys, force \in BOOLEAN : GenerateInvoices(t, force)
  \/ \E st \in Children, a \in Payments, split \in Splits : ApplyPayment(st, a, split)
  \/ Allocate \/ FindInvoices \/ CloseInvoice \/ FinishPayment
  \/ \E t \in Keys : NextInvoice(t)
  \/ \E f \in Structures : PayNextItem(f)

LedgerSpec == LedgerInit /\ [][LedgerNext]_ledgerVars

-----------------------------------------------------------------------------
(* Correctness.                                                            *)

(* However generation, overrides and payments alternate, the totals, the   *)
(* balance and the status stored on an invoice are those of its items.     *)
InvoiceAddsUp ==
  \A st \in Children, t \in Keys :
    invoice[st][t] # None =>
      LET inv == invoice[st][t]
      IN  /\ inv.total = AmountOf(inv.items)
          /\ inv.paid = PaidOf(inv.items)
          /\ inv.balance = Floor(inv.total - inv.paid)
          /\ inv.status = Status(inv.balance, inv.paid)
          /\ \A f \in Billed(inv.items) :
               inv.items[f].balance = Floor(inv.items[f].amount - inv.items[f].paid)

PaidByAll == AddedUp([st \in Children |-> AddedUp([t \in Keys |-> Paid(invoice[st][t])])])

(* Every unit of an approved share is on some item, unless a forced        *)
(* regeneration removed it or it was left over: none is applied twice.     *)
MoneyAccounted == PaidByAll = kept

(* The books of a school, after every transaction: every invoice adds up,  *)
(* and so does all the money.                                              *)
BooksAddUp == Committed => InvoiceAddsUp /\ MoneyAccounted

(* A payment leaves something over only when its student owes nothing.     *)
LeftOverOnlyWhenNothingOwed ==
  [][\A st \in Children :
       payments' = payments + 1 /\ unapplied' = st =>
         \A t \in Keys : invoice'[st][t] # None =>
            \A f \in Billed(invoice'[st][t].items) :
               invoice'[st][t].items[f].paid >= invoice'[st][t].items[f].amount]_ledgerVars

(* An item whose structure is overridden for the student has the amount of *)
(* the override, whichever of the two came first.                          *)
ItemsFollowOverrides ==
  \A st \in Children, f \in Structures :
    LET inv == invoice[st][TermOf[f]]
    IN  override[st][f] # NoOverride /\ inv # None
          => (f \in Billed(inv.items) => inv.items[f].amount = override[st][f])

(* 'Revert invoice back to base structure amount': removing an override    *)
(* gives the item of its structure that structure's amount again.          *)
RemovalReverts ==
  [][\A st \in Children, f \in Structures :
       override[st][f] # NoOverride /\ override'[st][f] = NoOverride =>
         LET inv == invoice'[st][TermOf[f]]
         IN  inv # None => (f \in Billed(inv.items) =>
                              inv.items[f].amount = structure[f].amount)]_ledgerVars

(* What a single call must leave behind it: a payment nothing that it      *)
(* could have paid, the removal of an override nothing of the override.    *)
CallsSettle == LeftOverOnlyWhenNothingOwed /\ RemovalReverts
=============================================================================
