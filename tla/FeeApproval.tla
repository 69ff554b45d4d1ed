---------------------------- MODULE FeeApproval ----------------------------
(***************************************************************************)
(* The life of a payment share, from the parent's submission to the        *)
(* receipt, in src/src/fees/fees.service.ts: submitPaymentBatch,           *)
(* approveShare, rejectShare, recordOfflinePayment, generateReceipt and    *)
(* upsertApprovalConfig.                                                   *)
(*                                                                         *)
(* Every operation is a PostgreSQL transaction at READ COMMITTED: it reads *)
(* what is committed at each statement, its writes stay invisible until it *)
(* commits, a written row stays locked until then, and a failure undoes    *)
(* all of it.  A request r runs one transaction, cut where another one can *)
(* get in between:                                                         *)
(*                                                                         *)
(*   idle -> loaded -> decided -> finalized -> read -> credited            *)
(*                                               -> receipted -> done      *)
(*        (approve; an offline payment enters at finalized)                *)
(*   idle -> loaded -> decided -> done          (a step that is not last)  *)
(*   idle -> loaded -> rejecting -> done        (reject)                   *)
(*                                                                         *)
(* What r has written and not committed is a function of its own           *)
(* registers, and which rows it holds locked a function of pc[r], so       *)
(* neither needs a variable.                                               *)
(***************************************************************************)
EXTENDS Naturals, Sequences, FiniteSets

CONSTANTS Requests,        \* calls of the payment mutations, each made once
          Shares,          \* payment_submission_student_shares rows, created or not
          Students,
          Parents,
          Users,           \* staff who hold FEES.APPROVE
          StudentOf,       \* StudentOf[s]: the student share s pays for
          Amount,          \* Amount[s]: what share s pays
          ChildrenOf,      \* ChildrenOf[p]: the students linked to parent p
          Chains,          \* the lists of steps an administrator may configure
          MaxConfigs       \* bound: how often the configuration is replaced

ASSUME ConstantsAssumption ==
  /\ Shares # {} /\ IsFiniteSet(Shares) /\ Users # {}
  /\ StudentOf \in [Shares -> Students]
  /\ Amount \in [Shares -> Nat \ {0}]
  /\ ChildrenOf \in [Parents -> SUBSET Students]
  /\ Chains \subseteq Seq(SUBSET Users)
  /\ MaxConfigs \in Nat

VARIABLES
  status,        \* status[s]: PaymentShareStatus, "ABSENT" before the row exists
  decisions,     \* payment_approval_decisions
  config,        \* the school-wide fee_approval_configs row and its steps
  configs,       \* how often config was replaced
  paid,          \* paid[st]: amountPaid of the invoice item of student st
  receipt,       \* receipt[s]: serial of the receipts row of s, 0 if there is none
  lastSequence,  \* receipt_serial_sequences.lastSequence
  credits,       \* history: how many committed transactions credited share s
  pc, op, share, user,   \* per request: place, operation, its share, its caller
  step,          \* per request: the approval step it decides, 0 for a null step
  complete,      \* per request: its decision finalizes the share
  seen,          \* per request: the amountPaid its findOne returned
  serial         \* per request: the sequence number it drew

shareVars == <<status, decisions, paid, receipt, lastSequence, credits>>
callVars  == <<op, share, user>>
registers == <<step, complete, seen, serial>>
vars == <<shareVars, config, configs, pc, callVars, registers>>

Modes == {"NONE", "SINGLE_APPROVER", "ALL_REQUIRED_SEQUENTIAL"}
Final == {"APPROVED", "REJECTED"}

Decision == [request : Requests, share : Shares, step : Nat, by : Users,
             verdict : Final]

TypeOK ==
  /\ status \in [Shares -> {"ABSENT", "PENDING"} \cup Final]
  /\ decisions \subseteq Decision
  /\ config \in [mode : Modes, steps : Seq(SUBSET Users)]
  /\ configs \in Nat
  /\ paid \in [Students -> Nat]
  /\ receipt \in [Shares -> Nat]
  /\ lastSequence \in Nat
  /\ credits \in [Shares -> Nat]
  /\ pc \in [Requests -> {"idle", "loaded", "decided", "rejecting", "finalized",
                          "read", "credited", "receipted", "done"}]
  /\ op \in [Requests -> {"approve", "reject", "offline"}]
  /\ share \in [Requests -> Shares]
  /\ user \in [Requests -> Users]
  /\ step \in [Requests -> Nat]
  /\ complete \in [Requests -> BOOLEAN]
  /\ seen \in [Requests -> Nat]
  /\ serial \in [Requests -> Nat]

Init ==
  /\ status = [s \in Shares |-> "ABSENT"]
  /\ decisions = {}
  /\ config = [mode |-> "NONE", steps |-> <<>>]
  /\ configs = 0
  /\ paid = [st \in Students |-> 0]
  /\ receipt = [s \in Shares |-> 0]
  /\ lastSequence = 0
  /\ credits = [s \in Shares |-> 0]
  /\ pc = [r \in Requests |-> "idle"]
  /\ op = [r \in Requests |-> "approve"]
  /\ share = [r \in Requests |-> CHOOSE s \in Shares : TRUE]
  /\ user = [r \in Requests |-> CHOOSE u \in Users : TRUE]
  /\ step = [r \in Requests |-> 0]
  /\ complete = [r \in Requests |-> FALSE]
  /\ seen = [r \in Requests |-> 0]
  /\ serial = [r \in Requests |-> 0]

-----------------------------------------------------------------------------
(* Row and advisory locks: held from the statement that takes them to the  *)
(* end of the transaction.                                                 *)

(* The UPDATE of the share row. *)
HoldsShareForEver(r, s) == share[r] = s /\ pc[r] \notin {"idle", "loaded", "decided"}
HoldsShare(r, s) ==
  /\ share[r] = s
  /\ pc[r] \in {"rejecting", "finalized", "read", "credited", "receipted"}

(* The UPDATE of the student's invoice item. *)
HoldsItem(r, st) == /\ StudentOf[share[r]] = st
                    /\ pc[r] \in {"credited", "receipted"}

(* pg_advisory_xact_lock('receipt-serial:<school>'). *)
NoSerialLock(r) == FALSE
HoldsSerial(r) == pc[r] = "receipted"

(* receipts.studentShareId is UNIQUE: the share may get a receipt row. *)
NoUniqueReceipt(s) == TRUE
Unreceipted(s) == receipt[s] = 0

(* An uncommitted decision on a step: its foreign key locks the step row.  *)
NoStepLock(r) == FALSE
HoldsStep(r) == pc[r] \notin {"idle", "done"} /\ step[r] # 0

ShareFree(s) == \A r \in Requests : ~HoldsShare(r, s)

-----------------------------------------------------------------------------
(* The parent's submission.                                                *)

(* submitPaymentBatch: one transaction that only inserts.  Every student   *)
(* of the batch is named once and is a linked child of the parent.         *)
SubmitPaymentBatch(p, batch) ==
  /\ batch # {}
  /\ \A s \in batch : /\ status[s] = "ABSENT"
                      /\ ShareFree(s)
                      /\ StudentOf[s] \in ChildrenOf[p]
  /\ \A s, t \in batch : StudentOf[s] = StudentOf[t] => s = t
  /\ status' = [s \in Shares |-> IF s \in batch THEN "PENDING" ELSE status[s]]
  /\ UNCHANGED <<decisions, paid, receipt, lastSequence, credits, config,
                 configs, pc, callVars, registers>>

-----------------------------------------------------------------------------
(* approveShare and rejectShare.                                           *)

(* The first statement of both: the share must be PENDING in what is       *)
(* committed.  No lock is taken, so any number of requests can pass it.    *)
Load(r, o, s, u) ==
  /\ pc[r] = "idle"
  /\ status[s] = "PENDING"
  /\ pc' = [pc EXCEPT ![r] = "loaded"]
  /\ op' = [op EXCEPT ![r] = o]
  /\ share' = [share EXCEPT ![r] = s]
  /\ user' = [user EXCEPT ![r] = u]
  /\ UNCHANGED <<shareVars, config, configs, registers>>

DecidedSteps(s) == {d.step : d \in {e \in decisions : e.share = s}}

(* Step i is the first configured one that s has no decision for. *)
IsNextStep(i, s) == /\ i \in DOMAIN config.steps \ DecidedSteps(s)
                    /\ \A j \in DOMAIN config.steps : j < i => j \in DecidedSteps(s)

(* approveShare up to the insert of its decision.  In sequential mode the  *)
(* caller must be an approver of the next undecided step, and only the     *)
(* last step of the chain lets the share be finalized.  Otherwise the      *)
(* decision carries no step and the configured approvers are not looked at.*)
(* Reading the configuration, reading the decisions and inserting the new  *)
(* one is a single step: a replacement of the configuration that commits   *)
(* between them deletes the step row, the foreign key of the insert fails, *)
(* and the request ends as it does in Rollback.                            *)
Decide(r) ==
  /\ pc[r] = "loaded" /\ op[r] = "approve"
  /\ \/ /\ config.mode = "ALL_REQUIRED_SEQUENTIAL"
        /\ \E i \in DOMAIN config.steps :
             /\ IsNextStep(i, share[r])
             /\ user[r] \in config.steps[i]
             /\ step' = [step EXCEPT ![r] = i]
             /\ complete' = [complete EXCEPT ![r] = (i = Len(config.steps))]
     \/ /\ config.mode # "ALL_REQUIRED_SEQUENTIAL"
        /\ complete' = [complete EXCEPT ![r] = TRUE]
        /\ UNCHANGED step
  /\ pc' = [pc EXCEPT ![r] = "decided"]
  /\ UNCHANGED <<shareVars, config, configs, callVars, seen, serial>>

(* The decision request r inserts. *)
OwnDecision(r) ==
  [request |-> r, share |-> share[r], step |-> step[r], by |-> user[r],
   verdict |-> IF op[r] = "reject" THEN "REJECTED" ELSE "APPROVED"]

(* A step that is not the last one: only the decision is committed. *)
CommitStep(r) ==
  /\ pc[r] = "decided" /\ ~complete[r]
  /\ decisions' = decisions \cup {OwnDecision(r)}
  /\ pc' = [pc EXCEPT ![r] = "done"]
  /\ UNCHANGED <<status, paid, receipt, lastSequence, credits, config, configs,
                 callVars, registers>>

(* The save of the share as APPROVED waits for whoever holds its row, and  *)
(* does not look at the status again.                                      *)
Finalize(r) ==
  /\ pc[r] = "decided" /\ complete[r]
  /\ ShareFree(share[r])
  /\ pc' = [pc EXCEPT ![r] = "finalized"]
  /\ UNCHANGED <<shareVars, config, configs, callVars, registers>>

(* applyAllocationsToInvoice: the item is read without a lock ...          *)
ReadItem(r) ==
  /\ pc[r] = "finalized"
  /\ seen' = [seen EXCEPT ![r] = paid[StudentOf[share[r]]]]
  /\ pc' = [pc EXCEPT ![r] = "read"]
  /\ UNCHANGED <<shareVars, config, configs, callVars, step, complete, serial>>

(* ... and saved, once nobody else holds its row, as what was read plus    *)
(* the amount of the share.                                                *)
SaveItemOutsideTransaction(r) ==
  /\ pc[r] = "read"
  /\ paid' = [paid EXCEPT ![StudentOf[share[r]]] = seen[r] + Amount[share[r]]]
  /\ pc' = [pc EXCEPT ![r] = "credited"]
  /\ UNCHANGED <<status, decisions, receipt, lastSequence, credits, config,
                 configs, callVars, registers>>
SaveItem(r) ==
  /\ pc[r] = "read"
  /\ \A q \in Requests : ~HoldsItem(q, StudentOf[share[r]])
  /\ pc' = [pc EXCEPT ![r] = "credited"]
  /\ UNCHANGED <<shareVars, config, configs, callVars, registers>>

(* generateReceipt: the advisory lock, the next number and the insert of   *)
(* the receipt, whose studentShareId is UNIQUE.                            *)
GenerateReceipt(r) ==
  /\ pc[r] = "credited"
  /\ \A q \in Requests : ~HoldsSerial(q)
  /\ Unreceipted(share[r])
  /\ serial' = [serial EXCEPT ![r] = lastSequence + 1]
  /\ pc' = [pc EXCEPT ![r] = "receipted"]
  /\ UNCHANGED <<shareVars, config, configs, callVars, step, complete, seen>>

(* The commit of an approval or of an offline payment. *)
CommitPayment(r) ==
  LET s == share[r]
  IN  /\ pc[r] = "receipted"
      /\ status' = [status EXCEPT ![s] = "APPROVED"]
      /\ decisions' = decisions \cup {OwnDecision(r)}
      /\ paid' = [paid EXCEPT ![StudentOf[s]] = seen[r] + Amount[s]]
      /\ receipt' = [receipt EXCEPT ![s] = serial[r]]
      /\ lastSequence' = serial[r]
      /\ credits' = [credits EXCEPT ![s] = credits[s] + 1]
      /\ pc' = [pc EXCEPT ![r] = "done"]
      /\ UNCHANGED <<config, configs, callVars, registers>>

(* rejectShare writes its decision and the share, whoever the caller is. *)
Reject(r) ==
  /\ pc[r] = "loaded" /\ op[r] = "reject"
  /\ ShareFree(share[r])
  /\ pc' = [pc EXCEPT ![r] = "rejecting"]
  /\ UNCHANGED <<shareVars, config, configs, callVars, registers>>

CommitReject(r) ==
  /\ pc[r] = "rejecting"
  /\ status' = [status EXCEPT ![share[r]] = "REJECTED"]
  /\ decisions' = decisions \cup {OwnDecision(r)}
  /\ pc' = [pc EXCEPT ![r] = "done"]
  /\ UNCHANGED <<paid, receipt, lastSequence, credits, config, configs,
                 callVars, registers>>

-----------------------------------------------------------------------------
(* recordOfflinePayment inserts a share that is APPROVED from the start,   *)
(* then credits and receipts it exactly as an approval does.               *)
RecordOfflinePayment(r, s, u) ==
  /\ pc[r] = "idle"
  /\ status[s] = "ABSENT" /\ ShareFree(s)
  /\ pc' = [pc EXCEPT ![r] = "finalized"]
  /\ op' = [op EXCEPT ![r] = "offline"]
  /\ share' = [share EXCEPT ![r] = s]
  /\ user' = [user EXCEPT ![r] = u]
  /\ UNCHANGED <<shareVars, config, configs, registers>>

-----------------------------------------------------------------------------
(* The refusals of the code itself: 'All steps already decided', 'Not your *)
(* approval step', and the insert of a second receipt for one share.       *)
Refused(r) ==
  \/ /\ pc[r] = "loaded" /\ op[r] = "approve"
     /\ config.mode = "ALL_REQUIRED_SEQUENTIAL"
     /\ \A i \in DOMAIN config.steps :
          IsNextStep(i, share[r]) => user[r] \notin config.steps[i]
  \/ /\ pc[r] = "credited"
     /\ \A q \in Requests : ~HoldsSerial(q)
     /\ ~Unreceipted(share[r])

(* A transaction can also fail at any statement for a reason of its own: a *)
(* lost connection, a crash, a deadlock the server breaks.  In both cases  *)
(* nothing of it remains.                                                  *)
Rollback(r) ==
  /\ pc[r] \notin {"idle", "done"}
  /\ pc' = [pc EXCEPT ![r] = "done"]
  /\ UNCHANGED <<shareVars, config, configs, callVars, registers>>

Refuse(r) == Refused(r) /\ Rollback(r)

(* upsertApprovalConfig deletes the steps of the configuration and inserts *)
(* the new ones.  Decisions that pointed to a deleted step keep a null.    *)
(* The deletion waits for uncommitted decisions that refer to a step.      *)
UpsertApprovalConfig(mode, steps) ==
  /\ configs < MaxConfigs
  /\ \A r \in Requests : ~HoldsStep(r)
  /\ config' = [mode |-> mode, steps |-> steps]
  /\ decisions' = {[d EXCEPT !.step = 0] : d \in decisions}
  /\ configs' = configs + 1
  /\ UNCHANGED <<status, paid, receipt, lastSequence, credits, pc, callVars,
                 registers>>

-----------------------------------------------------------------------------
(* What r does on its own once it has loaded its share. *)
Advance(r) ==
  \/ Decide(r) \/ CommitStep(r) \/ Finalize(r) \/ ReadItem(r) \/ SaveItem(r)
  \/ GenerateReceipt(r) \/ CommitPayment(r) \/ Reject(r) \/ CommitReject(r)

Start(r) ==
  \E s \in Shares, u \in Users :
     \/ \E o \in {"approve", "reject"} : Load(r, o, s, u)
     \/ RecordOfflinePayment(r, s, u)

Next ==
  \/ \E r \in Requests : Start(r) \/ Advance(r) \/ Rollback(r)
  \/ \E p \in Parents : \E batch \in SUBSET Shares : SubmitPaymentBatch(p, batch)
  \/ \E mode \in Modes \ {"NONE"}, steps \in Chains :
        UpsertApprovalConfig(mode, steps)

Spec == Init /\ [][Next]_vars

(* The event loop and the server carry every transaction they have begun   *)
(* to its commit or its refusal.                                           *)
Fairness == \A r \in Requests : WF_vars(Advance(r) \/ Refuse(r))
FairSpec == Spec /\ Fairness

-----------------------------------------------------------------------------
(* Correctness.                                                            *)

(* Receipts of a school are numbered 1, 2, 3, ... with no number missing   *)
(* and none used twice, though they are drawn by concurrent transactions   *)
(* that may still roll back: generateReceipt counts under an advisory lock.*)
SerialsGapFree ==
  /\ \A s \in Shares : receipt[s] <= lastSequence
  /\ \A s, t \in Shares : receipt[s] = receipt[t] /\ receipt[s] # 0 => s = t
  /\ \A n \in 1..lastSequence : \E s \in Shares : receipt[s] = n

(* However many approvals of one share pass its PENDING check together, at *)
(* most one of them credits the student, the one whose receipt exists, and *)
(* a share that says APPROVED has been credited.                           *)
CreditedOnce ==
  \A s \in Shares : /\ credits[s] = IF receipt[s] = 0 THEN 0 ELSE 1
                    /\ status[s] = "APPROVED" => credits[s] = 1

(* What a set of shares comes to, and the credited shares of a student.    *)
Total[S \in SUBSET Shares] ==
  IF S = {} THEN 0
  ELSE LET s == CHOOSE x \in S : TRUE
       IN  Amount[s] + Total[S \ {s}]
CreditedShares(st) == {s \in Shares : StudentOf[s] = st /\ credits[s] > 0}
Credited(st) == Total[CreditedShares(st)]

(* No interleaving of approvals credits a student with more than the       *)
(* shares approved for it.                                                 *)
NeverOverCredited == \A st \in Students : paid[st] <= Credited(st)

(* A transaction that finalizes a share in sequential mode does so on top  *)
(* of a decision of every configured step, each taken by an approver of    *)
(* that step, even when the chain is replaced or other approvals run at    *)
(* the same time.                                                          *)
WholeChainDecided ==
  [][\A r \in Requests :
       CommitPayment(r) /\ step[r] # 0
         => \A i \in DOMAIN config.steps :
              \E d \in decisions' : /\ d.share = share[r] /\ d.step = i
                                    /\ d.by \in config.steps[i]]_vars

(* Every transaction ends: those that wait for a share row, an item row or *)
(* the receipt lock never wait for each other in a circle.                 *)
RequestsEnd ==
  \A r \in Requests : pc[r] \in {"loaded", "finalized"} ~> pc[r] = "done"

(* The receipts and their counter are the receipt book. *)
Book == INSTANCE ReceiptBook WITH
          Shares <- Shares, lastSequence <- lastSequence, receipt <- receipt
ImplementsBook == Book!BookSpec
=============================================================================
