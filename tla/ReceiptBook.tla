---------------------------- MODULE ReceiptBook ----------------------------
(***************************************************************************)
(* What the receipt numbering of one school promises, with no mention of   *)
(* transactions, locks or approval chains: numbers are handed out one      *)
(* after the other, and a payment share gets at most one of them, for      *)
(* ever.  FeeApproval implements this specification.                       *)
(***************************************************************************)
EXTENDS Naturals

CONSTANT Shares            \* payment shares that may be receipted

VARIABLES lastSequence,    \* the number of the last receipt, 0 before any
          receipt          \* receipt[s]: the number of share s, 0 if it has none

bookVars == <<lastSequence, receipt>>

BookInit == /\ lastSequence = 0
            /\ receipt = [s \in Shares |-> 0]

(* The next number goes to a share that has none. *)
Issue(s) == /\ receipt[s] = 0
            /\ lastSequence' = lastSequence + 1
            /\ receipt' = [receipt EXCEPT ![s] = lastSequence + 1]

BookNext == \E s \in Shares : Issue(s)

BookSpec == BookInit /\ [][BookNext]_bookVars
=============================================================================
