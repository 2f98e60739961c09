------------------------- MODULE ApprovedPurchase -------------------------
(***************************************************************************)
(* What order_service promises the customer, with no process, no message   *)
(* and no retry in sight: money moves only for a (key, configuration,      *)
(* total) the customer acknowledged, and at most once per idempotency key. *)
(* OrderService.tla implements it.                                         *)
(***************************************************************************)

CONSTANTS
  Attempts,   \* identities of the requests that may move money
  Keys,       \* idempotency keys
  Configs,    \* order configurations
  Totals      \* gross amounts

VARIABLES
  approvals,  \* what the customer acknowledged
  ledger      \* the purchases that were charged

vars == <<approvals, ledger>>

Approval == [key: Keys, cfg: Configs, total: Totals]
Purchase == [attempt: Attempts, key: Keys, cfg: Configs, total: Totals]

TypeOK ==
  /\ approvals \subseteq Approval
  /\ ledger \subseteq Purchase

Init ==
  /\ approvals = {}
  /\ ledger = {}

\* The customer acknowledges one more exact purchase.
Approve(a) ==
  /\ approvals' = approvals \cup {a}
  /\ UNCHANGED ledger

\* An acknowledged purchase is charged, the first and only time for its key.
Charge(attempt, a) ==
  /\ a \in approvals
  /\ \A p \in ledger : p.key # a.key
  /\ ledger' = ledger \cup
       {[attempt |-> attempt, key |-> a.key, cfg |-> a.cfg, total |-> a.total]}
  /\ UNCHANGED approvals

Next ==
  \/ \E a \in Approval : Approve(a)
  \/ \E attempt \in Attempts, a \in Approval : Charge(attempt, a)

Spec == Init /\ [][Next]_vars

=============================================================================
