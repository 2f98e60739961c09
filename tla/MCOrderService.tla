-------------------------- MODULE MCOrderService --------------------------
(***************************************************************************)
(* OrderService on a small instance. Calls and keys are interchangeable,   *)
(* and configurations and totals are compared only within one key, so a    *)
(* behaviour need be looked at only under the numbering in which each of   *)
(* them is used in order. The renumbering is one for the whole behaviour,  *)
(* so this is sound for liveness too, where TLC's symmetry is not.         *)
(***************************************************************************)
EXTENDS OrderService

MCCalls == 1..3
MCKeys == 1..2
MCConfigs == 1..2
MCTotals == 1..2

Of(k) == {c \in Calls : calls[c].key = k}
UsedKeys == {calls[c].key : c \in Calls}
UsedConfigs(k) == {calls[c].cfg : c \in Of(k)}
UsedTotals(k) == {calls[c].approved : c \in Of(k)} \cup {issued[k].total}

\* The values in use are the first ones.
InOrder(used, all) == \A v \in used \cap all : 1..v \subseteq used

Canonical ==
  /\ \A c, d \in Calls : c < d /\ calls[c].pc = "new" => calls[d].pc = "new"
  /\ InOrder(UsedKeys, Keys)
  /\ \A k \in Keys :
       InOrder(UsedConfigs(k), Configs) /\ InOrder(UsedTotals(k), Totals)

MCSpec == Init /\ [][Next /\ Canonical']_vars /\ Fairness
=============================================================================
