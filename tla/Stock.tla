------------------------------- MODULE Stock -------------------------------
(***************************************************************************)
(* The stock book of the ERP: purchase orders and their lines, the sell    *)
(* orders that name those lines, the transfer orders that move them, and   *)
(* the part of the audit log (inventory_events) that later requests read   *)
(* back.  This module holds the state and the rules every writer shares;   *)
(* PurchaseOrders, SellOrders and Transfers hold one action per            *)
(* transaction, StockSystem composes them.                                 *)
(*                                                                         *)
(* Of the log, an entry that no later request can read is forgotten: the   *)
(* variable goes back to its initial value.                                *)
(*                                                                         *)
(* A step is one committed transaction.  A refused request writes nothing  *)
(* and is not a step.  The row locks of services/orderLocks.ts, which make *)
(* a transaction one step, are modelled in WriterLocks.                    *)
(***************************************************************************)
EXTENDS Totals

CONSTANTS
  POs,      \* ids of purchase orders (orders.id)
  SOs,      \* ids of sell orders (sell_orders.id)
  TOs,      \* ids of transfer orders (transfer_orders.id)
  Lots,     \* ids of PO lines (order_lines.id), a clone's id included
  PoOf,     \* order_lines.order_id: no writer moves a line between POs
  MaxQty,   \* bound: the largest quantity a request buys, sells or moves
  Counts,   \* bound: the quantities a recount finds
  Clones,   \* the lot ids that partial transfers draw; requests buy the others
  HandLots, \* bound: the lots whose status a manager sets by hand
  Stages,   \* bound: the stages requests move purchase orders to
  SellMoves,\* bound: the statuses requests move sell orders to
  NULL      \* SQL NULL, of a reference

VARIABLES
  lifecycle,   \* orders.lifecycle; "none" before the PO, "deleted" after it
  archived,    \* POs with archived_at set
  submitted,   \* POs with a `submitted` or `reverted` event
  status,      \* order_lines.status; "none" and "deleted" as above
  qty,         \* order_lines.qty
  purchased,   \* order_lines.qty_purchased, NoQty when it is NULL
  soStatus,    \* sell_orders.status
  sol,         \* sol[s][l]: units of lot l on the lines of s; a lot that is
               \* "deleted" stands for a line whose inventory_id became NULL
  held,        \* lots s names on a line held at 0
  soArchived,  \* sell orders with archived_at set
  wasDone,     \* sell orders with done_at set
  toStatus,    \* transfer_orders.status
  onTransfer,  \* order_lines.transfer_order_id
  prior,       \* prior_status of the newest event of the transfer a line is on
  peer,        \* peer_line_id of that transfer's `transferred` event
  archivedFrom,\* `from` of the newest status event to Archived, of a line there
  soldFrom,    \* priorStatus of the lot's newest `sold` event
  soldQty,     \* soldQty[s][l]: priorQty of the newest `sold` event of s on l,
               \* while s is Done
  handled      \* history: lots whose status was set by hand, or that were
               \* recounted while Sold, since they were bought

poVars    == <<lifecycle, archived, submitted>>
lineVars  == <<status, qty, purchased>>
sellVars  == <<soStatus, sol, held, soArchived, wasDone>>
moveVars  == <<toStatus, onTransfer, prior, peer>>
saleLog   == <<soldFrom, soldQty>>
vars == <<poVars, lineVars, sellVars, moveVars, archivedFrom, saleLog, handled>>

----------------------------------------------------------------------------
NoQty == -1
LegacyPriorStatus == "Reviewing"
OrNull(S) == S \cup {NULL}

Lifecycles == {"draft", "in_transit", "reviewing", "ready_to_pay", "done"}
LineStatusForByLabel ==   \* mutant: a stage label reaches a line
  [draft |-> "Draft", in_transit |-> "In Transit", reviewing |-> "Reviewing",
   ready_to_pay |-> "Ready to Pay", done |-> "Done"]
LineStatusFor ==
  [draft |-> "Draft", in_transit |-> "In Transit", reviewing |-> "Reviewing",
   ready_to_pay |-> "Done", done |-> "Done"]
ClosedBook == {"ready_to_pay", "done"}

StageStatuses == {"Draft", "In Transit", "Reviewing", "Done"}
LineStatuses  == StageStatuses \cup {"Sold", "Archived"}
Sellable      == {"Reviewing", "Done"}

Committed    == {"Shipped", "Awaiting payment"}
Proposal     == {"Draft", "Packing"}
Open         == Proposal \cup Committed
SellStatuses == Open \cup {"Done", "Closed"}

ASSUME StockAssumption ==
  /\ IsFiniteSet(SOs) /\ IsFiniteSet(Lots) /\ HandLots \cup Clones \subseteq Lots
  /\ PoOf \in [Lots -> POs]
  /\ MaxQty \in Nat \ {0} /\ Counts \subseteq Nat
  /\ Stages \subseteq Lifecycles /\ SellMoves \subseteq SellStatuses
  /\ NULL \notin Lots \cup TOs

Exists(l) == status[l] \in LineStatuses
LinesOf(o) == {l \in Lots : PoOf[l] = o /\ Exists(l)}

(* A sell order names a lot with units, or on a line held at 0. *)
Names(s, l) == sol[s][l] > 0 \/ l \in held[s]
NamedBy(l, statuses) == \E s \in SOs : soStatus[s] \in statuses /\ sol[s][l] > 0

(* SUM(sol.qty) over a lot, of a set of sell orders. *)
QtyOn(l) == [s \in SOs |-> sol[s][l]]
CommittedOrders == {s \in SOs : soStatus[s] \in Committed}
CommittedQty(l, excluded) == Total(QtyOn(l), CommittedOrders \ excluded)

(* What was bought: qty until a partial sale parted the two. *)
Purchased(l) == IF purchased[l] = NoQty THEN qty[l] ELSE purchased[l]
(* CHECK order_lines_qty_purchased_positive: a write that breaks it is undone. *)
PurchasedCheck(l, n) == purchased[l] # NoQty => n > 0
(* A recount moves qty_purchased by as much as it moves qty. *)
RecountedQtyOnly(l, q) == purchased[l]   \* mutant: qty_purchased stays behind
Recounted(l, q) == IF purchased[l] = NoQty THEN NoQty ELSE purchased[l] + (q - qty[l])

----------------------------------------------------------------------------
PoTypeOK ==
  /\ lifecycle \in [POs -> Lifecycles \cup {"none", "deleted"}]
  /\ archived \subseteq POs /\ submitted \subseteq POs
LineTypeOK ==
  /\ status \in [Lots -> LineStatuses \cup {"none", "deleted"}]
  /\ qty \in [Lots -> Nat]
  /\ purchased \in [Lots -> Nat \cup {NoQty}]
SellTypeOK ==
  /\ soStatus \in [SOs -> SellStatuses \cup {"none"}]
  /\ sol \in [SOs -> [Lots -> Nat]]
  /\ held \in [SOs -> SUBSET Lots]
  /\ soArchived \subseteq SOs /\ wasDone \subseteq SOs
MoveTypeOK ==
  /\ toStatus \in [TOs -> {"none", "Pending", "Received", "discarded"}]
  /\ onTransfer \in [Lots -> OrNull(TOs)]
  /\ prior \in [Lots -> Sellable]
  /\ peer \in [Lots -> OrNull(Lots)]
LogTypeOK ==
  /\ archivedFrom \in [Lots -> StageStatuses]
  /\ soldFrom \in [Lots -> Sellable]
  /\ soldQty \in [SOs -> [Lots -> Nat]]
  /\ handled \subseteq Lots
TypeOK == PoTypeOK /\ LineTypeOK /\ SellTypeOK /\ MoveTypeOK /\ LogTypeOK

Init ==
  /\ lifecycle = [o \in POs |-> "none"] /\ archived = {} /\ submitted = {}
  /\ status = [l \in Lots |-> "none"]
  /\ qty = [l \in Lots |-> 0] /\ purchased = [l \in Lots |-> NoQty]
  /\ soStatus = [s \in SOs |-> "none"]
  /\ sol = [s \in SOs |-> [l \in Lots |-> 0]] /\ held = [s \in SOs |-> {}]
  /\ soArchived = {} /\ wasDone = {}
  /\ toStatus = [t \in TOs |-> "none"] /\ onTransfer = [l \in Lots |-> NULL]
  /\ prior = [l \in Lots |-> LegacyPriorStatus] /\ peer = [l \in Lots |-> NULL]
  /\ archivedFrom = [l \in Lots |-> "Draft"]
  /\ soldFrom = [l \in Lots |-> "Done"]
  /\ soldQty = [s \in SOs |-> [l \in Lots |-> 0]]
  /\ handled = {}
=============================================================================
