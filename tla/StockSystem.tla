---------------------------- MODULE StockSystem ----------------------------
(***************************************************************************)
(* Purchase orders, sell orders and transfers over one stock book, and     *)
(* what must hold however their requests interleave.                       *)
(***************************************************************************)
EXTENDS PurchaseOrders, SellOrders, Transfers

Qtys == 1 .. MaxQty

PurchaseOrderNext(o) ==
  \/ \E S \in SUBSET (Lots \ Clones) : \E bought \in [S -> Qtys] : CreateOrder(o, bought)
  \/ \E stage \in Stages : Advance(o, stage)
  \/ PatchHeader(o)
  \/ \E manager \in BOOLEAN, l \in Lots \ Clones, n \in Qtys :
       PatchAddLine(o, manager, l, n)
  \/ \E manager \in BOOLEAN, l \in Lots :
       \/ PatchRemoveLine(o, manager, l)
       \/ \E q \in Counts : PatchRecount(o, manager, l, q)
  \/ \E removeFromSellOrders \in BOOLEAN : ArchiveOrder(o, removeFromSellOrders)
  \/ UnarchiveOrder(o)
  \/ DeleteOrder(o)

EditLotNext(l) ==
  \/ \E manager \in BOOLEAN, q \in Counts : EditLot(l, manager, status[l], q)
  \/ l \in HandLots \ handled /\ \E st \in StageStatuses \cup {"Sold"}, q \in Counts \cup {qty[l]} :
       EditLot(l, TRUE, st, q)

SellOrderNext(s) ==
  \/ \E want \in [Lots -> 0 .. MaxQty] :
       \/ CreateDraft(s, want)
       \/ \E atZero \in SUBSET Lots : RewriteLines(s, want, atZero)
  \/ \E to \in SellMoves : Move(s, to)
  \/ MarkDone(s)
  \/ ReopenSale(s)
  \/ ArchiveSellOrder(s)
  \/ UnarchiveSellOrder(s)

TransferNext(t) ==
  \/ \E S \in SUBSET Lots : \E move \in [S -> Qtys], parted \in SUBSET S :
       \E cloneOf \in [parted -> Lots] : Transfer(t, move, cloneOf)
  \/ Receive(t)
  \/ Reopen(t)
  \/ Discard(t)

Next ==
  \/ \E o \in POs : PurchaseOrderNext(o)
  \/ \E l \in Lots : EditLotNext(l)
  \/ \E s \in SOs : SellOrderNext(s)
  \/ \E t \in TOs : TransferNext(t)

Spec == Init /\ [][Next]_vars

----------------------------------------------------------------------------
(* Safety.                                                                    *)

(* The committed sell orders never hold more units of a lot than the lot      *)
(* has: not after a rival's promotion, a recount, a transfer, a sale, or a    *)
(* reopened sale that gives units back.                                       *)
NoOversell ==
  \A l \in Lots : Exists(l) => CommittedQty(l, {}) <= qty[l]

(* A Done sell order took no more of a lot than the lot had, so reopening it  *)
(* hands all of its units back: the cap in reopen never bites.                *)
SaleFits ==
  \A s \in SOs, l \in Lots :
    soStatus[s] = "Done" /\ Exists(l) => sol[s][l] <= soldQty[s][l]

(* A lot a committed sell order holds stays one it may hold: confirmed goods, *)
(* on a purchase order that is not archived.  Every stage move, archive,      *)
(* transfer and edit has its own guard for this.                              *)
CommittedSellable ==
  \A l \in Lots : Exists(l) /\ CommittedQty(l, {}) > 0 =>
    status[l] \in Sellable /\ PoOf[l] \notin archived

(* What was bought of a lot is what is on hand plus what the Done sell orders *)
(* took, over any run of sales, reopened sales, recounts, splits and merges.  *)
(* Lots whose status was set by hand, or recounted while Sold, are outside it.*)
DoneOrders == {s \in SOs : soStatus[s] = "Done"}
OnHand(l) == IF status[l] = "Sold" THEN 0 ELSE qty[l]
StockConserved ==
  \A l \in Lots \ handled : Exists(l) =>
    Purchased(l) = OnHand(l) + Total(QtyOn(l), DoneOrders)

(* The archive of a purchase order takes all its goods out of stock and       *)
(* nothing else does, whatever else was in flight on them.                    *)
ArchivedOutOfStock ==
  \A l \in Lots : Exists(l) =>
    /\ PoOf[l] \in archived => status[l] \in {"Archived", "Sold"}
    /\ status[l] = "Archived" => PoOf[l] \in archived

(* The lines of a pending transfer are In Transit, where receive and discard  *)
(* look for them: no cascade strands it.  Setting a status by hand can.       *)
TransferNotStranded ==
  \A l \in Lots \ handled :
    Exists(l) /\ onTransfer[l] # NULL /\ toStatus[onTransfer[l]] = "Pending"
      => status[l] = "In Transit"

(* No stock is held by an order the inbox does not show.                      *)
NoHiddenClaim == \A s \in soArchived : soStatus[s] \notin Committed

(* A sale that was once Done is Done, or reopened for a correction: it never  *)
(* ends Closed or back at a proposal.                                         *)
SaleStays == \A s \in wasDone : soStatus[s] \in {"Done", "Awaiting payment"}

(* The inductive invariant behind the claims: none of its parts is inductive  *)
(* without the others.  A sell order only names lots that were bought.        *)
NamesKnown == \A s \in SOs, l \in Lots : sol[s][l] > 0 => status[l] # "none"
ClaimsOK == NamesKnown /\ SaleFits /\ NoOversell /\ CommittedSellable
IInv == TypeOK /\ ClaimsOK

----------------------------------------------------------------------------
(* Action properties.                                                         *)

(* A lot a sell order goes on holding never goes back from confirmed to       *)
(* unconfirmed: a move back to Reviewing leaves it at Done.                   *)
HeldLotNeverBack ==
  [][\A l \in Lots : CommittedQty(l, {}) > 0 /\ CommittedQty(l, {})' > 0 =>
       ~(status[l] = "Done" /\ status'[l] # "Done" /\ Exists(l)')]_vars

(* A stage move or a revert leaves every lot an open sell order names where   *)
(* that order can still be promoted on it, if it was.                         *)
CascadeKeepsDrafts ==
  [][\A l \in Lots :
       /\ lifecycle[PoOf[l]]' # lifecycle[PoOf[l]]
       /\ status[l] \in Sellable
       /\ NamedBy(l, Open)
       => status'[l] \in Sellable]_vars

(* Moving goods changes no purchase: a transfer, split or merged back, leaves *)
(* what its purchase orders bought as it was, as long as none of its lines    *)
(* is on a Done sell order, or has its count set outside the stock rules.     *)
PurchasedOn(o) == Total([l \in Lots |-> Purchased(l)], LinesOf(o))
MovesBuyNothing ==
  [][\A t \in TOs :
       /\ toStatus'[t] # toStatus[t]
       /\ \A l \in Lots : onTransfer[l] = t =>
            l \notin handled /\ \A s \in DoneOrders : ~Names(s, l)
       => \A o \in POs : PurchasedOn(o)' = PurchasedOn(o)]_vars

----------------------------------------------------------------------------
(* Claims of the repository that the code does not keep.                      *)

(* routes/inventory.ts:2205: a clone that discard merges back "can't have     *)
(* been sold from (discard refuses one that has), so its qty is all it cost": *)
(* a discard changes no purchase.                                             *)
DiscardKeepsBought ==
  [][handled = {} /\ (\E t \in TOs : Discard(t)) =>
       \A o \in POs : PurchasedOn(o)' = PurchasedOn(o)]_vars
=============================================================================
