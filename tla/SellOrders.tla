----------------------------- MODULE SellOrders -----------------------------
(***************************************************************************)
(* The writers of sell orders: draft, line rewrite, status moves, archive. *)
(* Prices, customers, product numbers and evidence are left out.  The      *)
(* sign-off that Done asks of every manager is taken as given here: it can *)
(* only delay the move.  Lines typed by hand, which name no lot, are left  *)
(* out too; those whose lot was deleted are kept.                          *)
(***************************************************************************)
EXTENDS Stock

HasUnits(s) == \E l \in Lots : sol[s][l] > 0
HoldsLots(s) == soStatus[s] \in SellStatuses

(* validateSellLines: every lot asked for is in stock, on a live order, and   *)
(* has the units left once the other committed orders are served.             *)
SellsUnrivalled(s, want, l) ==   \* mutant: other orders' claims not read
  /\ status[l] \in Sellable
  /\ PoOf[l] \notin archived
  /\ want[l] <= qty[l]
Sells(s, want, l) ==
  /\ status[l] \in Sellable
  /\ PoOf[l] \notin archived
  /\ want[l] + CommittedQty(l, {s}) <= qty[l]

Validates(s, want) ==
  \A l \in Lots : want[l] > 0 /\ status[l] # "deleted" => Sells(s, want, l)

----------------------------------------------------------------------------
CreateDraft(s, want) ==
  /\ soStatus[s] = "none"
  /\ \E l \in Lots : want[l] > 0
  /\ \A l \in Lots : want[l] > 0 => status[l] # "deleted"
  /\ Validates(s, want)
  /\ soStatus' = [soStatus EXCEPT ![s] = "Draft"]
  /\ sol' = [sol EXCEPT ![s] = want]
  /\ UNCHANGED <<poVars, lineVars, held, soArchived, wasDone, moveVars, archivedFrom,
                 saleLog, handled>>

(* A save replaces the lines whole.  Only a lot already on the order may stay *)
(* on it at 0; a line whose lot is gone is kept as it is or dropped.          *)
RewriteLines(s, want, atZero) ==
  /\ soStatus[s] \in Open
  /\ atZero \subseteq {l \in Lots : Names(s, l)}
  /\ atZero # {} \/ \E l \in Lots : want[l] > 0
  /\ \A l \in Lots : status[l] = "deleted" => want[l] \in {0, sol[s][l]}
  /\ Validates(s, want)
  /\ sol' = [sol EXCEPT ![s] = want]
  /\ held' = [held EXCEPT ![s] = atZero]
  /\ UNCHANGED <<poVars, lineVars, soStatus, soArchived, wasDone, moveVars,
                 archivedFrom, saleLog, handled>>

----------------------------------------------------------------------------
(* Status moves.                                                              *)
Allowed ==
  [st \in SellStatuses |->
     CASE st = "Draft"            -> {"Packing", "Shipped", "Awaiting payment", "Done", "Closed"}
       [] st = "Packing"          -> {"Draft", "Shipped", "Awaiting payment", "Done", "Closed"}
       [] st = "Shipped"          -> {"Awaiting payment", "Done", "Closed"}
       [] st = "Awaiting payment" -> {"Done", "Closed"}
       [] st = "Done"             -> {"Awaiting payment"}
       [] st = "Closed"           -> {"Draft"}]

(* Leaving the proposals is where an order claims its units. *)
Claims(s, to) ==
  soStatus[s] \in Proposal /\ to \notin Proposal \cup {"Closed"} => Validates(s, sol[s])

ArchivedHoldsNever(s, to) == FALSE   \* mutant: an archived order may claim
ArchivedHolds(s, to) == s \in soArchived /\ to \in Committed

MayCloseAlways(s) == TRUE   \* mutant: done_at not read
MayClose(s) == s \notin wasDone

MayMove(s, to) ==
  /\ soStatus[s] \in SellStatuses
  /\ to \in Allowed[soStatus[s]]
  /\ ~ArchivedHolds(s, to)
  /\ to = "Closed" => MayClose(s)
  /\ to \in Committed \cup {"Done"} => HasUnits(s)
  /\ Claims(s, to)

(* Every move that touches no stock: to and between the proposals, to a       *)
(* committed status, to Closed, and Closed back to Draft.                     *)
Move(s, to) ==
  /\ MayMove(s, to)
  /\ to # "Done" /\ soStatus[s] # "Done"
  /\ soStatus' = [soStatus EXCEPT ![s] = to]
  /\ UNCHANGED <<poVars, lineVars, sol, held, soArchived, wasDone, moveVars,
                 archivedFrom, saleLog, handled>>

Taken(s) == {l \in Lots : sol[s][l] > 0 /\ Exists(l)}
SoldOut(s, l) == qty[l] - sol[s][l] <= 0

(* Done consumes the stock: a lot sold out turns Sold and keeps its qty, any  *)
(* other loses the units and keeps what was bought in qty_purchased.          *)
MarkDone(s) ==
  /\ MayMove(s, "Done")
  /\ soStatus' = [soStatus EXCEPT ![s] = "Done"]
  /\ wasDone' = wasDone \cup {s}
  /\ status' = [l \in Lots |->
       IF l \in Taken(s) /\ SoldOut(s, l) THEN "Sold" ELSE status[l]]
  /\ qty' = [l \in Lots |->
       IF l \in Taken(s) /\ ~SoldOut(s, l) THEN qty[l] - sol[s][l] ELSE qty[l]]
  /\ purchased' = [l \in Lots |->
       IF l \in Taken(s) /\ ~SoldOut(s, l) THEN Purchased(l) ELSE purchased[l]]
  /\ soldFrom' = [l \in Lots |->
       IF l \in Taken(s) THEN status[l] ELSE soldFrom[l]]
  /\ soldQty' = [soldQty EXCEPT ![s] = [l \in Lots |->
       IF l \in Taken(s) THEN qty[l] ELSE soldQty[s][l]]]
  /\ UNCHANGED <<poVars, sol, held, soArchived, moveVars, archivedFrom, handled>>

(* Done back to Awaiting payment hands the units back: no more than the lot   *)
(* had at the sale, to the status a sold-out lot was sold from.               *)
BackStatus(l) == IF status[l] = "Sold" THEN soldFrom[l] ELSE status[l]
BackQtyPrior(s, l) == soldQty[s][l]   \* mutant: what the lot had, not what was taken
BackQty(s, l) == IF sol[s][l] <= soldQty[s][l] THEN sol[s][l] ELSE soldQty[s][l]

TakesBackArchived(l) == BackStatus(l) \in Sellable   \* mutant: archive not read
TakesBack(l) == PoOf[l] \notin archived /\ BackStatus(l) \in Sellable

ReopenSale(s) ==
  /\ soStatus[s] = "Done"
  /\ MayMove(s, "Awaiting payment")
  /\ \A l \in Taken(s) : TakesBack(l)
  /\ soStatus' = [soStatus EXCEPT ![s] = "Awaiting payment"]
  /\ status' = [l \in Lots |-> IF l \in Taken(s) THEN BackStatus(l) ELSE status[l]]
  /\ qty' = [l \in Lots |->
       IF l \notin Taken(s) THEN qty[l]
       ELSE IF status[l] = "Sold" THEN BackQty(s, l) ELSE qty[l] + BackQty(s, l)]
  /\ soldQty' = [soldQty EXCEPT ![s] = [l \in Lots |-> 0]]
  /\ UNCHANGED <<poVars, purchased, sol, held, soArchived, wasDone, moveVars,
                 archivedFrom, soldFrom, handled>>

----------------------------------------------------------------------------
(* Archive hides an order from the inbox; one that holds stock may not hide.  *)
ArchiveSellOrder(s) ==
  /\ soStatus[s] \in SellStatuses \ Open
  /\ s \notin soArchived
  /\ soArchived' = soArchived \cup {s}
  /\ UNCHANGED <<poVars, lineVars, soStatus, sol, held, wasDone, moveVars,
                 archivedFrom, saleLog, handled>>

UnarchiveSellOrder(s) ==
  /\ s \in soArchived
  /\ soArchived' = soArchived \ {s}
  /\ UNCHANGED <<poVars, lineVars, soStatus, sol, held, wasDone, moveVars,
                 archivedFrom, saleLog, handled>>
=============================================================================
