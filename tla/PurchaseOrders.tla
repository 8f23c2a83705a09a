--------------------------- MODULE PurchaseOrders ---------------------------
(***************************************************************************)
(* The writers of purchase orders: create, edit, move through the stages,  *)
(* archive, delete, and the inventory page's edit of one line.  Money,     *)
(* owners, evidence and the leave-Draft paperwork are left out: they never *)
(* touch a line's status or quantity, and only make a refusal likelier.    *)
(***************************************************************************)
EXTENDS Stock

----------------------------------------------------------------------------
(* The cascade: every line but the Sold ones, and those kept, to one status. *)
LineStatusOrder == <<"Draft", "In Transit", "Reviewing", "Done">>
StatusesAheadOf(st) ==
  {LineStatusOrder[j] : j \in {k \in 1 .. 4 :
     \E i \in 1 .. 4 : LineStatusOrder[i] = st /\ i < k}}

CommittedLines(o, sts, sellSts) ==
  {l \in LinesOf(o) : status[l] \in sts /\ NamedBy(l, sellSts)}

TransferClaimedLate(o) ==   \* mutant: looks for received transfers
  \E l \in LinesOf(o) : /\ status[l] = "In Transit"
                        /\ onTransfer[l] # NULL
                        /\ toStatus[onTransfer[l]] = "Received"
TransferClaimed(o) ==
  \E l \in LinesOf(o) : /\ status[l] = "In Transit"
                        /\ onTransfer[l] # NULL
                        /\ toStatus[onTransfer[l]] = "Pending"

CascadeBlockedByClaims(o, st) ==   \* mutant: forgets the proposals
  \/ st \notin Sellable /\ CommittedLines(o, StatusesAheadOf(st), Committed) # {}
  \/ st # "In Transit" /\ TransferClaimed(o)
CascadeBlocked(o, st) ==
  \/ st \notin Sellable /\ CommittedLines(o, StatusesAheadOf(st), Open) # {}
  \/ st # "In Transit" /\ TransferClaimed(o)

HeldBackNone(o, st) == {}   \* mutant: every line moves
HeldBack(o, st) ==
  IF st \in Sellable THEN CommittedLines(o, StatusesAheadOf(st), Committed) ELSE {}

Cascade(o, st, keep) ==
  [l \in Lots |-> IF l \in LinesOf(o) \ keep /\ status[l] # "Sold" THEN st ELSE status[l]]

(* A line a move back to Reviewing left at Done for a shipped sale. *)
HeldLine(l) ==
  /\ lifecycle[PoOf[l]] = "reviewing" /\ status[l] = "Done" /\ NamedBy(l, Committed)

----------------------------------------------------------------------------
(* Create, with the lines of the request or as an empty draft. *)
CreateOrder(o, bought) ==
  /\ lifecycle[o] = "none"
  /\ \A l \in DOMAIN bought : status[l] = "none" /\ PoOf[l] = o
  /\ lifecycle' = [lifecycle EXCEPT ![o] = "draft"]
  /\ status' = [l \in Lots |-> IF l \in DOMAIN bought THEN "Draft" ELSE status[l]]
  /\ qty' = [l \in Lots |-> IF l \in DOMAIN bought THEN bought[l] ELSE qty[l]]
  /\ UNCHANGED <<archived, submitted, purchased, sellVars, moveVars, archivedFrom,
                 saleLog, handled>>

(* The next stage, or a manager's jump to any other.  Leaving Draft records   *)
(* the `submitted` event.                                                     *)
Advance(o, stage) ==
  /\ lifecycle[o] \in Lifecycles \ {stage}
  /\ o \notin archived
  /\ LET st == LineStatusFor[stage]
     IN /\ ~CascadeBlocked(o, st)
        /\ status' = Cascade(o, st, HeldBack(o, st))
  /\ lifecycle' = [lifecycle EXCEPT ![o] = stage]
  /\ submitted' = IF lifecycle[o] = "draft" THEN submitted \cup {o} ELSE submitted
  /\ UNCHANGED <<archived, qty, purchased, sellVars, moveVars, archivedFrom, saleLog,
                 handled>>

----------------------------------------------------------------------------
(* Edits.  A purchaser's edit past Draft first takes the order back to Draft, *)
(* which cascades its lines and writes the `reverted` event.                  *)
Reverts(o, manager) == ~manager /\ lifecycle[o] # "draft"
Landing(o, manager) == IF Reverts(o, manager) THEN "draft" ELSE lifecycle[o]
StatusAfterRevert(o, manager) ==
  IF Reverts(o, manager) THEN Cascade(o, "Draft", {}) ELSE status

EditableArchived(o, manager) ==   \* mutant: an archived order takes edits
  /\ lifecycle[o] \in Lifecycles
  /\ Reverts(o, manager) => ~CascadeBlocked(o, "Draft")
Editable(o, manager) ==
  /\ lifecycle[o] \in Lifecycles
  /\ o \notin archived
  /\ Reverts(o, manager) => ~CascadeBlocked(o, "Draft")

Landed(o, manager) ==
  /\ lifecycle' = [lifecycle EXCEPT ![o] = Landing(o, manager)]
  /\ submitted' = IF Reverts(o, manager) THEN submitted \cup {o} ELSE submitted
  /\ UNCHANGED <<archived, sellVars, toStatus, prior, peer, archivedFrom, saleLog>>

PatchOpen(o, manager) == Editable(o, manager) /\ lifecycle[o] \notin ClosedBook

(* A purchaser's material change of a header field, no line with it. *)
PatchHeader(o) ==
  /\ PatchOpen(o, FALSE) /\ Reverts(o, FALSE)
  /\ status' = StatusAfterRevert(o, FALSE)
  /\ Landed(o, FALSE)
  /\ UNCHANGED <<qty, purchased, onTransfer, handled>>

PatchAddLine(o, manager, l, n) ==
  /\ PatchOpen(o, manager)
  /\ status[l] = "none" /\ PoOf[l] = o
  /\ status' = [StatusAfterRevert(o, manager) EXCEPT
                  ![l] = LineStatusFor[Landing(o, manager)]]
  /\ qty' = [qty EXCEPT ![l] = n]
  /\ Landed(o, manager)
  /\ UNCHANGED <<purchased, onTransfer, handled>>

(* Open sell orders that would lose a lot's units; an archived one may. *)
StillNamed(l) ==
  \E s \in SOs \ soArchived : soStatus[s] \in Open /\ sol[s][l] > 0

(* The foreign key empties inventory_id on the sell lines that named the lot. *)
PatchRemoveLine(o, manager, l) ==
  /\ PatchOpen(o, manager)
  /\ l \in LinesOf(o) /\ LinesOf(o) # {l}
  /\ ~StillNamed(l)
  /\ status' = [StatusAfterRevert(o, manager) EXCEPT ![l] = "deleted"]
  /\ qty' = [qty EXCEPT ![l] = 0]
  /\ purchased' = [purchased EXCEPT ![l] = NoQty]
  /\ onTransfer' = [onTransfer EXCEPT ![l] = NULL]
  /\ Landed(o, manager)
  /\ UNCHANGED handled

(* Both editors of a quantity write it this way. *)
WriteQty(l, q) ==
  /\ PurchasedCheck(l, Recounted(l, q))
  /\ qty' = [qty EXCEPT ![l] = q]
  /\ purchased' = [purchased EXCEPT ![l] = Recounted(l, q)]

QtyBelowShipped(l, q) ==   \* mutant: forgets the orders awaiting payment
  Total(QtyOn(l), {s \in SOs : soStatus[s] = "Shipped"}) > q
QtyBelowCommitted(l, q) == CommittedQty(l, {}) > q

(* A line may be counted down to 0 here: none of it arrived.  The test for a  *)
(* held line runs last, on the lines as the revert left them; a revert leaves *)
(* no order at Reviewing, so only a manager's edit can meet one.              *)
PatchRecount(o, manager, l, q) ==
  /\ PatchOpen(o, manager)
  /\ l \in LinesOf(o) /\ q # qty[l]
  /\ ~QtyBelowCommitted(l, q)
  /\ Reverts(o, manager) \/ ~HeldLine(l)
  /\ WriteQty(l, q)
  /\ status' = StatusAfterRevert(o, manager)
  /\ handled' = IF status[l] = "Sold" THEN handled \cup {l} ELSE handled
  /\ Landed(o, manager)
  /\ UNCHANGED onTransfer

(* What an edit of a lot leaves to the committed sell orders. *)
LeavesCount(l, st, q) == ~QtyBelowCommitted(l, q)   \* mutant: status not looked at
LeavesClaims(l, st, q) ==
  CommittedQty(l, {}) > 0 => st = status[l] /\ ~QtyBelowCommitted(l, q)

(* The inventory page: a status only a manager sets, a quantity the owner may *)
(* change too.  A committed lot keeps its status and the committed units.     *)
EditLot(l, manager, st, q) ==
  LET o == PoOf[l]
      moves == st # status[l]
      counts == q # qty[l]
      back == counts /\ Reverts(o, manager)
  IN
  /\ Exists(l) /\ o \notin archived
  /\ moves \/ counts
  /\ moves => manager
  /\ LeavesClaims(l, st, q)
  /\ counts => /\ q > 0
               /\ lifecycle[o] \notin ClosedBook
               /\ ~HeldLine(l)
  /\ back => ~CascadeBlocked(o, "Draft")
  /\ WriteQty(l, q)
  /\ status' = IF back THEN Cascade(o, "Draft", {}) ELSE [status EXCEPT ![l] = st]
  /\ handled' = IF moves \/ (counts /\ status[l] = "Sold") THEN handled \cup {l} ELSE handled
  /\ Landed(o, manager \/ ~counts)
  /\ UNCHANGED onTransfer

----------------------------------------------------------------------------
(* Archive and unarchive.  The goods leave stock by status; sell orders that  *)
(* still name them refuse it, or lose those lines if the manager says so.     *)
ArchiveClaimsOfDrafts(o) ==   \* mutant: forgets the committed orders
  {sl \in SOs \X LinesOf(o) : /\ soStatus[sl[1]] \in Proposal
                              /\ sol[sl[1]][sl[2]] > 0
                              /\ status[sl[2]] # "Sold"}
ArchiveClaims(o) ==
  {sl \in SOs \X LinesOf(o) : /\ soStatus[sl[1]] \in Open
                              /\ sol[sl[1]][sl[2]] > 0
                              /\ status[sl[2]] # "Sold"}

ArchiveOrder(o, removeFromSellOrders) ==
  /\ lifecycle[o] \in Lifecycles
  /\ o \notin archived
  /\ lifecycle[o] = "draft" => o \in submitted
  /\ ~CascadeBlocked(o, "Archived")
  /\ ArchiveClaims(o) = {} \/ removeFromSellOrders
  /\ sol' = [s \in SOs |-> [l \in Lots |->
               IF <<s, l>> \in ArchiveClaims(o) THEN 0 ELSE sol[s][l]]]
  /\ status' = Cascade(o, "Archived", {})
  /\ archivedFrom' = [l \in Lots |->
       IF l \in LinesOf(o) /\ status[l] \notin {"Sold", "Archived"}
       THEN status[l] ELSE archivedFrom[l]]
  /\ archived' = archived \cup {o}
  /\ UNCHANGED <<lifecycle, submitted, qty, purchased, soStatus, held, soArchived,
                 wasDone, moveVars, saleLog, handled>>

UnarchiveOrder(o) ==
  /\ o \in archived
  /\ archived' = archived \ {o}
  /\ status' = [l \in Lots |-> IF l \in LinesOf(o) /\ status[l] = "Archived"
                               THEN archivedFrom[l] ELSE status[l]]
  /\ archivedFrom' = [l \in Lots |-> IF l \in LinesOf(o) THEN "Draft" ELSE archivedFrom[l]]
  /\ UNCHANGED <<lifecycle, submitted, qty, purchased, sellVars, moveVars, saleLog,
                 handled>>

(* Delete: an order never submitted, that no sell order of any status names.  *)
DeleteOrder(o) ==
  /\ lifecycle[o] = "draft" /\ o \notin submitted
  /\ \A l \in LinesOf(o), s \in SOs : ~Names(s, l)
  /\ lifecycle' = [lifecycle EXCEPT ![o] = "deleted"]
  /\ status' = [l \in Lots |-> IF l \in LinesOf(o) THEN "deleted" ELSE status[l]]
  /\ qty' = [l \in Lots |-> IF l \in LinesOf(o) THEN 0 ELSE qty[l]]
  /\ purchased' = [l \in Lots |-> IF l \in LinesOf(o) THEN NoQty ELSE purchased[l]]
  /\ onTransfer' = [l \in Lots |-> IF l \in LinesOf(o) THEN NULL ELSE onTransfer[l]]
  /\ UNCHANGED <<archived, submitted, sellVars, toStatus, prior, peer, archivedFrom,
                 saleLog, handled>>
=============================================================================
