---------------------------- MODULE StockClaims ----------------------------
(***************************************************************************)
(* No oversell, for every set of orders and lots: the inductive invariant  *)
(* IInv, one lemma per action, and the theorems it gives.                  *)
(*                                                                         *)
(* Actions come in three kinds.  Those that change no sell order need only *)
(* say what happens to claimed lots (ClaimsStand).  Those that change one  *)
(* sell order are compared with what the others hold (OneOrder).           *)
(* ArchiveOrder takes lines off many sell orders at once, and only off.    *)
(*                                                                         *)
(* Every action of StockSystem keeps the types.  Only MarkDone needs more  *)
(* than the types to do so: it records the status a lot was sold from, and *)
(* that this is a sellable one is a fact about claims.                     *)
(***************************************************************************)
EXTENDS StockSystem, TotalsProof

(* What a group of variables keeps when no step touches it.                   *)
LEMMA PoTypeFrame == PoTypeOK /\ UNCHANGED poVars => PoTypeOK'
  BY DEF PoTypeOK, poVars
LEMMA LineTypeFrame == LineTypeOK /\ UNCHANGED lineVars => LineTypeOK'
  BY DEF LineTypeOK, lineVars
LEMMA SellTypeFrame == SellTypeOK /\ UNCHANGED sellVars => SellTypeOK'
  BY DEF SellTypeOK, sellVars
LEMMA MoveTypeFrame == MoveTypeOK /\ UNCHANGED moveVars => MoveTypeOK'
  BY DEF MoveTypeOK, moveVars
LEMMA LogTypeFrame == LogTypeOK /\ UNCHANGED <<archivedFrom, saleLog, handled>> => LogTypeOK'
  BY DEF LogTypeOK, saleLog

LEMMA TypesFrame ==
  ASSUME TypeOK
  PROVE  /\ UNCHANGED poVars => PoTypeOK'
         /\ UNCHANGED lineVars => LineTypeOK'
         /\ UNCHANGED sellVars => SellTypeOK'
         /\ UNCHANGED moveVars => MoveTypeOK'
         /\ UNCHANGED <<archivedFrom, saleLog, handled>> => LogTypeOK'
  BY PoTypeFrame, LineTypeFrame, SellTypeFrame, MoveTypeFrame, LogTypeFrame DEF TypeOK

LEMMA InitTypes == Init => TypeOK
<1> SUFFICES ASSUME Init PROVE TypeOK
  OBVIOUS
<1>1. PoTypeOK
  BY DEF Init, PoTypeOK
<1>2. LineTypeOK
  BY DEF Init, LineTypeOK
<1>3. SellTypeOK
  BY DEF Init, SellTypeOK
<1>4. MoveTypeOK
  BY DEF Init, MoveTypeOK, LegacyPriorStatus, Sellable, OrNull
<1>5. LogTypeOK
  BY DEF Init, LogTypeOK, StageStatuses, Sellable
<1> QED
  BY <1>1, <1>2, <1>3, <1>4, <1>5 DEF TypeOK

----------------------------------------------------------------------------
(* Statuses of lines.                                                         *)
LineStates == LineStatuses \cup {"none", "deleted"}

LEMMA StageToStatus ==
  ASSUME NEW stage \in Lifecycles
  PROVE  LineStatusFor[stage] \in StageStatuses
<1>1. CASE stage = "draft"
  BY <1>1 DEF LineStatusFor, StageStatuses
<1>2. CASE stage = "in_transit"
  BY <1>2 DEF LineStatusFor, StageStatuses
<1>3. CASE stage = "reviewing"
  BY <1>3 DEF LineStatusFor, StageStatuses
<1>4. CASE stage = "ready_to_pay"
  BY <1>4 DEF LineStatusFor, StageStatuses
<1>5. CASE stage = "done"
  BY <1>5 DEF LineStatusFor, StageStatuses
<1> QED
  BY <1>1, <1>2, <1>3, <1>4, <1>5 DEF Lifecycles

LEMMA CascadeType ==
  ASSUME LineTypeOK, NEW o, NEW st \in LineStatuses, NEW keep
  PROVE  Cascade(o, st, keep) \in [Lots -> LineStates]
  BY DEF LineTypeOK, Cascade, LineStates

LEMMA RevertType ==
  ASSUME LineTypeOK, NEW o, NEW manager
  PROVE  StatusAfterRevert(o, manager) \in [Lots -> LineStates]
<1>1. "Draft" \in LineStatuses
  BY DEF LineStatuses, StageStatuses
<1> QED
  BY <1>1, CascadeType DEF StatusAfterRevert, LineTypeOK, LineStates

(* An edit leaves types of everything but the lines it edits.                 *)
LEMMA LandedTypes ==
  ASSUME TypeOK, NEW o \in POs, NEW manager, Landed(o, manager)
  PROVE  /\ PoTypeOK' /\ SellTypeOK'
         /\ UNCHANGED onTransfer => MoveTypeOK'
         /\ handled' \subseteq Lots => LogTypeOK'
<1>1. PoTypeOK'
  BY DEF TypeOK, PoTypeOK, Landed, Landing, Lifecycles
<1>2. SellTypeOK'
  BY TypesFrame DEF Landed
<1>3. UNCHANGED onTransfer => MoveTypeOK'
  BY TypesFrame DEF Landed, moveVars
<1>4. handled' \subseteq Lots => LogTypeOK'
  BY DEF TypeOK, LogTypeOK, Landed, saleLog
<1> QED
  BY <1>1, <1>2, <1>3, <1>4

LEMMA RecountType ==
  ASSUME LineTypeOK, NEW l \in Lots, NEW q \in Nat, WriteQty(l, q)
  PROVE  /\ qty' \in [Lots -> Nat]
         /\ purchased' \in [Lots -> Nat \cup {NoQty}]
<1>1. Recounted(l, q) \in Nat \cup {NoQty}
  BY DEF LineTypeOK, WriteQty, PurchasedCheck, Recounted, NoQty
<1> QED
  BY <1>1 DEF LineTypeOK, WriteQty

----------------------------------------------------------------------------
(* Purchase orders.                                                           *)
LEMMA CreateOrderTypes ==
  ASSUME TypeOK, NEW o \in POs, NEW S \in SUBSET Lots, NEW bought \in [S -> Qtys],
         CreateOrder(o, bought)
  PROVE  TypeOK'
<1>1. PoTypeOK'
  BY DEF TypeOK, PoTypeOK, CreateOrder, Lifecycles
<1>2. LineTypeOK'
  <2>1. Qtys \subseteq Nat /\ DOMAIN bought = S
    BY DEF Qtys
  <2> QED
    BY <2>1 DEF TypeOK, LineTypeOK, CreateOrder, LineStatuses, StageStatuses
<1>3. SellTypeOK' /\ MoveTypeOK' /\ LogTypeOK'
  BY TypesFrame DEF CreateOrder
<1> QED
  BY <1>1, <1>2, <1>3 DEF TypeOK

LEMMA AdvanceTypes ==
  ASSUME TypeOK, NEW o \in POs, NEW stage \in Lifecycles, Advance(o, stage)
  PROVE  TypeOK'
<1>1. PoTypeOK'
  BY DEF TypeOK, PoTypeOK, Advance, Lifecycles
<1>2. LineTypeOK'
  <2> DEFINE st == LineStatusFor[stage]
  <2>1. st \in LineStatuses
    BY StageToStatus DEF LineStatuses
  <2>2. Cascade(o, st, HeldBack(o, st)) \in [Lots -> LineStates]
    BY <2>1, CascadeType DEF TypeOK
  <2> QED
    BY <2>2 DEF TypeOK, LineTypeOK, Advance, LineStates
<1>3. SellTypeOK' /\ MoveTypeOK' /\ LogTypeOK'
  BY TypesFrame DEF Advance
<1> QED
  BY <1>1, <1>2, <1>3 DEF TypeOK

LEMMA PatchHeaderTypes ==
  ASSUME TypeOK, NEW o \in POs, PatchHeader(o)
  PROVE  TypeOK'
<1>1. PoTypeOK' /\ SellTypeOK' /\ MoveTypeOK' /\ LogTypeOK'
  BY LandedTypes DEF PatchHeader, TypeOK, LogTypeOK
<1>2. LineTypeOK'
  BY RevertType DEF PatchHeader, TypeOK, LineTypeOK, LineStates
<1> QED
  BY <1>1, <1>2 DEF TypeOK

LEMMA PatchAddLineTypes ==
  ASSUME TypeOK, NEW o \in POs, NEW manager, NEW l \in Lots, NEW n \in Nat,
         PatchAddLine(o, manager, l, n)
  PROVE  TypeOK'
<1>1. PoTypeOK' /\ SellTypeOK' /\ MoveTypeOK' /\ LogTypeOK'
  BY LandedTypes DEF PatchAddLine, TypeOK, LogTypeOK
<1>2. LineTypeOK'
  <2>1. Landing(o, manager) \in Lifecycles
    BY DEF PatchAddLine, PatchOpen, Editable, Landing, Lifecycles
  <2>2. LineStatusFor[Landing(o, manager)] \in LineStates
    BY <2>1, StageToStatus DEF LineStates, LineStatuses
  <2> QED
    BY <2>2, RevertType DEF PatchAddLine, TypeOK, LineTypeOK, LineStates
<1> QED
  BY <1>1, <1>2 DEF TypeOK

LEMMA PatchRemoveLineTypes ==
  ASSUME TypeOK, NEW o \in POs, NEW manager, NEW l \in Lots, PatchRemoveLine(o, manager, l)
  PROVE  TypeOK'
<1>1. PoTypeOK' /\ SellTypeOK' /\ LogTypeOK'
  BY LandedTypes DEF PatchRemoveLine, TypeOK, LogTypeOK
<1>2. LineTypeOK'
  BY RevertType DEF PatchRemoveLine, TypeOK, LineTypeOK, LineStates
<1>3. MoveTypeOK'
  BY DEF PatchRemoveLine, Landed, TypeOK, MoveTypeOK, OrNull
<1> QED
  BY <1>1, <1>2, <1>3 DEF TypeOK

LEMMA PatchRecountTypes ==
  ASSUME TypeOK, NEW o \in POs, NEW manager, NEW l \in Lots, NEW q \in Nat,
         PatchRecount(o, manager, l, q)
  PROVE  TypeOK'
<1>1. PoTypeOK' /\ SellTypeOK' /\ MoveTypeOK' /\ LogTypeOK'
  BY LandedTypes DEF PatchRecount, TypeOK, LogTypeOK
<1>2. LineTypeOK'
  <2>1. qty' \in [Lots -> Nat] /\ purchased' \in [Lots -> Nat \cup {NoQty}]
    BY RecountType DEF TypeOK, PatchRecount
  <2> QED
    BY <2>1, RevertType DEF PatchRecount, TypeOK, LineTypeOK, LineStates
<1> QED
  BY <1>1, <1>2 DEF TypeOK

LEMMA EditLotTypes ==
  ASSUME TypeOK, NEW l \in Lots, NEW manager, NEW st \in LineStates, NEW q \in Nat,
         EditLot(l, manager, st, q)
  PROVE  TypeOK'
<1>1. PoOf[l] \in POs
  BY StockAssumption DEF StockAssumption
<1>2. PoTypeOK' /\ SellTypeOK' /\ MoveTypeOK' /\ LogTypeOK'
  <2>1. Landed(PoOf[l], manager \/ q = qty[l]) /\ UNCHANGED onTransfer
    BY DEF EditLot
  <2>2. handled' \subseteq Lots
    BY DEF EditLot, TypeOK, LogTypeOK
  <2> QED
    BY <1>1, <2>1, <2>2, LandedTypes
<1>3. LineTypeOK'
  <2>1. qty' \in [Lots -> Nat] /\ purchased' \in [Lots -> Nat \cup {NoQty}]
    BY RecountType DEF TypeOK, EditLot
  <2>2. Cascade(PoOf[l], "Draft", {}) \in [Lots -> LineStates]
    BY CascadeType DEF TypeOK, LineStatuses, StageStatuses
  <2>3. [status EXCEPT ![l] = st] \in [Lots -> LineStates]
    BY DEF TypeOK, LineTypeOK, LineStates
  <2>4. \/ status' = Cascade(PoOf[l], "Draft", {})
        \/ status' = [status EXCEPT ![l] = st]
    BY DEF EditLot
  <2> QED
    BY <2>1, <2>2, <2>3, <2>4 DEF LineTypeOK, LineStates
<1> QED
  BY <1>2, <1>3 DEF TypeOK

LEMMA ArchiveOrderTypes ==
  ASSUME TypeOK, NEW o \in POs, NEW removeFromSellOrders, ArchiveOrder(o, removeFromSellOrders)
  PROVE  TypeOK'
<1>1. PoTypeOK'
  BY DEF TypeOK, PoTypeOK, ArchiveOrder
<1>2. LineTypeOK'
  <2>1. Cascade(o, "Archived", {}) \in [Lots -> LineStates]
    BY CascadeType DEF TypeOK, LineStatuses
  <2> QED
    BY <2>1 DEF TypeOK, LineTypeOK, ArchiveOrder, LineStates
<1>3. SellTypeOK'
  BY DEF TypeOK, SellTypeOK, ArchiveOrder
<1>4. MoveTypeOK'
  BY TypesFrame DEF ArchiveOrder
<1>5. LogTypeOK'
  BY DEF TypeOK, LogTypeOK, ArchiveOrder, saleLog, LinesOf, Exists, LineStatuses, LineTypeOK
<1> QED
  BY <1>1, <1>2, <1>3, <1>4, <1>5 DEF TypeOK

LEMMA UnarchiveOrderTypes ==
  ASSUME TypeOK, NEW o \in POs, UnarchiveOrder(o)
  PROVE  TypeOK'
<1>1. PoTypeOK'
  BY DEF TypeOK, PoTypeOK, UnarchiveOrder
<1>2. LineTypeOK'
  BY DEF TypeOK, LineTypeOK, LogTypeOK, UnarchiveOrder, LineStatuses
<1>3. SellTypeOK' /\ MoveTypeOK'
  BY TypesFrame DEF UnarchiveOrder
<1>4. LogTypeOK'
  BY DEF TypeOK, LogTypeOK, UnarchiveOrder, saleLog, StageStatuses
<1> QED
  BY <1>1, <1>2, <1>3, <1>4 DEF TypeOK

LEMMA DeleteOrderTypes ==
  ASSUME TypeOK, NEW o \in POs, DeleteOrder(o)
  PROVE  TypeOK'
<1>1. PoTypeOK'
  BY DEF TypeOK, PoTypeOK, DeleteOrder
<1>2. LineTypeOK'
  BY DEF TypeOK, LineTypeOK, DeleteOrder
<1>3. MoveTypeOK'
  BY DEF TypeOK, MoveTypeOK, DeleteOrder, OrNull
<1>4. SellTypeOK' /\ LogTypeOK'
  BY TypesFrame DEF DeleteOrder
<1> QED
  BY <1>1, <1>2, <1>3, <1>4 DEF TypeOK

----------------------------------------------------------------------------
(* Sell orders.                                                               *)
LEMMA CreateDraftTypes ==
  ASSUME TypeOK, NEW s \in SOs, NEW want \in [Lots -> Nat], CreateDraft(s, want)
  PROVE  TypeOK'
<1>1. SellTypeOK'
  BY DEF TypeOK, SellTypeOK, CreateDraft, SellStatuses, Open, Proposal
<1>2. PoTypeOK' /\ LineTypeOK' /\ MoveTypeOK' /\ LogTypeOK'
  BY TypesFrame DEF CreateDraft
<1> QED
  BY <1>1, <1>2 DEF TypeOK

LEMMA RewriteLinesTypes ==
  ASSUME TypeOK, NEW s \in SOs, NEW want \in [Lots -> Nat], NEW atZero \in SUBSET Lots,
         RewriteLines(s, want, atZero)
  PROVE  TypeOK'
<1>1. SellTypeOK'
  BY DEF TypeOK, SellTypeOK, RewriteLines
<1>2. PoTypeOK' /\ LineTypeOK' /\ MoveTypeOK' /\ LogTypeOK'
  BY TypesFrame DEF RewriteLines
<1> QED
  BY <1>1, <1>2 DEF TypeOK

LEMMA MoveTypes ==
  ASSUME TypeOK, NEW s \in SOs, NEW to \in SellStatuses, Move(s, to)
  PROVE  TypeOK'
<1>1. SellTypeOK'
  BY DEF TypeOK, SellTypeOK, Move
<1>2. PoTypeOK' /\ LineTypeOK' /\ MoveTypeOK' /\ LogTypeOK'
  BY TypesFrame DEF Move
<1> QED
  BY <1>1, <1>2 DEF TypeOK

LEMMA MarkDoneTypes ==
  ASSUME TypeOK, NEW s \in SOs, MarkDone(s), \A l \in Taken(s) : status[l] \in Sellable
  PROVE  TypeOK'
<1>1. SellTypeOK'
  BY DEF TypeOK, SellTypeOK, MarkDone, SellStatuses
<1>2. LineTypeOK'
  <2>1. status' \in [Lots -> LineStates]
    BY DEF TypeOK, LineTypeOK, MarkDone, LineStates, LineStatuses
  <2>2. qty' \in [Lots -> Nat]
    BY DEF TypeOK, LineTypeOK, SellTypeOK, MarkDone, SoldOut
  <2>3. purchased' \in [Lots -> Nat \cup {NoQty}]
    BY DEF TypeOK, LineTypeOK, MarkDone, Purchased
  <2> QED
    BY <2>1, <2>2, <2>3 DEF LineTypeOK, LineStates
<1>3. LogTypeOK'
  <2>1. soldQty' \in [SOs -> [Lots -> Nat]]
    BY DEF TypeOK, LogTypeOK, LineTypeOK, MarkDone
  <2> QED
    BY <2>1 DEF TypeOK, LogTypeOK, MarkDone
<1>4. PoTypeOK' /\ MoveTypeOK'
  BY TypesFrame DEF MarkDone
<1> QED
  BY <1>1, <1>2, <1>3, <1>4 DEF TypeOK

LEMMA ReopenSaleTypes ==
  ASSUME TypeOK, NEW s \in SOs, ReopenSale(s)
  PROVE  TypeOK'
<1>1. SellTypeOK'
  BY DEF TypeOK, SellTypeOK, ReopenSale, SellStatuses, Open, Committed
<1>2. LineTypeOK'
  <2>1. \A l \in Lots : BackStatus(l) \in LineStates /\ BackQty(s, l) \in Nat
    BY DEF TypeOK, LineTypeOK, LogTypeOK, SellTypeOK, BackStatus, BackQty, Sellable,
           LineStates, LineStatuses, StageStatuses
  <2>2. status' \in [Lots -> LineStates]
    BY <2>1 DEF TypeOK, LineTypeOK, ReopenSale, LineStates
  <2>3. qty' \in [Lots -> Nat]
    <3>1. \A l \in Lots : qty[l] + BackQty(s, l) \in Nat
      BY <2>1 DEF TypeOK, LineTypeOK
    <3> QED
      BY <2>1, <3>1 DEF TypeOK, LineTypeOK, ReopenSale
  <2> QED
    BY <2>2, <2>3 DEF TypeOK, LineTypeOK, ReopenSale, LineStates
<1>3. LogTypeOK'
  BY DEF TypeOK, LogTypeOK, ReopenSale
<1>4. PoTypeOK' /\ MoveTypeOK'
  BY TypesFrame DEF ReopenSale
<1> QED
  BY <1>1, <1>2, <1>3, <1>4 DEF TypeOK

LEMMA SellArchiveTypes ==
  ASSUME TypeOK, NEW s \in SOs, ArchiveSellOrder(s) \/ UnarchiveSellOrder(s)
  PROVE  TypeOK'
<1>1. SellTypeOK'
  BY DEF TypeOK, SellTypeOK, ArchiveSellOrder, UnarchiveSellOrder
<1>2. PoTypeOK' /\ LineTypeOK' /\ MoveTypeOK' /\ LogTypeOK'
  BY TypesFrame DEF ArchiveSellOrder, UnarchiveSellOrder
<1> QED
  BY <1>1, <1>2 DEF TypeOK

----------------------------------------------------------------------------
(* Transfers.                                                                 *)

(* A total of quantities is a quantity.                                       *)
LEMMA MergedUnitsNat ==
  ASSUME LineTypeOK, NEW t, NEW p
  PROVE  MergedUnits(t, p) \in Nat
<1> DEFINE S == {l \in MergedOf(t) : peer[l] = p}
<1>1. S \subseteq Lots
  BY DEF MergedOf, LinesOn
<1>2. IsFiniteSet(S)
  BY <1>1, FS_Subset, StockAssumption DEF StockAssumption
<1>3. \A l \in S : qty[l] \in Nat
  BY <1>1 DEF LineTypeOK
<1> QED
  BY <1>2, <1>3, TotalNat DEF MergedUnits

LEMMA TransferTypes ==
  ASSUME TypeOK, NEW t \in TOs, NEW S \in SUBSET Lots, NEW move \in [S -> Nat],
         NEW cloneOf, Transfer(t, move, cloneOf)
  PROVE  TypeOK'
<1>1. /\ DOMAIN move = S /\ Parted(move) \subseteq S /\ Whole(move) \subseteq S
      /\ \A l \in S : status[l] \in Sellable
  BY DEF Transfer, Movable, Parted, Whole
<1>2. ASSUME NEW c \in Drawn(cloneOf)
      PROVE  SourceOf(cloneOf, c) \in Parted(move)
  BY <1>2 DEF Transfer, Drawn, SourceOf
<1>3. LineTypeOK'
  <2>1. status' \in [Lots -> LineStates]
    BY DEF TypeOK, LineTypeOK, Transfer, LineStates, LineStatuses, StageStatuses
  <2>2. qty' \in [Lots -> Nat]
    <3>1. \A l \in Parted(move) : qty[l] - move[l] \in Nat
      BY <1>1 DEF TypeOK, LineTypeOK, Parted
    <3>2. \A c \in Drawn(cloneOf) : move[SourceOf(cloneOf, c)] \in Nat
      BY <1>1, <1>2
    <3> QED
      BY <3>1, <3>2 DEF TypeOK, LineTypeOK, Transfer
  <2>3. purchased' \in [Lots -> Nat \cup {NoQty}]
    <3>1. \A l \in Parted(move) : ShareLeft(l, move[l]) \in Nat \cup {NoQty}
      <4> SUFFICES ASSUME NEW l \in Parted(move)
                   PROVE  ShareLeft(l, move[l]) \in Nat \cup {NoQty}
        OBVIOUS
      <4>1. purchased[l] \in Nat \cup {NoQty} /\ move[l] \in Nat
        BY <1>1 DEF TypeOK, LineTypeOK
      <4>2. PurchasedCheck(l, ShareLeft(l, move[l]))
        BY DEF Transfer
      <4> QED
        BY <4>1, <4>2 DEF ShareLeft, PurchasedCheck, NoQty
    <3> QED
      BY <3>1 DEF TypeOK, LineTypeOK, Transfer
  <2> QED
    BY <2>1, <2>2, <2>3 DEF LineTypeOK, LineStates
<1>4. MoveTypeOK'
  <2>1. /\ toStatus' \in [TOs -> {"none", "Pending", "Received", "discarded"}]
        /\ onTransfer' \in [Lots -> OrNull(TOs)]
    BY DEF TypeOK, MoveTypeOK, Transfer, OrNull
  <2>2. prior' \in [Lots -> Sellable]
    BY <1>1, <1>2 DEF Transfer, TypeOK, MoveTypeOK
  <2>3. peer' \in [Lots -> OrNull(Lots)]
    BY <1>1, <1>2 DEF Transfer, TypeOK, MoveTypeOK, OrNull
  <2> QED
    BY <2>1, <2>2, <2>3 DEF MoveTypeOK
<1>5. PoTypeOK' /\ SellTypeOK' /\ LogTypeOK'
  BY TypesFrame DEF Transfer
<1> QED
  BY <1>3, <1>4, <1>5 DEF TypeOK

LEMMA LandsAtType ==
  ASSUME MoveTypeOK, LogTypeOK, NEW S
  PROVE  /\ \A l \in Lots : LandsAt(l) \in LineStates
         /\ LandedFrom(S) \in [Lots -> StageStatuses]
  BY DEF MoveTypeOK, LogTypeOK, LandsAt, LandedFrom, LineStates, LineStatuses,
         StageStatuses, Sellable

LEMMA ReceiveTypes ==
  ASSUME TypeOK, NEW t \in TOs, Receive(t)
  PROVE  TypeOK'
<1>1. LineTypeOK'
  BY LandsAtType DEF TypeOK, LineTypeOK, Receive, LineStates
<1>2. MoveTypeOK'
  BY DEF TypeOK, MoveTypeOK, Receive
<1>3. LogTypeOK'
  BY LandsAtType DEF TypeOK, LogTypeOK, Receive, saleLog
<1>4. PoTypeOK' /\ SellTypeOK'
  BY TypesFrame DEF Receive
<1> QED
  BY <1>1, <1>2, <1>3, <1>4 DEF TypeOK

LEMMA ReopenTypes ==
  ASSUME TypeOK, NEW t \in TOs, Reopen(t)
  PROVE  TypeOK'
<1>1. LineTypeOK'
  BY DEF TypeOK, LineTypeOK, Reopen, LineStatuses, StageStatuses
<1>2. MoveTypeOK'
  BY DEF TypeOK, MoveTypeOK, Reopen, InStockAndFree
<1>3. PoTypeOK' /\ SellTypeOK' /\ LogTypeOK'
  BY TypesFrame DEF Reopen
<1> QED
  BY <1>1, <1>2, <1>3 DEF TypeOK

LEMMA DiscardTypes ==
  ASSUME TypeOK, NEW t \in TOs, Discard(t)
  PROVE  TypeOK'
<1>1. \A l \in Lots : MergedUnits(t, l) \in Nat
  BY MergedUnitsNat DEF TypeOK
<1>2. LineTypeOK'
  <2>1. status' \in [Lots -> LineStates]
    BY LandsAtType DEF TypeOK, LineTypeOK, Discard, LineStates
  <2>2. qty' \in [Lots -> Nat]
    <3>1. \A l \in Lots : qty[l] + MergedUnits(t, l) \in Nat
      BY <1>1 DEF TypeOK, LineTypeOK
    <3> QED
      BY <3>1 DEF Discard
  <2>3. purchased' \in [Lots -> Nat \cup {NoQty}]
    <3>1. \A l \in Lots : \/ purchased[l] = NoQty
                          \/ purchased[l] + MergedUnits(t, l) \in Nat
      BY <1>1 DEF TypeOK, LineTypeOK
    <3> QED
      BY <3>1 DEF Discard
  <2> QED
    BY <2>1, <2>2, <2>3 DEF LineTypeOK, LineStates
<1>3. MoveTypeOK'
  BY DEF TypeOK, MoveTypeOK, Discard, OrNull, Sellable, LegacyPriorStatus
<1>4. LogTypeOK'
  BY LandsAtType DEF TypeOK, LogTypeOK, Discard, saleLog
<1>5. PoTypeOK' /\ SellTypeOK'
  BY TypesFrame DEF Discard
<1> QED
  BY <1>2, <1>3, <1>4, <1>5 DEF TypeOK
----------------------------------------------------------------------------
(* Claims.                                                                   *)
(* The units committed sell orders hold of a lot, and whether any does.       *)
LEMMA ClaimedNat ==
  ASSUME SellTypeOK, NEW l \in Lots, NEW X
  PROVE  CommittedQty(l, X) \in Nat
<1> DEFINE S == CommittedOrders \ X
<1>1. S \subseteq SOs /\ IsFiniteSet(S)
  BY StockAssumption, FS_Subset DEF StockAssumption, CommittedOrders
<1>2. \A s \in S : QtyOn(l)[s] \in Nat
  BY <1>1 DEF SellTypeOK, QtyOn
<1> QED
  BY <1>1, <1>2, TotalNat DEF CommittedQty

LEMMA ClaimedNamed ==
  ASSUME SellTypeOK, NEW l \in Lots
  PROVE  CommittedQty(l, {}) > 0 <=> NamedBy(l, Committed)
<1> DEFINE S == CommittedOrders \ {}
<1>1. S \subseteq SOs /\ IsFiniteSet(S)
  BY StockAssumption, FS_Subset DEF StockAssumption, CommittedOrders
<1>2. \A s \in S : QtyOn(l)[s] \in Nat
  BY <1>1 DEF SellTypeOK, QtyOn
<1>3. Total(QtyOn(l), S) > 0 <=> \E s \in S : QtyOn(l)[s] > 0
  BY <1>1, <1>2, TotalPositive
<1>4. (\E s \in S : QtyOn(l)[s] > 0) <=> NamedBy(l, Committed)
  BY DEF QtyOn, NamedBy, CommittedOrders
<1> QED
  BY <1>3, <1>4 DEF CommittedQty

(* What one sell order adds to what the others hold.                          *)
HoldsOf(s, l) == IF soStatus[s] \in Committed THEN sol[s][l] ELSE 0

LEMMA ClaimedSplit ==
  ASSUME SellTypeOK, NEW l \in Lots, NEW s \in SOs
  PROVE  CommittedQty(l, {}) = CommittedQty(l, {s}) + HoldsOf(s, l)
<1> DEFINE S == CommittedOrders
<1>1. S \subseteq SOs /\ IsFiniteSet(S)
  BY StockAssumption, FS_Subset DEF StockAssumption, CommittedOrders
<1>2. \A x \in S : QtyOn(l)[x] \in Nat
  BY <1>1 DEF SellTypeOK, QtyOn
<1>3. CASE s \in S
  <2>1. Total(QtyOn(l), S) = Total(QtyOn(l), S \ {s}) + QtyOn(l)[s]
    BY <1>1, <1>2, <1>3, TotalSplit
  <2>2. S \ {} = S /\ QtyOn(l)[s] = HoldsOf(s, l)
    BY <1>3 DEF CommittedOrders, QtyOn, HoldsOf
  <2> QED
    BY <2>1, <2>2 DEF CommittedQty
<1>4. CASE s \notin S
  <2>1. S \ {} = S \ {s} /\ HoldsOf(s, l) = 0
    BY <1>4 DEF CommittedOrders, HoldsOf
  <2>2. CommittedQty(l, {s}) \in Nat
    BY ClaimedNat
  <2>3. CommittedQty(l, {}) = CommittedQty(l, {s})
    BY <2>1 DEF CommittedQty
  <2> QED
    BY <2>1, <2>2, <2>3
<1> QED
  BY <1>3, <1>4

(* The three facts together, of this state and of the next.                   *)
ClaimFacts ==
  \A l \in Lots :
    /\ CommittedQty(l, {}) \in Nat
    /\ CommittedQty(l, {}) > 0 <=> NamedBy(l, Committed)
    /\ \A s \in SOs : /\ CommittedQty(l, {s}) \in Nat
                      /\ CommittedQty(l, {}) = CommittedQty(l, {s}) + HoldsOf(s, l)

LEMMA ClaimsNow == SellTypeOK => ClaimFacts
  BY ClaimedNat, ClaimedNamed, ClaimedSplit DEF ClaimFacts
LEMMA ClaimsNext == SellTypeOK' => ClaimFacts'
  BY ClaimsNow, PTL

----------------------------------------------------------------------------
(* Actions that change no sell order.                                         *)
LEMMA ClaimsFrame ==
  ASSUME UNCHANGED <<soStatus, sol>>, NEW l
  PROVE  CommittedQty(l, {})' = CommittedQty(l, {})
  BY DEF CommittedQty, QtyOn, CommittedOrders

(* What a lot that is claimed is, and has to go on being.                     *)
LEMMA ClaimedLot ==
  ASSUME IInv, NEW l \in Lots, Exists(l), NamedBy(l, Committed)
  PROVE  /\ CommittedQty(l, {}) > 0 /\ CommittedQty(l, {}) <= qty[l]
         /\ status[l] \in Sellable /\ PoOf[l] \notin archived
  BY ClaimsNow DEF IInv, TypeOK, ClaimFacts, ClaimsOK, NoOversell, CommittedSellable

LEMMA ClaimsStand ==
  ASSUME IInv, TypeOK', UNCHANGED <<soStatus, sol, soldQty>>,
         \A l \in Lots : status[l] # "none" => status'[l] # "none",
         \A l \in Lots : Exists(l)' => Exists(l) \/ status[l] = "none",
         \A l \in Lots : Exists(l) /\ NamedBy(l, Committed) /\ Exists(l)' =>
           /\ status'[l] \in Sellable /\ PoOf[l] \notin archived'
           /\ CommittedQty(l, {}) <= qty'[l]
  PROVE  ClaimsOK'
<1>1. NamesKnown'
  BY DEF IInv, ClaimsOK, NamesKnown
<1>2. \A l \in Lots : status[l] = "none" => \A s \in SOs : sol[s][l] = 0
  BY DEF IInv, TypeOK, SellTypeOK, ClaimsOK, NamesKnown
<1>3. SaleFits'
  <2> SUFFICES ASSUME NEW s \in SOs, NEW l \in Lots, soStatus[s] = "Done", Exists(l)'
               PROVE  sol[s][l] <= soldQty[s][l]
    BY DEF SaleFits
  <2>1. CASE Exists(l)
    BY <2>1 DEF IInv, ClaimsOK, SaleFits
  <2>2. CASE status[l] = "none"
    BY <1>2, <2>2 DEF IInv, TypeOK, LogTypeOK
  <2> QED
    BY <2>1, <2>2
<1>4. ASSUME NEW l \in Lots, Exists(l)'
      PROVE  /\ CommittedQty(l, {})' <= qty'[l]
             /\ CommittedQty(l, {})' > 0 => status'[l] \in Sellable /\ PoOf[l] \notin archived'
  <2>1. CommittedQty(l, {})' = CommittedQty(l, {})
    BY ClaimsFrame
  <2>2. CommittedQty(l, {}) \in Nat /\ qty'[l] \in Nat
    BY ClaimsNow DEF IInv, TypeOK, LineTypeOK, ClaimFacts
  <2>3. CASE NamedBy(l, Committed)
    <3>1. Exists(l)
      BY <1>2, <1>4, <2>3 DEF NamedBy
    <3> QED
      BY <1>4, <2>1, <2>3, <3>1
  <2>4. CASE ~NamedBy(l, Committed)
    <3>1. CommittedQty(l, {}) = 0
      BY <2>2, <2>4, ClaimsNow DEF IInv, TypeOK, ClaimFacts
    <3> QED
      BY <2>1, <2>2, <3>1
  <2> QED
    BY <2>3, <2>4
<1> QED
  BY <1>1, <1>3, <1>4 DEF ClaimsOK, NoOversell, CommittedSellable

(* A cascade that no claim blocks leaves every claimed lot sellable.          *)
LEMMA StatusesAhead ==
  ASSUME NEW st \in StageStatuses \ Sellable
  PROVE  Sellable \subseteq StatusesAheadOf(st)
<1>1. LineStatusOrder[1] = "Draft" /\ LineStatusOrder[2] = "In Transit"
      /\ LineStatusOrder[3] = "Reviewing" /\ LineStatusOrder[4] = "Done"
  BY DEF LineStatusOrder
<1>2. PICK i \in {1, 2} : LineStatusOrder[i] = st
  BY <1>1 DEF StageStatuses, Sellable
<1>3. i \in 1 .. 4 /\ 3 \in 1 .. 4 /\ 4 \in 1 .. 4 /\ i < 3 /\ i < 4
  OBVIOUS
<1>4. LineStatusOrder[3] \in StatusesAheadOf(st) /\ LineStatusOrder[4] \in StatusesAheadOf(st)
  BY <1>2, <1>3 DEF StatusesAheadOf
<1> QED
  BY <1>1, <1>4 DEF Sellable

LEMMA CascadeSparesClaims ==
  ASSUME IInv, NEW o, NEW st \in StageStatuses, ~CascadeBlocked(o, st), NEW keep,
         NEW l \in Lots, Exists(l), NamedBy(l, Committed)
  PROVE  Cascade(o, st, keep)[l] \in Sellable
<1>1. status[l] \in Sellable
  BY ClaimedLot
<1>2. CASE st \in Sellable
  BY <1>1, <1>2 DEF Cascade
<1>3. CASE st \notin Sellable
  <2>1. CommittedLines(o, StatusesAheadOf(st), Open) = {}
    BY <1>3 DEF CascadeBlocked
  <2>2. status[l] \in StatusesAheadOf(st)
    BY <1>1, <1>3, StatusesAhead
  <2>3. NamedBy(l, Open)
    BY DEF NamedBy, Open
  <2>4. l \notin LinesOf(o)
    BY <2>1, <2>2, <2>3 DEF CommittedLines
  <2> QED
    BY <1>1, <2>4 DEF Cascade
<1> QED
  BY <1>2, <1>3

(* A cascade makes no line and brings none back.                              *)
LEMMA CascadeKeepsLines ==
  ASSUME NEW o, NEW st \in LineStatuses, NEW keep, NEW l \in Lots
  PROVE  \/ Cascade(o, st, keep)[l] = status[l]
         \/ Exists(l) /\ Cascade(o, st, keep)[l] \in LineStatuses
  BY DEF Cascade, LinesOf

LEMMA RevertSparesClaims ==
  ASSUME IInv, NEW o, NEW manager, Editable(o, manager), NEW l \in Lots
  PROVE  /\ Exists(l) /\ NamedBy(l, Committed) => StatusAfterRevert(o, manager)[l] \in Sellable
         /\ \/ StatusAfterRevert(o, manager)[l] = status[l]
            \/ Exists(l) /\ StatusAfterRevert(o, manager)[l] \in LineStatuses
<1>1. "Draft" \in StageStatuses /\ "Draft" \in LineStatuses
  BY DEF StageStatuses, LineStatuses
<1>2. CASE Reverts(o, manager)
  BY <1>1, <1>2, CascadeSparesClaims, CascadeKeepsLines DEF StatusAfterRevert, Editable
<1>3. CASE ~Reverts(o, manager)
  BY <1>3, ClaimedLot DEF StatusAfterRevert
<1> QED
  BY <1>2, <1>3

----------------------------------------------------------------------------
(* Purchase orders.                                                           *)
LEMMA CreateOrderClaims ==
  ASSUME IInv, TypeOK', NEW o \in POs, NEW S \in SUBSET Lots, NEW bought \in [S -> Qtys],
         CreateOrder(o, bought)
  PROVE  ClaimsOK'
<1>1. DOMAIN bought = S /\ UNCHANGED <<archived, soStatus, sol, soldQty>>
  BY DEF CreateOrder, sellVars, saleLog
<1>2. \A l \in Lots : IF l \in S THEN status[l] = "none" /\ status'[l] = "Draft"
                               ELSE status'[l] = status[l] /\ qty'[l] = qty[l]
  BY <1>1 DEF CreateOrder
<1>3. \A l \in Lots : Exists(l) => l \notin S
  BY <1>2 DEF Exists, LineStatuses, StageStatuses
<1> QED
  BY <1>1, <1>2, <1>3, ClaimedLot, ClaimsStand DEF Exists

LEMMA AdvanceClaims ==
  ASSUME IInv, TypeOK', NEW o \in POs, NEW stage \in Lifecycles, Advance(o, stage)
  PROVE  ClaimsOK'
<1> DEFINE st == LineStatusFor[stage]
<1>1. UNCHANGED <<archived, qty, soStatus, sol, soldQty>>
  BY DEF Advance, sellVars, saleLog
<1>2. st \in StageStatuses /\ st \in LineStatuses
  BY StageToStatus DEF LineStatuses
<1>3. ~CascadeBlocked(o, st) /\ status' = Cascade(o, st, HeldBack(o, st))
  BY DEF Advance
<1> HIDE DEF st
<1>4. \A l \in Lots : status'[l] = status[l] \/ (Exists(l) /\ status'[l] \in LineStatuses)
  BY <1>2, <1>3, CascadeKeepsLines
<1>5. \A l \in Lots : Exists(l) /\ NamedBy(l, Committed) => status'[l] \in Sellable
  BY <1>2, <1>3, CascadeSparesClaims
<1> QED
  BY <1>1, <1>4, <1>5, ClaimedLot, ClaimsStand DEF Exists, LineStatuses, StageStatuses

(* Edits.  What each does to the lot it edits is all that tells them apart.   *)
LEMMA PatchHeaderClaims ==
  ASSUME IInv, TypeOK', NEW o \in POs, PatchHeader(o)
  PROVE  ClaimsOK'
<1>1. UNCHANGED <<archived, qty, soStatus, sol, soldQty>>
  BY DEF PatchHeader, Landed, sellVars, saleLog
<1>2. Editable(o, FALSE) /\ status' = StatusAfterRevert(o, FALSE)
  BY DEF PatchHeader, PatchOpen
<1> QED
  BY <1>1, <1>2, RevertSparesClaims, ClaimedLot, ClaimsStand
     DEF Exists, LineStatuses, StageStatuses

LEMMA PatchAddLineClaims ==
  ASSUME IInv, TypeOK', NEW o \in POs, NEW manager, NEW l \in Lots, NEW n \in Nat,
         PatchAddLine(o, manager, l, n)
  PROVE  ClaimsOK'
<1>1. UNCHANGED <<archived, soStatus, sol, soldQty>> /\ Editable(o, manager)
  BY DEF PatchAddLine, PatchOpen, Landed, sellVars, saleLog
<1>2. status[l] = "none" /\ status'[l] # "none"
  <2>1. Landing(o, manager) \in Lifecycles
    BY DEF PatchAddLine, PatchOpen, Editable, Landing, Lifecycles
  <2>2. LineStatusFor[Landing(o, manager)] # "none"
    BY <2>1, StageToStatus DEF StageStatuses
  <2>3. status'[l] = LineStatusFor[Landing(o, manager)]
    BY RevertType DEF PatchAddLine, IInv, TypeOK
  <2> QED
    BY <2>2, <2>3 DEF PatchAddLine
<1>3. \A k \in Lots \ {l} : /\ status'[k] = StatusAfterRevert(o, manager)[k]
                            /\ qty'[k] = qty[k]
  BY RevertType DEF PatchAddLine, IInv, TypeOK, LineTypeOK
<1>4. ~Exists(l)
  BY <1>2 DEF Exists, LineStatuses, StageStatuses
<1>5. \A k \in Lots \ {l} :
        /\ status'[k] = status[k] \/ (Exists(k) /\ status'[k] \in LineStatuses)
        /\ Exists(k) /\ NamedBy(k, Committed) => status'[k] \in Sellable
  BY <1>1, <1>3, RevertSparesClaims
<1> QED
  BY <1>1, <1>2, <1>3, <1>4, <1>5, ClaimedLot, ClaimsStand
     DEF Exists, LineStatuses, StageStatuses

LEMMA PatchRemoveLineClaims ==
  ASSUME IInv, TypeOK', NEW o \in POs, NEW manager, NEW l \in Lots,
         PatchRemoveLine(o, manager, l)
  PROVE  ClaimsOK'
<1>1. UNCHANGED <<archived, soStatus, sol, soldQty>> /\ Editable(o, manager)
  BY DEF PatchRemoveLine, PatchOpen, Landed, sellVars, saleLog
<1>2. status'[l] = "deleted" /\ ~Exists(l)'
  BY RevertType DEF PatchRemoveLine, IInv, TypeOK, Exists, LineStatuses, StageStatuses
<1>3. \A k \in Lots \ {l} : /\ status'[k] = StatusAfterRevert(o, manager)[k]
                            /\ qty'[k] = qty[k]
  BY RevertType DEF PatchRemoveLine, IInv, TypeOK, LineTypeOK
<1>4. \A k \in Lots \ {l} :
        /\ status'[k] = status[k] \/ (Exists(k) /\ status'[k] \in LineStatuses)
        /\ Exists(k) /\ NamedBy(k, Committed) => status'[k] \in Sellable
  BY <1>1, <1>3, RevertSparesClaims
<1> QED
  BY <1>1, <1>2, <1>3, <1>4, ClaimedLot, ClaimsStand
     DEF Exists, LineStatuses, StageStatuses

LEMMA PatchRecountClaims ==
  ASSUME IInv, TypeOK', NEW o \in POs, NEW manager, NEW l \in Lots, NEW q \in Nat,
         PatchRecount(o, manager, l, q)
  PROVE  ClaimsOK'
<1>1. UNCHANGED <<archived, soStatus, sol, soldQty>> /\ Editable(o, manager)
  BY DEF PatchRecount, PatchOpen, Landed, sellVars, saleLog
<1>2. status' = StatusAfterRevert(o, manager)
  BY DEF PatchRecount
<1>3. CommittedQty(l, {}) <= q
  BY ClaimsNow DEF PatchRecount, QtyBelowCommitted, IInv, TypeOK, ClaimFacts
<1>4. qty'[l] = q /\ \A k \in Lots \ {l} : qty'[k] = qty[k]
  BY DEF PatchRecount, WriteQty, IInv, TypeOK, LineTypeOK
<1> QED
  BY <1>1, <1>2, <1>3, <1>4, RevertSparesClaims, ClaimedLot, ClaimsStand
     DEF Exists, LineStatuses, StageStatuses

LEMMA EditLotClaims ==
  ASSUME IInv, TypeOK', NEW l \in Lots, NEW manager, NEW st \in LineStatuses, NEW q \in Nat,
         EditLot(l, manager, st, q)
  PROVE  ClaimsOK'
<1> DEFINE o == PoOf[l]
<1>1. UNCHANGED <<archived, soStatus, sol, soldQty>> /\ Exists(l)
  BY DEF EditLot, Landed, sellVars, saleLog
<1>2. qty'[l] = q /\ \A k \in Lots \ {l} : qty'[k] = qty[k]
  BY DEF EditLot, WriteQty, IInv, TypeOK, LineTypeOK
<1>3. NamedBy(l, Committed) => st = status[l] /\ CommittedQty(l, {}) <= q
  BY <1>1, ClaimedLot, ClaimsNow
     DEF EditLot, LeavesClaims, QtyBelowCommitted, IInv, TypeOK, ClaimFacts
<1>4. \/ ~CascadeBlocked(o, "Draft") /\ status' = Cascade(o, "Draft", {})
      \/ status' = [status EXCEPT ![l] = st]
  BY DEF EditLot
<1>5. CASE status' = [status EXCEPT ![l] = st]
  <2>1. status'[l] = st /\ \A k \in Lots \ {l} : status'[k] = status[k]
    BY <1>5 DEF IInv, TypeOK, LineTypeOK
  <2> QED
    BY <1>1, <1>2, <1>3, <2>1, ClaimedLot, ClaimsStand DEF Exists, LineStatuses, StageStatuses
<1>6. CASE ~CascadeBlocked(o, "Draft") /\ status' = Cascade(o, "Draft", {})
  <2>1. "Draft" \in StageStatuses /\ "Draft" \in LineStatuses
    BY DEF StageStatuses, LineStatuses
  <2>2. \A k \in Lots : status'[k] = status[k] \/ (Exists(k) /\ status'[k] \in LineStatuses)
    BY <1>6, <2>1, CascadeKeepsLines
  <2>3. \A k \in Lots : Exists(k) /\ NamedBy(k, Committed) => status'[k] \in Sellable
    BY <1>6, <2>1, CascadeSparesClaims
  <2> QED
    BY <1>1, <1>2, <1>3, <2>2, <2>3, ClaimedLot, ClaimsStand
       DEF Exists, LineStatuses, StageStatuses
<1> QED
  BY <1>4, <1>5, <1>6

LEMMA UnarchiveOrderClaims ==
  ASSUME IInv, TypeOK', NEW o \in POs, UnarchiveOrder(o)
  PROVE  ClaimsOK'
<1>1. UNCHANGED <<qty, soStatus, sol, soldQty>> /\ archived' \subseteq archived
  BY DEF UnarchiveOrder, sellVars, saleLog
<1>2. \A l \in Lots : \/ status'[l] = status[l]
                      \/ status[l] = "Archived" /\ status'[l] \in StageStatuses
  BY DEF UnarchiveOrder, IInv, TypeOK, LogTypeOK
<1> QED
  BY <1>1, <1>2, ClaimedLot, ClaimsStand DEF Exists, LineStatuses, StageStatuses, Sellable

LEMMA DeleteOrderClaims ==
  ASSUME IInv, TypeOK', NEW o \in POs, DeleteOrder(o)
  PROVE  ClaimsOK'
<1>1. UNCHANGED <<archived, soStatus, sol, soldQty>>
  BY DEF DeleteOrder, sellVars, saleLog
<1>2. \A l \in Lots : \/ status'[l] = status[l] /\ qty'[l] = qty[l]
                      \/ status'[l] = "deleted"
  BY DEF DeleteOrder
<1> QED
  BY <1>1, <1>2, ClaimedLot, ClaimsStand DEF Exists, LineStatuses, StageStatuses

----------------------------------------------------------------------------
(* Transfers.  The lots they touch are free, or keep the units claimed.       *)
LEMMA TransferClaims ==
  ASSUME IInv, TypeOK', NEW t \in TOs, NEW S \in SUBSET Lots, NEW move \in [S -> Nat],
         NEW cloneOf, Transfer(t, move, cloneOf)
  PROVE  ClaimsOK'
<1>1. UNCHANGED <<archived, soStatus, sol, soldQty>> /\ DOMAIN move = S
  BY DEF Transfer, poVars, sellVars, saleLog
<1>2. \A c \in Drawn(cloneOf) : status[c] = "none"
  <2>1. \A l \in DOMAIN cloneOf : status[cloneOf[l]] = "none"
    BY DEF Transfer
  <2> QED
    BY <2>1 DEF Drawn
<1>3. \A l \in S : /\ Exists(l) /\ CommittedQty(l, {}) \in Nat /\ qty[l] \in Nat
                   /\ move[l] + CommittedQty(l, {}) <= qty[l]
  BY <1>1, ClaimsNow DEF Transfer, Movable, Exists, Sellable, LineStatuses, StageStatuses,
     IInv, TypeOK, LineTypeOK, ClaimFacts
<1>4. \A l \in Whole(move) : Exists(l) /\ ~NamedBy(l, Committed)
  BY <1>1, <1>3, ClaimedLot DEF Whole, Parted
<1>5. \A l \in Lots : IF l \in Departs(move, cloneOf) THEN status'[l] = "In Transit"
                                                      ELSE status'[l] = status[l]
  BY DEF Transfer
<1>6. \A l \in Lots : Exists(l) /\ NamedBy(l, Committed) => l \notin Departs(move, cloneOf)
  BY <1>2, <1>4 DEF Departs, Exists, LineStatuses, StageStatuses
<1>7. \A l \in Lots : Exists(l) /\ NamedBy(l, Committed) => CommittedQty(l, {}) <= qty'[l]
  <2> SUFFICES ASSUME NEW l \in Lots, Exists(l), NamedBy(l, Committed)
               PROVE  CommittedQty(l, {}) <= qty'[l]
    OBVIOUS
  <2>1. CASE l \in Parted(move)
    <3>1. qty'[l] = qty[l] - move[l] /\ l \in S
      BY <1>1, <2>1 DEF Transfer, Parted
    <3> QED
      BY <1>3, <3>1
  <2>2. CASE l \notin Parted(move)
    <3>1. qty'[l] = qty[l]
      BY <1>6, <2>2 DEF Transfer, Departs
    <3> QED
      BY <3>1, ClaimedLot
  <2> QED
    BY <2>1, <2>2
<1>8. \A l \in Departs(move, cloneOf) : Exists(l) \/ status[l] = "none"
  BY <1>2, <1>4 DEF Departs
<1> QED
  BY <1>1, <1>5, <1>6, <1>7, <1>8, ClaimedLot, ClaimsStand DEF Exists

(* Where a line comes back to, it is a line.                                  *)
LEMMA LandsAtLine ==
  ASSUME MoveTypeOK, NEW l \in Lots
  PROVE  LandsAt(l) \in LineStatuses
  BY DEF MoveTypeOK, LandsAt, Sellable, LineStatuses, StageStatuses

LEMMA ReceiveClaims ==
  ASSUME IInv, TypeOK', NEW t \in TOs, Receive(t)
  PROVE  ClaimsOK'
<1>1. UNCHANGED <<archived, qty, soStatus, sol, soldQty>>
  BY DEF Receive, poVars, sellVars, saleLog
<1>2. \A l \in Lots : \/ status'[l] = status[l]
                      \/ status[l] = "In Transit" /\ status'[l] \in LineStatuses
  BY LandsAtLine DEF Receive, IInv, TypeOK
<1> QED
  BY <1>1, <1>2, ClaimedLot, ClaimsStand DEF Exists, LineStatuses, StageStatuses, Sellable

LEMMA ReopenClaims ==
  ASSUME IInv, TypeOK', NEW t \in TOs, Reopen(t)
  PROVE  ClaimsOK'
<1>1. UNCHANGED <<archived, qty, soStatus, sol, soldQty>>
  BY DEF Reopen, poVars, sellVars, saleLog
<1>2. \A l \in LinesOn(t) : Exists(l) /\ ~NamedBy(l, Committed)
  <2>1. \A l \in LinesOn(t) : l \in Lots /\ Exists(l)
    BY DEF LinesOn
  <2>2. \A l \in LinesOn(t) : CommittedQty(l, {}) = 0
    BY DEF Reopen, InStockAndFree
  <2> QED
    BY <2>1, <2>2, ClaimedLot
<1>3. \A l \in Lots : status'[l] = status[l] \/ (l \in LinesOn(t) /\ status'[l] = "In Transit")
  BY DEF Reopen
<1> QED
  BY <1>1, <1>2, <1>3, ClaimedLot, ClaimsStand DEF Exists, LineStatuses, StageStatuses

LEMMA DiscardClaims ==
  ASSUME IInv, TypeOK', NEW t \in TOs, Discard(t)
  PROVE  ClaimsOK'
<1>1. UNCHANGED <<archived, soStatus, sol, soldQty>>
  BY DEF Discard, poVars, sellVars, saleLog
<1>2. MergedOf(t) \subseteq LinesOn(t)
  BY DEF MergedOf
<1>3. \A l \in LinesOn(t) : Exists(l) /\ ~NamedBy(l, Committed)
  <2>1. \A l \in LinesOn(t) : l \in Lots /\ Exists(l)
    BY DEF LinesOn
  <2>2. \A l \in LinesOn(t) : CommittedQty(l, {}) = 0
    BY DEF Discard
  <2> QED
    BY <2>1, <2>2, ClaimedLot
<1>4. \A l \in Lots : \/ status'[l] = status[l]
                      \/ l \in LinesOn(t) /\ status'[l] \in LineStatuses \cup {"deleted"}
  BY <1>2, LandsAtLine DEF Discard, IInv, TypeOK
<1>5. ASSUME NEW l \in Lots \ LinesOn(t)
      PROVE  status'[l] = status[l] /\ qty[l] <= qty'[l]
  <2>1. qty'[l] = qty[l] + MergedUnits(t, l) /\ status'[l] = status[l]
    BY <1>2 DEF Discard
  <2>2. qty[l] \in Nat /\ MergedUnits(t, l) \in Nat
    BY MergedUnitsNat DEF IInv, TypeOK, LineTypeOK
  <2> QED
    BY <2>1, <2>2
<1>6. \A l \in Lots : Exists(l) /\ NamedBy(l, Committed) => CommittedQty(l, {}) <= qty'[l]
  <2> SUFFICES ASSUME NEW l \in Lots, Exists(l), NamedBy(l, Committed)
               PROVE  CommittedQty(l, {}) <= qty'[l]
    OBVIOUS
  <2>1. CommittedQty(l, {}) <= qty[l] /\ qty[l] <= qty'[l]
    BY <1>3, <1>5, ClaimedLot
  <2>2. CommittedQty(l, {}) \in Nat /\ qty[l] \in Nat /\ qty'[l] \in Nat
    BY ClaimsNow DEF IInv, TypeOK, LineTypeOK, ClaimFacts
  <2> QED
    BY <2>1, <2>2
<1> QED
  BY <1>1, <1>3, <1>4, <1>6, ClaimedLot, ClaimsStand DEF Exists, LineStatuses, StageStatuses

----------------------------------------------------------------------------
(* Actions on one sell order: the others hold what they held.                 *)
LEMMA OneOrder ==
  ASSUME TypeOK, TypeOK', NEW s \in SOs,
         \A x \in SOs \ {s} : soStatus'[x] = soStatus[x] /\ sol'[x] = sol[x],
         NEW l \in Lots
  PROVE  /\ CommittedQty(l, {s}) \in Nat
         /\ CommittedQty(l, {}) = CommittedQty(l, {s}) + HoldsOf(s, l)
         /\ CommittedQty(l, {})' = CommittedQty(l, {s}) + HoldsOf(s, l)'
<1> DEFINE S == CommittedOrders \ {s}
           m == QtyOn(l)
<1>1. S' = S
  BY DEF CommittedOrders
<1>2. \A x \in S : m'[x] = m[x]
  BY DEF CommittedOrders, QtyOn
<1>3. CommittedQty(l, {s})' = Total(m', S')
  BY DEF CommittedQty
<1> HIDE DEF S, m
<1>4. Total(m', S) = Total(m, S)
  BY <1>2, TotalSame
<1> USE DEF S, m
<1>5. CommittedQty(l, {s})' = CommittedQty(l, {s})
  BY <1>1, <1>3, <1>4 DEF CommittedQty
<1> QED
  BY <1>5, ClaimsNow, ClaimsNext DEF TypeOK, ClaimFacts

LEMMA OrderStands ==
  ASSUME IInv, TypeOK', NEW s \in SOs, UNCHANGED <<status, qty, archived, soldQty>>,
         \A x \in SOs \ {s} : soStatus'[x] = soStatus[x] /\ sol'[x] = sol[x],
         soStatus'[s] # "Done",
         \A l \in Lots : sol'[s][l] > 0 => status[l] # "none",
         \A l \in Lots : Exists(l) /\ soStatus'[s] \in Committed /\ sol'[s][l] > 0 =>
           Sells(s, sol'[s], l)
  PROVE  ClaimsOK'
<1>1. NamesKnown'
  BY DEF IInv, ClaimsOK, NamesKnown
<1>2. SaleFits'
  BY DEF IInv, ClaimsOK, SaleFits, Exists
<1>3. ASSUME NEW l \in Lots, Exists(l)
      PROVE  /\ CommittedQty(l, {})' <= qty[l]
             /\ CommittedQty(l, {})' > 0 => status[l] \in Sellable /\ PoOf[l] \notin archived
  <2>1. /\ CommittedQty(l, {s}) \in Nat
        /\ CommittedQty(l, {}) = CommittedQty(l, {s}) + HoldsOf(s, l)
        /\ CommittedQty(l, {})' = CommittedQty(l, {s}) + HoldsOf(s, l)'
    BY OneOrder DEF IInv
  <2>2. HoldsOf(s, l) \in Nat /\ qty[l] \in Nat
    BY DEF IInv, TypeOK, SellTypeOK, LineTypeOK, HoldsOf
  <2>3. CASE HoldsOf(s, l)' = 0
    <3>1. /\ CommittedQty(l, {}) <= qty[l]
          /\ CommittedQty(l, {}) > 0 => status[l] \in Sellable /\ PoOf[l] \notin archived
      BY <1>3 DEF IInv, ClaimsOK, NoOversell, CommittedSellable
    <3> QED
      BY <2>1, <2>2, <2>3, <3>1
  <2>4. CASE HoldsOf(s, l)' # 0
    <3>1. sol'[s][l] \in Nat
      BY DEF TypeOK, SellTypeOK
    <3>2. soStatus'[s] \in Committed /\ HoldsOf(s, l)' = sol'[s][l] /\ sol'[s][l] > 0
      BY <2>4, <3>1 DEF HoldsOf
    <3>3. Sells(s, sol'[s], l)
      BY <1>3, <3>2
    <3> QED
      BY <2>1, <2>2, <3>1, <3>2, <3>3 DEF Sells
  <2> QED
    BY <2>3, <2>4
<1> QED
  BY <1>1, <1>2, <1>3 DEF ClaimsOK, NoOversell, CommittedSellable, Exists

LEMMA CreateDraftClaims ==
  ASSUME IInv, TypeOK', NEW s \in SOs, NEW want \in [Lots -> Nat], CreateDraft(s, want)
  PROVE  ClaimsOK'
<1>1. UNCHANGED <<status, qty, archived, soldQty>>
  BY DEF CreateDraft, lineVars, poVars, saleLog
<1>2. \A x \in SOs \ {s} : soStatus'[x] = soStatus[x] /\ sol'[x] = sol[x]
  BY DEF CreateDraft, IInv, TypeOK, SellTypeOK
<1>3. soStatus'[s] = "Draft" /\ sol'[s] = want
  BY DEF CreateDraft, IInv, TypeOK, SellTypeOK
<1>4. \A l \in Lots : want[l] > 0 => status[l] # "none"
  BY DEF CreateDraft, Validates, Sells, Sellable
<1> QED
  BY <1>1, <1>2, <1>3, <1>4, OrderStands DEF Committed

LEMMA RewriteLinesClaims ==
  ASSUME IInv, TypeOK', NEW s \in SOs, NEW want \in [Lots -> Nat], NEW atZero \in SUBSET Lots,
         RewriteLines(s, want, atZero)
  PROVE  ClaimsOK'
<1>1. UNCHANGED <<status, qty, archived, soldQty>>
  BY DEF RewriteLines, lineVars, poVars, saleLog
<1>2. \A x \in SOs \ {s} : soStatus'[x] = soStatus[x] /\ sol'[x] = sol[x]
  BY DEF RewriteLines, IInv, TypeOK, SellTypeOK
<1>3. soStatus'[s] # "Done" /\ sol'[s] = want
  BY DEF RewriteLines, IInv, TypeOK, SellTypeOK, Open, Proposal, Committed
<1>4. \A l \in Lots : want[l] > 0 => status[l] = "deleted" \/ Sells(s, want, l)
  BY DEF RewriteLines, Validates
<1>5. \A l \in Lots : want[l] > 0 => status[l] # "none"
  BY <1>4 DEF Sells, Sellable
<1>6. \A l \in Lots : Exists(l) /\ want[l] > 0 => Sells(s, want, l)
  BY <1>4 DEF Exists, LineStatuses, StageStatuses
<1> QED
  BY <1>1, <1>2, <1>3, <1>5, <1>6, OrderStands

----------------------------------------------------------------------------
(* Status moves.  An order on its way to claim or sell its units has them:    *)
(* just validated, or held since it was.                                      *)
LEMMA MoveFrom ==
  ASSUME NEW s, NEW to \in Committed \cup {"Done"}, MayMove(s, to), soStatus[s] # "Done"
  PROVE  soStatus[s] \in Open
<1>1. to \notin {"Draft", "Packing", "Closed"}
  BY DEF Committed
<1>2. soStatus[s] \in SellStatuses /\ to \in Allowed[soStatus[s]]
  BY DEF MayMove
<1>3. Allowed["Closed"] = {"Draft"}
  BY DEF Allowed, SellStatuses
<1> QED
  BY <1>1, <1>2, <1>3 DEF SellStatuses

LEMMA PromotionServed ==
  ASSUME IInv, NEW s \in SOs, NEW to \in Committed \cup {"Done"}, MayMove(s, to),
         soStatus[s] # "Done", NEW l \in Lots, Exists(l), sol[s][l] > 0
  PROVE  Sells(s, sol[s], l)
<1>1. soStatus[s] \in Open
  BY MoveFrom
<1>2. CASE soStatus[s] \in Proposal
  <2>1. Validates(s, sol[s])
    BY <1>2 DEF MayMove, Claims, Proposal, Committed
  <2> QED
    BY <2>1 DEF Validates, Exists, LineStatuses, StageStatuses
<1>3. CASE soStatus[s] \in Committed
  <2>1. NamedBy(l, Committed)
    BY <1>3 DEF NamedBy
  <2>2. /\ CommittedQty(l, {}) <= qty[l]
        /\ status[l] \in Sellable /\ PoOf[l] \notin archived
    BY <2>1, ClaimedLot
  <2>3. CommittedQty(l, {s}) \in Nat /\ CommittedQty(l, {}) = CommittedQty(l, {s}) + sol[s][l]
    BY <1>3, ClaimsNow DEF IInv, TypeOK, ClaimFacts, HoldsOf
  <2>4. sol[s][l] \in Nat /\ qty[l] \in Nat
    BY DEF IInv, TypeOK, SellTypeOK, LineTypeOK
  <2> QED
    BY <2>2, <2>3, <2>4 DEF Sells
<1> QED
  BY <1>1, <1>2, <1>3 DEF Open

LEMMA MoveClaims ==
  ASSUME IInv, TypeOK', NEW s \in SOs, NEW to \in SellStatuses, Move(s, to)
  PROVE  ClaimsOK'
<1>1. UNCHANGED <<status, qty, archived, soldQty, sol>>
  BY DEF Move, lineVars, poVars, saleLog
<1>2. \A x \in SOs \ {s} : soStatus'[x] = soStatus[x]
  BY DEF Move, IInv, TypeOK, SellTypeOK
<1>3. soStatus'[s] = to /\ to # "Done" /\ soStatus[s] # "Done" /\ MayMove(s, to)
  BY DEF Move, IInv, TypeOK, SellTypeOK
<1>4. \A l \in Lots : sol[s][l] > 0 => status[l] # "none"
  BY DEF IInv, ClaimsOK, NamesKnown
<1>5. \A l \in Lots : Exists(l) /\ to \in Committed /\ sol[s][l] > 0 => Sells(s, sol[s], l)
  BY <1>3, PromotionServed
<1> QED
  BY <1>1, <1>2, <1>3, <1>4, <1>5, OrderStands

LEMMA MarkDoneTakes ==
  ASSUME IInv, NEW s \in SOs, MarkDone(s), NEW l \in Lots, Exists(l), sol[s][l] > 0
  PROVE  /\ status[l] \in Sellable /\ PoOf[l] \notin archived
         /\ sol[s][l] + CommittedQty(l, {s}) <= qty[l]
<1>1. MayMove(s, "Done") /\ "Done" \in Committed \cup {"Done"}
  BY DEF MarkDone
<1>2. soStatus[s] # "Done"
  BY <1>1 DEF MayMove, Allowed, SellStatuses
<1> QED
  BY <1>1, <1>2, PromotionServed DEF Sells

LEMMA MarkDoneClaims ==
  ASSUME IInv, TypeOK', NEW s \in SOs, MarkDone(s)
  PROVE  ClaimsOK'
<1>1. /\ UNCHANGED <<archived, sol>> /\ soStatus'[s] = "Done"
      /\ \A x \in SOs \ {s} : /\ soStatus'[x] = soStatus[x] /\ sol'[x] = sol[x]
                              /\ soldQty'[x] = soldQty[x]
  BY DEF MarkDone, poVars, IInv, TypeOK, SellTypeOK, LogTypeOK
<1>2. \A l \in Lots : \/ status'[l] = status[l]
                      \/ l \in Taken(s) /\ SoldOut(s, l) /\ status'[l] = "Sold"
  BY DEF MarkDone
<1>3. \A l \in Lots : Exists(l)' => Exists(l)
  BY <1>2 DEF Exists, Taken
<1>4. NamesKnown'
  <2>1. \A l \in Lots : status[l] # "none" => status'[l] # "none"
    BY <1>2
  <2> QED
    BY <1>1, <2>1 DEF IInv, ClaimsOK, NamesKnown
<1>5. SaleFits'
  <2> SUFFICES ASSUME NEW x \in SOs, NEW l \in Lots, soStatus'[x] = "Done", Exists(l)
               PROVE  sol[x][l] <= soldQty'[x][l]
    BY <1>1, <1>3 DEF SaleFits
  <2>1. CASE x # s
    BY <1>1, <2>1 DEF IInv, ClaimsOK, SaleFits
  <2>2. CASE x = s /\ sol[s][l] > 0
    <3>1. soldQty'[s][l] = qty[l]
      BY <2>2 DEF MarkDone, Taken, IInv, TypeOK, LogTypeOK
    <3>2. sol[s][l] + CommittedQty(l, {s}) <= qty[l]
      BY <2>2, MarkDoneTakes
    <3>3. sol[s][l] \in Nat /\ CommittedQty(l, {s}) \in Nat /\ qty[l] \in Nat
      BY ClaimsNow DEF IInv, TypeOK, SellTypeOK, LineTypeOK, ClaimFacts
    <3> QED
      BY <2>2, <3>1, <3>2, <3>3
  <2>3. CASE x = s /\ ~(sol[s][l] > 0)
    <3>1. sol[s][l] \in Nat /\ soldQty'[s][l] \in Nat
      BY DEF IInv, TypeOK, SellTypeOK, LogTypeOK
    <3> QED
      BY <2>3, <3>1
  <2> QED
    BY <2>1, <2>2, <2>3
<1>6. ASSUME NEW l \in Lots, Exists(l)
      PROVE  /\ CommittedQty(l, {})' <= qty'[l]
             /\ CommittedQty(l, {})' > 0 => status'[l] \in Sellable /\ PoOf[l] \notin archived
  <2>1. /\ CommittedQty(l, {s}) \in Nat
        /\ CommittedQty(l, {}) = CommittedQty(l, {s}) + HoldsOf(s, l)
        /\ CommittedQty(l, {})' = CommittedQty(l, {s}) + HoldsOf(s, l)'
    BY <1>1, OneOrder DEF IInv
  <2>2. HoldsOf(s, l)' = 0
    BY <1>1 DEF HoldsOf, Committed
  <2>3. HoldsOf(s, l) \in Nat /\ sol[s][l] \in Nat /\ qty[l] \in Nat
    BY DEF IInv, TypeOK, SellTypeOK, LineTypeOK, HoldsOf
  <2>4. CASE sol[s][l] > 0 /\ SoldOut(s, l)
    <3>1. sol[s][l] + CommittedQty(l, {s}) <= qty[l] /\ qty[l] - sol[s][l] <= 0
      BY <1>6, <2>4, MarkDoneTakes DEF SoldOut
    <3>2. qty'[l] = qty[l]
      BY <2>4 DEF MarkDone
    <3> QED
      BY <2>1, <2>2, <2>3, <3>1, <3>2
  <2>5. CASE sol[s][l] > 0 /\ ~SoldOut(s, l)
    <3>1. /\ sol[s][l] + CommittedQty(l, {s}) <= qty[l]
          /\ status[l] \in Sellable /\ PoOf[l] \notin archived
      BY <1>6, <2>5, MarkDoneTakes
    <3>2. qty'[l] = qty[l] - sol[s][l] /\ status'[l] = status[l]
      BY <1>6, <2>5 DEF MarkDone, Taken
    <3> QED
      BY <2>1, <2>2, <2>3, <3>1, <3>2
  <2>6. CASE ~(sol[s][l] > 0)
    <3>1. qty'[l] = qty[l] /\ status'[l] = status[l]
      BY <2>6 DEF MarkDone, Taken
    <3>2. /\ CommittedQty(l, {}) <= qty[l]
          /\ CommittedQty(l, {}) > 0 => status[l] \in Sellable /\ PoOf[l] \notin archived
      BY <1>6 DEF IInv, ClaimsOK, NoOversell, CommittedSellable
    <3> QED
      BY <2>1, <2>2, <2>3, <3>1, <3>2
  <2> QED
    BY <2>4, <2>5, <2>6
<1> QED
  BY <1>1, <1>3, <1>4, <1>5, <1>6 DEF ClaimsOK, NoOversell, CommittedSellable

LEMMA ReopenSaleClaims ==
  ASSUME IInv, TypeOK', NEW s \in SOs, ReopenSale(s)
  PROVE  ClaimsOK'
<1>1. /\ UNCHANGED <<archived, sol>>
      /\ soStatus[s] = "Done" /\ soStatus'[s] = "Awaiting payment"
      /\ \A x \in SOs \ {s} : /\ soStatus'[x] = soStatus[x] /\ sol'[x] = sol[x]
                              /\ soldQty'[x] = soldQty[x]
  BY DEF ReopenSale, poVars, IInv, TypeOK, SellTypeOK, LogTypeOK
<1>2. \A l \in Taken(s) : /\ l \in Lots /\ Exists(l) /\ sol[s][l] > 0
                          /\ PoOf[l] \notin archived /\ BackStatus(l) \in Sellable
                          /\ status'[l] = BackStatus(l)
  BY DEF ReopenSale, Taken, TakesBack
<1>3. \A l \in Lots \ Taken(s) : status'[l] = status[l] /\ qty'[l] = qty[l]
  BY DEF ReopenSale
<1>4. \A l \in Lots : /\ Exists(l)' => Exists(l)
                      /\ status[l] # "none" => status'[l] # "none"
  BY <1>2, <1>3 DEF Exists, Sellable
<1>5. NamesKnown'
  BY <1>1, <1>4 DEF IInv, ClaimsOK, NamesKnown
<1>6. SaleFits'
  BY <1>1, <1>4 DEF IInv, ClaimsOK, SaleFits
<1>7. ASSUME NEW l \in Lots, Exists(l)
      PROVE  /\ CommittedQty(l, {})' <= qty'[l]
             /\ CommittedQty(l, {})' > 0 => status'[l] \in Sellable /\ PoOf[l] \notin archived
  <2>1. /\ CommittedQty(l, {s}) \in Nat
        /\ CommittedQty(l, {}) = CommittedQty(l, {s}) + HoldsOf(s, l)
        /\ CommittedQty(l, {})' = CommittedQty(l, {s}) + HoldsOf(s, l)'
    BY <1>1, OneOrder DEF IInv
  <2>2. HoldsOf(s, l) = 0 /\ HoldsOf(s, l)' = sol[s][l]
    BY <1>1 DEF HoldsOf, Committed
  <2>3. sol[s][l] \in Nat /\ qty[l] \in Nat
    BY DEF IInv, TypeOK, SellTypeOK, LineTypeOK
  <2>4. /\ CommittedQty(l, {}) <= qty[l]
        /\ CommittedQty(l, {}) > 0 => status[l] \in Sellable /\ PoOf[l] \notin archived
    BY <1>7 DEF IInv, ClaimsOK, NoOversell, CommittedSellable
  <2>5. CASE l \in Taken(s)
    <3>1. BackQty(s, l) = sol[s][l]
      BY <1>1, <1>7 DEF BackQty, IInv, ClaimsOK, SaleFits
    <3>2. CASE status[l] = "Sold"
      <4>1. CommittedQty(l, {}) = 0
        BY <2>1, <2>2, <2>4, <3>2 DEF Sellable
      <4>2. qty'[l] = sol[s][l]
        BY <2>5, <3>1, <3>2 DEF ReopenSale
      <4> QED
        BY <1>2, <2>1, <2>2, <2>3, <2>5, <4>1, <4>2
    <3>3. CASE status[l] # "Sold"
      <4>1. qty'[l] = qty[l] + sol[s][l]
        BY <2>5, <3>1, <3>3 DEF ReopenSale
      <4> QED
        BY <1>2, <2>1, <2>2, <2>3, <2>4, <2>5, <4>1
    <3> QED
      BY <3>2, <3>3
  <2>6. CASE l \notin Taken(s)
    <3>1. sol[s][l] = 0
      BY <1>7, <2>3, <2>6 DEF Taken
    <3> QED
      BY <1>3, <2>1, <2>2, <2>4, <2>6, <3>1
  <2> QED
    BY <2>5, <2>6
<1> QED
  BY <1>1, <1>4, <1>5, <1>6, <1>7 DEF ClaimsOK, NoOversell, CommittedSellable

LEMMA SellArchiveClaims ==
  ASSUME IInv, TypeOK', NEW s \in SOs, ArchiveSellOrder(s) \/ UnarchiveSellOrder(s)
  PROVE  ClaimsOK'
<1>1. UNCHANGED <<status, qty, archived, soStatus, sol, soldQty>>
  BY DEF ArchiveSellOrder, UnarchiveSellOrder, lineVars, poVars, saleLog
<1> QED
  BY <1>1, ClaimedLot, ClaimsStand DEF Exists

----------------------------------------------------------------------------
(* Archiving a purchase order takes its lots off every open sell order, and   *)
(* leaves the rest of what they hold as it was.                               *)
LEMMA ArchiveOrderClaims ==
  ASSUME IInv, TypeOK', NEW o \in POs, NEW removeFromSellOrders,
         ArchiveOrder(o, removeFromSellOrders)
  PROVE  ClaimsOK'
<1>1. UNCHANGED <<qty, soStatus, soldQty>> /\ archived' = archived \cup {o}
  BY DEF ArchiveOrder, saleLog
<1>2. \A s \in SOs, l \in Lots :
        sol'[s][l] = IF <<s, l>> \in ArchiveClaims(o) THEN 0 ELSE sol[s][l]
  BY DEF ArchiveOrder
<1>3. status' = Cascade(o, "Archived", {})
  BY DEF ArchiveOrder
<1>4. \A l \in Lots : status'[l] = status[l] \/ (Exists(l) /\ status'[l] \in LineStatuses)
  BY <1>3, CascadeKeepsLines DEF LineStatuses
<1>5. \A l \in Lots \ LinesOf(o) : status'[l] = status[l]
  BY <1>3 DEF Cascade
<1>6. \A s \in SOs, l \in Lots :
        /\ sol[s][l] \in Nat /\ sol'[s][l] \in Nat
        /\ sol'[s][l] <= sol[s][l] /\ (sol'[s][l] > 0 => sol[s][l] > 0)
  <2> SUFFICES ASSUME NEW s \in SOs, NEW l \in Lots
               PROVE  /\ sol[s][l] \in Nat /\ sol'[s][l] \in Nat
                      /\ sol'[s][l] <= sol[s][l] /\ (sol'[s][l] > 0 => sol[s][l] > 0)
    OBVIOUS
  <2>1. sol[s][l] \in Nat
    BY DEF IInv, TypeOK, SellTypeOK
  <2>2. sol'[s][l] = 0 \/ sol'[s][l] = sol[s][l]
    BY <1>2
  <2> QED
    BY <2>1, <2>2
<1>7. NamesKnown'
  BY <1>4, <1>6 DEF IInv, ClaimsOK, NamesKnown, Exists, LineStatuses, StageStatuses
<1>8. SaleFits'
  <2> SUFFICES ASSUME NEW s \in SOs, NEW l \in Lots, soStatus[s] = "Done", Exists(l)'
               PROVE  sol'[s][l] <= soldQty[s][l]
    BY <1>1 DEF SaleFits
  <2>1. CASE Exists(l)
    <3>1. sol[s][l] <= soldQty[s][l]
      BY <2>1 DEF IInv, ClaimsOK, SaleFits
    <3>2. soldQty[s][l] \in Nat
      BY DEF IInv, TypeOK, LogTypeOK
    <3> QED
      BY <1>6, <3>1, <3>2
  <2>2. CASE ~Exists(l)
    BY <1>4, <2>2 DEF Exists
  <2> QED
    BY <2>1, <2>2
<1>9. ASSUME NEW l \in Lots, Exists(l)
      PROVE  /\ CommittedQty(l, {})' <= qty[l]
             /\ CommittedQty(l, {})' > 0 => status'[l] \in Sellable /\ PoOf[l] \notin archived'
  <2> DEFINE S == CommittedOrders \ {}
             m == QtyOn(l)
  <2>1. /\ S \subseteq SOs /\ IsFiniteSet(S) /\ S' = S
        /\ \A s \in S : m[s] \in Nat /\ m'[s] \in Nat /\ m'[s] <= m[s]
    <3>1. S \subseteq SOs /\ IsFiniteSet(S)
      BY StockAssumption, FS_Subset DEF StockAssumption, CommittedOrders
    <3>2. S' = S
      BY <1>1 DEF CommittedOrders
    <3> QED
      BY <1>6, <3>1, <3>2 DEF QtyOn
  <2> HIDE DEF S, m
  <2>2. Total(m', S) <= Total(m, S)
    BY <2>1, TotalMonotone
  <2> USE DEF S, m
  <2>3. CommittedQty(l, {})' <= CommittedQty(l, {})
    BY <2>1, <2>2 DEF CommittedQty
  <2>4. CommittedQty(l, {}) \in Nat /\ CommittedQty(l, {})' \in Nat /\ qty[l] \in Nat
    BY ClaimsNow, ClaimsNext DEF IInv, TypeOK, LineTypeOK, ClaimFacts
  <2>5. /\ CommittedQty(l, {}) <= qty[l]
        /\ CommittedQty(l, {}) > 0 => status[l] \in Sellable /\ PoOf[l] \notin archived
    BY <1>9 DEF IInv, ClaimsOK, NoOversell, CommittedSellable
  <2>6. CASE l \notin LinesOf(o)
    <3>1. PoOf[l] # o
      BY <1>9, <2>6 DEF LinesOf
    <3> QED
      BY <1>1, <1>5, <2>3, <2>4, <2>5, <2>6, <3>1
  <2>7. CASE l \in LinesOf(o)
    <3>1. ASSUME CommittedQty(l, {})' > 0
          PROVE  FALSE
      <4>1. PICK s \in SOs : soStatus[s] \in Committed /\ sol'[s][l] > 0
        BY <1>1, <3>1, ClaimsNext DEF TypeOK, ClaimFacts, NamedBy
      <4>2. sol[s][l] > 0 /\ soStatus[s] \in Open
        BY <1>6, <4>1 DEF Open
      <4>3. CommittedQty(l, {}) > 0
        BY <2>3, <2>4, <3>1
      <4>4. status[l] # "Sold"
        BY <2>5, <4>3 DEF Sellable
      <4>5. <<s, l>> \in ArchiveClaims(o)
        BY <2>7, <4>2, <4>4 DEF ArchiveClaims
      <4> QED
        BY <1>2, <4>1, <4>5
    <3> QED
      BY <2>3, <2>4, <2>5, <3>1
  <2> QED
    BY <2>6, <2>7
<1>10. \A l \in Lots : Exists(l)' => Exists(l)
  BY <1>4 DEF Exists
<1> QED
  BY <1>1, <1>7, <1>8, <1>9, <1>10 DEF ClaimsOK, NoOversell, CommittedSellable

----------------------------------------------------------------------------
(* Every step.                                                                *)
LEMMA InitIInv == Init => IInv
<1> SUFFICES ASSUME Init PROVE IInv
  OBVIOUS
<1>1. TypeOK
  BY InitTypes
<1>2. /\ \A l \in Lots : ~Exists(l)
      /\ \A s \in SOs, l \in Lots : sol[s][l] = 0
  BY DEF Init, Exists, LineStatuses, StageStatuses
<1>3. ClaimsOK
  BY <1>2 DEF ClaimsOK, NamesKnown, SaleFits, NoOversell, CommittedSellable
<1> QED
  BY <1>1, <1>3 DEF IInv

LEMMA PurchaseOrderStep ==
  ASSUME IInv, NEW o \in POs, PurchaseOrderNext(o)
  PROVE  IInv'
<1> USE DEF IInv
<1>1. ASSUME NEW S \in SUBSET (Lots \ Clones), NEW bought \in [S -> Qtys],
             CreateOrder(o, bought)
      PROVE  IInv'
  <2>1. S \in SUBSET Lots
    OBVIOUS
  <2> QED
    BY <1>1, <2>1, CreateOrderTypes, CreateOrderClaims
<1>2. ASSUME NEW stage \in Stages, Advance(o, stage)
      PROVE  IInv'
  <2>1. stage \in Lifecycles
    BY StockAssumption DEF StockAssumption
  <2> QED
    BY <1>2, <2>1, AdvanceTypes, AdvanceClaims
<1>3. ASSUME PatchHeader(o)
      PROVE  IInv'
  BY <1>3, PatchHeaderTypes, PatchHeaderClaims
<1>4. ASSUME NEW manager \in BOOLEAN, NEW l \in Lots \ Clones, NEW n \in Qtys,
             PatchAddLine(o, manager, l, n)
      PROVE  IInv'
  <2>1. n \in Nat /\ l \in Lots
    BY DEF Qtys
  <2> QED
    BY <1>4, <2>1, PatchAddLineTypes, PatchAddLineClaims
<1>5. ASSUME NEW manager \in BOOLEAN, NEW l \in Lots, PatchRemoveLine(o, manager, l)
      PROVE  IInv'
  BY <1>5, PatchRemoveLineTypes, PatchRemoveLineClaims
<1>6. ASSUME NEW manager \in BOOLEAN, NEW l \in Lots, NEW q \in Counts,
             PatchRecount(o, manager, l, q)
      PROVE  IInv'
  <2>1. q \in Nat
    BY StockAssumption DEF StockAssumption
  <2> QED
    BY <1>6, <2>1, PatchRecountTypes, PatchRecountClaims
<1>7. ASSUME NEW removeFromSellOrders \in BOOLEAN, ArchiveOrder(o, removeFromSellOrders)
      PROVE  IInv'
  BY <1>7, ArchiveOrderTypes, ArchiveOrderClaims
<1>8. ASSUME UnarchiveOrder(o)
      PROVE  IInv'
  BY <1>8, UnarchiveOrderTypes, UnarchiveOrderClaims
<1>9. ASSUME DeleteOrder(o)
      PROVE  IInv'
  BY <1>9, DeleteOrderTypes, DeleteOrderClaims
<1> HIDE DEF IInv
<1> QED
  BY <1>1, <1>2, <1>3, <1>4, <1>5, <1>6, <1>7, <1>8, <1>9 DEF PurchaseOrderNext

LEMMA EditLotStep ==
  ASSUME IInv, NEW l \in Lots, EditLotNext(l)
  PROVE  IInv'
<1> SUFFICES ASSUME NEW manager, NEW st \in LineStatuses, NEW q \in Nat,
                    EditLot(l, manager, st, q)
             PROVE  IInv'
  <2>1. qty[l] \in Nat /\ Counts \subseteq Nat
    BY StockAssumption DEF StockAssumption, IInv, TypeOK, LineTypeOK
  <2>2. StageStatuses \cup {"Sold"} \subseteq LineStatuses
    BY DEF LineStatuses
  <2>3. ASSUME NEW manager, NEW q, EditLot(l, manager, status[l], q)
        PROVE  status[l] \in LineStatuses
    BY <2>3 DEF EditLot, Exists
  <2> QED
    BY <2>1, <2>2, <2>3 DEF EditLotNext
<1>1. TypeOK'
  BY EditLotTypes DEF IInv, LineStates
<1> QED
  BY <1>1, EditLotClaims DEF IInv

LEMMA SellOrderStep ==
  ASSUME IInv, NEW s \in SOs, SellOrderNext(s)
  PROVE  IInv'
<1> USE DEF IInv
<1>1. [Lots -> 0 .. MaxQty] \subseteq [Lots -> Nat]
  BY StockAssumption DEF StockAssumption
<1>2. ASSUME NEW want \in [Lots -> 0 .. MaxQty], CreateDraft(s, want)
      PROVE  IInv'
  BY <1>1, <1>2, CreateDraftTypes, CreateDraftClaims
<1>3. ASSUME NEW want \in [Lots -> 0 .. MaxQty], NEW atZero \in SUBSET Lots,
             RewriteLines(s, want, atZero)
      PROVE  IInv'
  BY <1>1, <1>3, RewriteLinesTypes, RewriteLinesClaims
<1>4. ASSUME NEW to \in SellMoves, Move(s, to)
      PROVE  IInv'
  <2>1. to \in SellStatuses
    BY StockAssumption DEF StockAssumption
  <2> QED
    BY <1>4, <2>1, MoveTypes, MoveClaims
<1>5. ASSUME MarkDone(s)
      PROVE  IInv'
  <2>1. \A l \in Taken(s) : status[l] \in Sellable
    BY <1>5, MarkDoneTakes DEF Taken
  <2> QED
    BY <1>5, <2>1, MarkDoneTypes, MarkDoneClaims
<1>6. ASSUME ReopenSale(s)
      PROVE  IInv'
  BY <1>6, ReopenSaleTypes, ReopenSaleClaims
<1>7. ASSUME ArchiveSellOrder(s) \/ UnarchiveSellOrder(s)
      PROVE  IInv'
  BY <1>7, SellArchiveTypes, SellArchiveClaims
<1> HIDE DEF IInv
<1> QED
  BY <1>2, <1>3, <1>4, <1>5, <1>6, <1>7 DEF SellOrderNext

LEMMA TransferStep ==
  ASSUME IInv, NEW t \in TOs, TransferNext(t)
  PROVE  IInv'
<1> USE DEF IInv
<1>1. ASSUME NEW S \in SUBSET Lots, NEW move \in [S -> Qtys], NEW cloneOf,
             Transfer(t, move, cloneOf)
      PROVE  IInv'
  <2>1. move \in [S -> Nat]
    BY DEF Qtys
  <2> QED
    BY <1>1, <2>1, TransferTypes, TransferClaims
<1>2. ASSUME Receive(t)
      PROVE  IInv'
  BY <1>2, ReceiveTypes, ReceiveClaims
<1>3. ASSUME Reopen(t)
      PROVE  IInv'
  BY <1>3, ReopenTypes, ReopenClaims
<1>4. ASSUME Discard(t)
      PROVE  IInv'
  BY <1>4, DiscardTypes, DiscardClaims
<1> HIDE DEF IInv
<1> QED
  BY <1>1, <1>2, <1>3, <1>4 DEF TransferNext

LEMMA StutterIInv == IInv /\ UNCHANGED vars => IInv'
<1> SUFFICES ASSUME IInv, UNCHANGED vars PROVE IInv'
  OBVIOUS
<1>1. UNCHANGED <<poVars, lineVars, sellVars, moveVars, archivedFrom, saleLog, handled>>
  BY DEF vars
<1>2. TypeOK'
  BY <1>1, TypesFrame DEF IInv, TypeOK
<1>3. UNCHANGED <<status, qty, archived, soStatus, sol, soldQty>>
  BY <1>1 DEF poVars, lineVars, sellVars, saleLog
<1> QED
  BY <1>2, <1>3, ClaimedLot, ClaimsStand DEF IInv, Exists

(* The inductive invariant, for any sets of orders, lots and transfers.       *)
THEOREM Invariant == Spec => []IInv
<1>1. Init => IInv
  BY InitIInv
<1>2. IInv /\ [Next]_vars => IInv'
  BY PurchaseOrderStep, EditLotStep, SellOrderStep, TransferStep, StutterIInv DEF Next
<1> QED
  BY <1>1, <1>2, PTL DEF Spec

(* Every reachable state is well typed: in particular every status a sale,    *)
(* a transfer or an archive records to come back to is one it may come back   *)
(* to, and no quantity is ever negative.                                      *)
THEOREM TypeCorrect == Spec => []TypeOK
  BY Invariant, PTL DEF IInv

(* No unit is promised twice: the committed sell orders never hold more of a  *)
(* lot than it has, whatever stage moves, recounts, transfers, sales and      *)
(* reopened sales happen between their claims.                                *)
THEOREM NeverOversold == Spec => []NoOversell
<1>1. IInv => NoOversell
  BY DEF IInv, ClaimsOK
<1> QED
  BY <1>1, Invariant, PTL

(* No claimed lot leaves the statuses it can be sold from, nor its purchase   *)
(* order the inbox, while it is claimed.                                      *)
THEOREM ClaimedStaySellable == Spec => []CommittedSellable
<1>1. IInv => CommittedSellable
  BY DEF IInv, ClaimsOK
<1> QED
  BY <1>1, Invariant, PTL

(* The cap that reopening a sale puts on the units it hands back never bites: *)
(* a sale took no more of a lot than the lot had.                             *)
THEOREM SalesFit == Spec => []SaleFits
<1>1. IInv => SaleFits
  BY DEF IInv, ClaimsOK
<1> QED
  BY <1>1, Invariant, PTL

----------------------------------------------------------------------------
(* What a step may do to a lot that sell orders name.                         *)
HeldStays(l) == status[l] = "Done" /\ NamedBy(l, Committed) => status'[l] # "Reviewing"
DraftsServed(l) ==
  /\ lifecycle[PoOf[l]]' # lifecycle[PoOf[l]] /\ status[l] \in Sellable /\ NamedBy(l, Open)
  => status'[l] \in Sellable

LEMMA ReviewingIsAhead == "Done" \in StatusesAheadOf("Reviewing")
<1>1. LineStatusOrder[3] = "Reviewing" /\ LineStatusOrder[4] = "Done"
  BY DEF LineStatusOrder
<1>2. 3 \in 1 .. 4 /\ 4 \in 1 .. 4 /\ 3 < 4
  OBVIOUS
<1> QED
  BY <1>1, <1>2 DEF StatusesAheadOf

LEMMA CascadeServes ==
  ASSUME NEW o, NEW st \in StageStatuses, ~CascadeBlocked(o, st), NEW keep,
         NEW l \in Lots, status[l] \in Sellable, NamedBy(l, Open)
  PROVE  Cascade(o, st, keep)[l] \in Sellable
<1>1. CASE st \in Sellable
  BY <1>1 DEF Cascade
<1>2. CASE st \notin Sellable
  <2>1. CommittedLines(o, StatusesAheadOf(st), Open) = {} /\ status[l] \in StatusesAheadOf(st)
    BY <1>2, StatusesAhead DEF CascadeBlocked
  <2>2. l \notin LinesOf(o)
    BY <2>1 DEF CommittedLines
  <2> QED
    BY <2>2 DEF Cascade
<1> QED
  BY <1>1, <1>2

LEMMA RevertServes ==
  ASSUME NEW o, NEW manager, NEW l \in Lots
  PROVE  /\ status[l] # "Reviewing" => StatusAfterRevert(o, manager)[l] # "Reviewing"
         /\ Reverts(o, manager) /\ ~CascadeBlocked(o, "Draft") /\ status[l] \in Sellable
              /\ NamedBy(l, Open) => StatusAfterRevert(o, manager)[l] \in Sellable
         /\ Landing(o, manager) # lifecycle[o] => Reverts(o, manager)
<1>1. "Draft" \in StageStatuses
  BY DEF StageStatuses
<1>2. status[l] # "Reviewing" => StatusAfterRevert(o, manager)[l] # "Reviewing"
  BY DEF StatusAfterRevert, Cascade
<1> QED
  BY <1>1, <1>2, CascadeServes DEF StatusAfterRevert, Landing

LEMMA AdvanceStays ==
  ASSUME NEW o, NEW stage \in Lifecycles, Advance(o, stage), NEW l \in Lots
  PROVE  HeldStays(l) /\ DraftsServed(l)
<1> DEFINE st == LineStatusFor[stage]
           keep == HeldBack(o, st)
<1>1. st \in StageStatuses /\ ~CascadeBlocked(o, st) /\ status' = Cascade(o, st, keep)
  BY StageToStatus DEF Advance
<1> HIDE DEF st
<1>2. HeldStays(l)
  <2> SUFFICES ASSUME status[l] = "Done", NamedBy(l, Committed), status'[l] = "Reviewing"
               PROVE  FALSE
    BY DEF HeldStays
  <2>1. st = "Reviewing" /\ l \in LinesOf(o) \ keep
    BY <1>1 DEF Cascade
  <2>2. keep = CommittedLines(o, StatusesAheadOf("Reviewing"), Committed)
    BY <2>1 DEF HeldBack, Sellable
  <2> QED
    BY <2>1, <2>2, ReviewingIsAhead DEF CommittedLines
<1>3. DraftsServed(l)
  BY <1>1, CascadeServes DEF DraftsServed
<1> QED
  BY <1>2, <1>3

LEMMA PurchaseOrderStays ==
  ASSUME TypeOK, NEW o \in POs, PurchaseOrderNext(o), NEW l \in Lots
  PROVE  HeldStays(l) /\ DraftsServed(l)
<1> DEFINE P == HeldStays(l) /\ DraftsServed(l)
<1>0. PoOf[l] \in POs /\ DOMAIN lifecycle = POs /\ status \in [Lots -> LineStates]
      /\ "Reviewing" # "Done" /\ Sellable = {"Reviewing", "Done"}
  BY StockAssumption DEF StockAssumption, TypeOK, PoTypeOK, LineTypeOK, LineStates, Sellable
<1>a. ASSUME UNCHANGED lifecycle, status[l] = "Done" => status'[l] # "Reviewing"
      PROVE  P
  BY <1>a DEF HeldStays, DraftsServed
(* An edit, whatever it does to the line it names.                            *)
<1>b. ASSUME NEW manager, Editable(o, manager), Landed(o, manager),
             status'[l] # StatusAfterRevert(o, manager)[l] =>
               status[l] = "none" \/ (status'[l] = "deleted" /\ (Reverts(o, manager) => status[l] \notin Sellable \/ ~NamedBy(l, Open)))
      PROVE  P
  <2>1. lifecycle[PoOf[l]]' # lifecycle[PoOf[l]] => PoOf[l] = o /\ Reverts(o, manager)
    BY <1>0, <1>b DEF Landed, Landing
  <2>2. HeldStays(l)
    BY <1>b, RevertServes DEF HeldStays
  <2>3. DraftsServed(l)
    BY <1>0, <1>b, <2>1, RevertServes DEF DraftsServed, Editable
  <2> QED
    BY <2>2, <2>3
<1>1. ASSUME NEW bought, CreateOrder(o, bought) PROVE P
  <2>1. status'[l] # status[l] => status[l] = "none"
    BY <1>1 DEF CreateOrder
  <2>2. lifecycle[PoOf[l]]' # lifecycle[PoOf[l]] /\ status[l] \in Sellable => status'[l] = status[l]
    BY <1>0, <2>1
  <2> QED
    BY <1>0, <2>1, <2>2 DEF HeldStays, DraftsServed
<1>2. ASSUME NEW stage \in Stages, Advance(o, stage) PROVE P
  <2>1. stage \in Lifecycles
    BY StockAssumption DEF StockAssumption
  <2> QED
    BY <1>2, <2>1, AdvanceStays
<1>3. ASSUME PatchHeader(o) PROVE P
  BY <1>3, <1>b DEF PatchHeader, PatchOpen
<1>4. ASSUME NEW manager, NEW k \in Lots, NEW n, PatchAddLine(o, manager, k, n) PROVE P
  <2>1. StatusAfterRevert(o, manager) \in [Lots -> LineStates] /\ status[k] = "none"
    BY <1>4, RevertType DEF PatchAddLine, TypeOK
  <2>2. status'[l] # StatusAfterRevert(o, manager)[l] => status[l] = "none"
    BY <1>4, <2>1 DEF PatchAddLine
  <2> QED
    BY <1>4, <1>b, <2>2 DEF PatchAddLine, PatchOpen
<1>5. ASSUME NEW manager, NEW k \in Lots, PatchRemoveLine(o, manager, k) PROVE P
  <2>1. StatusAfterRevert(o, manager) \in [Lots -> LineStates]
    BY <1>5, RevertType DEF TypeOK
  <2>2. status'[l] # StatusAfterRevert(o, manager)[l] => l = k /\ status'[l] = "deleted"
    BY <1>5, <2>1 DEF PatchRemoveLine
  <2>3. Reverts(o, manager) => status[k] \notin Sellable \/ ~NamedBy(k, Open)
    <3> SUFFICES ASSUME Reverts(o, manager), status[k] \in Sellable, NamedBy(k, Open) PROVE FALSE
      OBVIOUS
    <3>1. CommittedLines(o, StatusesAheadOf("Draft"), Open) = {} /\ k \in LinesOf(o)
      BY <1>5 DEF PatchRemoveLine, PatchOpen, Editable, CascadeBlocked, Sellable
    <3>2. Sellable \subseteq StatusesAheadOf("Draft")
      BY StatusesAhead DEF StageStatuses, Sellable
    <3> QED
      BY <3>1, <3>2 DEF CommittedLines
  <2> QED
    BY <1>5, <1>b, <2>2, <2>3 DEF PatchRemoveLine, PatchOpen
<1>6. ASSUME NEW manager, NEW k, NEW q, PatchRecount(o, manager, k, q) PROVE P
  BY <1>6, <1>b DEF PatchRecount, PatchOpen
<1>7. ASSUME NEW b, ArchiveOrder(o, b) PROVE P
  BY <1>7, <1>a DEF ArchiveOrder, Cascade
<1>8. ASSUME UnarchiveOrder(o) PROVE P
  BY <1>8, <1>a DEF UnarchiveOrder
<1>9. ASSUME DeleteOrder(o) PROVE P
  <2>1. status'[l] # status[l] => status'[l] = "deleted" /\ ~NamedBy(l, Open)
    BY <1>9 DEF DeleteOrder, NamedBy, Names
  <2> QED
    BY <1>0, <2>1 DEF HeldStays, DraftsServed
<1> QED
  BY <1>1, <1>2, <1>3, <1>4, <1>5, <1>6, <1>7, <1>8, <1>9 DEF PurchaseOrderNext

LEMMA EditLotStays ==
  ASSUME TypeOK, NEW k \in Lots, EditLotNext(k), NEW l \in Lots
  PROVE  HeldStays(l) /\ DraftsServed(l)
<1>1. PICK manager, st, q : EditLot(k, manager, st, q)
  BY DEF EditLotNext
<1> DEFINE o == PoOf[k]
           m == manager \/ ~(q # qty[k])
           back == q # qty[k] /\ Reverts(o, manager)
<1>2. /\ status' = IF back THEN Cascade(o, "Draft", {}) ELSE [status EXCEPT ![k] = st]
      /\ back => ~CascadeBlocked(o, "Draft")
      /\ Landed(o, m) /\ (CommittedQty(k, {}) > 0 => st = status[k])
  BY <1>1 DEF EditLot, LeavesClaims
<1>3. PoOf[l] \in POs /\ DOMAIN lifecycle = POs /\ status \in [Lots -> LineStates]
  BY StockAssumption DEF StockAssumption, TypeOK, PoTypeOK, LineTypeOK, LineStates
<1>4. NamedBy(l, Committed) /\ l = k => st = status[k]
  BY <1>2, ClaimedNamed DEF TypeOK
<1>5. "Draft" \in StageStatuses
  BY DEF StageStatuses
<1> HIDE DEF o
<1>6. lifecycle[PoOf[l]]' # lifecycle[PoOf[l]] => back
  <2>1. lifecycle[PoOf[l]]' # lifecycle[PoOf[l]] => Reverts(o, m)
    BY <1>2, <1>3 DEF Landed, Landing
  <2> QED
    BY <2>1 DEF Reverts
<1> HIDE DEF back, m
<1>7. CASE back
  <2>1. status' = Cascade(o, "Draft", {}) /\ ~CascadeBlocked(o, "Draft")
    BY <1>2, <1>7
  <2>2. HeldStays(l)
    BY <2>1 DEF Cascade, HeldStays
  <2>3. DraftsServed(l)
    BY <2>1, <1>5, CascadeServes DEF DraftsServed
  <2> QED
    BY <2>2, <2>3
<1>8. CASE ~back
  <2>1. HeldStays(l)
    BY <1>2, <1>3, <1>4, <1>8 DEF HeldStays
  <2>2. DraftsServed(l)
    BY <1>6, <1>8 DEF DraftsServed
  <2> QED
    BY <2>1, <2>2
<1> QED
  BY <1>7, <1>8

LEMMA OthersStays ==
  ASSUME TypeOK, NEW l \in Lots,
         (\E s \in SOs : SellOrderNext(s)) \/ (\E t \in TOs : TransferNext(t)) \/ UNCHANGED vars
  PROVE  HeldStays(l) /\ DraftsServed(l)
<1> DEFINE P == UNCHANGED lifecycle /\ (status[l] = "Done" => status'[l] # "Reviewing")
<1>1. ASSUME NEW s \in SOs, SellOrderNext(s) PROVE P
  <2>1. \/ UNCHANGED <<poVars, lineVars>> \/ MarkDone(s) \/ ReopenSale(s)
    BY <1>1 DEF SellOrderNext, CreateDraft, RewriteLines, Move, ArchiveSellOrder, UnarchiveSellOrder
  <2>2. ASSUME MarkDone(s) PROVE P
    BY <2>2 DEF MarkDone, poVars
  <2>3. ASSUME ReopenSale(s) PROVE P
    BY <2>3 DEF ReopenSale, BackStatus, poVars
  <2> QED
    BY <2>1, <2>2, <2>3 DEF poVars, lineVars
<1>2. ASSUME NEW t \in TOs, TransferNext(t) PROVE P
  <2>1. ASSUME NEW move, NEW cloneOf, Transfer(t, move, cloneOf) PROVE P
    BY <2>1 DEF Transfer, poVars
  <2>2. ASSUME Receive(t) PROVE P
    BY <2>2 DEF Receive, poVars
  <2>3. ASSUME Reopen(t) PROVE P
    BY <2>3 DEF Reopen, poVars
  <2>4. ASSUME Discard(t) PROVE P
    BY <2>4 DEF Discard, poVars
  <2> QED
    BY <1>2, <2>1, <2>2, <2>3, <2>4 DEF TransferNext
<1>3. ASSUME UNCHANGED vars PROVE P
  BY <1>3 DEF vars, poVars, lineVars
<1> QED
  BY <1>1, <1>2, <1>3 DEF HeldStays, DraftsServed

LEMMA StepStays ==
  ASSUME TypeOK, [Next]_vars, NEW l \in Lots
  PROVE  HeldStays(l) /\ DraftsServed(l)
BY PurchaseOrderStays, EditLotStays, OthersStays DEF Next

(* A lot that a shipped order goes on holding never goes back from confirmed  *)
(* goods to unconfirmed ones: a move back to Reviewing leaves it at Done.     *)
THEOREM HeldStaysDone == Spec => HeldLotNeverBack
<1>1. ASSUME IInv, IInv', [Next]_vars, NEW l \in Lots,
             CommittedQty(l, {}) > 0, CommittedQty(l, {})' > 0,
             status[l] = "Done", Exists(l)'
      PROVE  status'[l] = "Done"
  <2>1. status'[l] \in Sellable
    BY <1>1 DEF IInv, ClaimsOK, CommittedSellable
  <2>2. HeldStays(l) /\ NamedBy(l, Committed)
    BY <1>1, StepStays, ClaimedNamed DEF IInv, TypeOK
  <2> QED
    BY <1>1, <2>1, <2>2 DEF HeldStays, Sellable
<1>2. IInv /\ IInv' /\ [Next]_vars =>
        [\A l \in Lots : CommittedQty(l, {}) > 0 /\ CommittedQty(l, {})' > 0 =>
           ~(status[l] = "Done" /\ status'[l] # "Done" /\ Exists(l)')]_vars
  BY <1>1
<1> QED
  BY <1>2, Invariant, PTL DEF Spec, HeldLotNeverBack

(* No stage move, and no edit that takes an order back to Draft, takes a lot  *)
(* an open sell order could be promoted on out of the statuses it is sold at. *)
THEOREM DraftsStayServed == Spec => CascadeKeepsDrafts
<1>1. IInv /\ [Next]_vars =>
        [\A l \in Lots : /\ lifecycle[PoOf[l]]' # lifecycle[PoOf[l]]
                         /\ status[l] \in Sellable
                         /\ NamedBy(l, Open)
                         => status'[l] \in Sellable]_vars
  BY StepStays DEF IInv, DraftsServed
<1> QED
  BY <1>1, Invariant, PTL DEF Spec, CascadeKeepsDrafts
=============================================================================
