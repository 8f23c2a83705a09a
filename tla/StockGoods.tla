---------------------------- MODULE StockGoods ----------------------------
(***************************************************************************)
(* Where goods are: those of an archived purchase order, and only those,   *)
(* are out of stock, and those on a pending transfer are In Transit, for   *)
(* every set of orders, lots and transfers.                                *)
(*                                                                         *)
(* Both say what the status of a lot has to be (InPlace), and so most      *)
(* steps are shown by what they do to the status of each lot.              *)
(*                                                                         *)
(* What became of the goods: what was bought of a lot is on hand or sold,  *)
(* a sale stays a sale, and no hidden order holds stock, for every set of  *)
(* orders, lots and transfers.                                             *)
(*                                                                         *)
(* Moving goods buys nothing: what a purchase order bought is a sum over   *)
(* its lines, and a split or a merge puts its units on other lines.        *)
(*                                                                         *)
(* Most steps sell nothing: they move units of a lot and of its purchase   *)
(* alike, and are shown by that (BooksStand).  The two that do, MarkDone   *)
(* and ReopenSale, move units between what is on hand and the Done orders. *)
(***************************************************************************)
EXTENDS StockClaims

Moving(l) == onTransfer[l] # NULL /\ toStatus[onTransfer[l]] = "Pending"

(* A status the lot may have where it is.                                     *)
InPlace(l, st) ==
  /\ PoOf[l] \in archived => st \in {"Archived", "Sold"}
  /\ st = "Archived" => PoOf[l] \in archived
  /\ l \notin handled /\ Moving(l) => st = "In Transit"

(* Only what was created is archived; a lot not yet bought is on no transfer, *)
(* and no lot is on a transfer not yet made: new ids start clean.             *)
NewIdsClean ==
  /\ \A o \in archived : lifecycle[o] # "none"
  /\ \A l \in Lots : status[l] = "none" => onTransfer[l] = NULL
  /\ \A l \in Lots : onTransfer[l] # NULL => toStatus[onTransfer[l]] # "none"

AllInPlace == \A l \in Lots : Exists(l) => InPlace(l, status[l])
PlaceInv == AllInPlace /\ NewIdsClean

LEMMA PlacesSay == PlaceInv => ArchivedOutOfStock /\ TransferNotStranded
  BY DEF PlaceInv, AllInPlace, InPlace, Moving, ArchivedOutOfStock, TransferNotStranded

LEMMA InitPlaces == Init => PlaceInv
  BY DEF Init, PlaceInv, AllInPlace, NewIdsClean, Exists, LineStatuses, StageStatuses

----------------------------------------------------------------------------
(* Steps that neither archive nor move anything.  Each lot they leave is in   *)
(* place, is new and at a stage, or had its status set by hand.               *)
LEMMA PlacesStand ==
  ASSUME PlaceInv, UNCHANGED <<archived, toStatus>>, handled \subseteq handled',
         \A o \in archived : lifecycle'[o] # "none",
         \A l \in Lots : status'[l] = "none" => status[l] = "none",
         \A l \in Lots : onTransfer'[l] = onTransfer[l] \/ onTransfer'[l] = NULL,
         \A l \in Lots : Exists(l)' =>
           \/ Exists(l) /\ InPlace(l, status'[l])
           \/ status[l] = "none" /\ PoOf[l] \notin archived /\ status'[l] \in StageStatuses
           \/ l \in handled' /\ PoOf[l] \notin archived /\ status'[l] # "Archived"
  PROVE  PlaceInv'
<1>1. NewIdsClean'
  BY DEF PlaceInv, NewIdsClean
<1>2. ASSUME NEW l \in Lots, Exists(l)'
      PROVE  InPlace(l, status[l])'
  <2>1. CASE Exists(l) /\ InPlace(l, status'[l])
    BY <2>1 DEF InPlace, Moving
  <2>2. CASE status[l] = "none" /\ PoOf[l] \notin archived /\ status'[l] \in StageStatuses
    <3>1. onTransfer'[l] = NULL
      BY <2>2 DEF PlaceInv, NewIdsClean
    <3> QED
      BY <2>2, <3>1 DEF InPlace, Moving, StageStatuses
  <2>3. CASE l \in handled' /\ PoOf[l] \notin archived /\ status'[l] # "Archived"
    BY <2>3 DEF InPlace
  <2> QED
    BY <1>2, <2>1, <2>2, <2>3
<1> QED
  BY <1>1, <1>2 DEF PlaceInv, AllInPlace

(* A cascade that no transfer blocks keeps lots in place.                     *)
LEMMA CascadePlaces ==
  ASSUME PlaceInv, NEW o, o \notin archived, NEW st \in StageStatuses, ~CascadeBlocked(o, st),
         NEW keep, NEW l \in Lots, Exists(l)
  PROVE  InPlace(l, Cascade(o, st, keep)[l])
<1>1. InPlace(l, status[l])
  BY DEF PlaceInv, AllInPlace
<1>2. CASE l \in LinesOf(o) \ keep /\ status[l] # "Sold"
  <2>1. PoOf[l] = o /\ Cascade(o, st, keep)[l] = st
    BY <1>2 DEF Cascade, LinesOf
  <2>2. ASSUME l \notin handled, Moving(l)
        PROVE  st = "In Transit"
    <3>1. status[l] = "In Transit"
      BY <1>1, <2>2 DEF InPlace
    <3>2. TransferClaimed(o)
      BY <1>2, <2>2, <3>1 DEF TransferClaimed, Moving
    <3> QED
      BY <3>2 DEF CascadeBlocked
  <2>3. st # "Archived"
    BY DEF StageStatuses
  <2> QED
    BY <2>1, <2>2, <2>3 DEF InPlace
<1>3. CASE ~(l \in LinesOf(o) \ keep /\ status[l] # "Sold")
  BY <1>1, <1>3 DEF Cascade
<1> QED
  BY <1>2, <1>3

LEMMA RevertPlaces ==
  ASSUME PlaceInv, NEW o, NEW manager, Editable(o, manager), NEW l \in Lots, Exists(l)
  PROVE  InPlace(l, StatusAfterRevert(o, manager)[l])
<1>1. "Draft" \in StageStatuses
  BY DEF StageStatuses
<1>2. CASE Reverts(o, manager)
  BY <1>1, <1>2, CascadePlaces DEF StatusAfterRevert, Editable
<1>3. CASE ~Reverts(o, manager)
  BY <1>3 DEF StatusAfterRevert, PlaceInv, AllInPlace
<1> QED
  BY <1>2, <1>3

----------------------------------------------------------------------------
(* Purchase orders.                                                           *)
LEMMA CreateOrderPlaces ==
  ASSUME IInv, PlaceInv, NEW o \in POs, NEW S \in SUBSET Lots, NEW bought \in [S -> Qtys],
         CreateOrder(o, bought)
  PROVE  PlaceInv'
<1>1. DOMAIN bought = S /\ UNCHANGED <<archived, toStatus, onTransfer, handled>>
  BY DEF CreateOrder, moveVars
<1>2. \A l \in Lots : IF l \in S THEN status[l] = "none" /\ PoOf[l] = o /\ status'[l] = "Draft"
                               ELSE status'[l] = status[l]
  BY <1>1 DEF CreateOrder
<1>3. o \notin archived
  BY DEF CreateOrder, PlaceInv, NewIdsClean
<1>4. \A p \in archived : lifecycle'[p] # "none"
  BY <1>3 DEF CreateOrder, PlaceInv, NewIdsClean, IInv, TypeOK, PoTypeOK
<1>5. \A l \in Lots : Exists(l)' =>
        \/ Exists(l) /\ InPlace(l, status'[l])
        \/ status[l] = "none" /\ PoOf[l] \notin archived /\ status'[l] \in StageStatuses
  BY <1>2, <1>3 DEF Exists, PlaceInv, AllInPlace, StageStatuses
<1> QED
  BY <1>1, <1>2, <1>4, <1>5, PlacesStand

LEMMA AdvancePlaces ==
  ASSUME IInv, PlaceInv, NEW o \in POs, NEW stage \in Lifecycles, Advance(o, stage)
  PROVE  PlaceInv'
<1> DEFINE st == LineStatusFor[stage]
<1>1. UNCHANGED <<archived, toStatus, onTransfer, handled>> /\ o \notin archived
  BY DEF Advance, moveVars
<1>2. \A p \in archived : lifecycle'[p] # "none"
  BY DEF Advance, Lifecycles, PlaceInv, NewIdsClean, IInv, TypeOK, PoTypeOK
<1>3. st \in StageStatuses /\ st \in LineStatuses
  BY StageToStatus DEF LineStatuses
<1>4. ~CascadeBlocked(o, st) /\ status' = Cascade(o, st, HeldBack(o, st))
  BY DEF Advance
<1> HIDE DEF st
<1>5. \A l \in Lots : status'[l] = status[l] \/ (Exists(l) /\ status'[l] \in LineStatuses)
  BY <1>3, <1>4, CascadeKeepsLines
<1>6. \A l \in Lots : Exists(l) => InPlace(l, status'[l])
  BY <1>1, <1>3, <1>4, CascadePlaces
<1> QED
  BY <1>1, <1>2, <1>5, <1>6, PlacesStand DEF Exists, LineStatuses, StageStatuses

(* What every edit leaves alone.                                              *)
LEMMA LandedPlaces ==
  ASSUME IInv, PlaceInv, NEW o \in POs, NEW manager, Landed(o, manager), lifecycle[o] \in Lifecycles
  PROVE  /\ UNCHANGED <<archived, toStatus>>
         /\ \A p \in archived : lifecycle'[p] # "none"
  BY DEF Landed, Landing, Lifecycles, PlaceInv, NewIdsClean, IInv, TypeOK, PoTypeOK

LEMMA PatchHeaderPlaces ==
  ASSUME IInv, PlaceInv, NEW o \in POs, PatchHeader(o)
  PROVE  PlaceInv'
<1>1. Editable(o, FALSE) /\ status' = StatusAfterRevert(o, FALSE) /\ Landed(o, FALSE)
      /\ UNCHANGED <<onTransfer, handled>>
  BY DEF PatchHeader, PatchOpen
<1>2. lifecycle[o] \in Lifecycles
  BY <1>1 DEF Editable
<1> QED
  BY <1>1, <1>2, LandedPlaces, RevertPlaces, RevertSparesClaims, PlacesStand
     DEF Exists, LineStatuses, StageStatuses

LEMMA PatchAddLinePlaces ==
  ASSUME IInv, PlaceInv, NEW o \in POs, NEW manager, NEW l \in Lots, NEW n,
         PatchAddLine(o, manager, l, n)
  PROVE  PlaceInv'
<1>1. /\ Editable(o, manager) /\ Landed(o, manager) /\ UNCHANGED <<onTransfer, handled>>
      /\ status[l] = "none" /\ PoOf[l] = o
  BY DEF PatchAddLine, PatchOpen
<1>2. lifecycle[o] \in Lifecycles /\ o \notin archived
  BY <1>1 DEF Editable
<1>3. status'[l] \in StageStatuses
  <2>1. Landing(o, manager) \in Lifecycles
    BY <1>2 DEF Landing, Lifecycles
  <2>2. LineStatusFor[Landing(o, manager)] \in StageStatuses
    BY <2>1, StageToStatus
  <2> QED
    BY <2>2, RevertType DEF PatchAddLine, IInv, TypeOK
<1>4. \A k \in Lots \ {l} : status'[k] = StatusAfterRevert(o, manager)[k]
  BY RevertType DEF PatchAddLine, IInv, TypeOK
<1>5. ASSUME NEW k \in Lots, status'[k] = "none"
      PROVE  status[k] = "none"
  <2>1. CASE k # l
    <3>1. status'[k] = StatusAfterRevert(o, manager)[k]
      BY <1>4, <2>1
    <3>2. status'[k] = status[k] \/ status'[k] \in LineStatuses
      BY <1>1, <3>1, RevertSparesClaims
    <3> QED
      BY <1>5, <3>2 DEF LineStatuses, StageStatuses
  <2> QED
    BY <1>1, <2>1
<1>6. ASSUME NEW k \in Lots, Exists(k)'
      PROVE  \/ Exists(k) /\ InPlace(k, status'[k])
             \/ status[k] = "none" /\ PoOf[k] \notin archived /\ status'[k] \in StageStatuses
  <2>1. CASE k = l
    BY <1>1, <1>2, <1>3, <2>1
  <2>2. CASE k # l
    <3>1. Exists(k)
      BY <1>1, <1>4, <1>6, <2>2, RevertSparesClaims DEF Exists
    <3> QED
      BY <1>1, <1>4, <2>2, <3>1, RevertPlaces
  <2> QED
    BY <2>1, <2>2
<1> QED
  BY <1>1, <1>2, <1>5, <1>6, LandedPlaces, PlacesStand

LEMMA PatchRemoveLinePlaces ==
  ASSUME IInv, PlaceInv, NEW o \in POs, NEW manager, NEW l \in Lots,
         PatchRemoveLine(o, manager, l)
  PROVE  PlaceInv'
<1>1. Editable(o, manager) /\ Landed(o, manager) /\ UNCHANGED handled
  BY DEF PatchRemoveLine, PatchOpen
<1>2. lifecycle[o] \in Lifecycles
  BY <1>1 DEF Editable
<1>3. status'[l] = "deleted"
  BY RevertType DEF PatchRemoveLine, IInv, TypeOK
<1>4. \A k \in Lots \ {l} : status'[k] = StatusAfterRevert(o, manager)[k]
  BY RevertType DEF PatchRemoveLine, IInv, TypeOK
<1>5. \A k \in Lots : onTransfer'[k] = onTransfer[k] \/ onTransfer'[k] = NULL
  BY DEF PatchRemoveLine, IInv, TypeOK, MoveTypeOK
<1>6. \A k \in Lots : status'[k] = "none" => status[k] = "none"
  BY <1>1, <1>3, <1>4, RevertSparesClaims DEF LineStatuses, StageStatuses
<1>7. \A k \in Lots : Exists(k)' => Exists(k) /\ InPlace(k, status'[k])
  <2>1. ASSUME NEW k \in Lots, Exists(k)'
        PROVE  Exists(k) /\ InPlace(k, status'[k])
    <3>1. k # l
      BY <1>3, <2>1 DEF Exists, LineStatuses, StageStatuses
    <3>2. Exists(k)
      BY <1>1, <1>4, <2>1, <3>1, RevertSparesClaims DEF Exists
    <3> QED
      BY <1>1, <1>4, <3>1, <3>2, RevertPlaces
  <2> QED
    BY <2>1
<1> QED
  BY <1>1, <1>2, <1>5, <1>6, <1>7, LandedPlaces, PlacesStand

LEMMA PatchRecountPlaces ==
  ASSUME IInv, PlaceInv, NEW o \in POs, NEW manager, NEW l \in Lots, NEW q,
         PatchRecount(o, manager, l, q)
  PROVE  PlaceInv'
<1>1. /\ Editable(o, manager) /\ Landed(o, manager) /\ status' = StatusAfterRevert(o, manager)
      /\ UNCHANGED onTransfer /\ handled \subseteq handled'
  BY DEF PatchRecount, PatchOpen
<1>2. lifecycle[o] \in Lifecycles
  BY <1>1 DEF Editable
<1> QED
  BY <1>1, <1>2, LandedPlaces, RevertPlaces, RevertSparesClaims, PlacesStand
     DEF Exists, LineStatuses, StageStatuses

LEMMA EditLotPlaces ==
  ASSUME IInv, PlaceInv, NEW l \in Lots, NEW manager,
         NEW st \in StageStatuses \cup {"Sold", status[l]}, NEW q, EditLot(l, manager, st, q)
  PROVE  PlaceInv'
<1> DEFINE o == PoOf[l]
<1>1. /\ Exists(l) /\ o \notin archived /\ o \in POs /\ UNCHANGED <<archived, toStatus, onTransfer>>
      /\ handled' = handled \/ handled' = handled \cup {l}
  BY StockAssumption DEF EditLot, Landed, StockAssumption
<1>2. \A p \in archived : lifecycle'[p] # "none"
  <2>1. \A p \in POs \ {o} : lifecycle'[p] = lifecycle[p]
    BY <1>1 DEF EditLot, Landed, IInv, TypeOK, PoTypeOK
  <2> QED
    BY <1>1, <2>1 DEF PlaceInv, NewIdsClean, IInv, TypeOK, PoTypeOK
<1>3. CASE ~CascadeBlocked(o, "Draft") /\ status' = Cascade(o, "Draft", {})
  <2>1. "Draft" \in StageStatuses /\ "Draft" \in LineStatuses
    BY DEF StageStatuses, LineStatuses
  <2>2. \A k \in Lots : status'[k] = status[k] \/ (Exists(k) /\ status'[k] \in LineStatuses)
    BY <1>3, <2>1, CascadeKeepsLines
  <2>3. \A k \in Lots : Exists(k) => InPlace(k, status'[k])
    BY <1>1, <1>3, <2>1, CascadePlaces
  <2> QED
    BY <1>1, <1>2, <2>2, <2>3, PlacesStand DEF Exists, LineStatuses, StageStatuses
<1>4. CASE status' = [status EXCEPT ![l] = st] /\ (st # status[l] => l \in handled')
  <2>1. status'[l] = st /\ \A k \in Lots \ {l} : status'[k] = status[k]
    BY <1>4 DEF IInv, TypeOK, LineTypeOK
  <2>2. st # "none" /\ (st = "Archived" => st = status[l])
    BY <1>1 DEF StageStatuses, Exists, LineStatuses
  <2>3. \A k \in Lots : Exists(k) => InPlace(k, status[k])
    BY DEF PlaceInv, AllInPlace
  <2>4. \A k \in Lots : Exists(k)' =>
          \/ Exists(k) /\ InPlace(k, status'[k])
          \/ k \in handled' /\ PoOf[k] \notin archived /\ status'[k] # "Archived"
    BY <1>1, <1>4, <2>1, <2>2, <2>3 DEF Exists
  <2>5. \A k \in Lots : status'[k] = "none" => status[k] = "none"
    BY <2>1, <2>2
  <2> QED
    BY <1>1, <1>2, <2>4, <2>5, PlacesStand
<1> QED
  BY <1>3, <1>4 DEF EditLot

LEMMA ArchiveOrderPlaces ==
  ASSUME IInv, PlaceInv, NEW o \in POs, NEW removeFromSellOrders,
         ArchiveOrder(o, removeFromSellOrders)
  PROVE  PlaceInv'
<1>1. /\ UNCHANGED <<lifecycle, toStatus, onTransfer, handled>> /\ archived' = archived \cup {o}
      /\ lifecycle[o] \in Lifecycles /\ ~CascadeBlocked(o, "Archived")
      /\ status' = Cascade(o, "Archived", {})
  BY DEF ArchiveOrder, moveVars
<1>2. NewIdsClean'
  <2>1. \A l \in Lots : status'[l] = "none" => status[l] = "none"
    BY <1>1 DEF Cascade
  <2> QED
    BY <1>1, <2>1 DEF PlaceInv, NewIdsClean, Lifecycles
<1>3. ASSUME NEW l \in Lots, Exists(l)'
      PROVE  InPlace(l, status[l])'
  <2>1. CASE l \in LinesOf(o) /\ status[l] # "Sold"
    <3>1. PoOf[l] = o /\ Exists(l) /\ status'[l] = "Archived"
      BY <1>1, <2>1 DEF Cascade, LinesOf
    <3>2. l \in handled \/ ~Moving(l)
      <4>1. ~TransferClaimed(o)
        BY <1>1 DEF CascadeBlocked
      <4> QED
        BY <2>1, <3>1, <4>1 DEF TransferClaimed, Moving, PlaceInv, AllInPlace, InPlace
    <3> QED
      BY <1>1, <3>1, <3>2 DEF InPlace, Moving
  <2>2. CASE ~(l \in LinesOf(o) /\ status[l] # "Sold")
    <3>1. status'[l] = status[l]
      BY <1>1, <2>2 DEF Cascade
    <3>2. InPlace(l, status[l]) /\ (PoOf[l] = o => status[l] = "Sold")
      BY <1>3, <2>2, <3>1 DEF Exists, LinesOf, PlaceInv, AllInPlace
    <3> QED
      BY <1>1, <3>1, <3>2 DEF InPlace, Moving
  <2> QED
    BY <2>1, <2>2
<1> QED
  BY <1>2, <1>3 DEF PlaceInv, AllInPlace

LEMMA UnarchiveOrderPlaces ==
  ASSUME IInv, PlaceInv, NEW o \in POs, UnarchiveOrder(o)
  PROVE  PlaceInv'
<1>1. UNCHANGED <<lifecycle, toStatus, onTransfer, handled>> /\ archived' = archived \ {o}
  BY DEF UnarchiveOrder, moveVars
<1>2. \A l \in Lots : IF l \in LinesOf(o) /\ status[l] = "Archived"
                      THEN status'[l] \in StageStatuses ELSE status'[l] = status[l]
  BY DEF UnarchiveOrder, IInv, TypeOK, LogTypeOK
<1>3. NewIdsClean'
  BY <1>1, <1>2 DEF PlaceInv, NewIdsClean, StageStatuses
<1>4. ASSUME NEW l \in Lots, Exists(l)'
      PROVE  InPlace(l, status[l])'
  <2>1. Exists(l)
    BY <1>2, <1>4 DEF Exists, LinesOf
  <2>2. InPlace(l, status[l])
    BY <2>1 DEF PlaceInv, AllInPlace
  <2>3. CASE PoOf[l] = o /\ status[l] = "Archived"
    <3>1. status'[l] \in StageStatuses
      BY <1>2, <2>1, <2>3 DEF LinesOf
    <3> QED
      BY <1>1, <2>2, <2>3, <3>1 DEF InPlace, Moving, StageStatuses
  <2>4. CASE ~(PoOf[l] = o /\ status[l] = "Archived")
    <3>1. status'[l] = status[l]
      BY <1>2, <2>4 DEF LinesOf
    <3> QED
      BY <1>1, <2>2, <2>4, <3>1 DEF InPlace, Moving
  <2> QED
    BY <2>3, <2>4
<1> QED
  BY <1>3, <1>4 DEF PlaceInv, AllInPlace

LEMMA DeleteOrderPlaces ==
  ASSUME IInv, PlaceInv, NEW o \in POs, DeleteOrder(o)
  PROVE  PlaceInv'
<1>1. UNCHANGED <<archived, toStatus, handled>>
  BY DEF DeleteOrder
<1>2. \A p \in archived : lifecycle'[p] # "none"
  BY DEF DeleteOrder, PlaceInv, NewIdsClean, IInv, TypeOK, PoTypeOK
<1>3. \A l \in Lots : \/ status'[l] = status[l] /\ onTransfer'[l] = onTransfer[l]
                      \/ status'[l] = "deleted" /\ onTransfer'[l] = NULL
  BY DEF DeleteOrder
<1>4. \A l \in Lots : Exists(l)' => Exists(l) /\ InPlace(l, status'[l])
  BY <1>3 DEF Exists, PlaceInv, AllInPlace, LineStatuses, StageStatuses
<1> QED
  BY <1>1, <1>2, <1>3, <1>4, PlacesStand

----------------------------------------------------------------------------
(* Sell orders: a sale takes goods that are in stock, and gives them back to  *)
(* where they can be sold.                                                    *)
LEMMA SellPlaces ==
  ASSUME PlaceInv, UNCHANGED <<poVars, status, moveVars, handled>>
  PROVE  PlaceInv'
  BY PlacesStand DEF poVars, moveVars, PlaceInv, AllInPlace, NewIdsClean, Exists

LEMMA MarkDonePlaces ==
  ASSUME IInv, PlaceInv, NEW s \in SOs, MarkDone(s)
  PROVE  PlaceInv'
<1>1. UNCHANGED <<lifecycle, archived, toStatus, onTransfer, handled>>
  BY DEF MarkDone, poVars, moveVars
<1>2. \A l \in Lots : \/ status'[l] = status[l]
                      \/ l \in Taken(s) /\ status'[l] = "Sold"
  BY DEF MarkDone
<1>3. \A l \in Taken(s) : Exists(l) /\ status[l] \in Sellable /\ PoOf[l] \notin archived
  BY MarkDoneTakes DEF Taken
<1>4. \A l \in Lots : Exists(l)' => Exists(l) /\ InPlace(l, status'[l])
  BY <1>2, <1>3 DEF Exists, PlaceInv, AllInPlace, InPlace, Sellable
<1> QED
  BY <1>1, <1>2, <1>4, PlacesStand DEF PlaceInv, NewIdsClean

LEMMA ReopenSalePlaces ==
  ASSUME IInv, PlaceInv, NEW s \in SOs, ReopenSale(s)
  PROVE  PlaceInv'
<1>1. UNCHANGED <<lifecycle, archived, toStatus, onTransfer, handled>>
  BY DEF ReopenSale, poVars, moveVars
<1>2. \A l \in Lots : \/ status'[l] = status[l]
                      \/ /\ Exists(l) /\ PoOf[l] \notin archived /\ status[l] = "Sold"
                         /\ status'[l] \in Sellable
  BY DEF ReopenSale, Taken, TakesBack, BackStatus
<1>3. \A l \in Lots : Exists(l)' => Exists(l) /\ InPlace(l, status'[l])
  BY <1>2 DEF Exists, PlaceInv, AllInPlace, InPlace, Sellable
<1>4. \A l \in Lots : status'[l] = "none" => status[l] = "none"
  BY <1>2 DEF Sellable
<1> QED
  BY <1>1, <1>3, <1>4, PlacesStand DEF PlaceInv, NewIdsClean

----------------------------------------------------------------------------
(* Transfers.                                                                 *)
LEMMA TransferPlaces ==
  ASSUME IInv, PlaceInv, NEW t \in TOs, NEW S \in SUBSET Lots, NEW move \in [S -> Nat],
         NEW cloneOf, Transfer(t, move, cloneOf)
  PROVE  PlaceInv'
<1> DEFINE D == Departs(move, cloneOf)
<1>1. /\ UNCHANGED <<lifecycle, archived, handled>> /\ DOMAIN move = S /\ toStatus[t] = "none"
      /\ toStatus'[t] = "Pending" /\ \A u \in TOs \ {t} : toStatus'[u] = toStatus[u]
  BY DEF Transfer, poVars, IInv, TypeOK, MoveTypeOK
<1>2. \A l \in Lots : IF l \in D THEN status'[l] = "In Transit" /\ onTransfer'[l] = t
                               ELSE status'[l] = status[l] /\ onTransfer'[l] = onTransfer[l]
  BY DEF Transfer
<1>3. \A l \in S : PoOf[l] \notin archived
  BY <1>1 DEF Transfer, Movable
<1>4. \A l \in D : PoOf[l] \notin archived
  <2>1. \A l \in Whole(move) : PoOf[l] \notin archived
    BY <1>1, <1>3 DEF Whole
  <2>2. \A l \in DOMAIN cloneOf : l \in S /\ PoOf[cloneOf[l]] = PoOf[l]
    BY <1>1 DEF Transfer, Parted
  <2>3. \A c \in Drawn(cloneOf) : PoOf[c] \notin archived
    BY <1>3, <2>2 DEF Drawn
  <2> QED
    BY <2>1, <2>3 DEF Departs
<1>5. \A l \in Lots : onTransfer[l] \in OrNull(TOs) /\ onTransfer[l] # t /\ t # NULL
  BY <1>1, StockAssumption DEF PlaceInv, NewIdsClean, IInv, TypeOK, MoveTypeOK, StockAssumption
<1> HIDE DEF D
<1>6. NewIdsClean'
  BY <1>1, <1>2, <1>5 DEF PlaceInv, NewIdsClean, OrNull
<1>7. ASSUME NEW l \in Lots, Exists(l)'
      PROVE  InPlace(l, status[l])'
  <2>1. CASE l \in D
    BY <1>1, <1>2, <1>4, <2>1 DEF InPlace
  <2>2. CASE l \notin D
    <3>1. Exists(l) /\ status'[l] = status[l] /\ onTransfer'[l] = onTransfer[l]
      BY <1>2, <1>7, <2>2 DEF Exists
    <3>2. Moving(l)' <=> Moving(l)
      BY <1>1, <1>5, <3>1 DEF Moving, OrNull
    <3> QED
      BY <1>1, <3>1, <3>2 DEF PlaceInv, AllInPlace, InPlace
  <2> QED
    BY <2>1, <2>2
<1> QED
  BY <1>6, <1>7 DEF PlaceInv, AllInPlace

(* A lot that comes back from a transfer comes back to its place.             *)
LEMMA LandsInPlace ==
  ASSUME IInv, NEW l \in Lots
  PROVE  /\ PoOf[l] \in archived => LandsAt(l) \in {"Archived", "Sold"}
         /\ LandsAt(l) = "Archived" => PoOf[l] \in archived
  BY DEF LandsAt, IInv, TypeOK, MoveTypeOK, Sellable

LEMMA ReceivePlaces ==
  ASSUME IInv, PlaceInv, NEW t \in TOs, Receive(t)
  PROVE  PlaceInv'
<1>1. /\ UNCHANGED <<lifecycle, archived, handled, onTransfer>>
      /\ toStatus'[t] = "Received" /\ \A u \in TOs \ {t} : toStatus'[u] = toStatus[u]
  BY DEF Receive, poVars, IInv, TypeOK, MoveTypeOK
<1>2. \A l \in Lots : IF l \in LinesOn(t) /\ status[l] = "In Transit"
                      THEN status'[l] = LandsAt(l) ELSE status'[l] = status[l]
  BY DEF Receive
<1>3. \A l \in Lots : onTransfer[l] \in OrNull(TOs)
  BY DEF IInv, TypeOK, MoveTypeOK
<1>4. \A l \in Lots : LandsAt(l) \in LineStatuses
  BY LandsAtLine DEF IInv, TypeOK
<1>5. NewIdsClean'
  BY <1>1, <1>2, <1>3, <1>4 DEF PlaceInv, NewIdsClean, OrNull, LineStatuses, StageStatuses
<1>6. ASSUME NEW l \in Lots, Exists(l)'
      PROVE  InPlace(l, status[l])'
  <2>1. Exists(l) /\ InPlace(l, status[l])
    BY <1>2, <1>6 DEF Exists, LinesOn, PlaceInv, AllInPlace
  <2>2. CASE l \in LinesOn(t)
    <3>1. ~Moving(l)'
      BY <1>1, <2>2 DEF LinesOn, Moving
    <3>2. status'[l] = LandsAt(l) \/ status'[l] = status[l]
      BY <1>2
    <3> QED
      BY <1>1, <2>1, <3>1, <3>2, LandsInPlace DEF InPlace
  <2>3. CASE l \notin LinesOn(t)
    <3>1. status'[l] = status[l] /\ onTransfer[l] # t
      BY <1>2, <2>1, <2>3 DEF LinesOn
    <3>2. Moving(l)' <=> Moving(l)
      BY <1>1, <1>3, <3>1 DEF Moving, OrNull
    <3> QED
      BY <1>1, <2>1, <3>1, <3>2 DEF InPlace
  <2> QED
    BY <2>2, <2>3
<1> QED
  BY <1>5, <1>6 DEF PlaceInv, AllInPlace

LEMMA ReopenPlaces ==
  ASSUME IInv, PlaceInv, NEW t \in TOs, Reopen(t)
  PROVE  PlaceInv'
<1>1. /\ UNCHANGED <<lifecycle, archived, handled, onTransfer>>
      /\ toStatus'[t] = "Pending" /\ \A u \in TOs \ {t} : toStatus'[u] = toStatus[u]
  BY DEF Reopen, poVars, IInv, TypeOK, MoveTypeOK
<1>2. \A l \in Lots : IF l \in LinesOn(t) THEN status[l] \in Sellable /\ status'[l] = "In Transit"
                                          ELSE status'[l] = status[l]
  BY DEF Reopen, InStockAndFree
<1>3. \A l \in Lots : onTransfer[l] \in OrNull(TOs)
  BY DEF IInv, TypeOK, MoveTypeOK
<1>4. NewIdsClean'
  BY <1>1, <1>2, <1>3 DEF PlaceInv, NewIdsClean, OrNull
<1>5. ASSUME NEW l \in Lots, Exists(l)'
      PROVE  InPlace(l, status[l])'
  <2>1. Exists(l) /\ InPlace(l, status[l])
    BY <1>2, <1>5 DEF Exists, LinesOn, PlaceInv, AllInPlace
  <2>2. CASE l \in LinesOn(t)
    <3>1. PoOf[l] \notin archived
      BY <1>2, <2>1, <2>2 DEF InPlace, Sellable
    <3> QED
      BY <1>1, <1>2, <2>2, <3>1 DEF InPlace
  <2>3. CASE l \notin LinesOn(t)
    <3>1. status'[l] = status[l] /\ onTransfer[l] # t
      BY <1>2, <2>1, <2>3 DEF LinesOn
    <3>2. Moving(l)' <=> Moving(l)
      BY <1>1, <1>3, <3>1 DEF Moving, OrNull
    <3> QED
      BY <1>1, <2>1, <3>1, <3>2 DEF InPlace
  <2> QED
    BY <2>2, <2>3
<1> QED
  BY <1>4, <1>5 DEF PlaceInv, AllInPlace

LEMMA DiscardPlaces ==
  ASSUME IInv, PlaceInv, NEW t \in TOs, Discard(t)
  PROVE  PlaceInv'
<1>1. /\ UNCHANGED <<lifecycle, archived, handled>>
      /\ toStatus'[t] = "discarded" /\ \A u \in TOs \ {t} : toStatus'[u] = toStatus[u]
  BY DEF Discard, poVars, IInv, TypeOK, MoveTypeOK
<1>2. MergedOf(t) \subseteq LinesOn(t)
  BY DEF MergedOf
<1>3. \A l \in Lots : IF l \in LinesOn(t)
                      THEN status'[l] \in {"deleted", LandsAt(l)} /\ onTransfer'[l] = NULL
                      ELSE status'[l] = status[l] /\ onTransfer'[l] = onTransfer[l]
  BY <1>2 DEF Discard
<1>4. \A l \in Lots : onTransfer[l] \in OrNull(TOs) /\ LandsAt(l) \in LineStatuses
  BY LandsAtLine DEF IInv, TypeOK, MoveTypeOK
<1>5. NewIdsClean'
  BY <1>1, <1>3, <1>4 DEF PlaceInv, NewIdsClean, OrNull, LineStatuses, StageStatuses
<1>6. ASSUME NEW l \in Lots, Exists(l)'
      PROVE  InPlace(l, status[l])'
  <2>1. CASE l \in LinesOn(t)
    <3>1. status'[l] = LandsAt(l) /\ ~Moving(l)'
      BY <1>3, <1>6, <2>1 DEF Exists, Moving, LineStatuses, StageStatuses
    <3> QED
      BY <1>1, <3>1, LandsInPlace DEF InPlace
  <2>2. CASE l \notin LinesOn(t)
    <3>1. Exists(l) /\ status'[l] = status[l] /\ onTransfer'[l] = onTransfer[l] /\ onTransfer[l] # t
      BY <1>3, <1>6, <2>2 DEF Exists, LinesOn
    <3>2. Moving(l)' <=> Moving(l)
      BY <1>1, <1>4, <3>1 DEF Moving, OrNull
    <3> QED
      BY <1>1, <3>1, <3>2 DEF PlaceInv, AllInPlace, InPlace
  <2> QED
    BY <2>1, <2>2
<1> QED
  BY <1>5, <1>6 DEF PlaceInv, AllInPlace

----------------------------------------------------------------------------
(* Every step.                                                                *)
LEMMA PurchaseOrderPlaces ==
  ASSUME IInv, PlaceInv, NEW o \in POs, PurchaseOrderNext(o)
  PROVE  PlaceInv'
<1>1. ASSUME NEW S \in SUBSET (Lots \ Clones), NEW bought \in [S -> Qtys],
             CreateOrder(o, bought)
      PROVE  PlaceInv'
  <2>1. S \in SUBSET Lots
    OBVIOUS
  <2> QED
    BY <1>1, <2>1, CreateOrderPlaces
<1>2. ASSUME NEW stage \in Stages, Advance(o, stage)
      PROVE  PlaceInv'
  <2>1. stage \in Lifecycles
    BY StockAssumption DEF StockAssumption
  <2> QED
    BY <1>2, <2>1, AdvancePlaces
<1>3. ASSUME NEW manager \in BOOLEAN, NEW l \in Lots, NEW n, PatchAddLine(o, manager, l, n)
      PROVE  PlaceInv'
  BY <1>3, PatchAddLinePlaces
<1>4. ASSUME NEW manager \in BOOLEAN, NEW l \in Lots, PatchRemoveLine(o, manager, l)
      PROVE  PlaceInv'
  BY <1>4, PatchRemoveLinePlaces
<1>5. ASSUME NEW manager \in BOOLEAN, NEW l \in Lots, NEW q, PatchRecount(o, manager, l, q)
      PROVE  PlaceInv'
  BY <1>5, PatchRecountPlaces
<1>6. ASSUME NEW removeFromSellOrders \in BOOLEAN, ArchiveOrder(o, removeFromSellOrders)
      PROVE  PlaceInv'
  BY <1>6, ArchiveOrderPlaces
<1> QED
  BY <1>1, <1>2, <1>3, <1>4, <1>5, <1>6, PatchHeaderPlaces, UnarchiveOrderPlaces,
     DeleteOrderPlaces DEF PurchaseOrderNext

LEMMA EditLotNextPlaces ==
  ASSUME IInv, PlaceInv, NEW l \in Lots, EditLotNext(l)
  PROVE  PlaceInv'
<1> SUFFICES ASSUME NEW manager, NEW st \in StageStatuses \cup {"Sold", status[l]}, NEW q,
                    EditLot(l, manager, st, q)
             PROVE  PlaceInv'
  BY DEF EditLotNext
<1> QED
  BY EditLotPlaces

LEMMA SellOrderPlaces ==
  ASSUME IInv, PlaceInv, NEW s \in SOs, SellOrderNext(s)
  PROVE  PlaceInv'
<1>1. ASSUME UNCHANGED <<poVars, lineVars, moveVars, handled>>
      PROVE  PlaceInv'
  BY <1>1, SellPlaces DEF lineVars
<1>2. ASSUME NEW want, CreateDraft(s, want) PROVE PlaceInv'
  BY <1>1, <1>2 DEF CreateDraft
<1>3. ASSUME NEW want, NEW atZero, RewriteLines(s, want, atZero) PROVE PlaceInv'
  BY <1>1, <1>3 DEF RewriteLines
<1>4. ASSUME NEW to, Move(s, to) PROVE PlaceInv'
  BY <1>1, <1>4 DEF Move
<1>5. ASSUME ArchiveSellOrder(s) \/ UnarchiveSellOrder(s) PROVE PlaceInv'
  BY <1>1, <1>5 DEF ArchiveSellOrder, UnarchiveSellOrder
<1> QED
  BY <1>2, <1>3, <1>4, <1>5, MarkDonePlaces, ReopenSalePlaces DEF SellOrderNext

LEMMA TransferNextPlaces ==
  ASSUME IInv, PlaceInv, NEW t \in TOs, TransferNext(t)
  PROVE  PlaceInv'
<1>1. ASSUME NEW S \in SUBSET Lots, NEW move \in [S -> Qtys], NEW cloneOf,
             Transfer(t, move, cloneOf)
      PROVE  PlaceInv'
  <2>1. move \in [S -> Nat]
    BY DEF Qtys
  <2> QED
    BY <1>1, <2>1, TransferPlaces
<1> QED
  BY <1>1, ReceivePlaces, ReopenPlaces, DiscardPlaces DEF TransferNext

LEMMA StutterPlaces == PlaceInv /\ UNCHANGED vars => PlaceInv'
  BY SellPlaces DEF vars, lineVars

(* Every lot is where its order and its transfer say, in every reachable      *)
(* state: the inductive invariant behind the two theorems after it.           *)
THEOREM Places == Spec => []PlaceInv
<1>1. IInv /\ PlaceInv /\ [Next]_vars => PlaceInv'
  BY PurchaseOrderPlaces, EditLotNextPlaces, SellOrderPlaces, TransferNextPlaces, StutterPlaces
     DEF Next
<1> QED
  BY InitPlaces, <1>1, Invariant, PTL DEF Spec

(* The archive of a purchase order, and nothing else, takes its goods out of  *)
(* stock, however it meets sales, transfers and cascades.                     *)
THEOREM ArchivedStayOut == Spec => []ArchivedOutOfStock
  BY Places, PlacesSay, PTL

(* No cascade, sale or edit strands goods that are out on a transfer.         *)
THEOREM NoTransferStranded == Spec => []TransferNotStranded
  BY Places, PlacesSay, PTL
----------------------------------------------------------------------------
(* What became of the goods.                                                 *)
(* A lot turns Sold with a sale, and comes back with it.  If its purchase is  *)
(* not counted apart, that sale took all of it.  A lot not yet bought has no  *)
(* purchase counted apart.                                                    *)
SoldToSomeone ==
  \A l \in Lots \ handled : status[l] = "Sold" => \E s \in DoneOrders : sol[s][l] > 0
SoldWhole ==
  \A l \in Lots \ handled : status[l] = "Sold" /\ purchased[l] = NoQty =>
    \A s \in DoneOrders : sol[s][l] \in {0, qty[l]}
NewLotsClean == \A l \in Lots : status[l] = "none" => purchased[l] = NoQty

BookInv == StockConserved /\ SoldToSomeone /\ SoldWhole /\ NewLotsClean

----------------------------------------------------------------------------
(* Units on Done orders.                                                      *)
SoldUnits(l) == Total(QtyOn(l), DoneOrders)
SoldBesides(l, s) == Total(QtyOn(l), DoneOrders \ {s})

LEMMA SoldFacts ==
  ASSUME SellTypeOK, NEW l \in Lots
  PROVE  /\ SoldUnits(l) \in Nat
         /\ SoldUnits(l) > 0 <=> \E s \in DoneOrders : sol[s][l] > 0
         /\ \A s \in SOs : SoldBesides(l, s) \in Nat
         /\ \A s \in DoneOrders : SoldUnits(l) = SoldBesides(l, s) + sol[s][l]
<1> DEFINE S == DoneOrders
<1>1. S \subseteq SOs /\ IsFiniteSet(S) /\ \A s \in SOs : IsFiniteSet(S \ {s})
  BY StockAssumption, FS_Subset DEF StockAssumption, DoneOrders
<1>2. \A s \in S : QtyOn(l)[s] \in Nat /\ QtyOn(l)[s] = sol[s][l]
  BY <1>1 DEF SellTypeOK, QtyOn
<1> HIDE DEF S
<1>3. Total(QtyOn(l), S) \in Nat /\ (Total(QtyOn(l), S) > 0 <=> \E s \in S : QtyOn(l)[s] > 0)
  BY <1>1, <1>2, TotalNat, TotalPositive
<1>4. \A s \in SOs : Total(QtyOn(l), S \ {s}) \in Nat
  BY <1>1, <1>2, TotalNat
<1>5. \A s \in S : Total(QtyOn(l), S) = Total(QtyOn(l), S \ {s}) + QtyOn(l)[s]
  BY <1>1, <1>2, TotalSplit
<1> QED
  BY <1>2, <1>3, <1>4, <1>5 DEF S, SoldUnits, SoldBesides

LEMMA SoldFactsNext ==
  SellTypeOK' => \A l \in Lots :
    /\ SoldUnits(l)' \in Nat
    /\ SoldUnits(l)' > 0 <=> \E s \in DoneOrders' : sol'[s][l] > 0
    /\ \A s \in DoneOrders' : SoldUnits(l)' = SoldBesides(l, s)' + sol'[s][l]
<1> DEFINE P == SellTypeOK => \A l \in Lots :
      /\ SoldUnits(l) \in Nat
      /\ SoldUnits(l) > 0 <=> \E s \in DoneOrders : sol[s][l] > 0
      /\ \A s \in DoneOrders : SoldUnits(l) = SoldBesides(l, s) + sol[s][l]
<1>1. P
  BY SoldFacts
<1>2. P'
  BY <1>1, PTL
<1> QED
  BY <1>2

LEMMA SoldFrame ==
  ASSUME DoneOrders' = DoneOrders, \A s \in DoneOrders : sol'[s] = sol[s], NEW l \in Lots
  PROVE  SoldUnits(l)' = SoldUnits(l)
<1>1. \A s \in DoneOrders : s \in SOs /\ QtyOn(l)'[s] = QtyOn(l)[s]
  BY DEF QtyOn, DoneOrders
<1>2. Total(QtyOn(l)', DoneOrders) = Total(QtyOn(l), DoneOrders)
  BY <1>1, TotalSame
<1>3. SoldUnits(l)' = Total(QtyOn(l)', DoneOrders')
  BY DEF SoldUnits
<1> QED
  BY <1>2, <1>3 DEF SoldUnits

(* The law, for one lot.                                                      *)
LEMMA Conserved ==
  ASSUME IInv, BookInv, NEW l \in Lots \ handled, Exists(l)
  PROVE  /\ Purchased(l) = OnHand(l) + SoldUnits(l)
         /\ SoldUnits(l) \in Nat /\ qty[l] \in Nat /\ purchased[l] \in Nat \cup {NoQty}
  BY SoldFacts DEF BookInv, StockConserved, SoldUnits, IInv, TypeOK, LineTypeOK

(* A lot no sale has drawn from since its purchase was last counted with it.  *)
LEMMA Untouched ==
  ASSUME IInv, BookInv, NEW l \in Lots \ handled, Exists(l), status[l] # "Sold", purchased[l] = NoQty
  PROVE  \A s \in DoneOrders : sol[s][l] = 0
<1>1. SoldUnits(l) = 0
  BY Conserved DEF Purchased, OnHand
<1>2. \A s \in DoneOrders : sol[s][l] \in Nat
  BY DEF DoneOrders, IInv, TypeOK, SellTypeOK
<1> QED
  BY <1>1, <1>2, SoldFacts DEF IInv, TypeOK

----------------------------------------------------------------------------
(* Steps that sell nothing and take no sale back.                             *)
MovedAlike(l) ==
  \E d \in Int :
    /\ status[l] = "Sold" => d = 0
    /\ qty'[l] = qty[l] + d
    /\ purchased'[l] = IF purchased[l] = NoQty THEN NoQty ELSE purchased[l] + d

LEMMA BooksStand ==
  ASSUME IInv, TypeOK', BookInv, handled \subseteq handled',
         DoneOrders' = DoneOrders, \A s \in DoneOrders : sol'[s] = sol[s],
         \A l \in Lots : status'[l] = "none" => status[l] = "none" /\ purchased'[l] = purchased[l],
         \A l \in Lots \ handled' : Exists(l)' =>
           \/ status[l] = "none" /\ status'[l] # "Sold" /\ purchased'[l] = purchased[l]
           \/ Exists(l) /\ (status'[l] = "Sold" <=> status[l] = "Sold") /\ MovedAlike(l)
  PROVE  BookInv'
<1>1. NewLotsClean'
  BY DEF BookInv, NewLotsClean
<1>2. ASSUME NEW l \in Lots \ handled', Exists(l)'
      PROVE  /\ (Purchased(l) = OnHand(l) + SoldUnits(l))'
             /\ status'[l] = "Sold" =>
                  /\ \E s \in DoneOrders : sol[s][l] > 0
                  /\ purchased'[l] = NoQty => \A s \in DoneOrders : sol[s][l] \in {0, qty'[l]}
  <2>1. SoldUnits(l)' = SoldUnits(l) /\ l \in Lots \ handled
    BY SoldFrame
  <2>2. CASE status[l] = "none" /\ status'[l] # "Sold" /\ purchased'[l] = purchased[l]
    <3>1. purchased'[l] = NoQty
      BY <2>2 DEF BookInv, NewLotsClean
    <3>2. \A s \in DoneOrders : s \in SOs /\ ~(sol[s][l] > 0)
      BY <2>2 DEF DoneOrders, IInv, ClaimsOK, NamesKnown
    <3>3. SoldUnits(l) = 0
      BY <3>2, SoldFacts DEF IInv, TypeOK
    <3>4. qty'[l] \in Nat
      BY DEF TypeOK, LineTypeOK
    <3> QED
      BY <2>1, <2>2, <3>1, <3>3, <3>4 DEF Purchased, OnHand
  <2>3. CASE Exists(l) /\ (status'[l] = "Sold" <=> status[l] = "Sold") /\ MovedAlike(l)
    <3>1. /\ Purchased(l) = OnHand(l) + SoldUnits(l)
          /\ SoldUnits(l) \in Nat /\ qty[l] \in Nat /\ purchased[l] \in Nat \cup {NoQty}
      BY <2>1, <2>3, Conserved
    <3>2. PICK d \in Int : /\ status[l] = "Sold" => d = 0
                           /\ qty'[l] = qty[l] + d
                           /\ purchased'[l] = IF purchased[l] = NoQty THEN NoQty ELSE purchased[l] + d
      BY <2>3 DEF MovedAlike
    <3>3. qty'[l] \in Nat
      BY DEF TypeOK, LineTypeOK
    <3>4. purchased[l] # NoQty => purchased'[l] # NoQty
      <4> SUFFICES ASSUME purchased[l] # NoQty
                   PROVE  purchased'[l] # NoQty
        OBVIOUS
      <4>1. CASE status[l] = "Sold"
        BY <3>1, <3>2, <4>1 DEF NoQty
      <4>2. CASE status[l] # "Sold"
        <5>1. purchased[l] = qty[l] + SoldUnits(l)
          BY <3>1, <4>2 DEF Purchased, OnHand
        <5>2. purchased'[l] = qty'[l] + SoldUnits(l)
          BY <3>1, <3>2, <5>1
        <5> QED
          BY <3>1, <3>3, <5>2 DEF NoQty
      <4> QED
        BY <4>1, <4>2
    <3>5. (Purchased(l) = OnHand(l) + SoldUnits(l))'
      BY <2>1, <2>3, <3>1, <3>2, <3>4 DEF Purchased, OnHand, NoQty
    <3>6. status'[l] = "Sold" => qty'[l] = qty[l] /\ (purchased'[l] = NoQty => purchased[l] = NoQty)
      BY <2>3, <3>1, <3>2, <3>4
    <3> QED
      BY <2>1, <2>3, <3>5, <3>6 DEF BookInv, SoldToSomeone, SoldWhole
  <2> QED
    BY <1>2, <2>2, <2>3
<1>3. StockConserved'
  BY <1>2 DEF StockConserved, SoldUnits
<1>4. \A l \in Lots : status'[l] = "Sold" => Exists(l)'
  BY DEF Exists, LineStatuses
<1>5. SoldToSomeone' /\ SoldWhole'
  BY <1>2, <1>4 DEF SoldToSomeone, SoldWhole, DoneOrders
<1> QED
  BY <1>1, <1>3, <1>5 DEF BookInv

----------------------------------------------------------------------------
(* What steps that sell nothing have in common.                               *)
LEMMA SellersStand ==
  ASSUME UNCHANGED <<soStatus, sol>>
  PROVE  DoneOrders' = DoneOrders /\ \A s \in DoneOrders : sol'[s] = sol[s]
  BY DEF DoneOrders

LEMMA NotMoved ==
  ASSUME IInv, NEW l \in Lots, qty'[l] = qty[l], purchased'[l] = purchased[l]
  PROVE  MovedAlike(l)
<1>1. /\ 0 \in Int /\ qty'[l] = qty[l] + 0
      /\ purchased'[l] = IF purchased[l] = NoQty THEN NoQty ELSE purchased[l] + 0
  BY DEF IInv, TypeOK, LineTypeOK
<1> QED
  BY <1>1 DEF MovedAlike

LEMMA CascadeSellsNothing ==
  ASSUME NEW o, NEW st \in LineStatuses \ {"Sold"}, NEW keep, NEW l \in Lots
  PROVE  /\ Cascade(o, st, keep)[l] = "Sold" <=> status[l] = "Sold"
         /\ Cascade(o, st, keep)[l] \in LineStatuses <=> Exists(l)
         /\ Cascade(o, st, keep)[l] = "none" => status[l] = "none"
  BY DEF Cascade, LinesOf, Exists, LineStatuses, StageStatuses

LEMMA RevertSellsNothing ==
  ASSUME NEW o, NEW manager, NEW l \in Lots
  PROVE  /\ StatusAfterRevert(o, manager)[l] = "Sold" <=> status[l] = "Sold"
         /\ StatusAfterRevert(o, manager)[l] \in LineStatuses <=> Exists(l)
         /\ StatusAfterRevert(o, manager)[l] = "none" => status[l] = "none"
<1>1. "Draft" \in LineStatuses \ {"Sold"}
  BY DEF LineStatuses, StageStatuses
<1>2. CASE Reverts(o, manager)
  BY <1>1, <1>2, CascadeSellsNothing DEF StatusAfterRevert
<1>3. CASE ~Reverts(o, manager)
  BY <1>3 DEF StatusAfterRevert, Exists, LineStatuses, StageStatuses
<1> QED
  BY <1>2, <1>3

LEMMA RecountMovesAlike ==
  ASSUME IInv, NEW l \in Lots, NEW q \in Nat, WriteQty(l, q), NEW k \in Lots
  PROVE  /\ k # l => purchased'[k] = purchased[k]
         /\ k # l \/ q = qty[l] \/ status[l] # "Sold" => MovedAlike(k)
<1>1. CASE k # l
  <2>1. qty'[k] = qty[k] /\ purchased'[k] = purchased[k]
    BY <1>1 DEF WriteQty, IInv, TypeOK, LineTypeOK
  <2> QED
    BY <2>1, NotMoved
<1>2. CASE k = l
  <2>1. q - qty[l] \in Int /\ qty[l] \in Nat
    BY DEF IInv, TypeOK, LineTypeOK
  <2>2. /\ qty'[l] = qty[l] + (q - qty[l])
        /\ purchased'[l] = IF purchased[l] = NoQty THEN NoQty ELSE purchased[l] + (q - qty[l])
    BY <2>1 DEF WriteQty, Recounted, IInv, TypeOK, LineTypeOK
  <2>3. q = qty[l] => q - qty[l] = 0
    BY <2>1
  <2> QED
    BY <1>2, <2>1, <2>2, <2>3 DEF MovedAlike
<1> QED
  BY <1>1, <1>2

----------------------------------------------------------------------------
(* Purchase orders.                                                           *)
LEMMA CreateOrderBooks ==
  ASSUME IInv, TypeOK', BookInv, NEW o, NEW S \in SUBSET Lots, NEW bought \in [S -> Qtys],
         CreateOrder(o, bought)
  PROVE  BookInv'
<1>1. UNCHANGED <<soStatus, sol, purchased, handled>> /\ DOMAIN bought = S
  BY DEF CreateOrder, sellVars
<1>2. \A l \in Lots : IF l \in S THEN status[l] = "none" /\ status'[l] = "Draft"
                               ELSE status'[l] = status[l] /\ qty'[l] = qty[l]
  BY <1>1 DEF CreateOrder
<1>3. \A l \in Lots \ S : MovedAlike(l)
  BY <1>1, <1>2, NotMoved
<1> QED
  BY <1>1, <1>2, <1>3, SellersStand, BooksStand DEF Exists

LEMMA AdvanceBooks ==
  ASSUME IInv, TypeOK', BookInv, NEW o, NEW stage \in Lifecycles, Advance(o, stage)
  PROVE  BookInv'
<1> DEFINE st == LineStatusFor[stage]
<1>1. UNCHANGED <<soStatus, sol, qty, purchased, handled>>
  BY DEF Advance, sellVars
<1>2. st \in LineStatuses \ {"Sold"}
  BY StageToStatus DEF LineStatuses, StageStatuses
<1>3. status' = Cascade(o, st, HeldBack(o, st))
  BY DEF Advance
<1> HIDE DEF st
<1>4. \A l \in Lots : /\ status'[l] = "Sold" <=> status[l] = "Sold"
                      /\ Exists(l)' <=> Exists(l)
                      /\ status'[l] = "none" => status[l] = "none"
  BY <1>2, <1>3, CascadeSellsNothing DEF Exists
<1>5. \A l \in Lots : MovedAlike(l)
  BY <1>1, NotMoved
<1> QED
  BY <1>1, <1>4, <1>5, SellersStand, BooksStand

LEMMA PatchHeaderBooks ==
  ASSUME IInv, TypeOK', BookInv, NEW o, PatchHeader(o)
  PROVE  BookInv'
<1>1. UNCHANGED <<soStatus, sol, qty, purchased, handled>> /\ status' = StatusAfterRevert(o, FALSE)
  BY DEF PatchHeader, Landed, sellVars
<1>2. \A l \in Lots : MovedAlike(l)
  BY <1>1, NotMoved
<1> QED
  BY <1>1, <1>2, RevertSellsNothing, SellersStand, BooksStand DEF Exists

LEMMA PatchAddLineBooks ==
  ASSUME IInv, TypeOK', BookInv, NEW o \in POs, NEW manager, NEW l \in Lots, NEW n,
         PatchAddLine(o, manager, l, n)
  PROVE  BookInv'
<1>1. UNCHANGED <<soStatus, sol, purchased, handled>> /\ status[l] = "none"
  BY DEF PatchAddLine, Landed, sellVars
<1>2. status'[l] \in StageStatuses
  <2>1. Landing(o, manager) \in Lifecycles
    BY DEF PatchAddLine, PatchOpen, Editable, Landing, Lifecycles
  <2>2. LineStatusFor[Landing(o, manager)] \in StageStatuses
    BY <2>1, StageToStatus
  <2> QED
    BY <2>2, RevertType DEF PatchAddLine, IInv, TypeOK
<1>3. \A k \in Lots \ {l} : /\ status'[k] = StatusAfterRevert(o, manager)[k]
                            /\ qty'[k] = qty[k]
  BY RevertType DEF PatchAddLine, IInv, TypeOK, LineTypeOK
<1>4. \A k \in Lots \ {l} : MovedAlike(k)
  BY <1>1, <1>3, NotMoved
<1>5. ASSUME NEW k \in Lots, Exists(k)'
      PROVE  \/ status[k] = "none" /\ status'[k] # "Sold" /\ purchased'[k] = purchased[k]
             \/ Exists(k) /\ (status'[k] = "Sold" <=> status[k] = "Sold") /\ MovedAlike(k)
  <2>1. CASE k = l
    BY <1>1, <1>2, <2>1 DEF StageStatuses
  <2>2. CASE k # l
    BY <1>3, <1>4, <1>5, <2>2, RevertSellsNothing DEF Exists
  <2> QED
    BY <2>1, <2>2
<1>6. \A k \in Lots : status'[k] = "none" => status[k] = "none"
  BY <1>1, <1>3, RevertSellsNothing
<1> QED
  BY <1>1, <1>5, <1>6, SellersStand, BooksStand

LEMMA PatchRemoveLineBooks ==
  ASSUME IInv, TypeOK', BookInv, NEW o, NEW manager, NEW l \in Lots,
         PatchRemoveLine(o, manager, l)
  PROVE  BookInv'
<1>1. UNCHANGED <<soStatus, sol, handled>>
  BY DEF PatchRemoveLine, Landed, sellVars
<1>2. status'[l] = "deleted"
  BY RevertType DEF PatchRemoveLine, IInv, TypeOK
<1>3. \A k \in Lots \ {l} : /\ status'[k] = StatusAfterRevert(o, manager)[k]
                            /\ qty'[k] = qty[k] /\ purchased'[k] = purchased[k]
  BY RevertType DEF PatchRemoveLine, IInv, TypeOK, LineTypeOK
<1>4. \A k \in Lots \ {l} : MovedAlike(k)
  BY <1>3, NotMoved
<1>5. ~Exists(l)' /\ status'[l] # "none"
  BY <1>2 DEF Exists, LineStatuses, StageStatuses
<1>6. \A k \in Lots : Exists(k)' =>
        Exists(k) /\ (status'[k] = "Sold" <=> status[k] = "Sold") /\ MovedAlike(k)
  <2>1. ASSUME NEW k \in Lots, Exists(k)'
        PROVE  Exists(k) /\ (status'[k] = "Sold" <=> status[k] = "Sold") /\ MovedAlike(k)
    <3>1. k # l
      BY <1>5, <2>1
    <3> QED
      BY <1>3, <1>4, <2>1, <3>1, RevertSellsNothing DEF Exists
  <2> QED
    BY <2>1
<1>7. \A k \in Lots : status'[k] = "none" => status[k] = "none" /\ purchased'[k] = purchased[k]
  BY <1>3, <1>5, RevertSellsNothing
<1> QED
  BY <1>1, <1>6, <1>7, SellersStand, BooksStand

LEMMA PatchRecountBooks ==
  ASSUME IInv, TypeOK', BookInv, NEW o, NEW manager, NEW l \in Lots, NEW q \in Nat,
         PatchRecount(o, manager, l, q)
  PROVE  BookInv'
<1>1. /\ UNCHANGED <<soStatus, sol>> /\ WriteQty(l, q) /\ Exists(l)
      /\ status' = StatusAfterRevert(o, manager)
      /\ handled \subseteq handled' /\ (status[l] = "Sold" => l \in handled')
  BY DEF PatchRecount, Landed, sellVars, LinesOf
<1>2. \A k \in Lots \ handled' : MovedAlike(k)
  BY <1>1, RecountMovesAlike
<1>3. \A k \in Lots : status'[k] = "none" => status[k] = "none" /\ purchased'[k] = purchased[k]
  BY <1>1, RevertSellsNothing, RecountMovesAlike DEF Exists, LineStatuses, StageStatuses
<1> QED
  BY <1>1, <1>2, <1>3, RevertSellsNothing, SellersStand, BooksStand DEF Exists

LEMMA EditLotBooks ==
  ASSUME IInv, TypeOK', BookInv, NEW l \in Lots, NEW manager, NEW st \in LineStatuses,
         NEW q \in Nat, EditLot(l, manager, st, q)
  PROVE  BookInv'
<1> DEFINE o == PoOf[l]
<1>1. /\ UNCHANGED <<soStatus, sol>> /\ WriteQty(l, q) /\ Exists(l)
      /\ handled \subseteq handled'
      /\ st # status[l] \/ (q # qty[l] /\ status[l] = "Sold") => l \in handled'
  BY DEF EditLot, Landed, sellVars
<1>2. \A k \in Lots \ handled' : MovedAlike(k)
  BY <1>1, RecountMovesAlike
<1>3. status' = Cascade(o, "Draft", {}) \/ status' = [status EXCEPT ![l] = st]
  BY DEF EditLot
<1>4. \A k \in Lots \ handled' : /\ status'[k] = "Sold" <=> status[k] = "Sold"
                                 /\ Exists(k)' => Exists(k)
  <2>1. CASE status' = Cascade(o, "Draft", {})
    <3>1. "Draft" \in LineStatuses \ {"Sold"}
      BY DEF LineStatuses, StageStatuses
    <3> QED
      BY <2>1, <3>1, CascadeSellsNothing DEF Exists
  <2>2. CASE status' = [status EXCEPT ![l] = st]
    BY <1>1, <2>2 DEF Exists, IInv, TypeOK, LineTypeOK
  <2> QED
    BY <1>3, <2>1, <2>2
<1>5. \A k \in Lots : status'[k] = "none" => status[k] = "none" /\ purchased'[k] = purchased[k]
  <2>1. \A k \in Lots : status'[k] = "none" => status[k] = "none"
    BY <1>1, <1>3 DEF Cascade, Exists, LineStatuses, StageStatuses, IInv, TypeOK, LineTypeOK
  <2>2. status[l] # "none"
    BY <1>1 DEF Exists, LineStatuses, StageStatuses
  <2> QED
    BY <1>1, <2>1, <2>2, RecountMovesAlike
<1> QED
  BY <1>1, <1>2, <1>4, <1>5, SellersStand, BooksStand

LEMMA ArchiveOrderBooks ==
  ASSUME IInv, TypeOK', BookInv, NEW o, NEW removeFromSellOrders,
         ArchiveOrder(o, removeFromSellOrders)
  PROVE  BookInv'
<1>1. UNCHANGED <<soStatus, qty, purchased, handled>> /\ status' = Cascade(o, "Archived", {})
  BY DEF ArchiveOrder
<1>2. DoneOrders' = DoneOrders /\ \A s \in DoneOrders : sol'[s] = sol[s]
  <2>1. ASSUME NEW s \in DoneOrders
        PROVE  sol'[s] = sol[s]
    <3>1. s \in SOs /\ soStatus[s] \notin Open
      BY DEF DoneOrders, Open, Proposal, Committed
    <3>2. sol[s] \in [Lots -> Nat]
      BY <3>1 DEF IInv, TypeOK, SellTypeOK
    <3>3. \A l \in Lots : <<s, l>> \notin ArchiveClaims(o)
      BY <3>1 DEF ArchiveClaims
    <3>4. sol'[s] = [l \in Lots |-> sol[s][l]]
      BY <3>1, <3>3 DEF ArchiveOrder
    <3> QED
      BY <3>2, <3>4
  <2> QED
    BY <1>1, <2>1 DEF DoneOrders
<1>3. "Archived" \in LineStatuses \ {"Sold"}
  BY DEF LineStatuses, StageStatuses
<1>4. \A l \in Lots : MovedAlike(l)
  BY <1>1, NotMoved
<1> QED
  BY <1>1, <1>2, <1>3, <1>4, CascadeSellsNothing, BooksStand DEF Exists

LEMMA UnarchiveOrderBooks ==
  ASSUME IInv, TypeOK', BookInv, NEW o, UnarchiveOrder(o)
  PROVE  BookInv'
<1>1. UNCHANGED <<soStatus, sol, qty, purchased, handled>>
  BY DEF UnarchiveOrder, sellVars
<1>2. \A l \in Lots : \/ status'[l] = status[l]
                      \/ Exists(l) /\ status[l] = "Archived" /\ status'[l] \in StageStatuses
  BY DEF UnarchiveOrder, LinesOf, IInv, TypeOK, LogTypeOK
<1>3. \A l \in Lots : MovedAlike(l)
  BY <1>1, NotMoved
<1> QED
  BY <1>1, <1>2, <1>3, SellersStand, BooksStand DEF Exists, StageStatuses

LEMMA DeleteOrderBooks ==
  ASSUME IInv, TypeOK', BookInv, NEW o, DeleteOrder(o)
  PROVE  BookInv'
<1>1. UNCHANGED <<soStatus, sol, handled>>
  BY DEF DeleteOrder, sellVars
<1>2. \A l \in Lots : \/ status'[l] = "deleted"
                      \/ status'[l] = status[l] /\ qty'[l] = qty[l] /\ purchased'[l] = purchased[l]
  BY DEF DeleteOrder
<1>3. \A l \in Lots : Exists(l)' => Exists(l) /\ status'[l] = status[l] /\ MovedAlike(l)
  BY <1>2, NotMoved DEF Exists, LineStatuses, StageStatuses
<1> QED
  BY <1>1, <1>2, <1>3, SellersStand, BooksStand

----------------------------------------------------------------------------
(* Transfers.                                                                 *)
LEMMA TransferBooks ==
  ASSUME IInv, TypeOK', BookInv, NEW t, NEW S \in SUBSET Lots, NEW move \in [S -> Nat],
         NEW cloneOf, Transfer(t, move, cloneOf)
  PROVE  BookInv'
<1> DEFINE P == Parted(move)
           W == Whole(move)
           D == Drawn(cloneOf)
<1>1. UNCHANGED <<soStatus, sol, handled>> /\ DOMAIN move = S /\ P \subseteq S /\ W \subseteq S
  BY DEF Transfer, sellVars, Parted, Whole
<1>2. \A l \in S : status[l] \in Sellable
  BY <1>1 DEF Transfer, Movable
<1>3. \A l \in D : status[l] = "none"
  <2>1. \A l \in DOMAIN cloneOf : status[cloneOf[l]] = "none"
    BY DEF Transfer
  <2> QED
    BY <2>1 DEF Drawn
<1>4. \A l \in Lots : status'[l] = IF l \in W \cup D THEN "In Transit" ELSE status[l]
  BY DEF Transfer, Departs
<1>5. \A l \in P : /\ qty'[l] = qty[l] + (0 - move[l]) /\ 0 - move[l] \in Int
                   /\ purchased'[l] = IF purchased[l] = NoQty THEN NoQty
                                      ELSE purchased[l] + (0 - move[l])
  <2>1. ASSUME NEW l \in P
        PROVE  /\ l \in Lots /\ move[l] \in Nat /\ qty[l] \in Nat
               /\ purchased[l] \in Nat \cup {NoQty}
               /\ qty'[l] = qty[l] - move[l] /\ purchased'[l] = ShareLeft(l, move[l])
    BY <1>1 DEF Transfer, IInv, TypeOK, LineTypeOK
  <2> QED
    BY <2>1 DEF ShareLeft, NoQty
<1>6. \A l \in Lots \ P : /\ l \notin D => qty'[l] = qty[l]
                          /\ purchased'[l] = purchased[l]
  BY DEF Transfer
<1> HIDE DEF P, W, D
<1>7. ASSUME NEW l \in Lots, Exists(l)'
      PROVE  \/ status[l] = "none" /\ status'[l] # "Sold" /\ purchased'[l] = purchased[l]
             \/ Exists(l) /\ (status'[l] = "Sold" <=> status[l] = "Sold") /\ MovedAlike(l)
  <2>1. CASE l \in D
    BY <1>1, <1>2, <1>3, <1>4, <1>6, <2>1 DEF Sellable
  <2>2. CASE l \in P
    <3>1. status[l] \in Sellable /\ l \notin D
      BY <1>1, <1>2, <1>3, <2>2 DEF Sellable
    <3>2. MovedAlike(l)
      BY <1>5, <2>2, <3>1 DEF MovedAlike, Sellable
    <3> QED
      BY <1>4, <3>1, <3>2 DEF Exists, Sellable, LineStatuses, StageStatuses
  <2>3. CASE l \notin P \cup D
    <3>1. MovedAlike(l)
      BY <1>6, <2>3, NotMoved
    <3>2. l \in W => status[l] \in Sellable
      BY <1>1, <1>2
    <3> QED
      BY <1>4, <1>7, <2>3, <3>1, <3>2 DEF Exists, Sellable, LineStatuses, StageStatuses
  <2> QED
    BY <2>1, <2>2, <2>3
<1>8. \A l \in Lots : status'[l] = "none" => status[l] = "none" /\ purchased'[l] = purchased[l]
  BY <1>1, <1>2, <1>4, <1>6 DEF Sellable
<1> QED
  BY <1>1, <1>7, <1>8, SellersStand, BooksStand

LEMMA ReceiveBooks ==
  ASSUME IInv, TypeOK', BookInv, NEW t, Receive(t)
  PROVE  BookInv'
<1>1. UNCHANGED <<soStatus, sol, qty, purchased, handled>>
  BY DEF Receive, sellVars
<1>2. \A l \in Lots : \/ status'[l] = status[l]
                      \/ Exists(l) /\ status[l] = "In Transit" /\ status'[l] = LandsAt(l)
  BY DEF Receive, LinesOn
<1>3. \A l \in Lots : LandsAt(l) \in LineStatuses \ {"Sold"}
  BY DEF LandsAt, IInv, TypeOK, MoveTypeOK, Sellable, LineStatuses, StageStatuses
<1>4. \A l \in Lots : MovedAlike(l)
  BY <1>1, NotMoved
<1> QED
  BY <1>1, <1>2, <1>3, <1>4, SellersStand, BooksStand DEF Exists, LineStatuses, StageStatuses

LEMMA ReopenBooks ==
  ASSUME IInv, TypeOK', BookInv, NEW t, Reopen(t)
  PROVE  BookInv'
<1>1. UNCHANGED <<soStatus, sol, qty, purchased, handled>>
  BY DEF Reopen, sellVars
<1>2. \A l \in Lots : \/ status'[l] = status[l]
                      \/ Exists(l) /\ status[l] \in Sellable /\ status'[l] = "In Transit"
  BY DEF Reopen, LinesOn, InStockAndFree
<1>3. \A l \in Lots : MovedAlike(l)
  BY <1>1, NotMoved
<1> QED
  BY <1>1, <1>2, <1>3, SellersStand, BooksStand DEF Exists, Sellable

(* A Sold lot is on a Done order, so no clone is merged into it.              *)
LEMMA SoldAbsorbsNone ==
  ASSUME IInv, BookInv, NEW t, NEW l \in Lots \ handled, status[l] = "Sold"
  PROVE  MergedUnits(t, l) = 0
<1> DEFINE S == {k \in MergedOf(t) : peer[k] = l}
<1>1. ~Absorbs(l)
  BY DEF Absorbs, Names, BookInv, SoldToSomeone, DoneOrders
<1>2. S = {}
  BY <1>1 DEF MergedOf
<1>3. IsFiniteSet(S) /\ \A x \in S : qty[x] \in Nat
  BY <1>2, FS_EmptySet
<1> HIDE DEF S
<1>4. Total(qty, S) \in Nat /\ ~(Total(qty, S) > 0)
  BY <1>2, <1>3, TotalNat, TotalPositive
<1> QED
  BY <1>4 DEF S, MergedUnits

LEMMA DiscardBooks ==
  ASSUME IInv, TypeOK', BookInv, NEW t, Discard(t)
  PROVE  BookInv'
<1>1. UNCHANGED <<soStatus, sol, handled>>
  BY DEF Discard, sellVars
<1>2. MergedOf(t) \subseteq LinesOn(t) /\ \A l \in LinesOn(t) : Exists(l) /\ status[l] = "In Transit"
  BY DEF Discard, MergedOf, LinesOn
<1>3. \A l \in Lots : LandsAt(l) \in LineStatuses \ {"Sold"} /\ MergedUnits(t, l) \in Nat
  BY MergedUnitsNat DEF LandsAt, IInv, TypeOK, MoveTypeOK, Sellable, LineStatuses, StageStatuses
<1>4. ASSUME NEW l \in Lots \ MergedOf(t)
      PROVE  /\ status'[l] = IF l \in LinesOn(t) THEN LandsAt(l) ELSE status[l]
             /\ qty'[l] = qty[l] + MergedUnits(t, l)
             /\ purchased'[l] = IF purchased[l] = NoQty THEN NoQty
                                ELSE purchased[l] + MergedUnits(t, l)
  BY DEF Discard
<1>5. \A l \in MergedOf(t) : status'[l] = "deleted"
  BY <1>2 DEF Discard, LinesOn
<1>6. ASSUME NEW l \in Lots \ handled', Exists(l)'
      PROVE  Exists(l) /\ (status'[l] = "Sold" <=> status[l] = "Sold") /\ MovedAlike(l)
  <2>1. l \notin MergedOf(t) /\ l \notin handled
    BY <1>1, <1>5, <1>6 DEF Exists, LineStatuses, StageStatuses
  <2>2. status[l] = "Sold" => MergedUnits(t, l) = 0
    BY <2>1, SoldAbsorbsNone
  <2>3. MovedAlike(l)
    BY <1>3, <1>4, <2>1, <2>2 DEF MovedAlike
  <2> QED
    BY <1>2, <1>3, <1>4, <1>6, <2>1, <2>3 DEF Exists
<1>7. \A l \in Lots : status'[l] = "none" => status[l] = "none" /\ purchased'[l] = purchased[l]
  <2>1. ASSUME NEW l \in Lots, status'[l] = "none"
        PROVE  status[l] = "none" /\ purchased'[l] = purchased[l]
    <3>1. l \notin MergedOf(t)
      BY <1>5, <2>1
    <3>2. status[l] = "none"
      BY <1>3, <1>4, <2>1, <3>1 DEF LineStatuses, StageStatuses
    <3> QED
      BY <1>4, <3>1, <3>2 DEF BookInv, NewLotsClean
  <2> QED
    BY <2>1
<1> QED
  BY <1>1, <1>6, <1>7, SellersStand, BooksStand

----------------------------------------------------------------------------
(* Sell orders.                                                               *)
LEMMA SellBooks ==
  ASSUME IInv, TypeOK', BookInv, UNCHANGED <<lineVars, handled>>, DoneOrders' = DoneOrders,
         \A s \in DoneOrders : sol'[s] = sol[s]
  PROVE  BookInv'
<1>1. UNCHANGED <<status, qty, purchased>>
  BY DEF lineVars
<1>2. \A l \in Lots : MovedAlike(l)
  BY <1>1, NotMoved
<1> QED
  BY <1>1, <1>2, BooksStand DEF Exists

LEMMA CreateDraftBooks ==
  ASSUME IInv, TypeOK', BookInv, NEW s \in SOs, NEW want, CreateDraft(s, want)
  PROVE  BookInv'
<1>1. s \notin DoneOrders /\ UNCHANGED <<lineVars, handled>>
  BY DEF CreateDraft, DoneOrders
<1>2. \A x \in SOs \ {s} : soStatus'[x] = soStatus[x] /\ sol'[x] = sol[x]
  BY DEF CreateDraft, IInv, TypeOK, SellTypeOK
<1>3. soStatus'[s] # "Done"
  BY DEF CreateDraft, IInv, TypeOK, SellTypeOK
<1>4. DoneOrders' = DoneOrders /\ \A x \in DoneOrders : sol'[x] = sol[x]
  BY <1>1, <1>2, <1>3 DEF DoneOrders
<1> QED
  BY <1>1, <1>4, SellBooks

LEMMA RewriteLinesBooks ==
  ASSUME IInv, TypeOK', BookInv, NEW s \in SOs, NEW want, NEW atZero,
         RewriteLines(s, want, atZero)
  PROVE  BookInv'
<1>1. s \notin DoneOrders /\ UNCHANGED <<lineVars, handled, soStatus>>
  BY DEF RewriteLines, DoneOrders, Open, Proposal, Committed
<1>2. \A x \in SOs \ {s} : sol'[x] = sol[x]
  BY DEF RewriteLines, IInv, TypeOK, SellTypeOK
<1>3. DoneOrders' = DoneOrders /\ \A x \in DoneOrders : sol'[x] = sol[x]
  BY <1>1, <1>2 DEF DoneOrders
<1> QED
  BY <1>1, <1>3, SellBooks

LEMMA MoveBooks ==
  ASSUME IInv, TypeOK', BookInv, NEW s \in SOs, NEW to, Move(s, to)
  PROVE  BookInv'
<1>1. UNCHANGED <<lineVars, handled, sol>> /\ soStatus[s] # "Done" /\ to # "Done"
  BY DEF Move
<1>2. \A x \in SOs : soStatus'[x] = IF x = s THEN to ELSE soStatus[x]
  BY DEF Move, IInv, TypeOK, SellTypeOK
<1>3. DoneOrders' = DoneOrders
  BY <1>1, <1>2 DEF DoneOrders
<1> QED
  BY <1>1, <1>3, SellBooks

(* A sale takes its units from the shelf to its order.                        *)
LEMMA MarkDoneBooks ==
  ASSUME IInv, TypeOK', BookInv, NEW s \in SOs, MarkDone(s)
  PROVE  BookInv'
<1>1. UNCHANGED <<sol, handled>> /\ soStatus[s] # "Done"
  BY DEF MarkDone, MayMove, Allowed, SellStatuses
<1>2. \A x \in SOs : soStatus'[x] = IF x = s THEN "Done" ELSE soStatus[x]
  BY DEF MarkDone, IInv, TypeOK, SellTypeOK
<1>3. DoneOrders' = DoneOrders \cup {s} /\ s \notin DoneOrders
  BY <1>1, <1>2 DEF DoneOrders
<1>4. \A l \in Lots : SoldUnits(l)' = SoldUnits(l) + sol[s][l]
  <2>1. ASSUME NEW l \in Lots
        PROVE  SoldUnits(l)' = SoldUnits(l) + sol[s][l]
    <3>1. SoldUnits(l)' = SoldBesides(l, s)' + sol'[s][l]
      BY <1>3, SoldFactsNext DEF TypeOK
    <3>2. DoneOrders' \ {s} = DoneOrders /\ QtyOn(l)' = QtyOn(l)
      BY <1>1, <1>3 DEF QtyOn
    <3>3. SoldBesides(l, s)' = SoldUnits(l)
      BY <3>2 DEF SoldBesides, SoldUnits
    <3> QED
      BY <1>1, <3>1, <3>3
  <2> QED
    BY <2>1
<1>5. \A l \in Lots : sol[s][l] \in Nat
  BY DEF IInv, TypeOK, SellTypeOK
<1>6. ASSUME NEW l \in Lots \ handled, Exists(l)'
      PROVE  /\ (Purchased(l) = OnHand(l) + SoldUnits(l))'
             /\ status'[l] = "Sold" =>
                  /\ \E x \in DoneOrders' : sol[x][l] > 0
                  /\ purchased'[l] = NoQty => \A x \in DoneOrders' : sol[x][l] \in {0, qty'[l]}
  <2>1. Exists(l)
    BY <1>6 DEF MarkDone, Exists, Taken
  <2>2. /\ Purchased(l) = OnHand(l) + SoldUnits(l)
        /\ SoldUnits(l) \in Nat /\ qty[l] \in Nat /\ purchased[l] \in Nat \cup {NoQty}
    BY <2>1, Conserved
  <2>3. CASE l \notin Taken(s)
    <3>1. sol[s][l] = 0
      BY <1>5, <2>1, <2>3 DEF Taken
    <3>2. status'[l] = status[l] /\ qty'[l] = qty[l] /\ purchased'[l] = purchased[l]
      BY <2>3 DEF MarkDone
    <3>3. (Purchased(l) = OnHand(l) + SoldUnits(l))'
      BY <1>4, <2>2, <3>1, <3>2 DEF Purchased, OnHand
    <3> QED
      BY <1>3, <3>1, <3>2, <3>3 DEF BookInv, SoldToSomeone, SoldWhole
  <2>4. CASE l \in Taken(s)
    <3>1. status[l] # "Sold" /\ sol[s][l] > 0 /\ sol[s][l] <= qty[l]
      <4>1. /\ status[l] \in Sellable /\ sol[s][l] > 0
            /\ sol[s][l] + CommittedQty(l, {s}) <= qty[l]
        BY <2>4, MarkDoneTakes DEF Taken
      <4>2. CommittedQty(l, {s}) \in Nat
        BY ClaimsNow DEF ClaimFacts, IInv, TypeOK
      <4> QED
        BY <1>5, <2>2, <4>1, <4>2 DEF Sellable
    <3>2. CASE SoldOut(s, l)
      <4>1. sol[s][l] = qty[l]
        BY <1>5, <2>2, <3>1, <3>2 DEF SoldOut
      <4>2. status'[l] = "Sold" /\ qty'[l] = qty[l] /\ purchased'[l] = purchased[l]
        BY <2>4, <3>2 DEF MarkDone
      <4>3. (Purchased(l) = OnHand(l) + SoldUnits(l))'
        BY <1>4, <2>2, <3>1, <4>1, <4>2 DEF Purchased, OnHand
      <4>4. purchased[l] = NoQty => \A x \in DoneOrders : sol[x][l] = 0
        BY <2>1, <3>1, Untouched
      <4> QED
        BY <1>3, <3>1, <4>1, <4>2, <4>3, <4>4
    <3>3. CASE ~SoldOut(s, l)
      <4>1. /\ status'[l] = status[l] /\ qty'[l] = qty[l] - sol[s][l]
            /\ purchased'[l] = Purchased(l)
        BY <2>4, <3>3 DEF MarkDone
      <4>2. Purchased(l) = qty[l] + SoldUnits(l) /\ Purchased(l) # NoQty
        BY <2>2, <3>1 DEF OnHand, NoQty
      <4>3. Purchased(l)' = Purchased(l)
        BY <4>1, <4>2 DEF Purchased
      <4>4. OnHand(l)' = qty[l] - sol[s][l]
        BY <3>1, <4>1 DEF OnHand
      <4>5. (Purchased(l) = OnHand(l) + SoldUnits(l))'
        BY <1>4, <1>5, <2>2, <4>2, <4>3, <4>4
      <4> QED
        BY <3>1, <4>1, <4>5
    <3> QED
      BY <3>2, <3>3
  <2> QED
    BY <2>3, <2>4
<1>7. StockConserved'
  BY <1>1, <1>6 DEF StockConserved, SoldUnits
<1>8. \A l \in Lots : status'[l] = "Sold" => Exists(l)'
  BY DEF Exists, LineStatuses
<1>9. SoldToSomeone' /\ SoldWhole'
  BY <1>1, <1>6, <1>8 DEF SoldToSomeone, SoldWhole
<1>10. NewLotsClean'
  BY DEF MarkDone, Taken, Exists, LineStatuses, StageStatuses, BookInv, NewLotsClean
<1> QED
  BY <1>7, <1>9, <1>10 DEF BookInv

(* A reopened sale gives back what it took: its cap never bites (SaleFits).   *)
LEMMA ReopenSaleBooks ==
  ASSUME IInv, TypeOK', BookInv, NEW s \in SOs, ReopenSale(s)
  PROVE  BookInv'
<1>1. UNCHANGED <<sol, handled, purchased>> /\ soStatus[s] = "Done"
  BY DEF ReopenSale
<1>2. \A x \in SOs : soStatus'[x] = IF x = s THEN "Awaiting payment" ELSE soStatus[x]
  BY DEF ReopenSale, IInv, TypeOK, SellTypeOK
<1>3. DoneOrders' = DoneOrders \ {s} /\ s \in DoneOrders
  BY <1>1, <1>2 DEF DoneOrders
<1>4. \A l \in Lots : /\ SoldUnits(l) = SoldUnits(l)' + sol[s][l]
                      /\ SoldUnits(l)' \in Nat /\ sol[s][l] \in Nat
  <2>1. ASSUME NEW l \in Lots
        PROVE  SoldUnits(l) = SoldUnits(l)' + sol[s][l]
    <3>1. SoldUnits(l) = SoldBesides(l, s) + sol[s][l]
      BY <1>3, SoldFacts DEF IInv, TypeOK
    <3>2. QtyOn(l)' = QtyOn(l)
      BY <1>1 DEF QtyOn
    <3>3. SoldUnits(l)' = SoldBesides(l, s)
      BY <1>3, <3>2 DEF SoldBesides, SoldUnits
    <3> QED
      BY <3>1, <3>3
  <2>2. \A l \in Lots : SoldUnits(l)' \in Nat /\ sol[s][l] \in Nat
    BY SoldFactsNext DEF IInv, TypeOK, SellTypeOK
  <2> QED
    BY <2>1, <2>2
<1>5. ASSUME NEW l \in Lots \ handled, Exists(l)'
      PROVE  /\ (Purchased(l) = OnHand(l) + SoldUnits(l))'
             /\ status'[l] = "Sold" =>
                  /\ \E x \in DoneOrders' : sol[x][l] > 0
                  /\ purchased'[l] = NoQty => \A x \in DoneOrders' : sol[x][l] \in {0, qty'[l]}
  <2>1. Exists(l)
    BY <1>5 DEF ReopenSale, Exists, Taken
  <2>2. /\ Purchased(l) = OnHand(l) + SoldUnits(l)
        /\ SoldUnits(l) \in Nat /\ qty[l] \in Nat /\ purchased[l] \in Nat \cup {NoQty}
    BY <2>1, Conserved
  <2>3. CASE l \notin Taken(s)
    <3>1. sol[s][l] = 0
      BY <1>4, <2>1, <2>3 DEF Taken
    <3>2. status'[l] = status[l] /\ qty'[l] = qty[l]
      BY <2>3 DEF ReopenSale
    <3>3. (Purchased(l) = OnHand(l) + SoldUnits(l))'
      BY <1>1, <1>4, <2>2, <3>1, <3>2 DEF Purchased, OnHand
    <3> QED
      BY <1>1, <1>3, <3>1, <3>2, <3>3 DEF BookInv, SoldToSomeone, SoldWhole
  <2>4. CASE l \in Taken(s)
    <3>1. sol[s][l] > 0 /\ BackStatus(l) \in Sellable /\ status'[l] = BackStatus(l)
      BY <2>4 DEF ReopenSale, Taken, TakesBack
    <3>2. BackQty(s, l) = sol[s][l]
      BY <1>1, <2>1 DEF BackQty, IInv, ClaimsOK, SaleFits
    <3>3. CASE status[l] = "Sold"
      <4>1. qty'[l] = sol[s][l]
        BY <2>4, <3>2, <3>3 DEF ReopenSale
      <4>2. purchased[l] = NoQty => sol[s][l] = qty[l]
        BY <1>3, <3>1, <3>3 DEF BookInv, SoldWhole
      <4>3. Purchased(l) = SoldUnits(l)
        BY <2>2, <3>3 DEF OnHand
      <4>4. Purchased(l)' = Purchased(l)
        BY <1>1, <4>1, <4>2 DEF Purchased
      <4>5. OnHand(l)' = sol[s][l]
        BY <3>1, <4>1 DEF OnHand, Sellable
      <4> QED
        BY <1>4, <3>1, <4>3, <4>4, <4>5 DEF Sellable
    <3>4. CASE status[l] # "Sold"
      <4>1. qty'[l] = qty[l] + sol[s][l]
        BY <2>4, <3>2, <3>4 DEF ReopenSale
      <4>2. purchased[l] # NoQty
        BY <1>3, <2>1, <3>1, <3>4, Untouched
      <4>3. Purchased(l)' = qty[l] + SoldUnits(l)
        BY <1>1, <2>2, <3>4, <4>2 DEF Purchased, OnHand
      <4>4. OnHand(l)' = qty[l] + sol[s][l]
        BY <3>1, <4>1 DEF OnHand, Sellable
      <4> QED
        BY <1>4, <2>2, <3>1, <4>3, <4>4 DEF Sellable
    <3> QED
      BY <3>3, <3>4
  <2> QED
    BY <2>3, <2>4
<1>6. StockConserved'
  BY <1>1, <1>5 DEF StockConserved, SoldUnits
<1>7. \A l \in Lots : status'[l] = "Sold" => Exists(l)'
  BY DEF Exists, LineStatuses
<1>8. SoldToSomeone' /\ SoldWhole'
  BY <1>1, <1>5, <1>7 DEF SoldToSomeone, SoldWhole
<1>9. NewLotsClean'
  BY DEF ReopenSale, Taken, TakesBack, Sellable, BookInv, NewLotsClean
<1> QED
  BY <1>6, <1>8, <1>9 DEF BookInv

----------------------------------------------------------------------------
(* Every step.                                                                *)
LEMMA InitBooks == Init => BookInv
<1> SUFFICES ASSUME Init PROVE BookInv
  OBVIOUS
<1>1. \A l \in Lots : ~Exists(l) /\ status[l] # "Sold" /\ purchased[l] = NoQty
  BY DEF Init, Exists, LineStatuses, StageStatuses
<1> QED
  BY <1>1 DEF BookInv, StockConserved, SoldToSomeone, SoldWhole, NewLotsClean

LEMMA PurchaseOrderBooks ==
  ASSUME IInv, TypeOK', BookInv, NEW o \in POs, PurchaseOrderNext(o)
  PROVE  BookInv'
<1>1. ASSUME NEW S \in SUBSET (Lots \ Clones), NEW bought \in [S -> Qtys],
             CreateOrder(o, bought)
      PROVE  BookInv'
  <2>1. S \in SUBSET Lots
    OBVIOUS
  <2> QED
    BY <1>1, <2>1, CreateOrderBooks
<1>2. ASSUME NEW stage \in Stages, Advance(o, stage)
      PROVE  BookInv'
  <2>1. stage \in Lifecycles
    BY StockAssumption DEF StockAssumption
  <2> QED
    BY <1>2, <2>1, AdvanceBooks
<1>3. ASSUME NEW manager, NEW l \in Lots, NEW n, PatchAddLine(o, manager, l, n)
      PROVE  BookInv'
  BY <1>3, PatchAddLineBooks
<1>4. ASSUME NEW manager, NEW l \in Lots, PatchRemoveLine(o, manager, l)
      PROVE  BookInv'
  BY <1>4, PatchRemoveLineBooks
<1>5. ASSUME NEW manager, NEW l \in Lots, NEW q \in Counts, PatchRecount(o, manager, l, q)
      PROVE  BookInv'
  <2>1. q \in Nat
    BY StockAssumption DEF StockAssumption
  <2> QED
    BY <1>5, <2>1, PatchRecountBooks
<1>6. ASSUME NEW removeFromSellOrders, ArchiveOrder(o, removeFromSellOrders)
      PROVE  BookInv'
  BY <1>6, ArchiveOrderBooks
<1> QED
  BY <1>1, <1>2, <1>3, <1>4, <1>5, <1>6, PatchHeaderBooks, UnarchiveOrderBooks,
     DeleteOrderBooks DEF PurchaseOrderNext

LEMMA EditLotNextBooks ==
  ASSUME IInv, TypeOK', BookInv, NEW l \in Lots, EditLotNext(l)
  PROVE  BookInv'
<1> SUFFICES ASSUME NEW manager, NEW st \in LineStatuses, NEW q \in Nat,
                    EditLot(l, manager, st, q)
             PROVE  BookInv'
  <2>1. qty[l] \in Nat /\ Counts \subseteq Nat
    BY StockAssumption DEF StockAssumption, IInv, TypeOK, LineTypeOK
  <2>2. StageStatuses \cup {"Sold"} \subseteq LineStatuses
    BY DEF LineStatuses
  <2>3. ASSUME NEW manager, NEW q, EditLot(l, manager, status[l], q)
        PROVE  status[l] \in LineStatuses
    BY <2>3 DEF EditLot, Exists
  <2> QED
    BY <2>1, <2>2, <2>3 DEF EditLotNext
<1> QED
  BY EditLotBooks

LEMMA SellOrderBooks ==
  ASSUME IInv, TypeOK', BookInv, NEW s \in SOs, SellOrderNext(s)
  PROVE  BookInv'
<1>1. ASSUME NEW want, CreateDraft(s, want) PROVE BookInv'
  BY <1>1, CreateDraftBooks
<1>2. ASSUME NEW want, NEW atZero, RewriteLines(s, want, atZero) PROVE BookInv'
  BY <1>2, RewriteLinesBooks
<1>3. ASSUME NEW to, Move(s, to) PROVE BookInv'
  BY <1>3, MoveBooks
<1>4. ASSUME ArchiveSellOrder(s) \/ UnarchiveSellOrder(s) PROVE BookInv'
  <2>1. UNCHANGED <<lineVars, handled, soStatus, sol>>
    BY <1>4 DEF ArchiveSellOrder, UnarchiveSellOrder
  <2> QED
    BY <2>1, SellersStand, SellBooks
<1> QED
  BY <1>1, <1>2, <1>3, <1>4, MarkDoneBooks, ReopenSaleBooks DEF SellOrderNext

LEMMA TransferNextBooks ==
  ASSUME IInv, TypeOK', BookInv, NEW t \in TOs, TransferNext(t)
  PROVE  BookInv'
<1>1. ASSUME NEW S \in SUBSET Lots, NEW move \in [S -> Qtys], NEW cloneOf,
             Transfer(t, move, cloneOf)
      PROVE  BookInv'
  <2>1. move \in [S -> Nat]
    BY DEF Qtys
  <2> QED
    BY <1>1, <2>1, TransferBooks
<1> QED
  BY <1>1, ReceiveBooks, ReopenBooks, DiscardBooks DEF TransferNext

LEMMA StutterBooks ==
  ASSUME IInv, TypeOK', BookInv, UNCHANGED vars
  PROVE  BookInv'
<1>1. UNCHANGED <<lineVars, handled, soStatus, sol>>
  BY DEF vars, sellVars
<1> QED
  BY <1>1, SellersStand, SellBooks

(* The inductive invariant of the stock book, over that of the claims.        *)
THEOREM Books == Spec => []BookInv
<1>1. IInv /\ TypeOK' /\ BookInv /\ [Next]_vars => BookInv'
  BY PurchaseOrderBooks, EditLotNextBooks, SellOrderBooks, TransferNextBooks, StutterBooks
     DEF Next
<1> QED
  BY InitBooks, <1>1, Invariant, TypeCorrect, PTL DEF Spec

(* No unit is lost or made: over any run of sales, reopened sales, recounts,  *)
(* splits and merges, what was bought of a lot is on hand or sold.            *)
THEOREM GoodsConserved == Spec => []StockConserved
<1>1. BookInv => StockConserved
  BY DEF BookInv
<1> QED
  BY <1>1, Books, PTL

----------------------------------------------------------------------------
(* Where a sell order may be.                                                 *)
Headers == NoHiddenClaim /\ SaleStays

LEMMA HeadersStand ==
  ASSUME Headers, UNCHANGED <<soStatus, soArchived, wasDone>>
  PROVE  Headers'
  BY DEF Headers, NoHiddenClaim, SaleStays

LEMMA SellOrderHeaders ==
  ASSUME TypeOK, Headers, NEW s \in SOs, SellOrderNext(s)
  PROVE  Headers'
<1> USE DEF Headers, NoHiddenClaim, SaleStays, TypeOK, SellTypeOK
<1>1. ASSUME NEW want, CreateDraft(s, want) PROVE Headers'
  BY <1>1 DEF CreateDraft, Committed
<1>2. ASSUME NEW want, NEW atZero, RewriteLines(s, want, atZero) PROVE Headers'
  BY <1>2 DEF RewriteLines
<1>3. ASSUME NEW to, Move(s, to) PROVE Headers'
  <2>1. /\ UNCHANGED <<soArchived, wasDone>> /\ soStatus' = [soStatus EXCEPT ![s] = to]
        /\ s \in soArchived => to \notin Committed
        /\ to = "Closed" => s \notin wasDone
        /\ soStatus[s] = "Awaiting payment" => to \in {"Done", "Closed"}
        /\ soStatus[s] # "Done" /\ to # "Done"
    BY <1>3 DEF Move, MayMove, ArchivedHolds, MayClose, Allowed, SellStatuses
  <2> QED
    BY <2>1
<1>4. ASSUME MarkDone(s) PROVE Headers'
  BY <1>4 DEF MarkDone, Committed
<1>5. ASSUME ReopenSale(s) PROVE Headers'
  BY <1>5 DEF ReopenSale, MayMove, ArchivedHolds, Committed
<1>6. ASSUME ArchiveSellOrder(s) \/ UnarchiveSellOrder(s) PROVE Headers'
  BY <1>6 DEF ArchiveSellOrder, UnarchiveSellOrder, Open, Committed
<1> QED
  BY <1>1, <1>2, <1>3, <1>4, <1>5, <1>6 DEF SellOrderNext

LEMMA OtherHeaders ==
  /\ \A o \in POs : PurchaseOrderNext(o) => UNCHANGED <<soStatus, soArchived, wasDone>>
  /\ \A l \in Lots : EditLotNext(l) => UNCHANGED <<soStatus, soArchived, wasDone>>
  /\ \A t \in TOs : TransferNext(t) => UNCHANGED <<soStatus, soArchived, wasDone>>
<1> DEFINE Still == UNCHANGED <<soStatus, soArchived, wasDone>>
<1>1. ASSUME NEW o \in POs, PurchaseOrderNext(o) PROVE Still
  <2>1. ASSUME NEW bought, CreateOrder(o, bought) PROVE Still
    BY <2>1 DEF CreateOrder, sellVars
  <2>2. ASSUME NEW stage, Advance(o, stage) PROVE Still
    BY <2>2 DEF Advance, sellVars
  <2>3. ASSUME NEW manager, Landed(o, manager) PROVE Still
    BY <2>3 DEF Landed, sellVars
  <2>4. ASSUME NEW removeFromSellOrders, ArchiveOrder(o, removeFromSellOrders) PROVE Still
    BY <2>4 DEF ArchiveOrder
  <2>5. ASSUME UnarchiveOrder(o) \/ DeleteOrder(o) PROVE Still
    BY <2>5 DEF UnarchiveOrder, DeleteOrder, sellVars
  <2>6. ASSUME PatchHeader(o) PROVE Still
    BY <2>3, <2>6 DEF PatchHeader
  <2>7. ASSUME NEW manager, NEW l, NEW n, PatchAddLine(o, manager, l, n) PROVE Still
    BY <2>3, <2>7 DEF PatchAddLine
  <2>8. ASSUME NEW manager, NEW l, PatchRemoveLine(o, manager, l) PROVE Still
    BY <2>3, <2>8 DEF PatchRemoveLine
  <2>9. ASSUME NEW manager, NEW l, NEW q, PatchRecount(o, manager, l, q) PROVE Still
    BY <2>3, <2>9 DEF PatchRecount
  <2> HIDE DEF Still
  <2> QED
    BY <1>1, <2>1, <2>2, <2>4, <2>5, <2>6, <2>7, <2>8, <2>9 DEF PurchaseOrderNext
<1>2. ASSUME NEW l \in Lots, EditLotNext(l) PROVE Still
  <2>1. ASSUME NEW manager, NEW st, NEW q, EditLot(l, manager, st, q) PROVE Still
    BY <2>1 DEF EditLot, Landed, sellVars
  <2> HIDE DEF Still
  <2> QED
    BY <1>2, <2>1 DEF EditLotNext
<1>3. ASSUME NEW t \in TOs, TransferNext(t) PROVE Still
  <2>1. ASSUME NEW move, NEW cloneOf, Transfer(t, move, cloneOf) PROVE Still
    BY <2>1 DEF Transfer, sellVars
  <2>2. ASSUME Receive(t) \/ Reopen(t) \/ Discard(t) PROVE Still
    BY <2>2 DEF Receive, Reopen, Discard, sellVars
  <2> HIDE DEF Still
  <2> QED
    BY <1>3, <2>1, <2>2 DEF TransferNext
<1> QED
  BY <1>1, <1>2, <1>3

(* No sell order is where its archive or its sale forbids it to be.           *)
THEOREM HeadersHold == Spec => []Headers
<1>1. Init => Headers
  BY DEF Init, Headers, NoHiddenClaim, SaleStays
<1>2. TypeOK /\ Headers /\ [Next]_vars => Headers'
  <2>1. UNCHANGED vars => UNCHANGED <<soStatus, soArchived, wasDone>>
    BY DEF vars, sellVars
  <2> QED
    BY <2>1, SellOrderHeaders, OtherHeaders, HeadersStand DEF Next
<1> QED
  BY <1>1, <1>2, TypeCorrect, PTL DEF Spec

(* An archived sell order holds no stock: nothing brings it, or lets it come, *)
(* to a committed status.                                                     *)
THEOREM NoClaimHidden == Spec => []NoHiddenClaim
<1>1. Headers => NoHiddenClaim
  BY DEF Headers
<1> QED
  BY <1>1, HeadersHold, PTL

(* A sale that was once Done is only ever reopened to be put right.           *)
THEOREM SalesStay == Spec => []SaleStays
<1>1. Headers => SaleStays
  BY DEF Headers
<1> QED
  BY <1>1, HeadersHold, PTL

----------------------------------------------------------------------------
(* What moving goods leaves of what was bought.                               *)
ClonesStay == \A l \in Lots : peer[l] # NULL => PoOf[peer[l]] = PoOf[l]

LEMMA OthersMoveNothing ==
  ASSUME [Next]_vars, \A t \in TOs : ~TransferNext(t)
  PROVE  UNCHANGED <<toStatus, peer>>
<1>1. ASSUME NEW o \in POs, PurchaseOrderNext(o)
      PROVE  UNCHANGED <<toStatus, peer>>
  <2>1. ASSUME NEW bought, CreateOrder(o, bought) PROVE UNCHANGED <<toStatus, peer>>
    BY <2>1 DEF CreateOrder, moveVars
  <2>2. ASSUME NEW stage, Advance(o, stage) PROVE UNCHANGED <<toStatus, peer>>
    BY <2>2 DEF Advance, moveVars
  <2>3. ASSUME PatchHeader(o) PROVE UNCHANGED <<toStatus, peer>>
    BY <2>3 DEF PatchHeader, Landed, moveVars
  <2>4. ASSUME NEW manager, NEW l, NEW n, PatchAddLine(o, manager, l, n)
        PROVE  UNCHANGED <<toStatus, peer>>
    BY <2>4 DEF PatchAddLine, Landed, moveVars
  <2>5. ASSUME NEW manager, NEW l, PatchRemoveLine(o, manager, l)
        PROVE  UNCHANGED <<toStatus, peer>>
    BY <2>5 DEF PatchRemoveLine, Landed, moveVars
  <2>6. ASSUME NEW manager, NEW l, NEW q, PatchRecount(o, manager, l, q)
        PROVE  UNCHANGED <<toStatus, peer>>
    BY <2>6 DEF PatchRecount, Landed, moveVars
  <2>7. ASSUME NEW remove, ArchiveOrder(o, remove) PROVE UNCHANGED <<toStatus, peer>>
    BY <2>7 DEF ArchiveOrder, moveVars
  <2>8. ASSUME UnarchiveOrder(o) PROVE UNCHANGED <<toStatus, peer>>
    BY <2>8 DEF UnarchiveOrder, moveVars
  <2>9. ASSUME DeleteOrder(o) PROVE UNCHANGED <<toStatus, peer>>
    BY <2>9 DEF DeleteOrder, moveVars
  <2> QED
    BY <1>1, <2>1, <2>2, <2>3, <2>4, <2>5, <2>6, <2>7, <2>8, <2>9 DEF PurchaseOrderNext
<1>2. ASSUME NEW l \in Lots, EditLotNext(l)
      PROVE  UNCHANGED <<toStatus, peer>>
  BY <1>2 DEF EditLotNext, EditLot, Landed, moveVars
<1>3. ASSUME NEW s \in SOs, SellOrderNext(s)
      PROVE  UNCHANGED <<toStatus, peer>>
  BY <1>3 DEF SellOrderNext, CreateDraft, RewriteLines, Move, MarkDone, ReopenSale,
       ArchiveSellOrder, UnarchiveSellOrder, moveVars
<1>4. ASSUME UNCHANGED vars
      PROVE  UNCHANGED <<toStatus, peer>>
  BY <1>4 DEF vars, moveVars
<1> QED
  BY <1>1, <1>2, <1>3, <1>4 DEF Next

LEMMA SourceOfClone ==
  ASSUME NEW cloneOf, NEW c \in Drawn(cloneOf)
  PROVE  /\ SourceOf(cloneOf, c) \in DOMAIN cloneOf /\ cloneOf[SourceOf(cloneOf, c)] = c
BY DEF SourceOf, Drawn

LEMMA TransferClones ==
  ASSUME ClonesStay, NEW t, NEW move, NEW cloneOf, Transfer(t, move, cloneOf)
  PROVE  ClonesStay'
<1> SUFFICES ASSUME NEW l \in Lots, peer'[l] # NULL
             PROVE  PoOf[peer'[l]] = PoOf[l]
  BY DEF ClonesStay
<1>1. peer'[l] = IF l \in Whole(move) THEN NULL
                 ELSE IF l \in Drawn(cloneOf) THEN SourceOf(cloneOf, l) ELSE peer[l]
  BY DEF Transfer
<1>2. \A k \in DOMAIN cloneOf : PoOf[cloneOf[k]] = PoOf[k]
  BY DEF Transfer
<1>3. l \in Drawn(cloneOf) => PoOf[SourceOf(cloneOf, l)] = PoOf[l]
  BY <1>2, SourceOfClone
<1> QED
  BY <1>1, <1>3 DEF ClonesStay

THEOREM ClonesOfOneOrder == Spec => []ClonesStay
<1>1. Init => ClonesStay
  BY DEF Init, ClonesStay
<1>2. ASSUME ClonesStay, [Next]_vars
      PROVE  ClonesStay'
  <2>1. CASE \A t \in TOs : ~TransferNext(t)
    BY <1>2, <2>1, OthersMoveNothing DEF ClonesStay
  <2>2. ASSUME NEW t \in TOs, TransferNext(t)
        PROVE  ClonesStay'
    <3>1. ASSUME Receive(t) \/ Reopen(t) PROVE ClonesStay'
      BY <1>2, <3>1 DEF Receive, Reopen, ClonesStay
    <3>2. ASSUME Discard(t) PROVE ClonesStay'
      BY <1>2, <3>2 DEF Discard, ClonesStay
    <3> QED
      BY <1>2, <2>2, <3>1, <3>2, TransferClones DEF TransferNext
  <2> QED
    BY <2>1, <2>2
<1> QED
  BY <1>1, <1>2, PTL DEF Spec

----------------------------------------------------------------------------
LEMMA PurchasedNat ==
  ASSUME TypeOK, NEW l \in Lots
  PROVE  Purchased(l) \in Nat
  BY DEF TypeOK, LineTypeOK, Purchased

LEMMA NoLotMoved ==
  ASSUME UNCHANGED <<qty, purchased>>, \A l \in Lots : Exists(l)' <=> Exists(l), NEW o
  PROVE  PurchasedOn(o)' = PurchasedOn(o)
<1>1. LinesOf(o)' = LinesOf(o)
  BY DEF LinesOf
<1>2. \A l \in Lots : Purchased(l)' = Purchased(l)
  BY DEF Purchased
<1>3. [l \in Lots |-> Purchased(l)'] = [l \in Lots |-> Purchased(l)]
  BY <1>2
<1> QED
  BY <1>1, <1>3 DEF PurchasedOn

(* A split lowers a lot by what its clone takes.                              *)
LEMMA TransferBuysNothing ==
  ASSUME TypeOK, TypeOK', BookInv, NEW t, NEW S \in SUBSET Lots, NEW move \in [S -> Nat],
         NEW cloneOf, Transfer(t, move, cloneOf), NEW o
  PROVE  PurchasedOn(o)' = PurchasedOn(o)
<1> DEFINE P == Parted(move) \cap LinesOf(o)
           D == {cloneOf[l] : l \in P}
           L == LinesOf(o)
           p == [l \in Lots |-> Purchased(l)]
           q == [l \in Lots |-> Purchased(l)']
           m == [l \in Lots |-> IF l \in P THEN move[l] ELSE 0]
           g == [l \in P |-> cloneOf[l]]
<1>1. /\ DOMAIN move = S /\ DOMAIN cloneOf = Parted(move) /\ Parted(move) \subseteq S
      /\ \A l \in S : Exists(l) /\ status[l] # "none"
  BY DEF Transfer, Movable, Parted, Exists, Sellable, LineStatuses, StageStatuses
<1>2. ASSUME NEW l \in Parted(move)
      PROVE  /\ cloneOf[l] \in Lots /\ status[cloneOf[l]] = "none"
             /\ PoOf[cloneOf[l]] = PoOf[l]
             /\ \A k \in Parted(move) : cloneOf[k] = cloneOf[l] => k = l
  BY StockAssumption DEF Transfer, StockAssumption
<1>3. ASSUME NEW l \in Parted(move)
      PROVE  Purchased(l) = Purchased(l)' + move[l]
  <2>1. /\ l \in Lots /\ move[l] \in Nat /\ move[l] < qty[l] /\ qty[l] \in Nat
        /\ purchased[l] \in Nat \cup {NoQty} /\ PurchasedCheck(l, ShareLeft(l, move[l]))
        /\ qty'[l] = qty[l] - move[l] /\ purchased'[l] = ShareLeft(l, move[l])
    BY <1>1 DEF Transfer, Parted, TypeOK, LineTypeOK
  <2> QED
    BY <2>1 DEF Purchased, ShareLeft, PurchasedCheck, NoQty
<1>4. ASSUME NEW l \in Parted(move)
      PROVE  Purchased(cloneOf[l])' = move[l]
  <2>1. cloneOf[l] \in Drawn(cloneOf) /\ cloneOf[l] \notin Parted(move)
    BY <1>1, <1>2 DEF Drawn
  <2>2. SourceOf(cloneOf, cloneOf[l]) = l
    BY <1>1, <1>2, <2>1, SourceOfClone
  <2>3. qty'[cloneOf[l]] = move[l] /\ purchased'[cloneOf[l]] = purchased[cloneOf[l]]
    BY <1>2, <2>1, <2>2 DEF Transfer
  <2>4. purchased[cloneOf[l]] = NoQty
    BY <1>2 DEF BookInv, NewLotsClean
  <2> QED
    BY <2>3, <2>4 DEF Purchased
<1>5. ASSUME NEW l \in Lots, l \notin Parted(move), l \notin Drawn(cloneOf)
      PROVE  Purchased(l)' = Purchased(l)
  BY <1>5 DEF Transfer, Purchased
<1>6. D \cap L = {} /\ D \subseteq Drawn(cloneOf) /\ \A l \in L : l \notin Drawn(cloneOf)
  <2>1. D \subseteq Drawn(cloneOf)
    BY <1>1 DEF Drawn
  <2>2. \A l \in Drawn(cloneOf) : status[l] = "none"
    BY <1>1, <1>2 DEF Drawn
  <2>3. \A l \in L : status[l] # "none"
    BY DEF LinesOf, Exists, LineStatuses, StageStatuses
  <2> QED
    BY <2>1, <2>2, <2>3
<1>7. LinesOf(o)' = L \cup D
  <2>1. ASSUME NEW l \in Lots
        PROVE  Exists(l)' <=> Exists(l) \/ l \in Drawn(cloneOf)
    <3>1. status'[l] = IF l \in Whole(move) \cup Drawn(cloneOf) THEN "In Transit" ELSE status[l]
      BY DEF Transfer, Departs
    <3>2. l \in Whole(move) => Exists(l)
      BY <1>1 DEF Whole
    <3> QED
      BY <3>1, <3>2 DEF Exists, LineStatuses, StageStatuses
  <2>2. \A l \in Lots : l \in Drawn(cloneOf) /\ PoOf[l] = o <=> l \in D
    BY <1>1, <1>2 DEF Drawn, LinesOf
  <2>3. D \subseteq Lots
    BY <1>2
  <2> QED
    BY <2>1, <2>2, <2>3 DEF LinesOf
<1>8. IsFiniteSet(L) /\ IsFiniteSet(P)
  BY StockAssumption, FS_Subset DEF StockAssumption, LinesOf
<1>9. L \subseteq Lots /\ P \subseteq L /\ D \subseteq Lots
  BY <1>2 DEF LinesOf
<1>10. \A l \in Lots : p[l] \in Nat /\ q[l] \in Nat
  <2>1. \A l \in Lots : Purchased(l) \in Nat
    BY PurchasedNat
  <2>2. \A l \in Lots : Purchased(l)' \in Nat
    BY DEF TypeOK, LineTypeOK, Purchased
  <2> QED
    BY <2>1, <2>2
<1>11. \A l \in L : m[l] \in Nat /\ p[l] = q[l] + m[l]
  <2>1. \A l \in L : l \in P => move[l] \in Nat /\ Purchased(l) = Purchased(l)' + move[l]
    BY <1>1, <1>3
  <2>2. \A l \in L : l \notin P => Purchased(l)' = Purchased(l)
    BY <1>5, <1>6, <1>9
  <2> QED
    BY <1>9, <1>10, <2>1, <2>2
<1>12. g \in Bijection(P, D)
  BY <1>2 DEF Bijection, Injection, Surjection, IsInjective
<1>13. \A l \in P : m[l] \in Nat /\ q[g[l]] = m[l]
  BY <1>2, <1>4, <1>9, <1>11
<1>14. \A l \in L \ P : m[l] = 0
  BY <1>9
<1>15. IsFiniteSet(D)
  BY <1>8, <1>12, FS_Bijection DEF ExistsBijection
<1> HIDE DEF L, P, D, p, q, m, g
<1>16. Total(p, L) = Total(q, L) + Total(m, L)
  BY <1>8, <1>9, <1>10, <1>11, TotalAdd
<1>17. Total(m, L) = Total(m, P)
  <2>1. P \in SUBSET L
    BY <1>9
  <2> QED
    BY <1>14, <2>1, TotalSupport
<1>18. Total(q, D) = Total(m, P)
  BY <1>8, <1>12, <1>13, TotalReindex
<1>19. Total(q, L \cup D) = Total(q, L) + Total(q, D)
  BY <1>6, <1>8, <1>9, <1>10, <1>15, TotalUnion
<1>20. PurchasedOn(o) = Total(p, L) /\ PurchasedOn(o)' = Total(q, L \cup D)
  BY <1>7 DEF PurchasedOn, L, p, q
<1> QED
  BY <1>16, <1>17, <1>18, <1>19, <1>20

(* A discard gives each source back what its clones took: a clone no sale     *)
(* drew from, whose count is its own, is worth what it was bought for.        *)
LEMMA DiscardBuysNothing ==
  ASSUME IInv, TypeOK', BookInv, ClonesStay, NEW t \in TOs, Discard(t), NEW o,
         \A l \in Lots : onTransfer[l] = t =>
           l \notin handled /\ \A s \in DoneOrders : ~Names(s, l)
  PROVE  PurchasedOn(o)' = PurchasedOn(o)
<1> DEFINE L == LinesOf(o)
           C == MergedOf(t) \cap L
           R == L \ MergedOf(t)
           p == [l \in Lots |-> Purchased(l)]
           q == [l \in Lots |-> Purchased(l)']
           u == [l \in Lots |-> MergedUnits(t, l)]
           clones == [x \in R |-> {c \in C : peer[c] = x}]
<1>1. /\ qty \in [Lots -> Nat] /\ purchased \in [Lots -> Nat \cup {NoQty}]
      /\ \A l \in Lots : LandsAt(l) \in LineStatuses
  BY DEF IInv, TypeOK, LineTypeOK, MoveTypeOK, LandsAt, Sellable, LineStatuses, StageStatuses
<1>2. /\ MergedOf(t) \subseteq LinesOn(t) /\ LinesOn(t) \subseteq Lots
      /\ \A l \in LinesOn(t) : Exists(l) /\ onTransfer[l] = t /\ status[l] = "In Transit"
  BY DEF Discard, MergedOf, LinesOn
<1>3. ASSUME NEW c \in MergedOf(t)
      PROVE  Purchased(c) = qty[c]
  <2>1. c \in Lots \ handled /\ Exists(c) /\ status[c] = "In Transit"
    BY <1>2
  <2>2. \A s \in DoneOrders : ~(sol[s][c] > 0)
    BY <1>2 DEF Names
  <2>3. SellTypeOK
    BY DEF IInv, TypeOK
  <2>4. SoldUnits(c) \in Nat /\ (SoldUnits(c) > 0 <=> \E s \in DoneOrders : sol[s][c] > 0)
    BY <2>1, <2>3, SoldFacts
  <2>5. Purchased(c) = OnHand(c) + SoldUnits(c) /\ qty[c] \in Nat
    BY <2>1, Conserved
  <2>6. OnHand(c) = qty[c]
    BY <2>1 DEF OnHand
  <2> QED
    BY <2>2, <2>4, <2>5, <2>6
<1>4. ASSUME NEW c \in MergedOf(t)
      PROVE  /\ peer[c] \in Lots /\ Exists(peer[c]) /\ PoOf[peer[c]] = PoOf[c]
             /\ peer[c] \notin MergedOf(t)
  <2>1. peer[c] # NULL /\ Absorbs(peer[c]) /\ c \in Lots
    BY <1>2 DEF MergedOf
  <2>2. peer[c] \in Lots
    BY <2>1 DEF IInv, TypeOK, MoveTypeOK, OrNull
  <2>3. onTransfer[peer[c]] = NULL /\ Exists(peer[c])
    BY <2>1 DEF Absorbs
  <2>4. peer[c] \notin MergedOf(t)
    BY <1>2, <2>3, StockAssumption DEF StockAssumption
  <2> QED
    BY <2>1, <2>2, <2>3, <2>4 DEF ClonesStay
<1>5. LinesOf(o)' = R
  <2>1. \A l \in Lots : Exists(l)' <=> Exists(l) /\ l \notin MergedOf(t)
    <3>1. ASSUME NEW l \in Lots
          PROVE  Exists(l)' <=> Exists(l) /\ l \notin MergedOf(t)
      <4>1. CASE l \in MergedOf(t)
        BY <4>1 DEF Discard, Exists, LineStatuses, StageStatuses
      <4>2. CASE l \in LinesOn(t) \ MergedOf(t)
        <5>1. status'[l] = LandsAt(l)
          BY <4>2 DEF Discard
        <5> QED
          BY <1>1, <1>2, <4>2, <5>1 DEF Exists
      <4>3. CASE l \notin LinesOn(t)
        <5>1. status'[l] = status[l] /\ l \notin MergedOf(t)
          BY <1>2, <4>3 DEF Discard
        <5> QED
          BY <5>1 DEF Exists
      <4> QED
        BY <4>1, <4>2, <4>3
    <3> QED
      BY <3>1
  <2> QED
    BY <2>1 DEF LinesOf
<1>6. \A l \in Lots : u[l] \in Nat /\ p[l] \in Nat
  BY MergedUnitsNat, PurchasedNat DEF IInv, TypeOK
<1>7. ASSUME NEW l \in R
      PROVE  q[l] = p[l] + u[l]
  <2>1. /\ l \in Lots /\ l \notin MergedOf(t) /\ qty[l] \in Nat /\ u[l] \in Nat
        /\ purchased[l] \in Nat \cup {NoQty}
    BY <1>1, <1>6 DEF LinesOf
  <2>2. /\ qty'[l] = qty[l] + MergedUnits(t, l)
        /\ purchased'[l] = IF purchased[l] = NoQty THEN NoQty ELSE purchased[l] + MergedUnits(t, l)
    BY <2>1 DEF Discard
  <2>3. MergedUnits(t, l) \in Nat
    BY <2>1
  <2>4. Purchased(l)' = Purchased(l) + MergedUnits(t, l)
    BY <2>1, <2>2, <2>3 DEF Purchased, NoQty
  <2> QED
    BY <2>1, <2>4
<1>8. /\ L \subseteq Lots /\ R \subseteq Lots /\ C \subseteq Lots /\ L = R \cup C /\ R \cap C = {}
  BY DEF LinesOf
<1>9. IsFiniteSet(R) /\ IsFiniteSet(C)
  BY <1>8, StockAssumption, FS_Subset DEF StockAssumption
<1>10. \A c \in C : peer[c] \in R /\ qty[c] \in Nat /\ p[c] = qty[c]
  BY <1>1, <1>3, <1>4 DEF LinesOf
<1>11. \A x \in R : u[x] = Total(qty, clones[x])
  <2> SUFFICES ASSUME NEW x \in R
               PROVE  u[x] = Total(qty, clones[x])
    OBVIOUS
  <2>1. {c \in MergedOf(t) : peer[c] = x} = {c \in C : peer[c] = x}
    <3>1. ASSUME NEW c \in MergedOf(t), peer[c] = x
          PROVE  c \in L
      BY <1>2, <1>4, <3>1 DEF LinesOf
    <3> QED
      BY <3>1
  <2> QED
    BY <1>8, <2>1 DEF MergedUnits
<1> HIDE DEF L, C, R, p, q, u
<1>12. Total(q, R) = Total(p, R) + Total(u, R)
  BY <1>6, <1>7, <1>8, <1>9, TotalAdd
<1>13. Total(u, R) = Total(qty, C)
  <2>1. \A c \in C : peer[c] \in R /\ qty[c] \in Nat
    BY <1>10
  <2>2. \A x \in R : \A c : c \in clones[x] <=> c \in C /\ peer[c] = x
    OBVIOUS
  <2> HIDE DEF clones
  <2> QED
    BY <1>9, <1>11, <2>1, <2>2, TotalGroups
<1>14. Total(p, C) = Total(qty, C)
  BY <1>10, TotalSame
<1>15. Total(p, L) = Total(p, R) + Total(p, C)
  BY <1>6, <1>8, <1>9, TotalUnion
<1>16. PurchasedOn(o) = Total(p, L) /\ PurchasedOn(o)' = Total(q, R)
  BY <1>5 DEF PurchasedOn, L, p, q
<1> QED
  BY <1>12, <1>13, <1>14, <1>15, <1>16

(* Goods that are moved, split, received, sent back or merged stay what their *)
(* purchase orders bought, for every set of transfers, lots and quantities.   *)
THEOREM MovedIsBought == Spec => MovesBuyNothing
<1>1. ASSUME IInv, TypeOK', BookInv, ClonesStay, [Next]_vars, NEW t \in TOs,
             toStatus'[t] # toStatus[t],
             \A l \in Lots : onTransfer[l] = t =>
               l \notin handled /\ \A s \in DoneOrders : ~Names(s, l),
             NEW o \in POs
      PROVE  PurchasedOn(o)' = PurchasedOn(o)
  <2>1. PICK k \in TOs : TransferNext(k)
    BY <1>1, OthersMoveNothing
  <2>2. toStatus \in [TOs -> {"none", "Pending", "Received", "discarded"}] /\ TypeOK
    BY <1>1 DEF IInv, TypeOK, MoveTypeOK
  <2>3. ASSUME NEW S \in SUBSET Lots, NEW move \in [S -> Qtys], NEW cloneOf,
               Transfer(k, move, cloneOf)
        PROVE  PurchasedOn(o)' = PurchasedOn(o)
    <3>1. move \in [S -> Nat]
      BY DEF Qtys
    <3> QED
      BY <1>1, <2>2, <2>3, <3>1, TransferBuysNothing
  <2>4. ASSUME Receive(k)
        PROVE  PurchasedOn(o)' = PurchasedOn(o)
    <3>1. \A l \in Lots : \/ status'[l] = status[l]
                          \/ Exists(l) /\ status'[l] = LandsAt(l)
      BY <2>4 DEF Receive, LinesOn
    <3>2. \A l \in Lots : LandsAt(l) \in LineStatuses
      BY <2>2 DEF LandsAt, TypeOK, MoveTypeOK, Sellable, LineStatuses, StageStatuses
    <3>3. UNCHANGED <<qty, purchased>>
      BY <2>4 DEF Receive
    <3> QED
      BY <3>1, <3>2, <3>3, NoLotMoved DEF Exists
  <2>5. ASSUME Reopen(k)
        PROVE  PurchasedOn(o)' = PurchasedOn(o)
    <3>1. \A l \in Lots : \/ status'[l] = status[l]
                          \/ Exists(l) /\ status'[l] = "In Transit"
      BY <2>5 DEF Reopen, LinesOn
    <3>2. UNCHANGED <<qty, purchased>>
      BY <2>5 DEF Reopen
    <3> QED
      BY <3>1, <3>2, NoLotMoved DEF Exists, LineStatuses, StageStatuses
  <2>6. ASSUME Discard(k)
        PROVE  PurchasedOn(o)' = PurchasedOn(o)
    <3>1. k = t
      BY <1>1, <2>2, <2>6 DEF Discard
    <3> QED
      BY <1>1, <2>6, <3>1, DiscardBuysNothing
  <2> QED
    BY <2>1, <2>3, <2>4, <2>5, <2>6 DEF TransferNext
<1>2. IInv /\ TypeOK' /\ BookInv /\ ClonesStay /\ [Next]_vars =>
        [\A t \in TOs :
           /\ toStatus'[t] # toStatus[t]
           /\ \A l \in Lots : onTransfer[l] = t =>
                l \notin handled /\ \A s \in DoneOrders : ~Names(s, l)
           => \A o \in POs : PurchasedOn(o)' = PurchasedOn(o)]_vars
  BY <1>1
<1> QED
  BY <1>2, Invariant, TypeCorrect, Books, ClonesOfOneOrder, PTL DEF Spec, MovesBuyNothing
=============================================================================
