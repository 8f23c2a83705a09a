---------------------------- MODULE StockRefines ----------------------------
(***************************************************************************)
(* The stock system implements the ledger, for every set of orders, lots   *)
(* and transfers: its initial states are the empty ledger, and each of its *)
(* steps is one ledger entry.                                              *)
(*                                                                         *)
(* Claims always fit the stock: that is the invariant of StockClaims, read *)
(* as the ledger reads it (ClaimsFit).  What is left of an entry is which  *)
(* quantities a step changes: none against the claims (RestockStep), or    *)
(* those of the one order it claims for, sells or takes back.              *)
(***************************************************************************)
EXTENDS StockBook, StockClaims

(* The ledger's sums are the stock's.                                         *)
LEMMA SameTotal == \A n, S : Ledger!Total(n, S) = Total(n, S)
  BY DEF Ledger!Total, Ledger!Units, Ledger!Cardinality, Total, Units, Cardinality

----------------------------------------------------------------------------
(* The claims on a lot, as the ledger adds them up.                           *)
ClaimsOn(l) == [s \in SOs |-> UnitsWhile(Committed)[s][l]]

LEMMA ClaimsFit == IInv => Ledger!Fits(UnitsWhile(Committed), InStockUnits)
<1> SUFFICES ASSUME IInv, NEW l \in Lots
             PROVE  Total(ClaimsOn(l), SOs) <= InStockUnits[l]
  BY SameTotal DEF Ledger!Fits, Ledger!Claimed, ClaimsOn
<1>1. InStockUnits[l] \in Nat /\ qty[l] \in Nat
  BY DEF InStockUnits, IInv, TypeOK, LineTypeOK
<1>2. CASE ~Exists(l)
  <2>1. \A s \in SOs : ClaimsOn(l)[s] = 0
    BY <1>2 DEF ClaimsOn, UnitsWhile
  <2>2. Total(ClaimsOn(l), SOs) \in Nat /\ ~(Total(ClaimsOn(l), SOs) > 0)
    BY <2>1, StockAssumption, TotalNat, TotalPositive DEF StockAssumption
  <2> QED
    BY <1>1, <2>2
<1>3. CASE Exists(l)
  <2>1. CommittedOrders \ {} \subseteq SOs
    BY DEF CommittedOrders
  <2>2. \A s \in CommittedOrders \ {} : ClaimsOn(l)[s] = QtyOn(l)[s]
    BY <1>3 DEF ClaimsOn, UnitsWhile, CommittedOrders, QtyOn
  <2>3. \A s \in SOs \ (CommittedOrders \ {}) : ClaimsOn(l)[s] = 0
    BY DEF ClaimsOn, UnitsWhile, CommittedOrders
  <2>4. Total(ClaimsOn(l), SOs) = CommittedQty(l, {})
    BY <2>1, <2>2, <2>3, TotalSupport DEF CommittedQty
  <2>5. CommittedQty(l, {}) \in Nat /\ CommittedQty(l, {}) <= qty[l]
    BY <1>3, ClaimsNow DEF ClaimFacts, IInv, TypeOK, ClaimsOK, NoOversell
  <2>6. CommittedQty(l, {}) > 0 => InStockUnits[l] = qty[l]
    BY <1>3 DEF IInv, ClaimsOK, CommittedSellable, InStockUnits
  <2> QED
    BY <1>1, <2>4, <2>5, <2>6
<1> QED
  BY <1>2, <1>3

LEMMA ClaimsFitNext == IInv' => Ledger!Fits(UnitsWhile(Committed), InStockUnits)'
  BY ClaimsFit, PTL

----------------------------------------------------------------------------
(* Steps around the claims.                                                   *)
LEMMA RestockStep ==
  ASSUME IInv, IInv', UNCHANGED soStatus,
         \A s \in SOs, l \in Lots :
           sol'[s][l] = sol[s][l] \/ (sol'[s][l] = 0 /\ PoOf[l] \in archived'),
         \A l \in Lots : Exists(l)' => Exists(l) \/ status[l] = "none"
  PROVE  Ledger!Next
<1>1. ASSUME NEW sts, NEW s \in SOs, NEW l \in Lots,
             UnitsWhile(sts)'[s][l] # UnitsWhile(sts)[s][l]
      PROVE  UnitsWhile(sts)'[s][l] = 0 /\ InStockUnits'[l] = 0
  <2>1. /\ UnitsWhile(sts)[s][l] = IF soStatus[s] \in sts /\ Exists(l) THEN sol[s][l] ELSE 0
        /\ UnitsWhile(sts)'[s][l] = IF soStatus[s] \in sts /\ Exists(l)' THEN sol'[s][l] ELSE 0
        /\ InStockUnits'[l] = IF status'[l] \in Sellable /\ PoOf[l] \notin archived' THEN qty'[l] ELSE 0
    BY DEF UnitsWhile, InStockUnits
  <2>2. CASE ~Exists(l)'
    BY <2>1, <2>2 DEF Exists, Sellable, LineStatuses, StageStatuses
  <2>3. CASE Exists(l)' /\ ~Exists(l)
    <3>1. sol[s][l] \in Nat /\ ~(sol[s][l] > 0)
      BY <2>3 DEF IInv, ClaimsOK, NamesKnown, TypeOK, SellTypeOK
    <3> QED
      BY <1>1, <2>1, <2>3, <3>1
  <2>4. CASE Exists(l)' /\ Exists(l)
    BY <1>1, <2>1, <2>4
  <2> QED
    BY <2>2, <2>3, <2>4
<1> QED
  BY <1>1, ClaimsFitNext DEF Ledger!Next, Ledger!Restock

LEMMA RestockPlain ==
  ASSUME IInv, IInv', UNCHANGED <<soStatus, sol>>,
         \A l \in Lots : Exists(l)' => Exists(l) \/ status[l] = "none"
  PROVE  Ledger!Next
  BY RestockStep

(* What edits share: none brings back a line that is gone.                    *)
LEMMA RevertKeepsLines ==
  ASSUME NEW o, NEW manager, NEW l \in Lots,
         StatusAfterRevert(o, manager)[l] \in LineStatuses
  PROVE  Exists(l)
  BY DEF StatusAfterRevert, Cascade, LinesOf, Exists

LEMMA PurchaseOrderEntry ==
  ASSUME IInv, IInv', NEW o \in POs, PurchaseOrderNext(o)
  PROVE  Ledger!Next
<1> DEFINE Lines == \A l \in Lots : Exists(l)' => Exists(l) \/ status[l] = "none"
           Sales == UNCHANGED <<soStatus, sol>>
<1>1. ASSUME NEW bought, CreateOrder(o, bought) PROVE Lines /\ Sales
  BY <1>1 DEF CreateOrder, sellVars, Exists
<1>2. ASSUME NEW stage, Advance(o, stage) PROVE Lines /\ Sales
  BY <1>2 DEF Advance, sellVars, Cascade, LinesOf, Exists
<1>3. ASSUME NEW manager, Landed(o, manager) PROVE Sales
  BY <1>3 DEF Landed, sellVars
<1>4. ASSUME PatchHeader(o) PROVE Lines /\ Sales
  BY <1>3, <1>4, RevertKeepsLines DEF PatchHeader, Exists
<1>5. ASSUME NEW manager, NEW l \in Lots, NEW n, PatchAddLine(o, manager, l, n)
      PROVE  Lines /\ Sales
  <2>1. \A k \in Lots \ {l} : status'[k] = StatusAfterRevert(o, manager)[k]
    BY <1>5, RevertType DEF PatchAddLine, IInv, TypeOK
  <2>2. \A k \in Lots \ {l} : Exists(k)' => Exists(k)
    BY <2>1, RevertKeepsLines DEF Exists
  <2> QED
    BY <1>3, <1>5, <2>2 DEF PatchAddLine
<1>6. ASSUME NEW manager, NEW l \in Lots, PatchRemoveLine(o, manager, l)
      PROVE  Lines /\ Sales
  <2>1. \A k \in Lots : \/ status'[k] = StatusAfterRevert(o, manager)[k]
                        \/ status'[k] = "deleted"
    BY <1>6, RevertType DEF PatchRemoveLine, IInv, TypeOK
  <2>2. \A k \in Lots : Exists(k)' => Exists(k)
    BY <2>1, RevertKeepsLines DEF Exists, LineStatuses, StageStatuses
  <2> QED
    BY <1>3, <1>6, <2>2 DEF PatchRemoveLine
<1>7. ASSUME NEW manager, NEW l, NEW q, PatchRecount(o, manager, l, q)
      PROVE  Lines /\ Sales
  BY <1>3, <1>7, RevertKeepsLines DEF PatchRecount, Exists
<1>8. ASSUME UnarchiveOrder(o) PROVE Lines /\ Sales
  BY <1>8 DEF UnarchiveOrder, sellVars, LinesOf, Exists
<1>9. ASSUME DeleteOrder(o) PROVE Lines /\ Sales
  BY <1>9 DEF DeleteOrder, sellVars, Exists, LineStatuses, StageStatuses
<1>10. ASSUME NEW removeFromSellOrders, ArchiveOrder(o, removeFromSellOrders)
       PROVE  Ledger!Next
  <2>1. UNCHANGED soStatus /\ archived' = archived \cup {o}
    BY <1>10 DEF ArchiveOrder
  <2>2. Lines
    BY <1>10 DEF ArchiveOrder, Cascade, LinesOf, Exists
  <2>3. \A s \in SOs, l \in Lots : sol'[s][l] = IF <<s, l>> \in ArchiveClaims(o) THEN 0 ELSE sol[s][l]
    BY <1>10 DEF ArchiveOrder
  <2>4. \A s \in SOs, l \in Lots : <<s, l>> \in ArchiveClaims(o) => PoOf[l] = o
    BY DEF ArchiveClaims, LinesOf
  <2> QED
    BY <2>1, <2>2, <2>3, <2>4, RestockStep
<1>11. ASSUME Lines, Sales PROVE Ledger!Next
  BY <1>11, RestockPlain
<1> HIDE DEF Lines, Sales
<1> QED
  BY <1>1, <1>2, <1>4, <1>5, <1>6, <1>7, <1>8, <1>9, <1>10, <1>11 DEF PurchaseOrderNext

LEMMA EditLotEntry ==
  ASSUME IInv, IInv', NEW l \in Lots, EditLotNext(l)
  PROVE  Ledger!Next
<1> SUFFICES ASSUME NEW manager, NEW st, NEW q, EditLot(l, manager, st, q)
             PROVE  Ledger!Next
  BY DEF EditLotNext
<1>1. UNCHANGED <<soStatus, sol>> /\ Exists(l)
  BY DEF EditLot, Landed, sellVars
<1>2. \A k \in Lots : Exists(k)' => Exists(k)
  BY <1>1 DEF EditLot, Cascade, LinesOf, Exists, IInv, TypeOK, LineTypeOK
<1> QED
  BY <1>1, <1>2, RestockPlain

LEMMA TransferEntry ==
  ASSUME IInv, IInv', NEW t \in TOs, TransferNext(t)
  PROVE  Ledger!Next
<1> DEFINE Lines == \A l \in Lots : Exists(l)' => Exists(l) \/ status[l] = "none"
           Sales == UNCHANGED <<soStatus, sol>>
<1>1. ASSUME NEW S \in SUBSET Lots, NEW move \in [S -> Qtys], NEW cloneOf,
             Transfer(t, move, cloneOf)
      PROVE  Lines /\ Sales
  <2>1. \A l \in Whole(move) : Exists(l)
    BY <1>1 DEF Transfer, Movable, Whole, Sellable, Exists, LineStatuses, StageStatuses
  <2>2. \A l \in DOMAIN cloneOf : status[cloneOf[l]] = "none"
    BY <1>1 DEF Transfer
  <2>3. \A l \in Drawn(cloneOf) : status[l] = "none"
    BY <2>2 DEF Drawn
  <2> QED
    BY <1>1, <2>1, <2>3 DEF Transfer, Departs, sellVars, Exists
<1>2. ASSUME Receive(t) PROVE Lines /\ Sales
  BY <1>2 DEF Receive, LinesOn, sellVars, Exists
<1>3. ASSUME Reopen(t) PROVE Lines /\ Sales
  BY <1>3 DEF Reopen, LinesOn, sellVars, Exists
<1>4. ASSUME Discard(t) PROVE Lines /\ Sales
  BY <1>4 DEF Discard, LinesOn, MergedOf, sellVars, Exists
<1>5. ASSUME Lines, Sales PROVE Ledger!Next
  BY <1>5, RestockPlain
<1> HIDE DEF Lines, Sales
<1> QED
  BY <1>1, <1>2, <1>3, <1>4, <1>5 DEF TransferNext

----------------------------------------------------------------------------
(* Steps of one sell order.                                                   *)
LEMMA ClaimStep ==
  ASSUME IInv', NEW s \in SOs, UNCHANGED <<archived, lineVars>>,
         soStatus[s] # "Done", soStatus'[s] # "Done",
         \A x \in SOs \ {s} : soStatus'[x] = soStatus[x] /\ sol'[x] = sol[x]
  PROVE  Ledger!Next
<1>1. UNCHANGED <<status, qty, archived>>
  BY DEF lineVars
<1>2. InStockUnits' = InStockUnits
  BY <1>1 DEF InStockUnits
<1>3. \A sts : \A x \in SOs \ {s} : UnitsWhile(sts)'[x] = UnitsWhile(sts)[x]
  BY <1>1 DEF UnitsWhile, Exists
<1>4. UnitsWhile({"Done"})[s] = Ledger!Nothing /\ UnitsWhile({"Done"})'[s] = Ledger!Nothing
  BY DEF UnitsWhile, Ledger!Nothing
<1>5. UnitsWhile({"Done"})' = UnitsWhile({"Done"})
  <2>1. \A x \in SOs : UnitsWhile({"Done"})'[x] = UnitsWhile({"Done"})[x]
    BY <1>3, <1>4
  <2> QED
    BY <2>1 DEF UnitsWhile
<1>6. Ledger!Claim(s)
  BY <1>2, <1>3, <1>4, <1>5, ClaimsFitNext DEF Ledger!Claim, Ledger!OnlyFor, Ledger!Fits, Ledger!Claimed
<1> QED
  BY <1>6 DEF Ledger!Next

LEMMA MarkDoneEntry ==
  ASSUME IInv, IInv', NEW s \in SOs, MarkDone(s)
  PROVE  Ledger!Next
<1>1. UNCHANGED <<archived, sol>> /\ soStatus[s] # "Done"
  BY DEF MarkDone, poVars, MayMove, Allowed, SellStatuses
<1>2. \A x \in SOs : soStatus'[x] = IF x = s THEN "Done" ELSE soStatus[x]
  BY DEF MarkDone, IInv, TypeOK, SellTypeOK
<1>3. \A l \in Lots : Exists(l)' <=> Exists(l)
  BY DEF MarkDone, Exists, Taken, LineStatuses
<1>4. \A sts : \A x \in SOs \ {s} : UnitsWhile(sts)'[x] = UnitsWhile(sts)[x]
  BY <1>1, <1>2, <1>3 DEF UnitsWhile
<1>5. UnitsWhile({"Done"})[s] = Ledger!Nothing /\ UnitsWhile(Committed)'[s] = Ledger!Nothing
  BY <1>1, <1>2 DEF UnitsWhile, Ledger!Nothing, Committed
<1>6. UnitsWhile(Committed)[s] \in {Ledger!Nothing, UnitsWhile({"Done"})'[s]}
  BY <1>1, <1>2, <1>3 DEF UnitsWhile, Ledger!Nothing
<1>7. ASSUME NEW l \in Lots
      PROVE  InStockUnits'[l] = InStockUnits[l] - UnitsWhile({"Done"})'[s][l]
  <2>1. /\ InStockUnits[l] = IF status[l] \in Sellable /\ PoOf[l] \notin archived THEN qty[l] ELSE 0
        /\ InStockUnits'[l] = IF status'[l] \in Sellable /\ PoOf[l] \notin archived THEN qty'[l] ELSE 0
        /\ UnitsWhile({"Done"})'[s][l] = IF Exists(l) THEN sol[s][l] ELSE 0
        /\ qty[l] \in Nat /\ sol[s][l] \in Nat
    BY <1>1, <1>2, <1>3 DEF InStockUnits, UnitsWhile, IInv, TypeOK, LineTypeOK, SellTypeOK
  <2>2. CASE l \notin Taken(s)
    <3>1. status'[l] = status[l] /\ qty'[l] = qty[l]
      BY <2>2 DEF MarkDone
    <3>2. UnitsWhile({"Done"})'[s][l] = 0
      BY <2>1, <2>2 DEF Taken
    <3> QED
      BY <2>1, <3>1, <3>2
  <2>3. CASE l \in Taken(s)
    <3>1. /\ Exists(l) /\ status[l] \in Sellable /\ PoOf[l] \notin archived
          /\ sol[s][l] + CommittedQty(l, {s}) <= qty[l]
      BY <2>3, MarkDoneTakes DEF Taken
    <3>2. CommittedQty(l, {s}) \in Nat
      BY ClaimsNow DEF ClaimFacts, IInv, TypeOK
    <3>3. CASE SoldOut(s, l)
      <4>1. status'[l] = "Sold"
        BY <2>3, <3>3 DEF MarkDone
      <4> QED
        BY <2>1, <3>1, <3>2, <3>3, <4>1 DEF SoldOut, Sellable
    <3>4. CASE ~SoldOut(s, l)
      <4>1. status'[l] = status[l] /\ qty'[l] = qty[l] - sol[s][l]
        BY <2>3, <3>4 DEF MarkDone
      <4> QED
        BY <2>1, <3>1, <4>1
    <3> QED
      BY <3>3, <3>4
  <2> QED
    BY <2>2, <2>3
<1>8. InStockUnits' = [l \in Lots |-> InStockUnits[l] - UnitsWhile({"Done"})'[s][l]]
  BY <1>7 DEF InStockUnits
<1>9. Ledger!Sell(s)
  BY <1>4, <1>5, <1>6, <1>8, ClaimsFitNext DEF Ledger!Sell, Ledger!OnlyFor, Ledger!Fits, Ledger!Claimed
<1> QED
  BY <1>9 DEF Ledger!Next

LEMMA ReopenSaleEntry ==
  ASSUME IInv, IInv', NEW s \in SOs, ReopenSale(s)
  PROVE  Ledger!Next
<1>1. UNCHANGED <<archived, sol>> /\ soStatus[s] = "Done"
  BY DEF ReopenSale, poVars
<1>2. \A x \in SOs : soStatus'[x] = IF x = s THEN "Awaiting payment" ELSE soStatus[x]
  BY DEF ReopenSale, IInv, TypeOK, SellTypeOK
<1>3. \A l \in Lots : Exists(l)' <=> Exists(l)
  BY DEF ReopenSale, Exists, Taken, TakesBack, Sellable, LineStatuses, StageStatuses
<1>4. \A sts : \A x \in SOs \ {s} : UnitsWhile(sts)'[x] = UnitsWhile(sts)[x]
  BY <1>1, <1>2, <1>3 DEF UnitsWhile
<1>5. UnitsWhile({"Done"})'[s] = Ledger!Nothing
  BY <1>2 DEF UnitsWhile, Ledger!Nothing
<1>6. UnitsWhile(Committed)'[s] = UnitsWhile({"Done"})[s]
  BY <1>1, <1>2, <1>3 DEF UnitsWhile, Committed
<1>7. ASSUME NEW l \in Lots
      PROVE  InStockUnits'[l] = InStockUnits[l] + UnitsWhile({"Done"})[s][l]
  <2>1. /\ InStockUnits[l] = IF status[l] \in Sellable /\ PoOf[l] \notin archived THEN qty[l] ELSE 0
        /\ InStockUnits'[l] = IF status'[l] \in Sellable /\ PoOf[l] \notin archived THEN qty'[l] ELSE 0
        /\ UnitsWhile({"Done"})[s][l] = IF Exists(l) THEN sol[s][l] ELSE 0
        /\ qty[l] \in Nat /\ sol[s][l] \in Nat
    BY <1>1 DEF InStockUnits, UnitsWhile, IInv, TypeOK, LineTypeOK, SellTypeOK
  <2>2. CASE l \notin Taken(s)
    <3>1. status'[l] = status[l] /\ qty'[l] = qty[l]
      BY <2>2 DEF ReopenSale
    <3>2. UnitsWhile({"Done"})[s][l] = 0
      BY <2>1, <2>2 DEF Taken
    <3> QED
      BY <2>1, <3>1, <3>2
  <2>3. CASE l \in Taken(s)
    <3>1. /\ Exists(l) /\ PoOf[l] \notin archived /\ BackStatus(l) \in Sellable
          /\ status'[l] = BackStatus(l)
      BY <2>3 DEF ReopenSale, Taken, TakesBack
    <3>2. BackQty(s, l) = sol[s][l]
      BY <1>1, <3>1 DEF BackQty, IInv, ClaimsOK, SaleFits
    <3>3. qty'[l] = IF status[l] = "Sold" THEN sol[s][l] ELSE qty[l] + sol[s][l]
      BY <2>3, <3>2 DEF ReopenSale
    <3> QED
      BY <2>1, <3>1, <3>3 DEF BackStatus, Sellable
  <2> QED
    BY <2>2, <2>3
<1>8. InStockUnits' = [l \in Lots |-> InStockUnits[l] + UnitsWhile({"Done"})[s][l]]
  BY <1>7 DEF InStockUnits
<1>9. Ledger!Return(s)
  BY <1>4, <1>5, <1>6, <1>8, ClaimsFitNext DEF Ledger!Return, Ledger!OnlyFor, Ledger!Fits, Ledger!Claimed
<1> QED
  BY <1>9 DEF Ledger!Next

LEMMA SellOrderEntry ==
  ASSUME IInv, IInv', NEW s \in SOs, SellOrderNext(s)
  PROVE  Ledger!Next
<1>1. ASSUME NEW want, CreateDraft(s, want) PROVE Ledger!Next
  BY <1>1, ClaimStep DEF CreateDraft, poVars, IInv, TypeOK, SellTypeOK
<1>2. ASSUME NEW want, NEW atZero, RewriteLines(s, want, atZero) PROVE Ledger!Next
  BY <1>2, ClaimStep DEF RewriteLines, poVars, Open, Proposal, Committed, IInv, TypeOK, SellTypeOK
<1>3. ASSUME NEW to, Move(s, to) PROVE Ledger!Next
  BY <1>3, ClaimStep DEF Move, poVars, IInv, TypeOK, SellTypeOK
<1>4. ASSUME ArchiveSellOrder(s) \/ UnarchiveSellOrder(s) PROVE Ledger!Next
  BY <1>4, RestockPlain DEF ArchiveSellOrder, UnarchiveSellOrder, lineVars, Exists
<1> QED
  BY <1>1, <1>2, <1>3, <1>4, MarkDoneEntry, ReopenSaleEntry DEF SellOrderNext

----------------------------------------------------------------------------
LEMMA EmptyLedger == Init => Ledger!Init
<1> SUFFICES ASSUME Init PROVE Ledger!Init
  OBVIOUS
<1>1. \A l \in Lots : status[l] = "none" /\ ~Exists(l)
  BY DEF Init, Exists, LineStatuses, StageStatuses
<1> QED
  BY <1>1 DEF Ledger!Init, Ledger!Nothing, InStockUnits, UnitsWhile, Sellable

LEMMA StutterEntry == UNCHANGED vars => UNCHANGED Ledger!ledger
  BY DEF vars, poVars, lineVars, sellVars, Ledger!ledger, InStockUnits, UnitsWhile, Exists

(* Every request is at most one ledger entry: it claims for one order what    *)
(* still fits, sells what that order claimed, gives back exactly what it      *)
(* sold, or goes around every claim.                                          *)
THEOREM ImplementsLedger == Spec => KeepsLedger
<1>1. IInv /\ IInv' /\ [Next]_vars => [Ledger!Next]_(Ledger!ledger)
  BY PurchaseOrderEntry, EditLotEntry, SellOrderEntry, TransferEntry, StutterEntry DEF Next
<1> QED
  BY EmptyLedger, <1>1, Invariant, PTL DEF Spec, KeepsLedger, Ledger!Spec
=============================================================================
