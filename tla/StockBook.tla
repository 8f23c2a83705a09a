----------------------------- MODULE StockBook -----------------------------
(***************************************************************************)
(* StockSystem keeps the promise of StockLedger: its statuses, counts and  *)
(* sell orders read as a ledger, and every request is one of its entries.  *)
(***************************************************************************)
EXTENDS StockSystem

InStockUnits ==
  [l \in Lots |-> IF status[l] \in Sellable /\ PoOf[l] \notin archived THEN qty[l] ELSE 0]
UnitsWhile(sts) ==
  [s \in SOs |-> [l \in Lots |->
     IF soStatus[s] \in sts /\ Exists(l) THEN sol[s][l] ELSE 0]]

Ledger == INSTANCE StockLedger WITH
  Sellers <- SOs, Goods <- Lots,
  stock <- InStockUnits, claims <- UnitsWhile(Committed), sold <- UnitsWhile({"Done"})

(* Whatever a request does to statuses, counts and orders, it is at most one  *)
(* ledger entry: a claim that fits, a sale of what was claimed, a return of   *)
(* exactly what was sold, or a restock around the claims.  No request claims  *)
(* for two orders, sells what another holds, or returns more than was taken.  *)
KeepsLedger == Ledger!Spec
=============================================================================
