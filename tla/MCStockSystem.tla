--------------------------- MODULE MCStockSystem ---------------------------
(* Small instances of StockSystem for TLC.                                    *)
EXTENDS StockBook, TLC

CONSTANTS p1, p2, a, b

AllOfP1 == [l \in Lots |-> p1]
AOfP1   == [l \in Lots |-> IF l = a THEN p1 ELSE p2]

ToReviewing   == {"draft", "in_transit", "reviewing"}
ToReadyToPay  == {"draft", "reviewing", "ready_to_pay"}
ToEveryStage  == {"draft", "in_transit", "reviewing", "ready_to_pay"}
AllSellMoves  == SellStatuses
SomeSellMoves == {"Draft", "Shipped", "Closed"}

SellerSymmetry == Permutations(SOs)
=============================================================================
