---------------------------- MODULE StockLedger ----------------------------
(***************************************************************************)
(* What the stock rules promise a salesperson, without statuses, purchase  *)
(* orders or transfers: each lot has units in stock, a sell order claims   *)
(* units, takes them when it is sold, and gets exactly those back when the *)
(* sale is reopened.  Claims never exceed the stock, and stock that goes   *)
(* for any other reason goes around the claims.                            *)
(***************************************************************************)
EXTENDS Totals

CONSTANTS
  Sellers,   \* sell orders
  Goods      \* lots

VARIABLES
  stock,     \* units of a lot a sell order may claim or take
  claims,    \* claims[s][l]: units committed sell order s holds of lot l
  sold       \* sold[s][l]: units the sale s took, while it stands

ledger == <<stock, claims, sold>>

Nothing == [l \in Goods |-> 0]
Claimed(c, l) == Total([s \in Sellers |-> c[s][l]], Sellers)
Fits(c, st) == \A l \in Goods : Claimed(c, l) <= st[l]

Init ==
  /\ stock = Nothing
  /\ claims = [s \in Sellers |-> Nothing]
  /\ sold = [s \in Sellers |-> Nothing]

OnlyFor(s, f, g) == \A r \in Sellers \ {s} : g[r] = f[r]

(* An order that is not sold sets what it claims, beside the others' claims.  *)
Claim(s) ==
  /\ sold[s] = Nothing
  /\ OnlyFor(s, claims, claims')
  /\ Fits(claims', stock)
  /\ UNCHANGED <<stock, sold>>

(* A sale takes its units out of stock: those it claimed, if it claimed any.  *)
(* What is left still covers every other claim.                               *)
Sell(s) ==
  /\ sold[s] = Nothing /\ claims'[s] = Nothing
  /\ claims[s] \in {Nothing, sold'[s]}
  /\ OnlyFor(s, claims, claims') /\ OnlyFor(s, sold, sold')
  /\ stock' = [l \in Goods |-> stock[l] - sold'[s][l]]
  /\ Fits(claims', stock')

(* A reopened sale puts back what it took, and claims it again.               *)
Return(s) ==
  /\ sold'[s] = Nothing /\ claims'[s] = sold[s]
  /\ OnlyFor(s, claims, claims') /\ OnlyFor(s, sold, sold')
  /\ stock' = [l \in Goods |-> stock[l] + sold[s][l]]
  /\ Fits(claims', stock')

(* Goods bought, recounted, moved, confirmed or archived.  A claim is given   *)
(* up, and a past sale loses its lot, only where the lot leaves stock whole.  *)
Restock ==
  /\ \A s \in Sellers, l \in Goods :
       /\ claims'[s][l] # claims[s][l] => claims'[s][l] = 0 /\ stock'[l] = 0
       /\ sold'[s][l] # sold[s][l] => sold'[s][l] = 0 /\ stock'[l] = 0
  /\ Fits(claims', stock')

Next == Restock \/ \E s \in Sellers : Claim(s) \/ Sell(s) \/ Return(s)

Spec == Init /\ [][Next]_ledger
=============================================================================
