--------------------------- MODULE MCWriterLocks ---------------------------
(* Two sell orders, two purchase orders and two transfers for WriterLocks.     *)
EXTENDS WriterLocks

CONSTANTS x1, x2, x3, x4
TxSymmetry == Permutations(Txs)

(* Lots 1 to 3 were bought on order 1, lot 4 on order 2; lot 3 is a clone of  *)
(* lot 2.                                                                     *)
OrderOf == [l \in Lots |-> IF l = 4 THEN 2 ELSE 1]
CloneOf == [l \in Lots |-> IF l = 3 THEN 2 ELSE NULL]

Rivals == <<(<<0, 1, 0, 1>>), (<<0, 2, 0, 0>>)>>
Apart  == <<(<<1, 0, 0, 0>>), (<<0, 0, 0, 1>>)>>

Book(s1, names, moving) ==
  [status |-> <<"Done", "Done", IF moving THEN "In Transit" ELSE "none", "Done">>,
   qty |-> <<1, 2, IF moving THEN 1 ELSE 0, 1>>,
   on |-> <<NULL, NULL, IF moving THEN 2 ELSE NULL, NULL>>,
   soStatus |-> <<s1, "Draft">>, sol |-> names,
   toStatus |-> <<"none", IF moving THEN "Pending" ELSE "none">>,
   archived |-> {}]

Books == {Book("Draft", Rivals, FALSE), Book("Shipped", Rivals, FALSE),
          Book("Draft", Apart, FALSE), Book("Draft", Apart, TRUE)}

Selling ==
  {[op |-> o, so |-> s] : o \in {"promote", "done"}, s \in SOs}
    \cup {[op |-> "unsell", so |-> 1]}
    \cup {[op |-> "rewrite", so |-> 1, want |-> <<1, 1, 0, 0>>],
          [op |-> "rewrite", so |-> 2, want |-> <<0, 1, 0, 1>>]}
Ordering ==
  {[op |-> "archive", po |-> o, remove |-> b] : o \in POs, b \in BOOLEAN}
    \cup {[op |-> "cascade", po |-> 1, stage |-> st] : st \in {"Draft", "Done"}}
    \cup {[op |-> "recount", po |-> 1, lots |-> {2}, units |-> 1]}
Moving ==
  {[op |-> "move", lots |-> {1, 2}, to |-> 1],
   [op |-> "split", lots |-> {2}, clone |-> 3, to |-> 2]}
    \cup {[op |-> o, to |-> t] : o \in {"receive", "reopen", "discard"}, t \in TOs}
AllAsks == Selling \cup Ordering \cup Moving

(* The clone of lot 2 is split off, received and sold while order 1 is being  *)
(* archived.                                                                  *)
Shipping == {Book("Shipped", <<(<<0, 0, 0, 1>>), (<<0, 0, 0, 0>>)>>, FALSE)}
LateAsks ==
  {[op |-> "archive", po |-> 1, remove |-> b] : b \in BOOLEAN}
    \cup {[op |-> "split", lots |-> {2}, clone |-> 3, to |-> 2], [op |-> "receive", to |-> 2],
          [op |-> "rewrite", so |-> 1, want |-> <<0, 0, 1, 1>>]}
=============================================================================
