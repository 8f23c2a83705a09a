------------------------------- MODULE MCDesk -------------------------------
(***************************************************************************)
(* SellDesk and ReviewQueue on small instances.  They share no state, so a *)
(* behaviour moves one of them: which, is chosen at the start.  The desk   *)
(* has one active manager, whose pages load between two writes, or all     *)
(* managers, with writes between the reads of a page, one price and no     *)
(* packing.                                                                *)
(***************************************************************************)
EXTENDS SellDesk, ReviewQueue

CONSTANT Parts
VARIABLE part
vars == <<deskVars, queueVars, part>>

OnePrice == \A l \in Lots : line[l].price <= 1
Unused == active = {} /\ line = [l \in Lots |-> [qty |-> MaxQty, price |-> 1]]

(* Both reads of a page with nothing between them, and one page at a time.    *)
LoadPage(m) ==
  /\ page' = [page EXCEPT ![m] = [lines |-> line, deal |-> Deal]]
  /\ UNCHANGED <<orderVars, lineVars, formVars, active, signed, reviewed>>
OneLoads == Cardinality({m \in Managers : loading'[m] # NoDeal}) <= 1

MCInit ==
  /\ part \in Parts
  /\ DeskInit /\ QueueInit
  /\ part = "prices" => active = {CHOOSE m \in Managers : TRUE}
  /\ part = "managers" => active = Managers /\ OnePrice
  /\ part = "queue" => Unused

MCNext ==
  /\ \/ /\ part = "prices"
        /\ DeskNext \/ \E m \in active : LoadPage(m)
        /\ UNCHANGED <<loading, queueVars>>
     \/ part = "managers" /\ DeskNext /\ OnePrice' /\ OneLoads /\ UNCHANGED <<pack, queueVars>>
     \/ part = "queue" /\ QueueNext /\ UNCHANGED deskVars
  /\ UNCHANGED part

MCSpec == MCInit /\ [][MCNext]_vars /\ QueueFairness
=============================================================================
