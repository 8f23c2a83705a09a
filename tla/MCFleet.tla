------------------------------- MODULE MCFleet -------------------------------
(***************************************************************************)
(* Two hosts of a worker each.  With both accounts in the fleet one trouble *)
(* happens; with one account, two; with one account and one host that only *)
(* observes, three.                                                        *)
(***************************************************************************)
EXTENDS FleetSystem, TLC

MCInit ==
  /\ Init
  /\ \/ InFleet = {1, 2} /\ observing = {} /\ troubles = 2
     \/ InFleet = {1} /\ observing = {} /\ troubles = 1
     \/ InFleet = {1} /\ observing = {2} /\ troubles = 0
MCSpec == MCInit /\ [][Next]_fleet /\ Fairness
=============================================================================
