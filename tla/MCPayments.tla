----------------------------- MODULE MCPayments -----------------------------
(***************************************************************************)
(* Three legs of one amount: a PayPal charge, the Mercury pull that names  *)
(* its id, and a Mercury pull that names none.  An instance starts with    *)
(* all of them synced, none of them, or a pair already made or linked, and *)
(* with a budget of each kind of transaction.                              *)
(***************************************************************************)
EXTENDS Payments, TLC

CONSTANTS pull, retry, charge, charged

Live   == [Fresh EXCEPT !.status = "live"]
InPair == [Live EXCEPT !.pair = {pull, charge}]
Legs3(one, other) ==
  [l \in Legs |-> IF l \in {pull, charge} THEN one ELSE other]
Budget(calls, typed, rules, syncs) ==
  left = [calls |-> calls, typed |-> typed, rules |-> rules, syncs |-> syncs]
NoIds == [o \in Orders |-> NoId]

Synced    == leg = Legs3(Live, Live) /\ txn = NoIds /\ Budget(2, 1, 1, 1)
FirstSync == Budget(1, 1, 1, 3) /\ PayInit
MadePair  == leg = Legs3(InPair, Live) /\ txn = NoIds /\ Budget(3, 0, 0, 1)
PaidPair  == \E o \in Orders :
  /\ leg = Legs3(SetLink(InPair, o, "auto"), Fresh)
  /\ txn = [NoIds EXCEPT ![o] = charged]
  /\ Budget(1, 1, 0, 2)

MCInit ==
  /\ Synced \/ FirstSync \/ MadePair \/ PaidPair
  /\ rule = NoRule
  /\ asked = [m \in Managers |-> NoTx]
  /\ typing = NoTx
  /\ sync = NoTx
MCSpec == MCInit /\ [][PayNext]_pvars

MCIdOf     == (pull :> charged) @@ (retry :> NoId) @@ (charge :> charged)
MCNear     == {{pull, charge}, {retry, charge}}
MCPatterns == {{charge}}
Symmetry   == Permutations(Managers) \cup Permutations(Orders)
=============================================================================
