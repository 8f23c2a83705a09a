----------------------------- MODULE Transfers -----------------------------
(***************************************************************************)
(* The writers of transfer orders, which move lots between warehouses: the *)
(* lines on one are In Transit until it is received.  Warehouses are left  *)
(* out: a request always names another one than the lots are at.           *)
(***************************************************************************)
EXTENDS Stock

LinesOn(t) == {l \in Lots : Exists(l) /\ onTransfer[l] = t}

(* A lot gives up only units no committed sell order holds. *)
MovableHeld(l, n) ==   \* mutant: claims not read
  /\ status[l] \in Sellable
  /\ PoOf[l] \notin archived
  /\ n <= qty[l]
Movable(l, n) ==
  /\ status[l] \in Sellable
  /\ PoOf[l] \notin archived
  /\ n + CommittedQty(l, {}) <= qty[l]

(* The share of what was bought that stays when n units leave a lot. *)
ShareKept(l, n) == purchased[l]   \* mutant: the share stays with the source
ShareLeft(l, n) == IF purchased[l] = NoQty THEN NoQty ELSE purchased[l] - n

(* move[l] units of each lot leave it; cloneOf[l] is the new line that takes  *)
(* them when they are not the whole lot.                                      *)
Parted(move) == {l \in DOMAIN move : move[l] < qty[l]}
Whole(move)  == DOMAIN move \ Parted(move)
Drawn(cloneOf) == {cloneOf[l] : l \in DOMAIN cloneOf}
SourceOf(cloneOf, c) == CHOOSE l \in DOMAIN cloneOf : cloneOf[l] = c
Departs(move, cloneOf) == Whole(move) \cup Drawn(cloneOf)

Transfer(t, move, cloneOf) ==
  /\ toStatus[t] = "none"
  /\ DOMAIN move # {} /\ \A l \in DOMAIN move : Movable(l, move[l])
  /\ DOMAIN cloneOf = Parted(move)
  /\ \A l \in Parted(move) :
       /\ cloneOf[l] \in Clones /\ status[cloneOf[l]] = "none"
       /\ PoOf[cloneOf[l]] = PoOf[l]
       /\ PurchasedCheck(l, ShareLeft(l, move[l]))
  /\ \A k, l \in Parted(move) : cloneOf[k] = cloneOf[l] => k = l
  /\ toStatus' = [toStatus EXCEPT ![t] = "Pending"]
  /\ status' = [l \in Lots |->
       IF l \in Departs(move, cloneOf) THEN "In Transit" ELSE status[l]]
  /\ onTransfer' = [l \in Lots |->
       IF l \in Departs(move, cloneOf) THEN t ELSE onTransfer[l]]
  /\ qty' = [l \in Lots |->
       IF l \in Parted(move) THEN qty[l] - move[l]
       ELSE IF l \in Drawn(cloneOf) THEN move[SourceOf(cloneOf, l)] ELSE qty[l]]
  /\ purchased' = [l \in Lots |->
       IF l \in Parted(move) THEN ShareLeft(l, move[l]) ELSE purchased[l]]
  /\ prior' = [l \in Lots |->
       IF l \in Whole(move) THEN status[l]
       ELSE IF l \in Drawn(cloneOf) THEN status[SourceOf(cloneOf, l)] ELSE prior[l]]
  /\ peer' = [l \in Lots |->
       IF l \in Whole(move) THEN NULL
       ELSE IF l \in Drawn(cloneOf) THEN SourceOf(cloneOf, l) ELSE peer[l]]
  /\ UNCHANGED <<poVars, sellVars, archivedFrom, saleLog, handled>>

----------------------------------------------------------------------------
(* Where a line comes back to: the status it left, or Archived on an archived *)
(* order, with the event unarchive reads.                                     *)
LandsAt(l) == IF PoOf[l] \in archived THEN "Archived" ELSE prior[l]
LandedFrom(S) ==
  [l \in Lots |-> IF l \in S /\ PoOf[l] \in archived THEN prior[l] ELSE archivedFrom[l]]

Receive(t) ==
  LET back == {l \in LinesOn(t) : status[l] = "In Transit"} IN
  /\ toStatus[t] = "Pending"
  /\ toStatus' = [toStatus EXCEPT ![t] = "Received"]
  /\ status' = [l \in Lots |-> IF l \in back THEN LandsAt(l) ELSE status[l]]
  /\ archivedFrom' = LandedFrom(back)
  /\ UNCHANGED <<poVars, qty, purchased, sellVars, onTransfer, prior, peer, saleLog,
                 handled>>

(* Reopen a received transfer: every line on it is still in stock and free.   *)
InStock(l) == status[l] \in Sellable   \* mutant: claims not read
InStockAndFree(l) == status[l] \in Sellable /\ CommittedQty(l, {}) = 0

Reopen(t) ==
  /\ toStatus[t] = "Received"
  /\ LinesOn(t) # {}
  /\ \A l \in LinesOn(t) : InStockAndFree(l)
  /\ toStatus' = [toStatus EXCEPT ![t] = "Pending"]
  /\ status' = [l \in Lots |-> IF l \in LinesOn(t) THEN "In Transit" ELSE status[l]]
  /\ prior' = [l \in Lots |-> IF l \in LinesOn(t) THEN status[l] ELSE prior[l]]
  /\ UNCHANGED <<poVars, qty, purchased, sellVars, onTransfer, peer, archivedFrom,
                 saleLog, handled>>

(* Discard undoes the move.  A clone goes back into the line it was split     *)
(* from, unless that line is out on a transfer itself or a sell order names   *)
(* it, and is deleted; any other line stays, off the transfer.                *)
Absorbs(p) ==
  /\ Exists(p) /\ onTransfer[p] = NULL
  /\ \A s \in SOs : ~Names(s, p)
MergedOf(t) == {l \in LinesOn(t) : peer[l] # NULL /\ Absorbs(peer[l])}
MergedNothing(t, p) == 0   \* mutant: the clone's units are lost
MergedUnits(t, p) == Total(qty, {l \in MergedOf(t) : peer[l] = p})

Discard(t) ==
  LET merged == MergedOf(t)
      kept   == LinesOn(t) \ merged
  IN
  /\ toStatus[t] = "Pending"
  /\ \A l \in LinesOn(t) : status[l] = "In Transit" /\ CommittedQty(l, {}) = 0
  /\ toStatus' = [toStatus EXCEPT ![t] = "discarded"]
  /\ status' = [l \in Lots |->
       IF l \in merged THEN "deleted" ELSE IF l \in kept THEN LandsAt(l) ELSE status[l]]
  /\ qty' = [l \in Lots |->
       IF l \in merged THEN 0 ELSE qty[l] + MergedUnits(t, l)]
  /\ purchased' = [l \in Lots |->
       IF l \in merged \/ purchased[l] = NoQty THEN NoQty
       ELSE purchased[l] + MergedUnits(t, l)]
  /\ onTransfer' = [l \in Lots |-> IF l \in merged \cup kept THEN NULL ELSE onTransfer[l]]
  /\ archivedFrom' = LandedFrom(kept)
  /\ prior' = [l \in Lots |-> IF l \in merged \cup kept THEN LegacyPriorStatus ELSE prior[l]]
  /\ peer' = [l \in Lots |-> IF l \in merged \cup kept THEN NULL ELSE peer[l]]
  /\ UNCHANGED <<poVars, sellVars, saleLog, handled>>
=============================================================================
