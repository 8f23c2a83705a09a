--------------------------- MODULE PaymentsProof ---------------------------
(***************************************************************************)
(* A payment is one pair and is linked whole, and what a manager decided   *)
(* of it stands, for any banks, orders, managers and budgets.              *)
(*                                                                         *)
(* A step writes a set of legs that holds with each leg its pair (Apart),  *)
(* or goes to the draft of a transaction.  So there are two tables to keep *)
(* right: the one that is committed and the one the sync sees (SyncView);  *)
(* each row of its draft came of the committed row (Comes), and committing *)
(* it does what the properties allow.                                      *)
(***************************************************************************)
EXTENDS Payments, FiniteSetTheorems, TLAPS

Row ==
  [status : {"absent", "live", "failed", "reversed"},
   pair : Pairs \cup {NoPair}, order : Orders \cup {NoOrder},
   by : {"nobody", "auto", "purchaser", "manager"}, ign : {"no", "rule", "hand"},
   noLink : BOOLEAN, noPair : BOOLEAN, noRule : BOOLEAN]
IsDraft(d) == DOMAIN d \subseteq Legs /\ d \in [DOMAIN d -> Row]

(* What a manager's transaction waits for names legs it will lock.            *)
Requests ==
  [call : Calls, want : SUBSET Legs, held : SUBSET Legs, rows : SUBSET Legs,
   pairs : SUBSET (Pairs \cup {NoPair})]

PayTypeOK ==
  /\ leg \in [Legs -> Row]
  /\ txn \in [Orders -> Ids \cup {NoId}]
  /\ rule \in Patterns \cup {NoRule}
  /\ asked \in [Managers -> Requests \cup {NoTx}]
  /\ typing # NoTx =>
       /\ typing \in [order : Orders, id : Ids \cup {NoId}, draft : {typing.draft},
                      group : SUBSET Legs]
       /\ IsDraft(typing.draft)
  /\ sync # NoTx =>
       /\ sync \in [draft : {sync.draft}, todo : SUBSET Orders,
                    order : Orders \cup {NoOrder}, group : SUBSET Legs]
       /\ IsDraft(sync.draft)
  /\ left \in [calls : Nat, typed : Nat, rules : Nat, syncs : Nat]

----------------------------------------------------------------------------
(* Each leg of a pair carries it, and no other leg does.                      *)
PairRow(v, l) ==
  v[l].pair # NoPair =>
    /\ v[l].pair \in Pairs
    /\ l \in v[l].pair
    /\ \A k \in v[l].pair : v[k].pair = v[l].pair
PairsOK(v) == \A l \in Legs : PairRow(v, l)

(* A link and an ignore never meet on a row, and a manager's mark is a link.  *)
RowOK(r) == /\ r.order = NoOrder \/ r.ign = "no"
            /\ r.by = "manager" => r.order # NoOrder

(* What became of a committed row in the draft of a sync.                     *)
Comes(l, r, d) ==
  /\ d.ign = r.ign /\ d.noRule = r.noRule
  /\ r.noLink => d.noLink
  /\ r.status \in {"failed", "reversed"} => d.status = r.status
  /\ r.noLink /\ r.order = NoOrder /\ d.order # NoOrder => d.pair # r.pair
  /\ r.by = "manager" /\ d.by # "manager" =>
       \/ d.pair # r.pair
       \/ d.order = NoOrder /\ d.noLink
  /\ l \in Mercury /\ r.pair # NoPair /\ d.pair = NoPair /\ r.order # NoOrder =>
       d.order = NoOrder /\ d.noLink

AskedOK == \A m \in Managers : asked[m] # NoTx =>
  asked[m].call.legs \subseteq asked[m].want /\ asked[m].want \subseteq asked[m].rows
TypingOK == typing # NoTx => \A l \in DOMAIN typing.draft :
  typing.draft[l] = ClearLink(leg[l]) /\ leg[l].by # "manager"
SyncOK == sync # NoTx =>
  /\ PairsOK(SyncView)
  /\ DOMAIN sync.draft \cap TypingLocks = {}
  /\ \A l \in DOMAIN sync.draft : RowOK(sync.draft[l]) /\ Comes(l, leg[l], sync.draft[l])

PayInv ==
  /\ PayTypeOK
  /\ PairsOK(leg)
  /\ \A l \in Legs : RowOK(leg[l])
  /\ AskedOK /\ TypingOK /\ SyncOK
(* What a step may do to a row.                                               *)
Allowed(l, r, new) ==
  /\ r.noLink /\ r.order = NoOrder /\ new.order # NoOrder =>
       new.by = "manager" \/ new.pair # r.pair
  /\ r.noRule => ~(r.ign = "no" /\ new.ign = "rule")
  /\ r.by = "manager" /\ new.by # "manager" => new.order = NoOrder \/ new.pair # r.pair
  /\ r.status \in {"failed", "reversed"} => new.status = r.status
  /\ l \in Mercury /\ r.pair # NoPair /\ new.pair = NoPair /\ r.order # NoOrder =>
       new.order = NoOrder
RowsAllowed == \A l \in Legs : Allowed(l, leg[l], leg'[l])

LEMMA SameRowsAllowed == leg' = leg => RowsAllowed
  BY DEF RowsAllowed, Allowed

----------------------------------------------------------------------------
(* Pairs and groups.                                                          *)
LEMMA PairLegs ==
  ASSUME NEW p \in Pairs
  PROVE  /\ p # NoPair /\ p \subseteq Legs
         /\ \E a \in Mercury, b \in PayPal : p = {a, b} /\ a # b
  BY PaymentsAssumption DEF PaymentsAssumption, Pairs, Legs

LEMMA GroupFacts ==
  ASSUME NEW v, PairsOK(v), NEW l \in Legs
  PROVE  /\ l \in GroupOf(v, l) /\ GroupOf(v, l) \subseteq Legs
         /\ v[l].pair = NoPair => GroupOf(v, l) = {l}
         /\ v[l].pair # NoPair => /\ GroupOf(v, l) = v[l].pair
                                  /\ Siblings(v, l) = v[l].pair
                                  /\ v[l].pair \in Pairs
         /\ \A k \in GroupOf(v, l) : v[k].pair = v[l].pair
<1>1. CASE v[l].pair = NoPair
  BY <1>1 DEF GroupOf, Siblings
<1>2. CASE v[l].pair # NoPair
  <2>1. /\ v[l].pair \in Pairs /\ l \in v[l].pair
        /\ \A k \in v[l].pair : v[k].pair = v[l].pair
    BY <1>2 DEF PairsOK, PairRow
  <2>2. v[l].pair \subseteq Legs
    BY <2>1, PairLegs
  <2>3. \A k \in Legs : v[k].pair = v[l].pair => k \in v[l].pair
    BY <1>2 DEF PairsOK, PairRow
  <2>4. Siblings(v, l) = v[l].pair
    BY <1>2, <2>1, <2>2, <2>3 DEF Siblings
  <2> QED
    BY <2>1, <2>2, <2>4, <1>2 DEF GroupOf
<1> QED
  BY <1>1, <1>2

(* A set of legs with their pairs.                                            *)
Apart(v, X) == \A l \in X : v[l].pair # NoPair => v[l].pair \subseteq X

LEMMA GroupApart ==
  ASSUME NEW v, PairsOK(v), NEW l \in Legs
  PROVE  Apart(v, GroupOf(v, l))
  BY GroupFacts DEF Apart

(* Pairs are right after a change to a set of legs with their pairs.          *)
LEMMA PairsChanged ==
  ASSUME NEW v, NEW w, PairsOK(v), NEW X \in SUBSET Legs, Apart(v, X),
         \A l \in Legs \ X : w[l].pair = v[l].pair,
         \A l \in X : PairRow(w, l)
  PROVE  PairsOK(w)
<1> SUFFICES ASSUME NEW l \in Legs \ X, v[l].pair # NoPair PROVE PairRow(w, l)
  BY DEF PairsOK, PairRow
<1>1. /\ v[l].pair \in Pairs /\ l \in v[l].pair /\ v[l].pair \subseteq Legs
      /\ \A k \in v[l].pair : v[k].pair = v[l].pair
  BY PairLegs DEF PairsOK, PairRow
<1>2. \A k \in v[l].pair : k \notin X
  BY <1>1 DEF Apart
<1> QED
  BY <1>1, <1>2 DEF PairRow

LEMMA PairsSame ==
  ASSUME NEW v, NEW w, PairsOK(v), \A l \in Legs : w[l].pair = v[l].pair
  PROVE  PairsOK(w)
<1>1. Apart(v, {})
  BY DEF Apart
<1> QED
  BY <1>1, PairsChanged

LEMMA OverRow ==
  ASSUME NEW draft, NEW base
  PROVE  /\ Over(draft, base) = [l \in Legs |-> Over(draft, base)[l]]
         /\ \A l \in Legs : Over(draft, base)[l] =
              IF l \in DOMAIN draft THEN draft[l] ELSE base[l]
  BY DEF Over

LEMMA OverType ==
  ASSUME NEW draft, NEW base \in [Legs -> Row], \A l \in DOMAIN draft \cap Legs : draft[l] \in Row
  PROVE  Over(draft, base) \in [Legs -> Row]
  BY DEF Over

(* The legs a transaction waits for are free of the other's drafts.           *)
LEMMA Locks ==
  /\ sync # NoTx => SyncLocks = DOMAIN sync.draft
  /\ typing # NoTx => TypingLocks = DOMAIN typing.draft
  BY DEF SyncLocks, TypingLocks

----------------------------------------------------------------------------
(* A step that writes the legs of W, and their pairs in X only, none of them  *)
(* in the draft of a sync, leaves the sync's own table right.                 *)
LEMMA LegsWritten ==
  ASSUME PayInv, NEW W \in SUBSET Legs, NEW X \in SUBSET W,
         leg' \in [Legs -> Row], \A l \in Legs \ W : leg'[l] = leg[l],
         \A l \in W : RowOK(leg'[l]),
         \A l \in Legs \ X : leg'[l].pair = leg[l].pair,
         Apart(leg, X), Apart(leg', X), \A l \in X : PairRow(leg', l),
         W \cap SyncLocks = {}, sync' = sync, TypingLocks' \subseteq TypingLocks
  PROVE  PairsOK(leg)' /\ (\A l \in Legs : RowOK(leg'[l])) /\ SyncOK'
<1>1. PairsOK(leg')
  BY PairsChanged DEF PayInv
<1>2. \A l \in Legs : RowOK(leg'[l])
  BY DEF PayInv
<1>3. ASSUME sync # NoTx PROVE SyncOK'
  <2> DEFINE D == DOMAIN sync.draft
  <2>1. /\ PairsOK(SyncView) /\ D \cap TypingLocks = {} /\ W \cap D = {}
        /\ \A l \in D : RowOK(sync.draft[l]) /\ Comes(l, leg[l], sync.draft[l])
    BY <1>3, Locks DEF PayInv, SyncOK
  <2>2. D \subseteq Legs
    BY <1>3 DEF PayInv, PayTypeOK, IsDraft
  <2>3. \A l \in Legs : /\ SyncView[l] = IF l \in D THEN sync.draft[l] ELSE leg[l]
                        /\ SyncView'[l] = IF l \in D THEN sync.draft[l] ELSE leg'[l]
    BY OverRow DEF SyncView
  <2>4. Apart(SyncView, X) /\ (\A l \in Legs \ X : SyncView'[l].pair = SyncView[l].pair)
    BY <2>1, <2>3 DEF Apart
  <2>5. \A l \in X : PairRow(SyncView', l)
    <3> SUFFICES ASSUME NEW l \in X, SyncView'[l].pair # NoPair PROVE PairRow(SyncView', l)
      BY DEF PairRow
    <3>1. SyncView'[l] = leg'[l] /\ leg'[l].pair \subseteq X
      BY <2>1, <2>3 DEF Apart
    <3>2. \A k \in leg'[l].pair : SyncView'[k] = leg'[k]
      BY <3>1, <2>1, <2>3
    <3> QED
      BY <3>1, <3>2 DEF PairRow
  <2>6. PairsOK(SyncView')
    BY <2>1, <2>4, <2>5, PairsChanged
  <2>7. \A l \in D : leg'[l] = leg[l]
    BY <2>1, <2>2
  <2> QED
    BY <2>1, <2>6, <2>7 DEF SyncOK
<1>4. sync = NoTx => SyncOK'
  BY DEF SyncOK
<1> QED
  BY <1>1, <1>2, <1>3, <1>4

(* An order save that waits keeps its draft if nobody writes its legs.        *)
LEMMA TypingStands ==
  ASSUME PayInv, typing' = typing, \A l \in TypingLocks : leg'[l] = leg[l]
  PROVE  TypingOK'
  BY Locks DEF PayInv, TypingOK
----------------------------------------------------------------------------
(* Managers.                                                                  *)
LEMMA ManagerWrites ==
  ASSUME PayInv, NEW m \in Managers, Granted(m), NEW rows, Answer(m, rows),
         DOMAIN rows \subseteq asked[m].rows, txn' \in [Orders -> Ids \cup {NoId}],
         \A l \in DOMAIN rows : /\ rows[l] \in Row /\ RowOK(rows[l])
                                /\ Allowed(l, leg[l], rows[l]),
         NEW X \in SUBSET DOMAIN rows, Apart(leg, X),
         \A l \in X : PairRow(leg', l) /\ (rows[l].pair # NoPair => rows[l].pair \subseteq X),
         \A l \in DOMAIN rows \ X : rows[l].pair = leg[l].pair
  PROVE  PayInv' /\ RowsAllowed
<1> DEFINE W == DOMAIN rows
<1>1. /\ asked[m] \in Requests /\ W \subseteq FreeFor(m)
  BY DEF PayInv, PayTypeOK, Granted
<1>2. /\ W \subseteq Legs /\ W \cap SyncLocks = {} /\ W \cap TypingLocks = {}
  BY <1>1 DEF FreeFor
<1>3. /\ \A l \in W : leg'[l] = rows[l]
      /\ \A l \in Legs \ W : leg'[l] = leg[l]
  BY <1>2, OverRow DEF Answer
<1>4. leg' \in [Legs -> Row]
  BY OverType DEF Answer, PayInv, PayTypeOK
<1>5. Apart(leg', X) /\ \A l \in Legs \ X : leg'[l].pair = leg[l].pair
  BY <1>3 DEF Apart
<1>6. sync' = sync /\ typing' = typing /\ TypingLocks' = TypingLocks
  BY DEF Answer, TypingLocks
<1>7. PairsOK(leg)' /\ (\A l \in Legs : RowOK(leg'[l])) /\ SyncOK'
  <2>1. \A l \in W : RowOK(leg'[l])
    BY <1>3
  <2>2. W \in SUBSET Legs /\ X \in SUBSET W
    BY <1>2
  <2> HIDE DEF W
  <2> QED
    BY <1>2, <1>3, <1>4, <1>5, <1>6, <2>1, <2>2, LegsWritten
<1>8. TypingOK'
  <2>1. TypingLocks \subseteq Legs
    BY DEF PayInv, PayTypeOK, IsDraft, TypingLocks
  <2> QED
    BY <1>2, <1>3, <1>6, <2>1, TypingStands
<1>9. AskedOK' /\ PayTypeOK'
  BY <1>4 DEF PayInv, PayTypeOK, AskedOK, Answer
<1> QED
  BY <1>3, <1>7, <1>8, <1>9 DEF PayInv, RowsAllowed, Allowed

(* The group a call names is locked whole.                                    *)
LEMMA Judged ==
  ASSUME PayInv, NEW m \in Managers, NEW op, Judging(m, op)
  PROVE  /\ Granted(m) /\ asked[m].call \in Calls /\ asked[m].call.op = op
         /\ asked[m].call.legs \subseteq asked[m].rows
         /\ asked[m].rows \subseteq Legs
         /\ Target(m) \in asked[m].call.legs
         /\ Group(m) \subseteq asked[m].rows
         /\ Apart(leg, Group(m))
<1>1. /\ asked[m] \in Requests /\ Granted(m) /\ asked[m].call.op = op
      /\ asked[m].call.legs \subseteq asked[m].want /\ asked[m].want \subseteq asked[m].rows
  BY DEF Judging, PayInv, PayTypeOK, AskedOK
<1>2. asked[m].call \in Calls /\ asked[m].call.legs # {} /\ asked[m].rows \subseteq Legs
  BY <1>1 DEF Requests, Calls, Pairs
<1>3. Target(m) \in asked[m].call.legs
  BY <1>2 DEF Target
<1>4. Target(m) \in Locked(m) /\ Locked(m) \subseteq asked[m].rows
  BY <1>1, <1>3 DEF Locked
<1>5. Group(m) \subseteq Members(m) /\ Members(m) = Locked(m)
  BY <1>4 DEF Group, Members, Judging, Closed
<1>6. Apart(leg, Group(m))
  BY <1>2, <1>4, GroupApart DEF Group, PayInv
<1> QED
  BY <1>1, <1>2, <1>3, <1>4, <1>5, <1>6

(* A step that writes marks of a group and leaves its pair.                   *)
LEMMA ManagerMarks ==
  ASSUME PayInv, NEW m \in Managers, NEW op, Judging(m, op), NEW rows, DOMAIN rows = Group(m),
         Answer(m, rows), txn' \in [Orders -> Ids \cup {NoId}],
         \A l \in Group(m) :
           /\ rows[l] \in Row /\ RowOK(rows[l]) /\ rows[l].pair = leg[l].pair
           /\ Allowed(l, leg[l], rows[l])
  PROVE  PayInv' /\ RowsAllowed
<1>1. Granted(m) /\ Group(m) \subseteq asked[m].rows
  BY Judged
<1>2. Apart(leg, {})
  BY DEF Apart
<1> QED
  BY <1>1, <1>2, ManagerWrites

(* The rows of a group.                                                       *)
LEMMA GroupRows ==
  ASSUME PayInv, NEW m \in Managers, NEW op, Judging(m, op)
  PROVE  /\ \A l \in Group(m) : l \in Legs /\ leg[l] \in Row /\ RowOK(leg[l])
         /\ txn \in [Orders -> Ids \cup {NoId}]
  BY Judged DEF PayInv, PayTypeOK

LEMMA LinkKeeps ==
  ASSUME PayInv, NEW m \in Managers, Link(m)
  PROVE  PayInv' /\ RowsAllowed
<1> DEFINE o == asked[m].call.order
           rows == [l \in Group(m) |-> SetLink(leg[l], o, "manager")]
<1>1. Judging(m, "link") /\ Answer(m, rows)
  BY DEF Link
<1>2. o \in Orders /\ o # NoOrder
  BY <1>1, Judged, PaymentsAssumption DEF Calls, PaymentsAssumption
<1>3. txn' \in [Orders -> Ids \cup {NoId}]
  <2>1. NamedBy(Group(m)) \subseteq Ids
    BY <1>1, GroupRows, PaymentsAssumption DEF NamedBy, PaymentsAssumption
  <2> QED
    BY <1>1, <2>1, GroupRows DEF Link
<1>4. ASSUME NEW l \in Group(m)
      PROVE  /\ rows[l] \in Row /\ RowOK(rows[l]) /\ rows[l].pair = leg[l].pair
             /\ Allowed(l, leg[l], rows[l])
  <2>1. leg[l] \in Row /\ leg[l].ign = "no"
    BY <1>1, GroupRows DEF Link, LinkableByHand, Ignored
  <2> QED
    BY <1>2, <2>1 DEF SetLink, Row, RowOK, Allowed
<1> HIDE DEF rows
<1> QED
  <2>1. DOMAIN rows = Group(m)
    BY DEF rows
  <2> QED
    BY <1>1, <1>3, <1>4, <2>1, ManagerMarks

LEMMA UnlinkKeeps ==
  ASSUME PayInv, NEW m \in Managers, Unlink(m)
  PROVE  PayInv' /\ RowsAllowed
<1> DEFINE rows == [l \in Group(m) |-> [ClearLink(leg[l]) EXCEPT !.noLink = TRUE]]
<1>1. Judging(m, "unlink") /\ Answer(m, rows) /\ txn' = txn
  BY DEF Unlink
<1>2. ASSUME NEW l \in Group(m)
      PROVE  /\ rows[l] \in Row /\ RowOK(rows[l]) /\ rows[l].pair = leg[l].pair
             /\ Allowed(l, leg[l], rows[l])
  <2>1. leg[l] \in Row
    BY <1>1, GroupRows
  <2> QED
    BY <2>1 DEF ClearLink, SetLink, Row, RowOK, Allowed
<1>3. DOMAIN rows = Group(m)
  OBVIOUS
<1> HIDE DEF rows
<1> QED
  BY <1>1, <1>2, <1>3, GroupRows, ManagerMarks

LEMMA IgnoreKeeps ==
  ASSUME PayInv, NEW m \in Managers, Ignore(m)
  PROVE  PayInv' /\ RowsAllowed
<1> DEFINE rows == [l \in Group(m) |-> IF Ignored(leg, l) THEN leg[l]
                                       ELSE [leg[l] EXCEPT !.ign = "hand"]]
<1>1. Judging(m, "ignore") /\ Answer(m, rows) /\ txn' = txn
  BY DEF Ignore
<1>2. ASSUME NEW l \in Group(m)
      PROVE  /\ rows[l] \in Row /\ RowOK(rows[l]) /\ rows[l].pair = leg[l].pair
             /\ Allowed(l, leg[l], rows[l])
  <2>1. leg[l] \in Row /\ RowOK(leg[l]) /\ leg[l].order = NoOrder
    BY <1>1, GroupRows DEF Ignore, Linked
  <2> QED
    BY <2>1 DEF Ignored, Row, RowOK, Allowed
<1>3. DOMAIN rows = Group(m)
  OBVIOUS
<1> HIDE DEF rows
<1> QED
  BY <1>1, <1>2, <1>3, GroupRows, ManagerMarks

LEMMA UnignoreKeeps ==
  ASSUME PayInv, NEW m \in Managers, Unignore(m)
  PROVE  PayInv' /\ RowsAllowed
<1> DEFINE rows == [l \in Group(m) |->
                      [leg[l] EXCEPT !.noRule = @ \/ leg[l].ign = "rule", !.ign = "no"]]
<1>1. Judging(m, "unignore") /\ Answer(m, rows) /\ txn' = txn
  BY DEF Unignore
<1>2. ASSUME NEW l \in Group(m)
      PROVE  /\ rows[l] \in Row /\ RowOK(rows[l]) /\ rows[l].pair = leg[l].pair
             /\ Allowed(l, leg[l], rows[l])
  <2>1. leg[l] \in Row /\ RowOK(leg[l])
    BY <1>1, GroupRows
  <2> QED
    BY <2>1 DEF Row, RowOK, Allowed
<1>3. DOMAIN rows = Group(m)
  OBVIOUS
<1> HIDE DEF rows
<1> QED
  BY <1>1, <1>2, <1>3, GroupRows, ManagerMarks

(* Joining two legs gives each the pair, and the link of the one to the other.*)
LEMMA JoinedFacts ==
  ASSUME NEW v, NEW p \in Pairs, NEW l \in p, \A k \in p : v[k] \in Row /\ RowOK(v[k])
  PROVE  /\ JoinedRow(v, p, l) \in Row
         /\ JoinedRow(v, p, l).pair = p
         /\ \/ JoinedRow(v, p, l) = [v[l] EXCEPT !.pair = p]
            \/ \E k \in p : /\ Linked(v, k) /\ ~Linked(v, l) /\ k # l
                            /\ JoinedRow(v, p, l) = SetLink([v[l] EXCEPT !.pair = p],
                                                            v[k].order, v[k].by)
<1> DEFINE linked == {k \in p : Linked(v, k)}
           row == [v[l] EXCEPT !.pair = p]
<1>1. row \in Row /\ row.pair = p
  BY DEF Row
<1>2. CASE linked = {} \/ Linked(v, l)
  BY <1>1, <1>2 DEF JoinedRow
<1>3. CASE ~(linked = {} \/ Linked(v, l))
  <2> DEFINE k == CHOOSE k \in linked : TRUE
  <2>1. k \in linked
    BY <1>3
  <2>2. JoinedRow(v, p, l) = SetLink(row, v[k].order, v[k].by)
    BY <1>3 DEF JoinedRow
  <2>3. /\ SetLink(row, v[k].order, v[k].by) \in Row
        /\ SetLink(row, v[k].order, v[k].by).pair = p
    BY <1>1, <2>1 DEF SetLink, Row
  <2> QED
    BY <1>3, <2>1, <2>2, <2>3
<1> QED
  BY <1>2, <1>3

(* A pair is right where both its legs carry it.                              *)
LEMMA PairKeeps ==
  ASSUME PayInv, NEW m \in Managers, Pair(m)
  PROVE  PayInv' /\ RowsAllowed
<1>1. Judging(m, "pair") /\ txn' = txn
  BY DEF Pair
<1>2. PICK a \in Mercury, b \in PayPal :
        /\ asked[m].call.legs = {a, b} /\ Pairable(a, b)
        /\ Answer(m, [l \in {a, b} |-> JoinedRow(leg, {a, b}, l)])
  BY DEF Pair
<1> DEFINE p == {a, b}
           rows == [l \in p |-> JoinedRow(leg, p, l)]
<1>3. /\ p \in Pairs /\ p # NoPair /\ p \subseteq Legs /\ p \subseteq asked[m].rows
      /\ Granted(m)
  <2>1. p \in Pairs
    BY DEF Pairs
  <2>2. p \subseteq asked[m].rows /\ Granted(m)
    BY <1>1, <1>2, Judged
  <2> QED
    BY <2>1, <2>2, PairLegs
<1>4. \A l \in p : leg[l] \in Row /\ RowOK(leg[l])
  BY <1>3 DEF PayInv, PayTypeOK
<1>5. \A l \in p : leg[l].pair = NoPair /\ leg[l].ign = "no"
  BY <1>2 DEF Pairable, Ignored
<1>6. ASSUME NEW l \in p
      PROVE  /\ rows[l] \in Row /\ rows[l].pair = p /\ RowOK(rows[l])
             /\ Allowed(l, leg[l], rows[l])
  <2>1. rows[l] = JoinedRow(leg, p, l)
    OBVIOUS
  <2> HIDE DEF p, rows
  <2>2. /\ JoinedRow(leg, p, l) \in Row
        /\ JoinedRow(leg, p, l).pair = p
        /\ \/ JoinedRow(leg, p, l) = [leg[l] EXCEPT !.pair = p]
           \/ \E k \in p : /\ Linked(leg, k) /\ ~Linked(leg, l) /\ k # l
                           /\ JoinedRow(leg, p, l) = SetLink([leg[l] EXCEPT !.pair = p],
                                                             leg[k].order, leg[k].by)
    BY <1>3, <1>4, JoinedFacts
  <2>3. rows[l] \in Row /\ rows[l].pair = p
    BY <2>2, <2>1
  <2>4. CASE rows[l] = [leg[l] EXCEPT !.pair = p]
    BY <1>3, <1>4, <1>5, <2>3, <2>4 DEF RowOK, Allowed, Row
  <2>5. ASSUME NEW k \in p, Linked(leg, k), ~Linked(leg, l),
               rows[l] = SetLink([leg[l] EXCEPT !.pair = p], leg[k].order, leg[k].by)
        PROVE  RowOK(rows[l]) /\ Allowed(l, leg[l], rows[l])
    <3>1. /\ rows[l].order = leg[k].order /\ rows[l].by = leg[k].by
          /\ rows[l].ign = leg[l].ign /\ rows[l].status = leg[l].status
      BY <1>4, <2>5 DEF SetLink, Row
    <3> QED
      BY <1>3, <1>4, <1>5, <2>3, <3>1, <2>5 DEF RowOK, Allowed, Linked
  <2> QED
    BY <1>3, <1>4, <2>2, <2>1, <2>3, <2>4, <2>5
<1>7. /\ DOMAIN rows = p /\ Answer(m, rows) /\ Apart(leg, p)
      /\ txn' \in [Orders -> Ids \cup {NoId}]
  BY <1>1, <1>2, <1>5 DEF Apart, PayInv, PayTypeOK
<1> HIDE DEF rows, p
<1>8. \A l \in p : leg'[l] = rows[l]
  BY <1>3, <1>7, OverRow DEF Answer
<1>9. \A l \in p : PairRow(leg', l)
  BY <1>3, <1>6, <1>8 DEF PairRow
<1> QED
  BY <1>3, <1>6, <1>7, <1>9, ManagerWrites

(* The link of a pair that is broken up stays on one of its legs.             *)
LEMMA UnpairKeeps ==
  ASSUME PayInv, NEW m \in Managers, Unpair(m)
  PROVE  PayInv' /\ RowsAllowed
<1> DEFINE G == Group(m)
           keep == IF G \cap PayPal # {} THEN CHOOSE l \in G : l \in PayPal
                   ELSE CHOOSE l \in G : TRUE
           freed(l) == [leg[l] EXCEPT !.pair = NoPair, !.noPair = TRUE]
           rows == [l \in G |-> IF l = keep THEN freed(l)
                                ELSE Shadow(freed(l), IdOf[l], IdOf[keep])]
<1>1. Judging(m, "unpair") /\ txn' = txn /\ leg[Target(m)].pair # NoPair /\ Answer(m, rows)
  BY DEF Unpair
<1>2. /\ Granted(m) /\ G \subseteq asked[m].rows /\ G \subseteq Legs /\ Apart(leg, G)
      /\ Target(m) \in Legs
  BY <1>1, Judged
<1>3. G \in Pairs /\ \A l \in G : leg[l].pair # NoPair
  BY <1>1, <1>2, GroupFacts DEF Group, PayInv
<1>4. keep \in G /\ keep \notin Mercury
  BY <1>3, PaymentsAssumption DEF Pairs, PaymentsAssumption
<1>5. ASSUME NEW l \in G
      PROVE  /\ rows[l] \in Row /\ rows[l].pair = NoPair /\ RowOK(rows[l])
             /\ Allowed(l, leg[l], rows[l])
  <2>1. leg[l] \in Row /\ RowOK(leg[l]) /\ leg[l].pair # NoPair
    BY <1>2, <1>3 DEF PayInv, PayTypeOK
  <2>2. CASE l = keep
    <3>1. rows[l] = freed(l) /\ l \notin Mercury
      BY <1>4, <2>2
    <3> HIDE DEF rows, keep
    <3> QED
      BY <2>1, <3>1 DEF Row, RowOK, Allowed
  <2>3. CASE l # keep
    <3>1. rows[l] = Shadow(freed(l), IdOf[l], IdOf[keep])
      BY <2>3
    <3> HIDE DEF rows, keep
    <3> QED
      BY <2>1, <3>1 DEF Shadow, ClearLink, SetLink, Row, RowOK, Allowed
  <2> QED
    BY <2>2, <2>3
<1>6. DOMAIN rows = G /\ txn' \in [Orders -> Ids \cup {NoId}]
  BY <1>1 DEF PayInv, PayTypeOK
<1> HIDE DEF rows, G
<1>7. \A l \in G : PairRow(leg', l)
  BY <1>1, <1>2, <1>5, <1>6, OverRow DEF Answer, PairRow
<1> QED
  BY <1>1, <1>2, <1>5, <1>6, <1>7, ManagerWrites
LEMMA GiveUpKeeps ==
  ASSUME PayInv, NEW m \in Managers, GiveUp(m)
  PROVE  PayInv' /\ RowsAllowed
<1>1. leg' = leg
  <2>1. leg' = [l \in Legs |-> leg[l]]
    BY DEF GiveUp, Answer, Over
  <2> QED
    BY <2>1 DEF PayInv, PayTypeOK
<1>2. SyncOK' /\ TypingOK'
  BY <1>1 DEF GiveUp, Answer, PayInv, SyncOK, SyncView, TypingOK, TypingLocks
<1>3. AskedOK' /\ PayTypeOK'
  BY <1>1 DEF PayInv, PayTypeOK, AskedOK, GiveUp, Answer
<1> QED
  BY <1>1, <1>2, <1>3, SameRowsAllowed DEF PayInv

(* What is asked for names legs, and so does what it widens to.               *)
LEMMA RequestFacts ==
  ASSUME PayInv, NEW call \in Calls, NEW want \in SUBSET Legs, NEW held \in SUBSET Legs,
         call.legs \subseteq want
  PROVE  /\ Request(call, want, held) \in Requests
         /\ Request(call, want, held).call.legs \subseteq Request(call, want, held).want
         /\ Request(call, want, held).want \subseteq Request(call, want, held).rows
<1>1. want \subseteq Candidates(want) /\ Candidates(want) \subseteq Legs
  BY GroupFacts DEF Candidates, PayInv
<1>2. PairsOf(want) \subseteq Pairs \cup {NoPair}
  BY DEF PairsOf, PayInv, PayTypeOK, Row
<1> QED
  BY <1>1, <1>2 DEF Request, Requests

LEMMA AskKeeps ==
  ASSUME PayInv, NEW m \in Managers, NEW call \in Calls, Ask(m, call)
  PROVE  PayInv' /\ RowsAllowed
<1> DEFINE r == Request(call, call.legs, {})
<1>1. call.legs \subseteq Legs
  BY PairLegs DEF Calls
<1>2. r \in Requests /\ r.call.legs \subseteq r.want /\ r.want \subseteq r.rows
  BY <1>1, RequestFacts
<1> HIDE DEF r
<1>3. asked' = [asked EXCEPT ![m] = r]
  BY DEF Ask, r
<1>4. AskedOK' /\ asked' \in [Managers -> Requests \cup {NoTx}]
  BY <1>2, <1>3 DEF PayInv, PayTypeOK, AskedOK
<1>5. PayTypeOK'
  <2>1. left' \in [calls : Nat, typed : Nat, rules : Nat, syncs : Nat]
    BY DEF Ask, PayInv, PayTypeOK
  <2> QED
    BY <1>4, <2>1 DEF Ask, PayInv, PayTypeOK
<1>6. SyncOK' /\ TypingOK' /\ leg' = leg
  BY DEF Ask, PayInv, SyncOK, SyncView, TypingOK, TypingLocks
<1> QED
  BY <1>4, <1>5, <1>6, SameRowsAllowed DEF PayInv

LEMMA WidenKeeps ==
  ASSUME PayInv, NEW m \in Managers, Widen(m)
  PROVE  PayInv' /\ RowsAllowed
<1> DEFINE old == asked[m]
           r == Request(old.call, Members(m), old.held \cup old.rows)
<1>1. /\ old \in Requests /\ old.call.legs \subseteq old.want /\ old.want \subseteq old.rows
  BY DEF Widen, Granted, PayInv, PayTypeOK, AskedOK
<1>2. Locked(m) \subseteq Legs /\ old.want \subseteq Locked(m)
  BY <1>1 DEF Locked, Requests
<1>3. Members(m) \subseteq Legs /\ old.call.legs \subseteq Members(m)
  BY <1>1, <1>2, GroupFacts DEF Members, PayInv
<1>4. r \in Requests /\ r.call.legs \subseteq r.want /\ r.want \subseteq r.rows
  <2>1. old.call \in Calls /\ old.held \cup old.rows \subseteq Legs
    BY <1>1 DEF Requests
  <2> QED
    BY <1>3, <2>1, RequestFacts
<1>5. asked' = [asked EXCEPT ![m] = r]
  BY DEF Widen, PayInv, PayTypeOK
<1> HIDE DEF r
<1>6. AskedOK' /\ asked' \in [Managers -> Requests \cup {NoTx}]
  BY <1>4, <1>5 DEF PayInv, PayTypeOK, AskedOK
<1>7. PayTypeOK'
  BY <1>6 DEF Widen, PayInv, PayTypeOK
<1>8. SyncOK' /\ TypingOK' /\ leg' = leg
  BY DEF Widen, PayInv, SyncOK, SyncView, TypingOK, TypingLocks
<1> QED
  BY <1>6, <1>7, <1>8, SameRowsAllowed DEF PayInv

----------------------------------------------------------------------------
(* Typed ids.                                                                 *)
LEMMA ClearedRow ==
  ASSUME NEW r \in Row
  PROVE  /\ ClearLink(r) \in Row /\ RowOK(ClearLink(r)) /\ ClearLink(r).pair = r.pair
         /\ ClearLink(r).noLink = r.noLink /\ ClearLink(r).order = NoOrder
         /\ ClearLink(r).by = "nobody"
         /\ ClearLink(r).ign = r.ign /\ ClearLink(r).status = r.status
         /\ ClearLink(r).noRule = r.noRule
  BY DEF ClearLink, SetLink, Row, RowOK

LEMMA ReleasedFacts ==
  ASSUME NEW o, NEW old
  PROVE  \A l \in Released(o, old) : l \in Legs /\ leg[l].by # "manager"
  BY DEF Released, GroupOf, Siblings

LEMMA TypeIdKeeps ==
  ASSUME PayInv, NEW o \in Orders, NEW i \in Ids \cup {NoId}, TypeId(o, i)
  PROVE  PayInv' /\ RowsAllowed
<1> DEFINE out == IF txn[o] \notin {NoId, i} THEN Released(o, txn[o]) ELSE {}
           draft == [l \in out |-> ClearLink(leg[l])]
           group == IF Eligible(o, i) THEN Claimable(Over(draft, leg), i) ELSE {}
<1>1. \A l \in out : l \in Legs /\ leg[l].by # "manager"
  BY ReleasedFacts
<1>2. group \subseteq Legs
  BY DEF Claimable
<1>3. /\ out \subseteq FreeForTyping
      /\ typing' = [order |-> o, id |-> i, draft |-> draft, group |-> group]
      /\ left' = [left EXCEPT !.typed = @ - 1] /\ left.typed > 0
      /\ UNCHANGED <<leg, txn, rule, asked, sync>>
  BY DEF TypeId
<1>4. DOMAIN draft = out /\ \A l \in out : draft[l] = ClearLink(leg[l])
  OBVIOUS
<1>5. IsDraft(draft)
  <2>1. \A l \in out : draft[l] \in Row
    BY <1>1, <1>4, ClearedRow DEF PayInv, PayTypeOK
  <2>2. draft = [l \in out |-> draft[l]]
    OBVIOUS
  <2> HIDE DEF draft, out
  <2> QED
    BY <1>1, <1>4, <2>1, <2>2 DEF IsDraft
<1> HIDE DEF out, draft, group
<1>6. PayTypeOK'
  <2>1. left' \in [calls : Nat, typed : Nat, rules : Nat, syncs : Nat]
    BY <1>3 DEF PayInv, PayTypeOK
  <2> QED
    BY <1>2, <1>3, <1>5, <2>1 DEF PayInv, PayTypeOK
<1>7. TypingOK'
  BY <1>1, <1>3, <1>4 DEF TypingOK
<1>8. SyncOK'
  <2>1. TypingLocks' \subseteq out
    BY <1>3, <1>4 DEF TypingLocks
  <2>2. sync # NoTx => DOMAIN sync.draft \cap out = {}
    BY <1>3 DEF FreeForTyping, SyncLocks
  <2> QED
    BY <1>3, <2>1, <2>2 DEF PayInv, SyncOK, SyncView
<1> QED
  BY <1>3, <1>6, <1>7, <1>8, SameRowsAllowed DEF PayInv, AskedOK

(* A claim writes links of unlinked rows that nobody unlinked or ignored.     *)
LEMMA TypedCommitsKeeps ==
  ASSUME PayInv, TypedCommits
  PROVE  PayInv' /\ RowsAllowed
<1> DEFINE v == Over(typing.draft, leg)
           new == Claim(v, typing.group, typing.order, "purchaser")
           W == TypingLocks \cup DOMAIN new
<1>1. /\ typing # NoTx /\ typing.group \subseteq FreeForTyping /\ leg' = Over(new, v)
      /\ txn' = [txn EXCEPT ![typing.order] = typing.id]
      /\ typing' = NoTx /\ UNCHANGED <<rule, asked, sync, left>>
  BY DEF TypedCommits
<1>2. /\ typing.order \in Orders /\ typing.id \in Ids \cup {NoId} /\ typing.group \subseteq Legs
      /\ TypingLocks = DOMAIN typing.draft /\ TypingLocks \subseteq Legs
      /\ leg \in [Legs -> Row] /\ \A l \in Legs : RowOK(leg[l])
  BY <1>1, Locks DEF PayInv, PayTypeOK, IsDraft
<1>3. \A l \in Legs : v[l] = IF l \in TypingLocks THEN ClearLink(leg[l]) ELSE leg[l]
  BY <1>1, <1>2, OverRow DEF PayInv, TypingOK
<1>4. \A l \in Legs : /\ v[l] \in Row /\ RowOK(v[l]) /\ v[l].pair = leg[l].pair
                      /\ v[l].status = leg[l].status /\ v[l].ign = leg[l].ign
                      /\ v[l].noLink = leg[l].noLink
                      /\ leg[l].by = "manager" => v[l] = leg[l]
                      /\ v[l].order # NoOrder => v[l] = leg[l]
  <2>1. \A l \in TypingLocks : leg[l].by # "manager"
    BY <1>1, <1>2 DEF PayInv, TypingOK
  <2> QED
    BY <1>2, <1>3, <2>1, ClearedRow
<1> HIDE DEF v
<1>5. /\ DOMAIN new \subseteq typing.group
      /\ \A l \in DOMAIN new :
           /\ new[l] \in Row /\ RowOK(new[l]) /\ new[l].pair = v[l].pair
           /\ new[l].status = v[l].status
           /\ v[l].order = NoOrder /\ v[l].noLink = FALSE /\ v[l].by # "manager"
           /\ new[l].ign = v[l].ign
  <2>1. /\ DOMAIN new = {l \in typing.group : Unclaimed(v[l])}
        /\ \A l \in DOMAIN new : new[l] = SetLink(v[l], typing.order, "purchaser")
    BY DEF Claim
  <2>2. ASSUME NEW l \in DOMAIN new
        PROVE  /\ new[l] \in Row /\ RowOK(new[l]) /\ new[l].pair = v[l].pair
               /\ new[l].status = v[l].status
               /\ v[l].order = NoOrder /\ v[l].noLink = FALSE /\ v[l].by # "manager"
               /\ new[l].ign = v[l].ign
    <3>1. v[l] \in Row /\ RowOK(v[l]) /\ Unclaimed(v[l]) /\ new[l] = SetLink(v[l], typing.order, "purchaser")
      BY <1>2, <1>4, <2>1
    <3> HIDE DEF new
    <3> QED
      BY <1>2, <3>1 DEF SetLink, Unclaimed, Row, RowOK
  <2> HIDE DEF new
  <2> QED
    BY <2>1, <2>2
<1> HIDE DEF new
<1>6. \A l \in Legs : leg'[l] = IF l \in DOMAIN new THEN new[l] ELSE v[l]
  BY <1>1, OverRow
<1>7. /\ leg' \in [Legs -> Row] /\ \A l \in Legs : RowOK(leg'[l]) /\ leg'[l].pair = leg[l].pair
  <2>1. leg' = [l \in Legs |-> leg'[l]]
    BY <1>1, OverRow
  <2> QED
    BY <1>4, <1>5, <1>6, <2>1
<1>8. RowsAllowed
  <2> SUFFICES ASSUME NEW l \in Legs PROVE Allowed(l, leg[l], leg'[l])
    BY DEF RowsAllowed
  <2>1. CASE l \in DOMAIN new
    BY <1>4, <1>5, <1>6, <2>1 DEF Allowed
  <2>2. CASE l \notin DOMAIN new
    BY <1>4, <1>6, <2>2 DEF Allowed
  <2> QED
    BY <2>1, <2>2
<1>9. PairsOK(leg)' /\ SyncOK'
  <2>1. W \in SUBSET Legs /\ \A l \in Legs \ W : leg'[l] = leg[l]
    BY <1>2, <1>3, <1>5, <1>6
  <2>2. W \cap SyncLocks = {} /\ TypingLocks' = {}
    <3>1. TypingLocks \cap SyncLocks = {}
      BY DEF PayInv, SyncOK, SyncLocks
    <3> QED
      BY <1>1, <1>5, <3>1 DEF FreeForTyping, TypingLocks
  <2>3. Apart(leg, {}) /\ Apart(leg', {})
    BY DEF Apart
  <2> HIDE DEF W
  <2> QED
    BY <1>1, <1>7, <2>1, <2>2, <2>3, LegsWritten
<1>10. PayTypeOK' /\ AskedOK' /\ TypingOK'
  BY <1>1, <1>2, <1>7 DEF PayInv, PayTypeOK, AskedOK, TypingOK
<1> QED
  BY <1>7, <1>8, <1>9, <1>10 DEF PayInv

LEMMA TypedFailsKeeps ==
  ASSUME PayInv, TypedFails
  PROVE  PayInv' /\ RowsAllowed
<1>1. SyncOK' /\ TypingOK' /\ leg' = leg
  BY DEF TypedFails, PayInv, SyncOK, SyncView, TypingOK, TypingLocks
<1> QED
  BY <1>1, SameRowsAllowed DEF TypedFails, PayInv, PayTypeOK, AskedOK
----------------------------------------------------------------------------
(* The ignore rule marks live rows that are not linked.                       *)
ByRuleOnly(r, new) ==
  \/ new = r
  \/ /\ new = [r EXCEPT !.ign = "rule"]
     /\ r.order = NoOrder /\ r.ign = "no" /\ r.noRule = FALSE

LEMMA AppliedFacts ==
  ASSUME NEW v \in [Legs -> Row], NEW r
  PROVE  /\ Applied(v, r) = [l \in Legs |-> Applied(v, r)[l]]
         /\ \A l \in Legs : ByRuleOnly(v[l], Applied(v, r)[l])
<1> DEFINE hit == IF r = NoRule THEN v ELSE Over(ByRule(v, RuleHits(v, r)), v)
<1>1. \A l \in Legs : \/ hit[l] = v[l]
                      \/ hit[l] = [v[l] EXCEPT !.ign = "rule"] /\ l \in RuleHits(v, r)
  <2>1. CASE r = NoRule
    <3>1. hit = v
      BY <2>1
    <3> HIDE DEF hit
    <3> QED
      BY <3>1
  <2>2. CASE r # NoRule
    <3>1. hit = Over(ByRule(v, RuleHits(v, r)), v)
      BY <2>2
    <3>2. /\ DOMAIN ByRule(v, RuleHits(v, r)) = RuleHits(v, r)
          /\ \A l \in RuleHits(v, r) :
               ByRule(v, RuleHits(v, r))[l] = [v[l] EXCEPT !.ign = "rule"]
      BY DEF ByRule
    <3> HIDE DEF hit
    <3> QED
      BY <3>1, <3>2, OverRow
  <2> QED
    BY <2>1, <2>2
<1>2. Applied(v, r) = Over(ByRule(hit, RuleSpreads(hit)), hit)
  BY DEF Applied
<1> HIDE DEF hit
<1>3. \A l \in Legs : \/ Applied(v, r)[l] = hit[l]
                      \/ /\ Applied(v, r)[l] = [hit[l] EXCEPT !.ign = "rule"]
                         /\ l \in RuleSpreads(hit)
  BY <1>2, OverRow DEF ByRule
<1>4. Applied(v, r) = [l \in Legs |-> Applied(v, r)[l]]
  BY <1>2, OverRow
<1>5. ASSUME NEW l \in Legs PROVE ByRuleOnly(v[l], Applied(v, r)[l])
  <2>1. v[l] \in Row
    OBVIOUS
  <2>2. l \in RuleHits(v, r) => v[l].order = NoOrder /\ v[l].ign = "no" /\ v[l].noRule = FALSE
    BY <2>1 DEF RuleHits, Linked, Ignored, Row
  <2>3. CASE hit[l] = v[l]
    <3>1. l \in RuleSpreads(hit) =>
            v[l].order = NoOrder /\ v[l].ign = "no" /\ v[l].noRule = FALSE
      BY <2>1, <2>3 DEF RuleSpreads, Linked, Ignored, Row
    <3> QED
      BY <1>3, <2>3, <3>1 DEF ByRuleOnly
  <2>4. CASE hit[l] = [v[l] EXCEPT !.ign = "rule"] /\ l \in RuleHits(v, r)
    <3>1. hit[l].ign = "rule"
      BY <2>1, <2>4 DEF Row
    <3>2. l \notin RuleSpreads(hit)
      BY <3>1 DEF RuleSpreads, Ignored
    <3> QED
      BY <1>3, <2>2, <2>4, <3>2 DEF ByRuleOnly
  <2> QED
    BY <1>1, <2>3, <2>4
<1> QED
  BY <1>4, <1>5

LEMMA ByRuleRow ==
  ASSUME NEW r \in Row, RowOK(r), NEW new, ByRuleOnly(r, new)
  PROVE  /\ new \in Row /\ RowOK(new) /\ new.pair = r.pair /\ new.order = r.order
         /\ new.by = r.by /\ new.noLink = r.noLink /\ new.noRule = r.noRule
         /\ new.status = r.status
         /\ r.noRule => new.ign = r.ign
  BY DEF ByRuleOnly, Row, RowOK

LEMMA EditRuleKeeps ==
  ASSUME PayInv, NEW r \in Patterns \cup {NoRule}, EditRule(r)
  PROVE  PayInv' /\ RowsAllowed
<1> DEFINE back == Reverted(leg)
           v == Applied(back, r)
<1>1. /\ Changed(v) \cup {l \in Legs : leg[l].ign = "rule"} \subseteq FreeForRules
      /\ leg' = v /\ rule' = r /\ UNCHANGED <<txn, asked, typing, sync>>
      /\ left.rules > 0 /\ left' = [left EXCEPT !.rules = @ - 1]
  BY DEF EditRule
<1>2. \A l \in Legs : leg[l] \in Row /\ RowOK(leg[l])
  BY DEF PayInv, PayTypeOK
<1>3. /\ back \in [Legs -> Row]
      /\ \A l \in Legs : /\ RowOK(back[l]) /\ back[l].pair = leg[l].pair
                         /\ back[l].order = leg[l].order /\ back[l].by = leg[l].by
                         /\ back[l].noLink = leg[l].noLink /\ back[l].noRule = leg[l].noRule
                         /\ back[l].status = leg[l].status
                         /\ leg[l].ign = "no" => back[l].ign = "no"
  <2>1. /\ back = [l \in Legs |-> back[l]]
        /\ \A l \in Legs : back[l] = IF leg[l].ign = "rule" THEN [leg[l] EXCEPT !.ign = "no"]
                                      ELSE leg[l]
    BY DEF Reverted
  <2> HIDE DEF back
  <2>2. ASSUME NEW l \in Legs
        PROVE  /\ back[l] \in Row /\ RowOK(back[l]) /\ back[l].pair = leg[l].pair
               /\ back[l].order = leg[l].order /\ back[l].by = leg[l].by
               /\ back[l].noLink = leg[l].noLink /\ back[l].noRule = leg[l].noRule
               /\ back[l].status = leg[l].status
               /\ leg[l].ign = "no" => back[l].ign = "no"
    BY <1>2, <2>1 DEF Row, RowOK
  <2>3. back \in [Legs -> Row]
    BY <2>1, <2>2
  <2> QED
    BY <2>2, <2>3
<1> HIDE DEF back
<1>4. v = [l \in Legs |-> v[l]] /\ \A l \in Legs : ByRuleOnly(back[l], v[l])
  BY <1>3, AppliedFacts
<1> HIDE DEF v
<1>5. \A l \in Legs : /\ v[l] \in Row /\ RowOK(v[l]) /\ v[l].pair = leg[l].pair
                      /\ v[l].order = leg[l].order /\ v[l].by = leg[l].by
                      /\ v[l].status = leg[l].status
                      /\ leg[l].noRule => ~(leg[l].ign = "no" /\ v[l].ign = "rule")
  BY <1>3, <1>4, ByRuleRow
<1>6. leg' \in [Legs -> Row] /\ RowsAllowed
  BY <1>1, <1>4, <1>5 DEF RowsAllowed, Allowed
<1> DEFINE W == Changed(v)
<1>7. /\ W \in SUBSET Legs /\ \A l \in Legs \ W : leg'[l] = leg[l]
      /\ W \cap SyncLocks = {} /\ W \cap TypingLocks = {}
  BY <1>1 DEF Changed, FreeForRules, FreeForTyping
<1> HIDE DEF W
<1>8. PairsOK(leg)' /\ (\A l \in Legs : RowOK(leg'[l])) /\ SyncOK'
  <2>1. Apart(leg, {}) /\ Apart(leg', {}) /\ TypingLocks' = TypingLocks
    BY <1>1 DEF Apart, TypingLocks
  <2> QED
    BY <1>1, <1>5, <1>6, <1>7, <2>1, LegsWritten
<1>9. TypingOK'
  <2>1. TypingLocks \subseteq Legs
    BY DEF PayInv, PayTypeOK, IsDraft, TypingLocks
  <2> QED
    BY <1>1, <1>7, <2>1, TypingStands
<1>10. PayTypeOK' /\ AskedOK'
  <2>1. left' \in [calls : Nat, typed : Nat, rules : Nat, syncs : Nat]
    BY <1>1 DEF PayInv, PayTypeOK
  <2> QED
    BY <1>1, <1>6, <2>1 DEF PayInv, PayTypeOK, AskedOK
<1> QED
  BY <1>6, <1>8, <1>9, <1>10 DEF PayInv
----------------------------------------------------------------------------
(* The sync.  Dissolving a pair frees both its legs, and takes the link off   *)
(* its Mercury leg for good.                                                  *)
Freed(r, d) ==
  /\ d \in Row /\ RowOK(d) /\ d.pair = NoPair /\ d.status = r.status
  /\ d.ign = r.ign /\ d.noRule = r.noRule
  /\ r.noLink => d.noLink

LEMMA DissolvedRow ==
  ASSUME NEW r \in Row, RowOK(r), NEW d
  PROVE  /\ d = [r EXCEPT !.pair = NoPair] => Freed(r, d)
         /\ d = [ClearLink(r) EXCEPT !.pair = NoPair, !.noLink = @ \/ r.order # NoOrder] =>
              /\ Freed(r, d)
              /\ r.order # NoOrder => d.order = NoOrder /\ d.noLink
<1>1. d = [r EXCEPT !.pair = NoPair] => Freed(r, d)
  BY DEF Freed, Row, RowOK
<1>2. ASSUME d = [ClearLink(r) EXCEPT !.pair = NoPair, !.noLink = @ \/ r.order # NoOrder]
      PROVE  Freed(r, d) /\ (r.order # NoOrder => d.order = NoOrder /\ d.noLink)
  BY <1>2 DEF Freed, Row, RowOK, ClearLink, SetLink
<1> QED
  BY <1>1, <1>2

LEMMA DissolvedFacts ==
  ASSUME NEW v \in [Legs -> Row], PairsOK(v), \A l \in Legs : RowOK(v[l]),
         NEW w, w = Over(Dissolved(v), v)
  PROVE  /\ w \in [Legs -> Row] /\ PairsOK(w)
         /\ \A l \in Legs : RowOK(w[l]) /\ w[l].status = v[l].status
         /\ \A l \in Legs \ Broken(v) : w[l] = v[l]
         /\ \A l \in Broken(v) :
              /\ l \in Legs /\ v[l].pair # NoPair /\ w[l].pair = NoPair
              /\ \E k \in v[l].pair : v[k].status = "failed"
              /\ Freed(v[l], w[l])
              /\ l \in Mercury /\ v[l].order # NoOrder => w[l].order = NoOrder /\ w[l].noLink
<1>1. \A l \in Broken(v) : /\ l \in Legs /\ v[l].pair # NoPair
                           /\ \E k \in v[l].pair : v[k].status = "failed"
  BY GroupFacts DEF Broken, Siblings
<1>2. /\ DOMAIN Dissolved(v) = Broken(v)
      /\ \A l \in Broken(v) : Dissolved(v)[l] =
           IF l \in PayPal THEN [v[l] EXCEPT !.pair = NoPair]
           ELSE [ClearLink(v[l]) EXCEPT !.pair = NoPair, !.noLink = @ \/ v[l].order # NoOrder]
  BY DEF Dissolved, Linked
<1>3. /\ \A l \in Legs : w[l] = IF l \in Broken(v) THEN Dissolved(v)[l] ELSE v[l]
      /\ w = [l \in Legs |-> w[l]]
  BY <1>2 DEF Over
<1>4. ASSUME NEW l \in Broken(v)
      PROVE  /\ Freed(v[l], w[l])
             /\ l \in Mercury /\ v[l].order # NoOrder => w[l].order = NoOrder /\ w[l].noLink
  <2>1. v[l] \in Row /\ RowOK(v[l]) /\ l \in Legs
    BY <1>1
  <2>2. l \in Mercury => l \notin PayPal
    BY PaymentsAssumption DEF PaymentsAssumption
  <2>3. w[l] = Dissolved(v)[l]
    BY <1>3, <2>1
  <2>4. CASE l \in PayPal
    <3>1. w[l] = [v[l] EXCEPT !.pair = NoPair]
      BY <1>2, <2>3, <2>4
    <3> QED
      BY <2>1, <2>2, <2>4, <3>1, DissolvedRow
  <2>5. CASE l \notin PayPal
    <3>1. w[l] = [ClearLink(v[l]) EXCEPT !.pair = NoPair, !.noLink = @ \/ v[l].order # NoOrder]
      BY <1>2, <2>3, <2>5
    <3> QED
      BY <2>1, <3>1, DissolvedRow
  <2> QED
    BY <2>4, <2>5
<1>5. w \in [Legs -> Row]
  BY <1>3, <1>4 DEF Freed
<1>6. PairsOK(w)
  <2>1. Apart(v, Broken(v))
    <3> SUFFICES ASSUME NEW l \in Broken(v), NEW k \in v[l].pair PROVE k \in Broken(v)
      BY DEF Apart
    <3>1. k \in Legs /\ Siblings(v, k) = Siblings(v, l)
      BY <1>1, PairLegs DEF PairsOK, PairRow, Siblings
    <3> QED
      BY <3>1 DEF Broken
  <2>2. \A l \in Broken(v) : PairRow(w, l)
    BY <1>4 DEF PairRow, Freed
  <2>3. Broken(v) \in SUBSET Legs /\ \A l \in Legs \ Broken(v) : w[l].pair = v[l].pair
    BY <1>1, <1>3
  <2> QED
    BY <2>1, <2>2, <2>3, PairsChanged
<1>7. \A l \in Legs \ Broken(v) : w[l] = v[l]
  BY <1>3
<1>8. \A l \in Legs : RowOK(w[l]) /\ w[l].status = v[l].status
  BY <1>4, <1>7 DEF Freed
<1> QED
  BY <1>1, <1>4, <1>5, <1>6, <1>7, <1>8 DEF Freed
(* Pairs that are made do not overlap, and take legs that had none.           *)
LEMMA PairedFacts ==
  ASSUME NEW v \in [Legs -> Row], PairsOK(v), \A l \in Legs : RowOK(v[l]),
         NEW pairs \in SUBSET Pairs, Disjoint(pairs),
         \A p \in pairs : \A l \in p : v[l].pair = NoPair,
         NEW w, w = Over(Paired(v, pairs), v)
  PROVE  /\ w \in [Legs -> Row] /\ PairsOK(w) /\ \A l \in Legs : RowOK(w[l])
         /\ \A l \in Legs :
              \/ w[l] = v[l]
              \/ /\ \E p \in pairs : l \in p /\ w[l].pair = p
                 /\ w[l].status = v[l].status /\ w[l].ign = v[l].ign
                 /\ w[l].noLink = v[l].noLink /\ w[l].noRule = v[l].noRule
<1> DEFINE made == {p \in pairs : Joinable(v, p)}
           joined == UNION made
           of(l) == CHOOSE p \in made : l \in p
<1>1. Paired(v, pairs) = [l \in joined |-> JoinedRow(v, of(l), l)]
  BY DEF Paired
<1>2. \A p \in made : \A l \in p : of(l) = p
  BY DEF Disjoint
<1>3. \A p \in made : p \in Pairs /\ p # NoPair /\ p \subseteq Legs /\ Joinable(v, p)
  BY PairLegs
<1>4. joined \subseteq Legs
  BY <1>3
<1>5. /\ \A p \in made : \A l \in p : w[l] = JoinedRow(v, p, l)
      /\ \A l \in Legs \ joined : w[l] = v[l]
      /\ w = [l \in Legs |-> w[l]]
  BY <1>1, <1>2, <1>3 DEF Over
<1>6. ASSUME NEW p \in made, NEW l \in p
      PROVE  /\ w[l] \in Row /\ RowOK(w[l]) /\ w[l].pair = p
             /\ w[l].status = v[l].status /\ w[l].ign = v[l].ign
             /\ w[l].noLink = v[l].noLink /\ w[l].noRule = v[l].noRule
  <2> HIDE DEF made
  <2>1. p \in Pairs /\ \A k \in p : v[k] \in Row /\ RowOK(v[k])
    BY <1>3
  <2>2. /\ JoinedRow(v, p, l) \in Row
        /\ JoinedRow(v, p, l).pair = p
        /\ \/ JoinedRow(v, p, l) = [v[l] EXCEPT !.pair = p]
           \/ \E k \in p : /\ Linked(v, k) /\ ~Linked(v, l) /\ k # l
                           /\ JoinedRow(v, p, l) = SetLink([v[l] EXCEPT !.pair = p],
                                                           v[k].order, v[k].by)
    BY <2>1, JoinedFacts
  <2>3. w[l] = JoinedRow(v, p, l) /\ v[l] \in Row /\ RowOK(v[l])
    BY <1>5, <2>1
  <2>4. CASE w[l] = [v[l] EXCEPT !.pair = p]
    BY <2>2, <2>3, <2>4 DEF Row, RowOK
  <2>5. ASSUME NEW k \in p, Linked(v, k), ~Linked(v, l), k # l,
               w[l] = SetLink([v[l] EXCEPT !.pair = p], v[k].order, v[k].by)
        PROVE  /\ RowOK(w[l]) /\ w[l].status = v[l].status /\ w[l].ign = v[l].ign
               /\ w[l].noLink = v[l].noLink /\ w[l].noRule = v[l].noRule
    <3>1. {x \in p : Linked(v, x)} = {k}
      BY <2>1, <2>5 DEF Pairs
    <3>2. Cardinality({x \in p : Linked(v, x)}) = 1
      BY <3>1, FS_Singleton
    <3>3. ~Ignored(v, l)
      BY <1>3, <3>2 DEF Joinable
    <3>4. /\ w[l].order = v[k].order /\ w[l].by = v[k].by /\ w[l].status = v[l].status
          /\ w[l].ign = v[l].ign /\ w[l].noLink = v[l].noLink /\ w[l].noRule = v[l].noRule
      BY <2>3, <2>5 DEF SetLink, Row
    <3> QED
      BY <2>1, <3>3, <3>4 DEF Ignored, RowOK
  <2> QED
    BY <2>2, <2>3, <2>4, <2>5
<1>7. \A l \in joined : \E p \in made : l \in p
  OBVIOUS
<1>8. made \subseteq pairs
  OBVIOUS
<1> HIDE DEF made, joined, of
<1>9. w \in [Legs -> Row] /\ \A l \in Legs : RowOK(w[l])
  BY <1>5, <1>6, <1>7
<1>10. PairsOK(w)
  <2>1. Apart(v, joined)
    BY <1>7, <1>8 DEF Apart
  <2>2. \A l \in joined : PairRow(w, l)
    BY <1>3, <1>6, <1>7 DEF PairRow
  <2> QED
    BY <1>4, <1>5, <2>1, <2>2, PairsChanged
<1>11. ASSUME NEW l \in joined
       PROVE  /\ \E p \in pairs : l \in p /\ w[l].pair = p
              /\ w[l].status = v[l].status /\ w[l].ign = v[l].ign
              /\ w[l].noLink = v[l].noLink /\ w[l].noRule = v[l].noRule
  <2>1. PICK p \in made : l \in p
    BY <1>7
  <2> QED
    BY <1>6, <1>8, <2>1
<1> QED
  BY <1>5, <1>9, <1>10, <1>11
(* The pairs a sync makes: those an id names, then those that are alone.      *)
LEMMA NewPairs ==
  ASSUME NEW legs \in SUBSET Legs, NEW refs \in Referenced(legs)
  PROVE  /\ refs \cup OnlyNear(legs \ UNION refs) \in SUBSET Pairs
         /\ Disjoint(refs \cup OnlyNear(legs \ UNION refs))
         /\ \A p \in refs \cup OnlyNear(legs \ UNION refs) : p \subseteq legs
<1> DEFINE near == OnlyNear(legs \ UNION refs)
<1>1. refs \subseteq Pairs /\ Disjoint(refs) /\ \A p \in refs : p \subseteq legs
  BY DEF Referenced, Pairs
<1>2. /\ near \subseteq Pairs /\ Disjoint(near) /\ \A p \in near : p \subseteq legs \ UNION refs
  BY PaymentsAssumption DEF OnlyNear, PaymentsAssumption, Disjoint
<1>3. \A p \in refs : \A q \in near : p \cap q = {}
  BY <1>2
<1> QED
  BY <1>1, <1>2, <1>3 DEF Disjoint

LEMMA SyncStartKeeps ==
  ASSUME PayInv, NEW fetched \in SUBSET Legs, NEW skipped, SyncStart(fetched, skipped)
  PROVE  PayInv' /\ RowsAllowed
<1>1. PICK told \in [fetched -> {"live", "failed", "reversed"}] :
        LET v1   == [l \in Legs |-> IF l \in fetched
                     THEN [leg[l] EXCEPT !.status = told[l]] ELSE leg[l]]
            v2   == Over(Dissolved(v1), v1)
            seen == Waiting(v2, FreeForSync \ skipped)
        IN /\ \A l \in fetched : told[l] \in News(l)
           /\ Broken(v1) \subseteq FreeForSync
           /\ \E refs \in Referenced(seen) :
                LET near  == OnlyNear(seen \ UNION refs)
                    v3    == Over(Paired(v2, refs \cup near), v2)
                    locks == fetched \cup Broken(v1) \cup seen
                IN sync' = [draft |-> [l \in locks |-> v3[l]],
                            todo |-> Orders, order |-> NoOrder, group |-> {}]
  BY DEF SyncStart
<1> DEFINE v1 == [l \in Legs |-> IF l \in fetched
                  THEN [leg[l] EXCEPT !.status = told[l]] ELSE leg[l]]
           v2 == Over(Dissolved(v1), v1)
           seen == Waiting(v2, FreeForSync \ skipped)
           locks == fetched \cup Broken(v1) \cup seen
<1>2. PICK refs \in Referenced(seen) :
        sync' = [draft |-> [l \in locks |->
                              Over(Paired(v2, refs \cup OnlyNear(seen \ UNION refs)), v2)[l]],
                 todo |-> Orders, order |-> NoOrder, group |-> {}]
  BY <1>1
<1> DEFINE pairs == refs \cup OnlyNear(seen \ UNION refs)
           v3 == Over(Paired(v2, pairs), v2)
           draft == [l \in locks |-> v3[l]]
<1>3. /\ \A l \in fetched : told[l] \in News(l)
      /\ Broken(v1) \subseteq FreeForSync /\ fetched \subseteq FreeForSync
      /\ sync' = [draft |-> draft, todo |-> Orders, order |-> NoOrder, group |-> {}]
      /\ left.syncs > 0 /\ left' = [left EXCEPT !.syncs = @ - 1]
      /\ UNCHANGED <<leg, txn, rule, asked, typing>>
  BY <1>1, <1>2 DEF SyncStart
<1>4. \A l \in Legs : leg[l] \in Row /\ RowOK(leg[l])
  BY DEF PayInv, PayTypeOK
<1>5. ASSUME NEW l \in Legs
      PROVE  /\ v1[l] \in Row /\ RowOK(v1[l]) /\ v1[l].pair = leg[l].pair
             /\ v1[l].order = leg[l].order /\ v1[l].by = leg[l].by /\ v1[l].ign = leg[l].ign
             /\ v1[l].noLink = leg[l].noLink /\ v1[l].noRule = leg[l].noRule
             /\ leg[l].status \in {"failed", "reversed"} => v1[l].status = leg[l].status
  <2>1. CASE l \in fetched
    <3>1. v1[l] = [leg[l] EXCEPT !.status = told[l]]
      BY <2>1
    <3>2. leg[l].status \in {"failed", "reversed"} => told[l] = leg[l].status
      BY <1>3, <2>1 DEF News
    <3>3. told[l] \in {"live", "failed", "reversed"}
      BY <2>1
    <3> HIDE DEF v1
    <3> QED
      BY <1>4, <3>1, <3>2, <3>3 DEF Row, RowOK
  <2>2. CASE l \notin fetched
    <3>1. v1[l] = leg[l]
      BY <2>2
    <3> HIDE DEF v1
    <3> QED
      BY <1>4, <3>1
  <2> QED
    BY <2>1, <2>2
<1>6. v1 = [l \in Legs |-> v1[l]] /\ \A l \in Legs \ fetched : v1[l] = leg[l]
  OBVIOUS
<1> HIDE DEF v1
<1>7. v1 \in [Legs -> Row] /\ PairsOK(v1)
  BY <1>5, <1>6, PairsSame DEF PayInv
<1>8. /\ v2 \in [Legs -> Row] /\ PairsOK(v2)
      /\ \A l \in Legs : RowOK(v2[l]) /\ v2[l].status = v1[l].status
      /\ \A l \in Legs \ Broken(v1) : v2[l] = v1[l]
      /\ \A l \in Broken(v1) :
           /\ l \in Legs /\ v1[l].pair # NoPair /\ v2[l].pair = NoPair
           /\ \E k \in v1[l].pair : v1[k].status = "failed"
           /\ Freed(v1[l], v2[l])
           /\ l \in Mercury /\ v1[l].order # NoOrder => v2[l].order = NoOrder /\ v2[l].noLink
  BY <1>5, <1>7, DissolvedFacts
<1> HIDE DEF v2
<1>9. /\ seen \subseteq FreeForSync /\ seen \subseteq Legs
      /\ \A l \in seen : v2[l].pair = NoPair /\ v2[l].status = "live"
  BY DEF Waiting, FreeForSync
<1>10. pairs \in SUBSET Pairs /\ Disjoint(pairs) /\ \A p \in pairs : p \subseteq seen
  <2>1. seen \in SUBSET Legs /\ refs \in Referenced(seen)
    BY <1>9
  <2> HIDE DEF seen
  <2> QED
    BY <2>1, NewPairs
<1> HIDE DEF pairs, seen
<1>11. /\ v3 \in [Legs -> Row] /\ PairsOK(v3) /\ \A l \in Legs : RowOK(v3[l])
       /\ \A l \in Legs :
            \/ v3[l] = v2[l]
            \/ /\ \E p \in pairs : l \in p /\ v3[l].pair = p
               /\ v3[l].status = v2[l].status /\ v3[l].ign = v2[l].ign
               /\ v3[l].noLink = v2[l].noLink /\ v3[l].noRule = v2[l].noRule
  <2>1. \A p \in pairs : \A l \in p : v2[l].pair = NoPair
    BY <1>9, <1>10
  <2> QED
    BY <1>8, <1>10, <2>1, PairedFacts
<1> HIDE DEF v3
<1>12. ASSUME NEW l \in Legs PROVE Comes(l, leg[l], v2[l])
  <2>1. CASE l \in Broken(v1)
    BY <1>4, <1>5, <1>8, <2>1 DEF Comes, Freed, RowOK
  <2>2. CASE l \notin Broken(v1)
    BY <1>4, <1>5, <1>8, <2>2 DEF Comes
  <2> QED
    BY <2>1, <2>2
<1>13. ASSUME NEW l \in Legs PROVE Comes(l, leg[l], v3[l])
  <2>1. CASE v3[l] = v2[l]
    BY <1>12, <2>1
  <2>2. ASSUME NEW p \in pairs, l \in p, v3[l].pair = p,
               v3[l].status = v2[l].status, v3[l].ign = v2[l].ign,
               v3[l].noLink = v2[l].noLink, v3[l].noRule = v2[l].noRule
        PROVE  Comes(l, leg[l], v3[l])
    <3>1. p # NoPair /\ l \in seen
      BY <1>10, <2>2, PairLegs
    <3>2. leg[l].pair # p
      <4> SUFFICES ASSUME leg[l].pair = p PROVE FALSE
        OBVIOUS
      <4>1. v1[l].pair = p /\ v2[l].pair = NoPair
        BY <1>5, <1>9, <3>1
      <4>2. l \in Broken(v1)
        BY <1>8, <3>1, <4>1
      <4>3. PICK k \in p : v1[k].status = "failed"
        BY <1>8, <4>1, <4>2
      <4>4. v2[k].status = "live" /\ k \in Legs
        BY <1>9, <1>10, <4>3
      <4> QED
        BY <1>8, <4>3, <4>4
    <3> QED
      BY <1>12, <2>2, <3>1, <3>2 DEF Comes
  <2> QED
    BY <1>11, <2>1, <2>2
<1>14. ASSUME NEW l \in Legs \ locks PROVE v3[l] = leg[l]
  <2>1. l \notin fetched /\ l \notin Broken(v1) /\ l \notin seen
    OBVIOUS
  <2>2. v2[l] = leg[l]
    BY <1>6, <1>8, <2>1
  <2>3. v3[l] = v2[l]
    BY <1>10, <1>11, <2>1
  <2> QED
    BY <2>2, <2>3
<1>15. locks \subseteq FreeForSync /\ locks \subseteq Legs
  BY <1>3, <1>8, <1>9
<1>16. DOMAIN draft = locks /\ (\A l \in locks : draft[l] = v3[l]) /\ IsDraft(draft)
  <2>1. draft = [l \in locks |-> v3[l]] /\ \A l \in locks : v3[l] \in Row
    BY <1>11, <1>15
  <2> HIDE DEF draft, locks
  <2> QED
    BY <1>15, <2>1 DEF IsDraft
<1> HIDE DEF draft, locks
<1>17. SyncView' = v3
  <2>1. SyncView' = Over(draft, leg)
    BY <1>3 DEF SyncView
  <2>2. \A l \in Legs : Over(draft, leg)[l] = v3[l]
    BY <1>14, <1>16, OverRow
  <2>3. Over(draft, leg) = [l \in Legs |-> Over(draft, leg)[l]] /\ v3 = [l \in Legs |-> v3[l]]
    BY <1>11, OverRow
  <2> QED
    BY <2>1, <2>2, <2>3
<1>18. SyncOK'
  <2>1. DOMAIN sync'.draft = locks /\ \A l \in locks : sync'.draft[l] = v3[l]
    BY <1>3, <1>16
  <2>2. locks \cap TypingLocks' = {}
    BY <1>3, <1>15 DEF FreeForSync, TypingLocks
  <2>3. \A l \in locks : RowOK(v3[l]) /\ Comes(l, leg'[l], v3[l])
    BY <1>3, <1>11, <1>13, <1>15
  <2> QED
    BY <1>11, <1>17, <2>1, <2>2, <2>3 DEF SyncOK
<1>19. PayTypeOK'
  <2>1. left' \in [calls : Nat, typed : Nat, rules : Nat, syncs : Nat]
    BY <1>3 DEF PayInv, PayTypeOK
  <2>2. /\ sync' \in [draft : {sync'.draft}, todo : SUBSET Orders,
                      order : Orders \cup {NoOrder}, group : SUBSET Legs]
        /\ IsDraft(sync'.draft)
    BY <1>3, <1>16
  <2> QED
    BY <1>3, <2>1, <2>2 DEF PayInv, PayTypeOK
<1>20. TypingOK' /\ AskedOK' /\ RowsAllowed
  BY <1>3, SameRowsAllowed DEF PayInv, TypingOK, AskedOK
<1> QED
  BY <1>3, <1>18, <1>19, <1>20 DEF PayInv
LEMMA SyncReadsKeeps ==
  ASSUME PayInv, NEW o \in Orders, SyncReads(o)
  PROVE  PayInv' /\ RowsAllowed
<1>1. /\ sync # NoTx /\ Claims(o) \subseteq Legs
      /\ sync' = [sync EXCEPT !.todo = @ \ {o}, !.order = o, !.group = Claims(o)]
      /\ UNCHANGED <<leg, txn, rule, asked, typing, left>>
  BY DEF SyncReads, Claims, Claimable
<1>2. /\ sync \in [draft : {sync.draft}, todo : SUBSET Orders,
                   order : Orders \cup {NoOrder}, group : SUBSET Legs]
      /\ IsDraft(sync.draft)
  BY <1>1 DEF PayInv, PayTypeOK
<1>3. /\ sync'.draft = sync.draft
      /\ sync' \in [draft : {sync.draft}, todo : SUBSET Orders,
                    order : Orders \cup {NoOrder}, group : SUBSET Legs]
  BY <1>1, <1>2
<1>4. PayTypeOK'
  BY <1>1, <1>2, <1>3 DEF PayInv, PayTypeOK
<1>5. SyncOK'
  BY <1>1, <1>3 DEF PayInv, SyncOK, SyncView, TypingLocks
<1>6. TypingOK' /\ AskedOK' /\ RowsAllowed
  BY <1>1, SameRowsAllowed DEF PayInv, TypingOK, AskedOK
<1> QED
  BY <1>1, <1>4, <1>5, <1>6 DEF PayInv

(* A sync links what it read, if the row still asks for it.                   *)
LEMMA SyncLinksKeeps ==
  ASSUME PayInv, SyncLinks
  PROVE  PayInv' /\ RowsAllowed
<1> DEFINE new == Claim(SyncView, sync.group, sync.order, "auto")
           D == DOMAIN sync.draft
           locks == D \cup DOMAIN new
           draft == [l \in locks |-> Over(new, SyncView)[l]]
<1>1. /\ sync # NoTx /\ sync.group \subseteq FreeForSync
      /\ sync' = [sync EXCEPT !.group = {}, !.order = NoOrder, !.draft = draft]
      /\ UNCHANGED <<leg, txn, rule, asked, typing, left>>
  BY DEF SyncLinks
<1>2. /\ sync \in [draft : {sync.draft}, todo : SUBSET Orders,
                   order : Orders \cup {NoOrder}, group : SUBSET Legs]
      /\ D \subseteq Legs /\ \A l \in D : sync.draft[l] \in Row
  BY <1>1 DEF PayInv, PayTypeOK, IsDraft
<1>3. /\ PairsOK(SyncView) /\ D \cap TypingLocks = {}
      /\ \A l \in D : RowOK(sync.draft[l]) /\ Comes(l, leg[l], sync.draft[l])
      /\ \A l \in Legs : leg[l] \in Row /\ RowOK(leg[l])
  BY <1>1 DEF PayInv, PayTypeOK, SyncOK
<1>4. \A l \in Legs : SyncView[l] = IF l \in D THEN sync.draft[l] ELSE leg[l]
  BY OverRow DEF SyncView
<1>5. ASSUME NEW l \in Legs
      PROVE  SyncView[l] \in Row /\ RowOK(SyncView[l]) /\ Comes(l, leg[l], SyncView[l])
  <2>1. CASE l \in D
    BY <1>2, <1>3, <1>4, <2>1
  <2>2. CASE l \notin D
    BY <1>3, <1>4, <2>2 DEF Comes
  <2> QED
    BY <2>1, <2>2
<1>6. /\ DOMAIN new = {l \in sync.group : Unclaimed(SyncView[l])}
      /\ \A l \in DOMAIN new : new[l] = SetLink(SyncView[l], sync.order, "auto")
  BY DEF Claim
<1>7. sync.group \subseteq Legs /\ sync.order \in Orders \cup {NoOrder}
  BY <1>2
<1> HIDE DEF new
<1>8. ASSUME NEW l \in DOMAIN new
      PROVE  /\ new[l] \in Row /\ RowOK(new[l]) /\ new[l].pair = SyncView[l].pair
             /\ Comes(l, leg[l], new[l])
  <2>1. /\ SyncView[l] \in Row /\ RowOK(SyncView[l]) /\ Comes(l, leg[l], SyncView[l])
        /\ Unclaimed(SyncView[l]) /\ new[l] = SetLink(SyncView[l], sync.order, "auto")
        /\ leg[l] \in Row
    BY <1>3, <1>5, <1>6, <1>7
  <2>2. /\ new[l] \in Row /\ RowOK(new[l]) /\ new[l].pair = SyncView[l].pair
        /\ new[l].status = SyncView[l].status /\ new[l].ign = SyncView[l].ign
        /\ new[l].noRule = SyncView[l].noRule /\ new[l].noLink = SyncView[l].noLink
        /\ SyncView[l].noLink = FALSE /\ SyncView[l].by # "manager"
    BY <1>7, <2>1 DEF SetLink, Unclaimed, Row, RowOK
  <2>3. leg[l].noLink = FALSE
    BY <2>1, <2>2 DEF Comes, Row
  <2> QED
    BY <2>1, <2>2, <2>3 DEF Comes
<1>9. locks \subseteq Legs
  BY <1>2, <1>6, <1>7
<1>10. \A l \in Legs : Over(new, SyncView)[l] = IF l \in DOMAIN new THEN new[l] ELSE SyncView[l]
  BY OverRow
<1>11. /\ DOMAIN draft = locks
       /\ \A l \in locks : draft[l] = IF l \in DOMAIN new THEN new[l] ELSE SyncView[l]
       /\ draft = [l \in locks |-> draft[l]]
  BY <1>9, <1>10
<1> HIDE DEF draft, locks
<1>12. \A l \in locks : draft[l] \in Row /\ RowOK(draft[l]) /\ Comes(l, leg[l], draft[l])
  BY <1>5, <1>8, <1>9, <1>11
<1>13. /\ sync'.draft = draft /\ sync' \in [draft : {draft}, todo : SUBSET Orders,
                                            order : Orders \cup {NoOrder}, group : SUBSET Legs]
  BY <1>1, <1>2
<1>14. PairsOK(SyncView')
  <2>1. SyncView' = Over(draft, leg)
    BY <1>1, <1>13 DEF SyncView
  <2>2. \A l \in Legs : SyncView'[l] = IF l \in locks THEN draft[l] ELSE leg[l]
    BY <1>11, <2>1, OverRow
  <2>3. \A l \in Legs \ locks : l \notin D
    BY DEF locks
  <2>4. \A l \in Legs : SyncView'[l].pair = SyncView[l].pair
    BY <1>4, <1>8, <1>11, <2>2, <2>3
  <2> QED
    BY <1>3, <2>4, PairsSame
<1>15. locks \cap TypingLocks = {}
  BY <1>1, <1>3, <1>6 DEF locks, FreeForSync
<1>16. SyncOK'
  <2>1. TypingLocks' = TypingLocks /\ leg' = leg
    BY <1>1 DEF TypingLocks
  <2> QED
    BY <1>11, <1>12, <1>13, <1>14, <1>15, <2>1 DEF SyncOK
<1>17. PayTypeOK'
  <2>1. IsDraft(draft)
    BY <1>9, <1>11, <1>12 DEF IsDraft
  <2> QED
    BY <1>1, <1>13, <2>1 DEF PayInv, PayTypeOK
<1>18. TypingOK' /\ AskedOK' /\ RowsAllowed
  BY <1>1, SameRowsAllowed DEF PayInv, TypingOK, AskedOK
<1> QED
  BY <1>1, <1>16, <1>17, <1>18 DEF PayInv
LEMMA SyncCommitsKeeps ==
  ASSUME PayInv, SyncCommits
  PROVE  PayInv' /\ RowsAllowed
<1> DEFINE v == Applied(SyncView, rule)
           D == DOMAIN sync.draft
<1>1. /\ sync # NoTx /\ {l \in Legs : v[l] # SyncView[l]} \subseteq FreeForSync
      /\ leg' = v /\ sync' = NoTx /\ UNCHANGED <<txn, rule, asked, typing, left>>
  BY DEF SyncCommits
<1>2. /\ PairsOK(SyncView) /\ D \cap TypingLocks = {} /\ D \subseteq Legs
      /\ \A l \in D : sync.draft[l] \in Row /\ RowOK(sync.draft[l]) /\ Comes(l, leg[l], sync.draft[l])
      /\ \A l \in Legs : leg[l] \in Row /\ RowOK(leg[l])
  BY <1>1 DEF PayInv, PayTypeOK, SyncOK, IsDraft
<1>3. /\ \A l \in Legs : SyncView[l] = IF l \in D THEN sync.draft[l] ELSE leg[l]
      /\ SyncView = [l \in Legs |-> SyncView[l]]
  BY OverRow DEF SyncView
<1>4. ASSUME NEW l \in Legs
      PROVE  SyncView[l] \in Row /\ RowOK(SyncView[l]) /\ Comes(l, leg[l], SyncView[l])
  <2>1. CASE l \in D
    BY <1>2, <1>3, <2>1
  <2>2. CASE l \notin D
    BY <1>2, <1>3, <2>2 DEF Comes
  <2> QED
    BY <2>1, <2>2
<1>5. SyncView \in [Legs -> Row]
  BY <1>3, <1>4
<1>6. v = [l \in Legs |-> v[l]] /\ \A l \in Legs : ByRuleOnly(SyncView[l], v[l])
  BY <1>5, AppliedFacts
<1> HIDE DEF v
<1>7. ASSUME NEW l \in Legs
      PROVE  v[l] \in Row /\ RowOK(v[l]) /\ v[l].pair = SyncView[l].pair /\ Allowed(l, leg[l], v[l])
  <2>1. SyncView[l] \in Row /\ RowOK(SyncView[l]) /\ Comes(l, leg[l], SyncView[l])
    BY <1>4
  <2>2. ByRuleOnly(SyncView[l], v[l])
    BY <1>6
  <2>3. /\ v[l] \in Row /\ RowOK(v[l]) /\ v[l].pair = SyncView[l].pair
        /\ v[l].order = SyncView[l].order /\ v[l].by = SyncView[l].by
        /\ v[l].status = SyncView[l].status
        /\ SyncView[l].noRule => v[l].ign = SyncView[l].ign
    BY <2>1, <2>2, ByRuleRow
  <2> QED
    BY <2>1, <2>3 DEF Comes, Allowed
<1>8. /\ leg' \in [Legs -> Row] /\ RowsAllowed /\ PairsOK(leg')
      /\ \A l \in Legs : RowOK(leg'[l])
  <2>1. leg' \in [Legs -> Row] /\ RowsAllowed /\ \A l \in Legs : RowOK(leg'[l])
    BY <1>1, <1>6, <1>7 DEF RowsAllowed
  <2>2. PairsOK(leg')
    BY <1>1, <1>2, <1>7, PairsSame
  <2> QED
    BY <2>1, <2>2
<1>9. TypingOK'
  <2>1. TypingLocks \subseteq Legs
    BY DEF PayInv, PayTypeOK, IsDraft, TypingLocks
  <2>2. \A l \in TypingLocks : l \notin D /\ l \notin FreeForSync
    BY <1>2 DEF FreeForSync
  <2>3. \A l \in TypingLocks : leg'[l] = leg[l]
    BY <1>1, <1>3, <2>1, <2>2
  <2> QED
    BY <1>1, <2>3, TypingStands
<1>10. PayTypeOK' /\ AskedOK' /\ SyncOK'
  BY <1>1, <1>8 DEF PayInv, PayTypeOK, AskedOK, SyncOK
<1> QED
  BY <1>8, <1>9, <1>10 DEF PayInv

LEMMA SyncFailsKeeps ==
  ASSUME PayInv, SyncFails
  PROVE  PayInv' /\ RowsAllowed
  BY SameRowsAllowed DEF SyncFails, PayInv, PayTypeOK, AskedOK, TypingOK, SyncOK

----------------------------------------------------------------------------
LEMMA PayInitInv == PayInit => PayInv
<1> SUFFICES ASSUME PayInit PROVE PayInv
  OBVIOUS
<1>1. Fresh \in Row /\ RowOK(Fresh) /\ Fresh.pair = NoPair
  BY DEF Fresh, Row, RowOK
<1>2. \A l \in Legs : leg[l] = Fresh
  BY DEF PayInit
<1>3. PayTypeOK
  BY <1>1 DEF PayInit, PayTypeOK
<1> QED
  BY <1>1, <1>2, <1>3 DEF PayInv, PayInit, PairsOK, PairRow, AskedOK, TypingOK, SyncOK

LEMMA PayStepKeeps == PayInv /\ [PayNext]_pvars => PayInv' /\ RowsAllowed
<1> SUFFICES ASSUME PayInv, [PayNext]_pvars PROVE PayInv' /\ RowsAllowed
  OBVIOUS
<1>1. ASSUME NEW m \in Managers, \/ \E call \in Calls : Ask(m, call)
                                 \/ Widen(m) \/ Judge(m) \/ GiveUp(m)
      PROVE  PayInv' /\ RowsAllowed
  BY <1>1, AskKeeps, WidenKeeps, GiveUpKeeps, LinkKeeps, UnlinkKeeps, PairKeeps, UnpairKeeps,
     IgnoreKeeps, UnignoreKeeps DEF Judge
<1>2. ASSUME NEW o \in Orders, NEW i \in Ids \cup {NoId}, TypeId(o, i)
      PROVE  PayInv' /\ RowsAllowed
  BY <1>2, TypeIdKeeps
<1>3. CASE TypedCommits \/ TypedFails
  BY <1>3, TypedCommitsKeeps, TypedFailsKeeps
<1>4. ASSUME NEW r \in Patterns \cup {NoRule}, EditRule(r)
      PROVE  PayInv' /\ RowsAllowed
  BY <1>4, EditRuleKeeps
<1>5. ASSUME NEW fetched \in SUBSET Legs, NEW skipped, SyncStart(fetched, skipped)
      PROVE  PayInv' /\ RowsAllowed
  BY <1>5, SyncStartKeeps
<1>6. ASSUME NEW o \in Orders, SyncReads(o)
      PROVE  PayInv' /\ RowsAllowed
  BY <1>6, SyncReadsKeeps
<1>7. CASE SyncLinks \/ SyncCommits \/ SyncFails
  BY <1>7, SyncLinksKeeps, SyncCommitsKeeps, SyncFailsKeeps
<1>8. CASE UNCHANGED pvars
  BY <1>8, SameRowsAllowed DEF pvars, PayInv, PayTypeOK, AskedOK, TypingOK, TypingLocks, SyncOK, SyncView
<1> QED
  BY <1>1, <1>2, <1>3, <1>4, <1>5, <1>6, <1>7, <1>8 DEF PayNext

(* Legs, requests and drafts keep their types.                                *)
THEOREM PaymentTypes == PaySpec => []PayTypeOK
<1>1. PayInv => PayTypeOK
  BY DEF PayInv
<1> QED
  BY PayInitInv, PayStepKeeps, <1>1, PTL DEF PaySpec

(* No leg is ever alone under a pair id, whoever pairs, ungroups or syncs.    *)
THEOREM PairsStayWhole == PaySpec => []PairsWhole
<1>1. PayInv => PairsWhole
  BY DEF PayInv, PairsOK, PairRow, PairsWhole
<1> QED
  BY PayInitInv, PayStepKeeps, <1>1, PTL DEF PaySpec

(* No leg is linked and ignored.                                              *)
THEOREM LinkMeetsNoIgnore == PaySpec => []NeverLinkedAndIgnored
<1>1. PayInv => NeverLinkedAndIgnored
  BY DEF PayInv, RowOK, NeverLinkedAndIgnored, Linked, Ignored
<1> QED
  BY PayInitInv, PayStepKeeps, <1>1, PTL DEF PaySpec

(* A leg of a pair that is broken up counts for its order after, only if it   *)
(* did before.                                                                *)
LEMMA UngroupedCounts ==
  ASSUME PayInv, RowsAllowed, NEW a \in Legs, NEW b \in Legs, NEW o \in Orders,
         leg[a].pair # NoPair, leg'[a].pair = NoPair, leg'[b].pair = NoPair, leg[b].pair # NoPair,
         leg[a].order = o, leg[b].order = o
  PROVE  Cardinality(Counted(leg', o, {a, b})) <= Cardinality(Counted(leg, o, {a, b}))
<1>1. ASSUME NEW l \in {a, b}, l \in Counted(leg', o, {a, b})
      PROVE  l \in Counted(leg, o, {a, b})
  <2>1. /\ leg[l].pair # NoPair /\ leg'[l].pair = NoPair /\ leg[l].order = o /\ o # NoOrder
        /\ l \in Legs
    BY PaymentsAssumption DEF PaymentsAssumption
  <2>2. leg'[l].order = o /\ leg'[l].status \notin {"failed", "reversed"}
    BY <1>1 DEF Counted, Dead
  <2>3. l \notin Mercury /\ leg[l].status \notin {"failed", "reversed"}
    BY <2>1, <2>2 DEF RowsAllowed, Allowed
  <2>4. leg[l].ign = "no"
    BY <2>1 DEF PayInv, RowOK
  <2> QED
    BY <2>1, <2>3, <2>4 DEF Counted, Ignored, Dead, Legs
<1>2. Counted(leg', o, {a, b}) \subseteq Counted(leg, o, {a, b})
  BY <1>1 DEF Counted
<1>3. IsFiniteSet(Counted(leg, o, {a, b}))
  <2>1. IsFiniteSet({a, b})
    <3>1. IsFiniteSet({a}) /\ {a, b} = {a} \cup {b}
      BY FS_Singleton
    <3> QED
      BY <3>1, FS_AddElement
  <2> QED
    BY <2>1, FS_Subset DEF Counted
<1> QED
  BY <1>2, <1>3, FS_Subset

(* Breaking up a linked pair never makes its legs count for more.             *)
THEOREM UngroupedCountsNoMore == PaySpec => UngroupingKeepsPaid
<1>1. PayInv /\ [PayNext]_pvars =>
        [\A a, b \in Legs :
           /\ leg[a].pair # NoPair /\ leg[a].pair = leg[b].pair
           /\ leg'[a].pair = NoPair /\ leg'[b].pair = NoPair
           => \A o \in Orders : leg[a].order = o /\ leg[b].order = o =>
                Cardinality(Counted(leg', o, {a, b}))
                  <= Cardinality(Counted(leg, o, {a, b}))]_pvars
  BY PayStepKeeps, UngroupedCounts
<1> QED
  BY PayInitInv, PayStepKeeps, <1>1, PTL DEF PaySpec, UngroupingKeepsPaid

(* What a manager decided about a leg stands against everything automatic.    *)
THEOREM ManagersVerdictsStand == PaySpec => VerdictsStand
<1>1. PayInv /\ [PayNext]_pvars =>
        [\A l \in Legs :
           /\ leg[l].noLink /\ ~Linked(leg, l) /\ Linked(leg', l)
                => leg'[l].by = "manager" \/ leg'[l].pair # leg[l].pair
           /\ leg[l].noRule => ~(leg[l].ign = "no" /\ leg'[l].ign = "rule")
           /\ leg[l].by = "manager" /\ leg'[l].by # "manager"
                => leg'[l].order = NoOrder \/ leg'[l].pair # leg[l].pair]_pvars
  BY PayStepKeeps DEF RowsAllowed, Allowed, Linked
<1> QED
  BY PayInitInv, PayStepKeeps, <1>1, PTL DEF PaySpec, VerdictsStand
=============================================================================
