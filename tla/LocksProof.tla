----------------------------- MODULE LocksProof -----------------------------
(***************************************************************************)
(* What the locks of the stock writers are good for, for any requests,     *)
(* books and number of transactions served at a time.                      *)
(*                                                                         *)
(* Statements with an ORDER BY ask for rows in one order: transfers, then  *)
(* purchase orders, sell orders and lines, each by id.  A transaction at   *)
(* such a statement holds only rows before those it waits for.             *)
(*                                                                         *)
(* What a transaction has judged stands on rows it holds (Knows), and what *)
(* another one commits touches no row it does not hold (Frame, Spares): so *)
(* it still stands at the commit, which is then one entry of the ledger.   *)
(***************************************************************************)
EXTENDS WriterLocks, TotalsProof, SequenceTheorems, WellFoundedInduction

(* Where a row, and the rows of a statement, come in that order.              *)
RowLevel(row) ==
  CASE row[1] = "transfer_orders" -> 0 [] row[1] = "orders" -> 1
    [] row[1] = "sell_orders" -> 2 [] OTHER -> 3
Level(stmt) ==
  CASE stmt = "transfer" -> 0 [] stmt \in {"order", "sources"} -> 1
    [] stmt \in {"header", "sellers"} -> 2 [] OTHER -> 3
Rows == {"transfer_orders", "orders", "sell_orders", "order_lines"} \X Nat
RowsAt(n) == {row \in Rows : RowLevel(row) = n}
Before(a, b) == RowLevel(a) < RowLevel(b) \/ (RowLevel(a) = RowLevel(b) /\ a[2] < b[2])

(* The statements of a request, and the one each is followed by.              *)
Statements ==
  {"order", "header", "transfer", "line", "lines", "moved", "peers", "sources", "sellers",
   "stripped", "asked", "taken", "back", "rest", "write"}
Own(r) ==
  CASE r.op \in {"promote", "rewrite"} -> {"header", "asked", "write"}
    [] r.op = "done" -> {"sources", "header", "asked", "taken"}
    [] r.op = "unsell" -> {"sources", "header", "back", "write"}
    [] r.op = "archive" -> {"order", "sellers", "lines", "stripped", "rest"}
    [] r.op = "cascade" -> {"order", "lines", "rest"}
    [] r.op = "recount" -> {"order", "line", "write"}
    [] r.op \in {"move", "split"} -> {"line", "write"}
    [] r.op \in {"receive", "reopen"} -> {"transfer", "moved", "write"}
    [] OTHER -> {"transfer", "moved", "peers"}
After(r, stmt) ==
  CASE stmt = "sources" -> "header"
    [] stmt = "header" -> IF r.op = "unsell" THEN "back" ELSE "asked"
    [] stmt = "asked" -> IF r.op = "done" THEN "taken" ELSE "write"
    [] stmt = "order" -> IF r.op = "archive" THEN "sellers" ELSE IF r.op = "cascade" THEN "lines" ELSE "line"
    [] stmt = "sellers" -> "lines"
    [] stmt = "lines" -> IF r.op = "archive" THEN "stripped" ELSE "rest"
    [] stmt = "stripped" -> "rest"
    [] stmt = "transfer" -> "moved"
    [] stmt = "moved" -> IF r.op = "discard" THEN "peers" ELSE "write"
    [] stmt \in {"line", "back"} -> "write"
    [] OTHER -> "end"
Final(r) ==
  CASE r.op = "done" -> "taken" [] r.op \in {"archive", "cascade"} -> "rest"
    [] r.op = "discard" -> "peers" [] OTHER -> "write"
Loose == Unordered \cup {"write"}
Rises(a, b) == b \in Loose \/ (a \notin Loose /\ Level(a) < Level(b))
Remains(r, p) ==
  /\ p \in Seq(Statements) /\ p # <<>> /\ p[Len(p)] = Final(r)
  /\ \A i \in 1 .. Len(p) : p[i] \in Own(r)
  /\ \A i, j \in 1 .. Len(p) : i < j => Rises(p[i], p[j])
  /\ \A i \in 1 .. Len(p) - 1 : p[i + 1] = After(r, p[i])

At(x) == Head(left[x])
InOrder(x) ==
  LET n == Level(At(x)) IN
  At(x) \notin Loose =>
    /\ want[x] \in Seq(RowsAt(n))
    /\ \A i, j \in 1 .. Len(want[x]) : i < j => want[x][i][2] < want[x][j][2]
    /\ \A row \in locks[x] :
         RowLevel(row) \in 0 .. n /\ \A i \in 1 .. Len(want[x]) : Before(row, want[x][i])

(* What a transaction holds, or is about to.                                  *)
Reach(x) == locks[x] \cup {want[x][i] : i \in 1 .. Len(want[x])}

(* From its header statement on a sell order's writer holds the header, and a *)
(* sale the orders of the lots it names.                                      *)
ToHeader(x) == \E i \in 1 .. Len(left[x]) : left[x][i] = "header"
HeaderStill(r) ==
  CASE r.op = "promote" -> db.soStatus[r.so] = "Draft"
    [] r.op = "unsell"  -> db.soStatus[r.so] = "Done"
    [] OTHER            -> db.soStatus[r.so] \in Open
HeaderOK(x) ==
  LET r == req[x] IN
  r.op \in SellAsks =>
    /\ At(x) = "header" => SO(r.so) \in Reach(x)
    /\ ~ToHeader(x) => SO(r.so) \in locks[x] /\ HeaderStill(r)
    /\ ~ToHeader(x) /\ r.op \in {"done", "unsell"} => SourcesHeld(x, r.so)

(* The lines a statement asked for are held once it has passed, and what it   *)
(* checked of them stands.                                                    *)
AskedOK(x) ==
  LET r == req[x] IN
  r.op \in {"promote", "rewrite", "done"} =>
    /\ r.op = "rewrite" => \A l \in Lots : r.want[l] > 0 => db.status[l] # "none"
    /\ At(x) = "asked" => \A l \in AskedLots(r) : Line(l) \in Reach(x)
    /\ At(x) \in {"write", "taken"} =>
         /\ \A l \in AskedLots(r) : Line(l) \in locks[x]
         /\ Proposed(r) => Validates(r)
NamedOK(x) ==
  LET r == req[x] IN
  r.op \in {"done", "unsell"} =>
    /\ At(x) \in {"taken", "back"} => \A l \in Named(r.so) : Line(l) \in Reach(x)
    /\ At(x) = "write" => \A l \in Named(r.so) : Line(l) \in locks[x] /\ db.status[l] \in {"Done", "Sold"}
LinesOK(x) ==
  LET r == req[x] IN
  r.op \in {"recount", "move", "split"} =>
    /\ \A l \in r.lots : db.status[l] # "none"
    /\ At(x) = "line" => \A l \in r.lots : Exists(l) => Line(l) \in Reach(x)
    /\ At(x) = "write" => LineAllows(r) /\ \A l \in r.lots : Line(l) \in locks[x]
MovedOK(x) ==
  LET r == req[x] IN
  r.op \in {"receive", "reopen", "discard"} =>
    /\ db.toStatus[r.to] # "none"
    /\ At(x) = "moved" => \A l \in LinesOn(r.to) : Line(l) \in Reach(x)
    /\ At(x) \in {"write", "peers"} => MovedAllow(r) /\ \A l \in LinesOn(r.to) : Line(l) \in locks[x]
NewOK(x) ==
  LET r == req[x] IN
  /\ Moves(r) => db.toStatus[r.to] = "none"
  /\ Splits(r) => db.status[r.clone] = "none"

Knows(x) ==
  HeaderOK(x) /\ AskedOK(x) /\ NamedOK(x) /\ LinesOK(x) /\ MovedOK(x) /\ NewOK(x)

TxOK(x) ==
  IF req[x] = NULL THEN left[x] = <<>> /\ want[x] = <<>> /\ locks[x] = {}
  ELSE /\ req[x] \in Requests /\ Remains(req[x], left[x]) /\ want[x] \in Seq(Rows) /\ InOrder(x)
       /\ At(x) = "write" => want[x] = <<>>
       /\ Knows(x)

(* New rows are one transaction's each.                                       *)
OwnNew(x, y) ==
  req[x] # NULL /\ req[y] # NULL =>
    /\ Moves(req[x]) /\ Moves(req[y]) => req[x].to # req[y].to
    /\ Splits(req[x]) /\ Splits(req[y]) => req[x].clone # req[y].clone

LocksInv ==
  /\ Consistent(db)
  /\ DOMAIN req = Txs /\ DOMAIN left = Txs /\ DOMAIN want = Txs /\ DOMAIN locks = Txs
  /\ \A x, y \in Txs : x # y => locks[x] \cap locks[y] = {} /\ OwnNew(x, y)
  /\ \A x \in Txs : TxOK(x)

(* No lot is split while its purchase order is being archived or moved along: *)
(* then these hold all the lines they go on to write, and see every claim.    *)
SplitsApart ==
  \A x, y \in Txs :
    req[x] # NULL /\ req[y] # NULL /\ Splits(req[x]) /\ req[y].op \in {"archive", "cascade"} =>
      PoOf[req[x].clone] # req[y].po
StageOK(x) ==
  LET r == req[x] IN
  r.op \in {"archive", "cascade"} =>
    /\ At(x) = "lines" => \A l \in LinesOf(r.po) : Line(l) \in Reach(x)
    /\ At(x) \in {"stripped", "rest"} => \A l \in LinesOf(r.po) : Line(l) \in locks[x]
    /\ At(x) = "rest" /\ r.op = "cascade" /\ r.stage = "Draft" =>
         \A l \in LinesOf(r.po) : db.status[l] = "Done" => ~NamedBy(l, Committed)
    /\ At(x) \in {"stripped", "rest"} /\ r.op = "archive" =>
         \A l \in LinesOf(r.po), s \in SOs :
           db.status[l] # "Sold" /\ db.soStatus[s] \in Committed /\ db.sol[s][l] > 0 =>
             SO(s) \in IF At(x) = "rest" THEN locks[x] ELSE Reach(x)
LedgerInv == Covered(db) /\ \A x \in Txs : req[x] # NULL => StageOK(x)
----------------------------------------------------------------------------
(* Plans.                                                                     *)
LEMMA NotEmpty ==
  ASSUME NEW S, NEW p \in Seq(S), Len(p) # 0
  PROVE  p # <<>>
  BY EmptySeq

LEMMA TwoLeft ==
  ASSUME NEW r, NEW p \in Seq(Statements), Len(p) = 2, p[2] = Final(r),
         p[1] \in Own(r), p[2] \in Own(r),
         p[2] = After(r, p[1]),
         Rises(p[1], p[2])
  PROVE  Remains(r, p)
<1>1. \A i \in 1 .. 2 : i = 1 \/ i = 2
  OBVIOUS
<1>2. p # <<>>
  <2>1. p \in Seq(Statements) /\ Len(p) # 0
    OBVIOUS
  <2> QED
    BY <2>1, NotEmpty, Zenon
<1>3. \A i \in 1 .. Len(p) : p[i] \in Own(r)
  BY <1>1
<1>4. ASSUME NEW i \in 1 .. Len(p), NEW j \in 1 .. Len(p), i < j
      PROVE  Rises(p[i], p[j])
  <2>1. (i = 1 /\ j = 2)
    BY <1>1, <1>4
  <2> QED
    BY <2>1
<1>5. ASSUME NEW i \in 1 .. Len(p) - 1
      PROVE  p[i + 1] = After(r, p[i])
  <2>1. i = 1
    BY <1>1
  <2> QED
    BY <2>1
<1> QED
  BY <1>2, <1>3, <1>4, <1>5 DEF Remains

LEMMA ThreeLeft ==
  ASSUME NEW r, NEW p \in Seq(Statements), Len(p) = 3, p[3] = Final(r),
         p[1] \in Own(r), p[2] \in Own(r), p[3] \in Own(r),
         p[2] = After(r, p[1]), p[3] = After(r, p[2]),
         Rises(p[1], p[2]), Rises(p[1], p[3]), Rises(p[2], p[3])
  PROVE  Remains(r, p)
<1>1. \A i \in 1 .. 3 : i = 1 \/ i = 2 \/ i = 3
  OBVIOUS
<1>2. p # <<>>
  <2>1. p \in Seq(Statements) /\ Len(p) # 0
    OBVIOUS
  <2> QED
    BY <2>1, NotEmpty, Zenon
<1>3. \A i \in 1 .. Len(p) : p[i] \in Own(r)
  BY <1>1
<1>4. ASSUME NEW i \in 1 .. Len(p), NEW j \in 1 .. Len(p), i < j
      PROVE  Rises(p[i], p[j])
  <2>1. (i = 1 /\ j = 2) \/ (i = 1 /\ j = 3) \/ (i = 2 /\ j = 3)
    BY <1>1, <1>4
  <2> QED
    BY <2>1
<1>5. ASSUME NEW i \in 1 .. Len(p) - 1
      PROVE  p[i + 1] = After(r, p[i])
  <2>1. i = 1 \/ i = 2
    BY <1>1
  <2> QED
    BY <2>1
<1> QED
  BY <1>2, <1>3, <1>4, <1>5 DEF Remains

LEMMA FourLeft ==
  ASSUME NEW r, NEW p \in Seq(Statements), Len(p) = 4, p[4] = Final(r),
         p[1] \in Own(r), p[2] \in Own(r), p[3] \in Own(r), p[4] \in Own(r),
         p[2] = After(r, p[1]), p[3] = After(r, p[2]), p[4] = After(r, p[3]),
         Rises(p[1], p[2]), Rises(p[1], p[3]), Rises(p[1], p[4]), Rises(p[2], p[3]),
         Rises(p[2], p[4]), Rises(p[3], p[4])
  PROVE  Remains(r, p)
<1>1. \A i \in 1 .. 4 : i = 1 \/ i = 2 \/ i = 3 \/ i = 4
  OBVIOUS
<1>2. p # <<>>
  <2>1. p \in Seq(Statements) /\ Len(p) # 0
    OBVIOUS
  <2> QED
    BY <2>1, NotEmpty, Zenon
<1>3. \A i \in 1 .. Len(p) : p[i] \in Own(r)
  BY <1>1
<1>4. ASSUME NEW i \in 1 .. Len(p), NEW j \in 1 .. Len(p), i < j
      PROVE  Rises(p[i], p[j])
  <2>1. \/ (i = 1 /\ j = 2) \/ (i = 1 /\ j = 3) \/ (i = 1 /\ j = 4)
        \/ (i = 2 /\ j = 3) \/ (i = 2 /\ j = 4)
        \/ (i = 3 /\ j = 4)
    BY <1>1, <1>4
  <2> QED
    BY <2>1
<1>5. ASSUME NEW i \in 1 .. Len(p) - 1
      PROVE  p[i + 1] = After(r, p[i])
  <2>1. i = 1 \/ i = 2 \/ i = 3
    BY <1>1
  <2> QED
    BY <2>1
<1> QED
  BY <1>2, <1>3, <1>4, <1>5 DEF Remains

LEMMA FiveLeft ==
  ASSUME NEW r, NEW p \in Seq(Statements), Len(p) = 5, p[5] = Final(r),
         p[1] \in Own(r), p[2] \in Own(r), p[3] \in Own(r), p[4] \in Own(r), p[5] \in Own(r),
         p[2] = After(r, p[1]), p[3] = After(r, p[2]), p[4] = After(r, p[3]),
         p[5] = After(r, p[4]),
         Rises(p[1], p[2]), Rises(p[1], p[3]), Rises(p[1], p[4]), Rises(p[1], p[5]),
         Rises(p[2], p[3]), Rises(p[2], p[4]), Rises(p[2], p[5]), Rises(p[3], p[4]),
         Rises(p[3], p[5]), Rises(p[4], p[5])
  PROVE  Remains(r, p)
<1>1. \A i \in 1 .. 5 : i = 1 \/ i = 2 \/ i = 3 \/ i = 4 \/ i = 5
  OBVIOUS
<1>2. p # <<>>
  <2>1. p \in Seq(Statements) /\ Len(p) # 0
    OBVIOUS
  <2> QED
    BY <2>1, NotEmpty, Zenon
<1>3. \A i \in 1 .. Len(p) : p[i] \in Own(r)
  BY <1>1
<1>4. ASSUME NEW i \in 1 .. Len(p), NEW j \in 1 .. Len(p), i < j
      PROVE  Rises(p[i], p[j])
  <2>1. \/ (i = 1 /\ j = 2) \/ (i = 1 /\ j = 3) \/ (i = 1 /\ j = 4) \/ (i = 1 /\ j = 5)
        \/ (i = 2 /\ j = 3) \/ (i = 2 /\ j = 4) \/ (i = 2 /\ j = 5)
        \/ (i = 3 /\ j = 4) \/ (i = 3 /\ j = 5)
        \/ (i = 4 /\ j = 5)
    BY <1>1, <1>4
  <2> QED
    BY <2>1
<1>5. ASSUME NEW i \in 1 .. Len(p) - 1
      PROVE  p[i + 1] = After(r, p[i])
  <2>1. i = 1 \/ i = 2 \/ i = 3 \/ i = 4
    BY <1>1
  <2> QED
    BY <2>1
<1> QED
  BY <1>2, <1>3, <1>4, <1>5 DEF Remains

LEMMA PlanRemains ==
  ASSUME NEW r \in Requests
  PROVE  Remains(r, Plan(r))
<1>1. WellFormed(r)
  BY LocksAssumption DEF LocksAssumption
<1> DEFINE p == Plan(r)
<1>2. CASE r.op \in {"promote", "rewrite"}
  <2>1. p = <<"header", "asked", "write">>
    BY <1>2 DEF Plan
  <2>2. Len(p) = 3
    BY <2>1
  <2>3. p \in Seq(Statements)
    BY <2>1 DEF Statements
  <2>4. p[1] = "header" /\ p[2] = "asked" /\ p[3] = "write"
    BY <2>1
  <2>5. p[1] \in Own(r) /\ p[2] \in Own(r) /\ p[3] \in Own(r)
    BY <1>2, <2>4 DEF Own
  <2>6. /\ p[3] = Final(r) /\ p[2] = After(r, p[1]) /\ p[3] = After(r, p[2])
    BY <1>2, <2>4 DEF Final, After
  <2>7. /\ Rises(p[1], p[2]) /\ Rises(p[1], p[3])
        /\ Rises(p[2], p[3])
    BY <2>4 DEF Rises, Loose, Level, Unordered
  <2> HIDE DEF p
  <2>8. Remains(r, p)
    BY <2>2, <2>3, <2>5, <2>6, <2>7, ThreeLeft
  <2> QED
    BY <2>8 DEF p
<1>3. CASE r.op = "done"
  <2>1. p = <<"sources", "header", "asked", "taken">>
    BY <1>3 DEF Plan
  <2>2. Len(p) = 4
    BY <2>1
  <2>3. p \in Seq(Statements)
    BY <2>1 DEF Statements
  <2>4. p[1] = "sources" /\ p[2] = "header" /\ p[3] = "asked" /\ p[4] = "taken"
    BY <2>1
  <2>5. p[1] \in Own(r) /\ p[2] \in Own(r) /\ p[3] \in Own(r) /\ p[4] \in Own(r)
    BY <1>3, <2>4 DEF Own
  <2>6. /\ p[4] = Final(r) /\ p[2] = After(r, p[1]) /\ p[3] = After(r, p[2])
        /\ p[4] = After(r, p[3])
    BY <1>3, <2>4 DEF Final, After
  <2>7. /\ Rises(p[1], p[2]) /\ Rises(p[1], p[3]) /\ Rises(p[1], p[4])
        /\ Rises(p[2], p[3]) /\ Rises(p[2], p[4])
        /\ Rises(p[3], p[4])
    BY <2>4 DEF Rises, Loose, Level, Unordered
  <2> HIDE DEF p
  <2>8. Remains(r, p)
    BY <2>2, <2>3, <2>5, <2>6, <2>7, FourLeft
  <2> QED
    BY <2>8 DEF p
<1>4. CASE r.op = "unsell"
  <2>1. p = <<"sources", "header", "back", "write">>
    BY <1>4 DEF Plan
  <2>2. Len(p) = 4
    BY <2>1
  <2>3. p \in Seq(Statements)
    BY <2>1 DEF Statements
  <2>4. p[1] = "sources" /\ p[2] = "header" /\ p[3] = "back" /\ p[4] = "write"
    BY <2>1
  <2>5. p[1] \in Own(r) /\ p[2] \in Own(r) /\ p[3] \in Own(r) /\ p[4] \in Own(r)
    BY <1>4, <2>4 DEF Own
  <2>6. /\ p[4] = Final(r) /\ p[2] = After(r, p[1]) /\ p[3] = After(r, p[2])
        /\ p[4] = After(r, p[3])
    BY <1>4, <2>4 DEF Final, After
  <2>7. /\ Rises(p[1], p[2]) /\ Rises(p[1], p[3]) /\ Rises(p[1], p[4])
        /\ Rises(p[2], p[3]) /\ Rises(p[2], p[4])
        /\ Rises(p[3], p[4])
    BY <2>4 DEF Rises, Loose, Level, Unordered
  <2> HIDE DEF p
  <2>8. Remains(r, p)
    BY <2>2, <2>3, <2>5, <2>6, <2>7, FourLeft
  <2> QED
    BY <2>8 DEF p
<1>5. CASE r.op = "archive"
  <2>1. p = <<"order", "sellers", "lines", "stripped", "rest">>
    BY <1>5 DEF Plan, Archiving
  <2>2. Len(p) = 5
    BY <2>1
  <2>3. p \in Seq(Statements)
    BY <2>1 DEF Statements
  <2>4. p[1] = "order" /\ p[2] = "sellers" /\ p[3] = "lines" /\ p[4] = "stripped" /\ p[5] = "rest"
    BY <2>1
  <2>5. p[1] \in Own(r) /\ p[2] \in Own(r) /\ p[3] \in Own(r) /\ p[4] \in Own(r) /\ p[5] \in Own(r)
    BY <1>5, <2>4 DEF Own
  <2>6. /\ p[5] = Final(r) /\ p[2] = After(r, p[1]) /\ p[3] = After(r, p[2])
        /\ p[4] = After(r, p[3]) /\ p[5] = After(r, p[4])
    BY <1>5, <2>4 DEF Final, After
  <2>7. /\ Rises(p[1], p[2]) /\ Rises(p[1], p[3]) /\ Rises(p[1], p[4]) /\ Rises(p[1], p[5])
        /\ Rises(p[2], p[3]) /\ Rises(p[2], p[4]) /\ Rises(p[2], p[5])
        /\ Rises(p[3], p[4]) /\ Rises(p[3], p[5])
        /\ Rises(p[4], p[5])
    BY <2>4 DEF Rises, Loose, Level, Unordered
  <2> HIDE DEF p
  <2>8. Remains(r, p)
    BY <2>2, <2>3, <2>5, <2>6, <2>7, FiveLeft
  <2> QED
    BY <2>8 DEF p
<1>6. CASE r.op = "cascade"
  <2>1. p = <<"order", "lines", "rest">>
    BY <1>6 DEF Plan
  <2>2. Len(p) = 3
    BY <2>1
  <2>3. p \in Seq(Statements)
    BY <2>1 DEF Statements
  <2>4. p[1] = "order" /\ p[2] = "lines" /\ p[3] = "rest"
    BY <2>1
  <2>5. p[1] \in Own(r) /\ p[2] \in Own(r) /\ p[3] \in Own(r)
    BY <1>6, <2>4 DEF Own
  <2>6. /\ p[3] = Final(r) /\ p[2] = After(r, p[1]) /\ p[3] = After(r, p[2])
    BY <1>6, <2>4 DEF Final, After
  <2>7. /\ Rises(p[1], p[2]) /\ Rises(p[1], p[3])
        /\ Rises(p[2], p[3])
    BY <2>4 DEF Rises, Loose, Level, Unordered
  <2> HIDE DEF p
  <2>8. Remains(r, p)
    BY <2>2, <2>3, <2>5, <2>6, <2>7, ThreeLeft
  <2> QED
    BY <2>8 DEF p
<1>7. CASE r.op = "recount"
  <2>1. p = <<"order", "line", "write">>
    BY <1>7 DEF Plan
  <2>2. Len(p) = 3
    BY <2>1
  <2>3. p \in Seq(Statements)
    BY <2>1 DEF Statements
  <2>4. p[1] = "order" /\ p[2] = "line" /\ p[3] = "write"
    BY <2>1
  <2>5. p[1] \in Own(r) /\ p[2] \in Own(r) /\ p[3] \in Own(r)
    BY <1>7, <2>4 DEF Own
  <2>6. /\ p[3] = Final(r) /\ p[2] = After(r, p[1]) /\ p[3] = After(r, p[2])
    BY <1>7, <2>4 DEF Final, After
  <2>7. /\ Rises(p[1], p[2]) /\ Rises(p[1], p[3])
        /\ Rises(p[2], p[3])
    BY <2>4 DEF Rises, Loose, Level, Unordered
  <2> HIDE DEF p
  <2>8. Remains(r, p)
    BY <2>2, <2>3, <2>5, <2>6, <2>7, ThreeLeft
  <2> QED
    BY <2>8 DEF p
<1>8. CASE r.op \in {"move", "split"}
  <2>1. p = <<"line", "write">>
    BY <1>8 DEF Plan
  <2>2. Len(p) = 2
    BY <2>1
  <2>3. p \in Seq(Statements)
    BY <2>1 DEF Statements
  <2>4. p[1] = "line" /\ p[2] = "write"
    BY <2>1
  <2>5. p[1] \in Own(r) /\ p[2] \in Own(r)
    BY <1>8, <2>4 DEF Own
  <2>6. /\ p[2] = Final(r) /\ p[2] = After(r, p[1])
    BY <1>8, <2>4 DEF Final, After
  <2>7. Rises(p[1], p[2])
    BY <2>4 DEF Rises, Loose, Level, Unordered
  <2> HIDE DEF p
  <2>8. Remains(r, p)
    BY <2>2, <2>3, <2>5, <2>6, <2>7, TwoLeft
  <2> QED
    BY <2>8 DEF p
<1>9. CASE r.op \in {"receive", "reopen"}
  <2>1. p = <<"transfer", "moved", "write">>
    BY <1>9 DEF Plan
  <2>2. Len(p) = 3
    BY <2>1
  <2>3. p \in Seq(Statements)
    BY <2>1 DEF Statements
  <2>4. p[1] = "transfer" /\ p[2] = "moved" /\ p[3] = "write"
    BY <2>1
  <2>5. p[1] \in Own(r) /\ p[2] \in Own(r) /\ p[3] \in Own(r)
    BY <1>9, <2>4 DEF Own
  <2>6. /\ p[3] = Final(r) /\ p[2] = After(r, p[1]) /\ p[3] = After(r, p[2])
    BY <1>9, <2>4 DEF Final, After
  <2>7. /\ Rises(p[1], p[2]) /\ Rises(p[1], p[3])
        /\ Rises(p[2], p[3])
    BY <2>4 DEF Rises, Loose, Level, Unordered
  <2> HIDE DEF p
  <2>8. Remains(r, p)
    BY <2>2, <2>3, <2>5, <2>6, <2>7, ThreeLeft
  <2> QED
    BY <2>8 DEF p
<1>10. CASE r.op = "discard"
  <2>1. p = <<"transfer", "moved", "peers">>
    BY <1>10 DEF Plan
  <2>2. Len(p) = 3
    BY <2>1
  <2>3. p \in Seq(Statements)
    BY <2>1 DEF Statements
  <2>4. p[1] = "transfer" /\ p[2] = "moved" /\ p[3] = "peers"
    BY <2>1
  <2>5. p[1] \in Own(r) /\ p[2] \in Own(r) /\ p[3] \in Own(r)
    BY <1>10, <2>4 DEF Own
  <2>6. /\ p[3] = Final(r) /\ p[2] = After(r, p[1]) /\ p[3] = After(r, p[2])
    BY <1>10, <2>4 DEF Final, After
  <2>7. /\ Rises(p[1], p[2]) /\ Rises(p[1], p[3])
        /\ Rises(p[2], p[3])
    BY <2>4 DEF Rises, Loose, Level, Unordered
  <2> HIDE DEF p
  <2>8. Remains(r, p)
    BY <2>2, <2>3, <2>5, <2>6, <2>7, ThreeLeft
  <2> QED
    BY <2>8 DEF p
<1> QED
  BY <1>1, <1>2, <1>3, <1>4, <1>5, <1>6, <1>7, <1>8, <1>9, <1>10
     DEF WellFormed, SellAsks, OrderAsks, MoveAsks

LEMMA TailRemains ==
  ASSUME NEW r, NEW p, Remains(r, p), Len(p) > 1
  PROVE  /\ Remains(r, Tail(p)) /\ Head(p) = p[1] /\ Head(Tail(p)) = p[2]
         /\ Rises(Head(p), Head(Tail(p))) /\ Head(Tail(p)) = After(r, Head(p))
         /\ Head(p) \in Own(r) /\ Head(Tail(p)) \in Own(r)
         /\ \A i \in 2 .. Len(p) : \E k \in 1 .. Len(Tail(p)) : Tail(p)[k] = p[i]
<1> DEFINE q == Tail(p)
<1>0. p \in Seq(Statements)
  BY DEF Remains
<1>a. Len(p) \in Nat /\ q \in Seq(Statements) /\ Len(q) = Len(p) - 1
  BY <1>0
<1>b. Head(p) = p[1]
  BY <1>0
<1>c. \A i \in 1 .. Len(p) - 1 : q[i] = p[i + 1]
  BY <1>0
<1>1. /\ Len(p) \in Nat /\ q \in Seq(Statements) /\ Len(q) = Len(p) - 1 /\ Head(p) = p[1]
      /\ \A i \in 1 .. Len(p) - 1 : q[i] = p[i + 1]
  BY <1>a, <1>b, <1>c
<1>d. q # <<>>
  <2>1. Len(q) # 0
    BY <1>a
  <2> HIDE DEF q
  <2> QED
    BY <2>1, <1>a, EmptySeq
<1>e. Head(q) = q[1]
  BY <1>a
<1>2. q # <<>> /\ Head(q) = q[1] /\ q[1] = p[2]
  BY <1>c, <1>d, <1>e, <1>a
<1> HIDE DEF q
<1>3. q[Len(q)] = p[Len(p)]
  BY <1>1
<1>4. \A i \in 1 .. Len(q) : q[i] \in Own(r)
  BY <1>1 DEF Remains
<1>5. \A i, j \in 1 .. Len(q) : i < j => Rises(q[i], q[j])
  <2> SUFFICES ASSUME NEW i \in 1 .. Len(q), NEW j \in 1 .. Len(q), i < j PROVE Rises(q[i], q[j])
    OBVIOUS
  <2>1. /\ i + 1 \in 1 .. Len(p) /\ j + 1 \in 1 .. Len(p) /\ i + 1 < j + 1
        /\ q[i] = p[i + 1] /\ q[j] = p[j + 1]
    BY <1>1
  <2> QED
    BY <2>1 DEF Remains
<1>f. \A i \in 1 .. Len(q) - 1 : q[i + 1] = After(r, q[i])
  <2> SUFFICES ASSUME NEW i \in 1 .. Len(q) - 1 PROVE q[i + 1] = After(r, q[i])
    OBVIOUS
  <2>1. /\ i + 1 \in 1 .. Len(p) - 1 /\ q[i] = p[i + 1] /\ q[i + 1] = p[i + 2]
        /\ (i + 1) + 1 = i + 2
    BY <1>1
  <2> QED
    BY <2>1 DEF Remains
<1>6. Rises(p[1], p[2]) /\ p[1] \in Own(r) /\ p[2] \in Own(r) /\ p[2] = After(r, p[1])
  <2>1. 1 \in 1 .. Len(p) - 1 /\ 1 \in 1 .. Len(p) /\ 2 \in 1 .. Len(p) /\ 1 + 1 = 2
    BY <1>1
  <2> QED
    BY <2>1 DEF Remains
<1>7. \A i \in 2 .. Len(p) : i - 1 \in 1 .. Len(q) /\ q[i - 1] = p[i]
  BY <1>1
<1>8. Remains(r, q)
  BY <1>1, <1>2, <1>3, <1>4, <1>5, <1>f DEF Remains
<1> QED
  BY <1>1, <1>2, <1>6, <1>7, <1>8 DEF q

(* What a request goes on to, by what it asks.                                *)
LEMMA NextStatement ==
  ASSUME NEW r, WellFormed(r), NEW p, Remains(r, p), Len(p) > 1,
         NEW h, h = Head(p), NEW n, n = Head(Tail(p))
  PROVE  /\ r.op \in {"promote", "rewrite"} =>
              <<h, n>> \in {<<"header", "asked">>, <<"asked", "write">>}
         /\ r.op = "done" =>
              <<h, n>> \in {<<"sources", "header">>, <<"header", "asked">>, <<"asked", "taken">>}
         /\ r.op = "unsell" =>
              <<h, n>> \in {<<"sources", "header">>, <<"header", "back">>, <<"back", "write">>}
         /\ r.op = "archive" =>
              <<h, n>> \in {<<"order", "sellers">>, <<"sellers", "lines">>, <<"lines", "stripped">>,
                            <<"stripped", "rest">>}
         /\ r.op = "cascade" => <<h, n>> \in {<<"order", "lines">>, <<"lines", "rest">>}
         /\ r.op = "recount" => <<h, n>> \in {<<"order", "line">>, <<"line", "write">>}
         /\ r.op \in {"move", "split"} => <<h, n>> = <<"line", "write">>
         /\ r.op \in {"receive", "reopen"} =>
              <<h, n>> \in {<<"transfer", "moved">>, <<"moved", "write">>}
         /\ r.op = "discard" => <<h, n>> \in {<<"transfer", "moved">>, <<"moved", "peers">>}
<1>1. h \in Own(r) /\ n \in Own(r) /\ n = After(r, h)
  BY TailRemains
<1>2. CASE r.op \in {"promote", "rewrite", "done", "unsell"}
  BY <1>1, <1>2 DEF Own, After
<1>3. CASE r.op \in {"archive", "cascade", "recount"}
  BY <1>1, <1>3 DEF Own, After
<1>4. CASE r.op \in {"move", "split", "receive", "reopen", "discard"}
  BY <1>1, <1>4 DEF Own, After
<1> QED
  BY <1>2, <1>3, <1>4 DEF WellFormed, SellAsks, OrderAsks, MoveAsks

(* A plan is at its first statement, one of the request's own, and past its   *)
(* header where that is not to come.                                          *)
LEMMA PlanAt ==
  ASSUME NEW r, NEW p, Remains(r, p)
  PROVE  /\ Head(p) = p[1] /\ 1 \in 1 .. Len(p) /\ Len(p) \in Nat /\ Head(p) \in Own(r)
         /\ Head(p) \in Statements
         /\ Len(p) = 1 => Head(p) = Final(r)
<1>0. p \in Seq(Statements) /\ p # <<>>
  BY DEF Remains
<1>1. Len(p) \in Nat /\ Len(p) # 0
  BY <1>0, EmptySeq
<1>2. Head(p) = p[1]
  BY <1>0
<1>3. 1 \in 1 .. Len(p)
  BY <1>1
<1> QED
  BY <1>0, <1>1, <1>2, <1>3 DEF Remains

LEMMA PastHeader ==
  ASSUME NEW x, NEW r, Remains(r, left[x]), At(x) \in {"asked", "taken", "back", "write"}
  PROVE  ~ToHeader(x)
<1> DEFINE p == left[x]
<1>1. p[1] = At(x) /\ 1 \in 1 .. Len(p) /\ Len(p) \in Nat
  BY PlanAt DEF At
<1>2. SUFFICES ASSUME NEW i \in 1 .. Len(p), p[i] = "header" PROVE FALSE
  BY DEF ToHeader
<1>3. 1 < i
  BY <1>1, <1>2
<1>4. Rises(p[1], p[i])
  BY <1>1, <1>3 DEF Remains
<1> QED
  BY <1>1, <1>2, <1>4 DEF Rises, Loose, Level, Unordered

LEMMA PlanStarts ==
  ASSUME NEW r, WellFormed(r)
  PROVE  /\ r.op \in SellAsks => \E i \in 1 .. Len(Plan(r)) : Plan(r)[i] = "header"
         /\ r.op \in {"promote", "rewrite"} => Head(Plan(r)) = "header"
         /\ r.op \in {"done", "unsell"} => Head(Plan(r)) = "sources"
         /\ r.op \in OrderAsks => Head(Plan(r)) = "order"
         /\ r.op \in {"move", "split"} => Head(Plan(r)) = "line"
         /\ r.op \in {"receive", "reopen", "discard"} => Head(Plan(r)) = "transfer"
<1>1. CASE r.op \in {"promote", "rewrite"}
  <2>1. Plan(r) = <<"header", "asked", "write">>
    BY <1>1 DEF Plan
  <2>2. Len(Plan(r)) = 3 /\ Plan(r)[1] = "header" /\ Head(Plan(r)) = "header"
    BY <2>1
  <2> QED
    BY <1>1, <2>2 DEF SellAsks, OrderAsks
<1>2. CASE r.op = "done"
  <2>1. Plan(r) = <<"sources", "header", "asked", "taken">>
    BY <1>2 DEF Plan
  <2>2. Len(Plan(r)) = 4 /\ Plan(r)[2] = "header" /\ Head(Plan(r)) = "sources"
    BY <2>1
  <2> QED
    BY <1>2, <2>2 DEF SellAsks, OrderAsks
<1>3. CASE r.op = "unsell"
  <2>1. Plan(r) = <<"sources", "header", "back", "write">>
    BY <1>3 DEF Plan
  <2>2. Len(Plan(r)) = 4 /\ Plan(r)[2] = "header" /\ Head(Plan(r)) = "sources"
    BY <2>1
  <2> QED
    BY <1>3, <2>2 DEF SellAsks, OrderAsks
<1>4. CASE r.op = "archive"
  <2>1. Plan(r) = <<"order", "sellers", "lines", "stripped", "rest">>
    BY <1>4 DEF Plan, Archiving
  <2> QED
    BY <1>4, <2>1 DEF SellAsks, OrderAsks
<1>5. CASE r.op \in {"cascade", "recount"}
  <2>1. Plan(r) = <<"order", "lines", "rest">> \/ Plan(r) = <<"order", "line", "write">>
    BY <1>5 DEF Plan
  <2> QED
    BY <1>5, <2>1 DEF SellAsks, OrderAsks
<1>6. CASE r.op \in MoveAsks
  <2>1. r.op \in {"move", "split"} => Plan(r) = <<"line", "write">>
    BY DEF Plan
  <2>2. r.op \in {"receive", "reopen"} => Plan(r) = <<"transfer", "moved", "write">>
    BY DEF Plan
  <2>3. r.op = "discard" => Plan(r) = <<"transfer", "moved", "peers">>
    BY DEF Plan
  <2> QED
    BY <1>6, <2>1, <2>2, <2>3 DEF SellAsks, OrderAsks, MoveAsks
<1> QED
  BY <1>1, <1>2, <1>3, <1>4, <1>5, <1>6 DEF WellFormed, SellAsks, OrderAsks

----------------------------------------------------------------------------
(* The rows of a statement, and the order it locks them in.                   *)
LEMMA Asks ==
  ASSUME NEW r \in Requests
  PROVE  /\ WellFormed(r) /\ r # NULL /\ r.op \in SellAsks \cup OrderAsks \cup MoveAsks
         /\ r.op \in SellAsks => r.so \in SOs
         /\ r.op \in OrderAsks => r.po \in POs
         /\ r.op \in MoveAsks => r.to \in TOs
         /\ r.op = "rewrite" => r.want \in [Lots -> Nat]
         /\ r.op \in {"recount", "move", "split"} => r.lots \subseteq Lots /\ r.lots # {}
         /\ r.op = "split" => r.clone \in Lots
BY LocksAssumption DEF LocksAssumption, WellFormed

LEMMA QueueCovers ==
  ASSUME NEW S, IsFiniteSet(S), NEW stmt, NEW q \in Queues(S, stmt)
  PROVE  /\ q \in Seq(S) /\ {q[i] : i \in 1 .. Len(q)} = S
         /\ stmt \notin Unordered => \A i, j \in 1 .. Len(q) : i < j => q[i][2] < q[j][2]
<1> DEFINE D == 1 .. Cardinality(S)
<1>1. Cardinality(S) \in Nat
  BY FS_CardinalityType
<1>2. q \in SetToSeqs(S)
  BY DEF Queues
<1>3. q \in [D -> S] /\ \A i, j \in D : i # j => q[i] # q[j]
  BY <1>2 DEF SetToSeqs
<1>4. q \in Seq(S) /\ Len(q) = Cardinality(S)
  BY <1>1, <1>3
<1>5. IsFiniteSet(D) /\ Cardinality(D) = Cardinality(S)
  <2>1. 1 \in Int /\ Cardinality(S) \in Int
    BY <1>1
  <2>2. IsFiniteSet(D) /\ Cardinality(D) = IF 1 > Cardinality(S) THEN 0 ELSE Cardinality(S) - 1 + 1
    BY <2>1, FS_Interval
  <2> QED
    BY <1>1, <2>2
<1> HIDE DEF D
<1>6. q \in Injection(D, S)
  BY <1>3 DEF Injection, IsInjective
<1>7. q \in Surjection(D, S)
  BY <1>5, <1>6, FS_Injection
<1>8. {q[i] : i \in D} = S
  BY <1>3, <1>7 DEF Surjection
<1>9. D = 1 .. Len(q) /\ DOMAIN q = 1 .. Len(q)
  BY <1>3, <1>4 DEF D
<1>10. stmt \notin Unordered => \A i, j \in DOMAIN q : i < j => q[i][2] < q[j][2]
  BY DEF Queues
<1> QED
  BY <1>4, <1>8, <1>9, <1>10

LEMMA RowsFinite ==
  /\ IsFiniteSet({Line(l) : l \in Lots}) /\ IsFiniteSet({SO(s) : s \in SOs})
  /\ IsFiniteSet({PO(PoOf[l]) : l \in Lots})
<1> USE LocksAssumption DEF LocksAssumption
<1>1. IsFiniteSet({Line(l) : l \in Lots})
  <2> DEFINE T == {Line(l) : l \in Lots}
             f == [l \in Lots |-> Line(l)]
  <2>1. f \in Surjection(Lots, T)
    BY DEF Surjection
  <2> HIDE DEF f, T
  <2>2. IsFiniteSet(T)
    BY <2>1, FS_Surjection
  <2> QED
    BY <2>2 DEF T
<1>2. IsFiniteSet({SO(s) : s \in SOs})
  <2> DEFINE T == {SO(s) : s \in SOs}
             f == [s \in SOs |-> SO(s)]
  <2>1. f \in Surjection(SOs, T)
    BY DEF Surjection
  <2> HIDE DEF f, T
  <2>2. IsFiniteSet(T)
    BY <2>1, FS_Surjection
  <2> QED
    BY <2>2 DEF T
<1>3. IsFiniteSet({PO(PoOf[l]) : l \in Lots})
  <2> DEFINE T == {PO(PoOf[l]) : l \in Lots}
             f == [l \in Lots |-> PO(PoOf[l])]
  <2>1. f \in Surjection(Lots, T)
    BY DEF Surjection
  <2> HIDE DEF f, T
  <2>2. IsFiniteSet(T)
    BY <2>1, FS_Surjection
  <2> QED
    BY <2>2 DEF T
<1> QED
  BY <1>1, <1>2, <1>3

LEMMA RowIsAt ==
  /\ \A l \in Lots : Line(l) \in RowsAt(3) /\ Line(l)[2] = l
  /\ \A s \in SOs : SO(s) \in RowsAt(2) /\ SO(s)[2] = s
  /\ \A o \in POs : PO(o) \in RowsAt(1) /\ PO(o)[2] = o
  /\ \A t \in TOs : TO(t) \in RowsAt(0) /\ TO(t)[2] = t
BY LocksAssumption DEF LocksAssumption, Rows, RowsAt, RowLevel, Line, SO, PO, TO

LEMMA SelectedRows ==
  ASSUME NEW r \in Requests, NEW stmt \in Own(r)
  PROVE  /\ IsFiniteSet(Selected(r, stmt)) /\ Selected(r, stmt) \subseteq Rows
         /\ stmt \notin Loose => Selected(r, stmt) \subseteq RowsAt(Level(stmt))
<1> DEFINE S == Selected(r, stmt)
<1>0. PoOf \in [Lots -> POs] /\ PeerOf \in [Lots -> Lots \cup {NULL}]
  BY LocksAssumption DEF LocksAssumption
<1>a. \A n : RowsAt(n) \subseteq Rows
  BY DEF RowsAt
<1>1. CASE stmt = "order"
  <2>1. r.po \in POs
    BY <1>1, Asks DEF Own, SellAsks, OrderAsks, MoveAsks
  <2>2. S = {PO(r.po)} /\ Level(stmt) = 1
    BY <1>1 DEF Selected, Level
  <2>3. IsFiniteSet(S)
    BY <2>2, FS_Singleton
  <2> QED
    BY <1>a, <2>1, <2>2, <2>3, RowIsAt
<1>2. CASE stmt = "header"
  <2>1. r.so \in SOs
    BY <1>2, Asks DEF Own, SellAsks, OrderAsks, MoveAsks
  <2>2. S = {SO(r.so)} /\ Level(stmt) = 2
    BY <1>2 DEF Selected, Level
  <2>3. IsFiniteSet(S)
    BY <2>2, FS_Singleton
  <2> QED
    BY <1>a, <2>1, <2>2, <2>3, RowIsAt
<1>3. CASE stmt = "transfer"
  <2>1. r.to \in TOs
    BY <1>3, Asks DEF Own, SellAsks, OrderAsks, MoveAsks
  <2>2. S = {TO(r.to)} /\ Level(stmt) = 0
    BY <1>3 DEF Selected, Level
  <2>3. IsFiniteSet(S)
    BY <2>2, FS_Singleton
  <2> QED
    BY <1>a, <2>1, <2>2, <2>3, RowIsAt
<1>4. CASE stmt \in {"line", "lines", "asked", "back", "moved", "peers", "taken", "rest"}
  <2>1. S \subseteq {Line(l) : l \in Lots}
    <3>1. stmt = "line" => r.lots \subseteq Lots
      BY Asks DEF Own, SellAsks, OrderAsks, MoveAsks
    <3>2. \A l \in Lots : Absorbing(l) => PeerOf[l] \in Lots
      BY <1>0 DEF Absorbing
    <3>3. CASE stmt \in {"line", "lines", "asked", "back"}
      BY <3>1, <3>3 DEF Selected, LinesOf, AskedLots, Named
    <3>4. CASE stmt \in {"moved", "taken", "rest"}
      BY <3>4 DEF Selected, LinesOf, LinesOn, Named, Leaving
    <3>5. CASE stmt = "peers"
      BY <3>2, <3>5 DEF Selected, LinesOn
    <3> QED
      BY <1>4, <3>3, <3>4, <3>5
  <2>2. Level(stmt) = 3
    BY <1>4 DEF Level
  <2>3. IsFiniteSet(S)
    BY <2>1, RowsFinite, FS_Subset
  <2> QED
    BY <1>a, <2>1, <2>2, <2>3, RowIsAt
<1>5. CASE stmt = "sources"
  <2>1. S \subseteq {PO(PoOf[l]) : l \in Lots}
    BY <1>5 DEF Selected, Named
  <2>2. Level(stmt) = 1
    BY <1>5 DEF Level
  <2>3. IsFiniteSet(S)
    BY <2>1, RowsFinite, FS_Subset
  <2> QED
    BY <1>0, <1>a, <2>1, <2>2, <2>3, RowIsAt
<1>6. CASE stmt \in {"sellers", "stripped"}
  <2>1. S \subseteq {SO(s) : s \in SOs}
    BY <1>6 DEF Selected, SellersOf, Stripped
  <2>2. stmt \notin Loose => Level(stmt) = 2
    BY <1>6 DEF Level, Loose, Unordered
  <2>3. IsFiniteSet(S)
    BY <2>1, RowsFinite, FS_Subset
  <2> QED
    BY <1>a, <2>1, <2>2, <2>3, RowIsAt
<1>7. CASE stmt = "write"
  <2>1. S = {}
    BY <1>7 DEF Selected
  <2> QED
    BY <1>7, <2>1, FS_EmptySet DEF Loose
<1> QED
  BY <1>1, <1>2, <1>3, <1>4, <1>5, <1>6, <1>7 DEF Own

(* What a statement leaves to lock when it starts: every row of it that is    *)
(* not held, in its order.                                                    *)
LEMMA RunOrdered ==
  ASSUME NEW r \in Requests, NEW stmt \in Own(r), NEW held,
         NEW q \in Queues(Selected(r, stmt) \ held, stmt)
  PROVE  /\ q \in Seq(Rows) /\ held \cup {q[i] : i \in 1 .. Len(q)} = held \cup Selected(r, stmt)
         /\ stmt = "write" => q = <<>>
         /\ stmt \notin Loose =>
              /\ q \in Seq(RowsAt(Level(stmt)))
              /\ \A i, j \in 1 .. Len(q) : i < j => q[i][2] < q[j][2]
<1> DEFINE S == Selected(r, stmt) \ held
<1>1. /\ IsFiniteSet(Selected(r, stmt)) /\ Selected(r, stmt) \subseteq Rows
      /\ stmt \notin Loose => Selected(r, stmt) \subseteq RowsAt(Level(stmt))
  BY SelectedRows
<1>2. IsFiniteSet(S)
  BY <1>1, FS_Subset
<1>3. S \subseteq Rows /\ (stmt \notin Loose => S \subseteq RowsAt(Level(stmt)))
  BY <1>1
<1>4. stmt = "write" => S = {}
  BY DEF Selected
<1>5. held \cup S = held \cup Selected(r, stmt) /\ q \in Queues(S, stmt)
  OBVIOUS
<1> HIDE DEF S
<1>6. /\ q \in Seq(S) /\ {q[i] : i \in 1 .. Len(q)} = S
      /\ stmt \notin Unordered => \A i, j \in 1 .. Len(q) : i < j => q[i][2] < q[j][2]
  BY <1>2, <1>5, QueueCovers
<1>7. q \in Seq(Rows)
  BY <1>3, <1>6, SeqMonotonic
<1>8. stmt \notin Loose => q \in Seq(RowsAt(Level(stmt)))
  BY <1>3, <1>6, SeqMonotonic
<1>9. ASSUME stmt = "write" PROVE q = <<>>
  <2>1. \A i \in 1 .. Len(q) : FALSE
    BY <1>4, <1>6, <1>9
  <2>2. Len(q) \in Nat
    BY <1>6
  <2>3. Len(q) = 0
    <3>1. ASSUME Len(q) # 0 PROVE FALSE
      <4>1. 1 \in 1 .. Len(q)
        BY <2>2, <3>1
      <4> QED
        BY <2>1, <4>1
    <3> QED
      BY <3>1
  <2> QED
    BY <1>6, <2>3
<1> QED
  BY <1>5, <1>6, <1>7, <1>8, <1>9 DEF Loose

----------------------------------------------------------------------------
(* What a step of another transaction spares: the rows this one holds, the    *)
(* claims on its lines, the lines of every transfer there is, its new rows.   *)
Spares(z) ==
  /\ \A l \in Lots :
       /\ db.status[l] = "deleted" => db'.status[l] = "deleted"
       /\ db.status[l] # "none" => db'.status[l] # "none"
       /\ db.status[l] # "none" /\ Line(l) \in locks[z] =>
            db'.status[l] = db.status[l] /\ db'.qty[l] = db.qty[l]
       /\ db.status[l] = "none" /\ req[z] # NULL /\ Splits(req[z]) /\ req[z].clone = l =>
            db'.status[l] = "none"
  /\ \A s \in SOs : SO(s) \in locks[z] =>
       db'.soStatus[s] = db.soStatus[s] /\ db'.sol[s] = db.sol[s]
  /\ \A l \in Lots, s \in SOs :
       Exists(l) /\ Line(l) \in locks[z] /\ db'.soStatus[s] \in Committed /\ db'.sol[s][l] > 0 =>
         db.soStatus[s] \in Committed /\ db'.sol[s][l] <= db.sol[s][l]
  /\ \A t \in TOs :
       /\ db.toStatus[t] # "none" =>
            /\ db'.toStatus[t] # "none"
            /\ \A l \in Lots : Exists(l)' /\ db'.on[l] = t => Exists(l) /\ db.on[l] = t
       /\ db.toStatus[t] = "none" /\ req[z] # NULL /\ Moves(req[z]) /\ req[z].to = t =>
            db'.toStatus[t] = "none"

LEMMA BooksTyped ==
  ASSUME NEW d, Consistent(d)
  PROVE  /\ d.status \in [Lots -> Statuses] /\ d.qty \in [Lots -> Nat]
         /\ d.soStatus \in [SOs -> {"Draft", "Shipped", "Done"}] /\ d.sol \in [SOs -> [Lots -> Nat]]
         /\ \A s \in SOs, l \in Lots : d.sol[s][l] \in Nat
         /\ \A s \in SOs, l \in Lots : d.sol[s][l] > 0 => d.status[l] # "none"
BY DEF Consistent

(* Fewer orders, and each for less, claim no more.                            *)
LEMMA ClaimsShrink ==
  ASSUME NEW F \in SUBSET SOs, NEW G \in SUBSET SOs, NEW f \in [SOs -> Nat], NEW g \in [SOs -> Nat],
         \A s \in G : g[s] > 0 => s \in F /\ g[s] <= f[s]
  PROVE  Total(g, G) \in Nat /\ Total(f, F) \in Nat /\ Total(g, G) <= Total(f, F)
<1> DEFINE H == {s \in G : g[s] > 0}
<1>1. IsFiniteSet(F) /\ IsFiniteSet(G)
  BY LocksAssumption, FS_Subset DEF LocksAssumption
<1>2. Total(g, G) \in Nat /\ Total(f, F) \in Nat
  <2>1. (\A s \in G : g[s] \in Nat) /\ \A s \in F : f[s] \in Nat
    OBVIOUS
  <2> QED
    BY <1>1, <2>1, TotalNat
<1>3. H \in SUBSET G /\ (\A s \in H : g[s] = g[s]) /\ \A s \in G \ H : g[s] = 0
  OBVIOUS
<1>4. H \subseteq F /\ (\A s \in F : f[s] \in Nat) /\ \A s \in H : g[s] \in Nat /\ g[s] <= f[s]
  OBVIOUS
<1> HIDE DEF H
<1>5. Total(g, G) = Total(g, H)
  BY <1>3, TotalSupport
<1>6. Total(g, H) <= Total(f, F)
  BY <1>1, <1>4, TotalMonotone
<1> QED
  BY <1>2, <1>5, <1>6

LEMMA SparedClaims ==
  ASSUME Consistent(db), Consistent(db)', NEW z, Spares(z),
         NEW l \in Lots, Exists(l), Line(l) \in locks[z], NEW e
  PROVE  Claims(l, e) \in Nat /\ Claims(l, e)' \in Nat /\ Claims(l, e)' <= Claims(l, e)
<1> DEFINE f == [s \in SOs |-> db.sol[s][l]]
           g == [s \in SOs |-> db'.sol[s][l]]
           F == {s \in SOs \ {e} : db.soStatus[s] \in Committed}
           G == {s \in SOs \ {e} : db'.soStatus[s] \in Committed}
<1>1. \A s \in SOs : db.sol[s][l] \in Nat
  BY BooksTyped
<1>2. \A s \in SOs : db'.sol[s][l] \in Nat
  BY DEF Consistent
<1>3. f \in [SOs -> Nat] /\ g \in [SOs -> Nat] /\ F \in SUBSET SOs /\ G \in SUBSET SOs
  BY <1>1, <1>2
<1>4. \A s \in G : g[s] > 0 => s \in F /\ g[s] <= f[s]
  BY DEF Spares
<1>5. Claims(l, e) = Total(f, F) /\ Claims(l, e)' = Total(g, G)
  BY DEF Claims
<1> HIDE DEF f, g, F, G
<1> QED
  BY <1>3, <1>4, <1>5, ClaimsShrink

LEMMA SparedKnows ==
  ASSUME Consistent(db), Consistent(db)', NEW z, NEW r \in Requests, req[z] = r, req'[z] = r,
         Remains(r, left[z]), left'[z] = left[z], Knows(z), Spares(z),
         locks[z] \subseteq locks'[z], Reach(z) \subseteq Reach(z)'
  PROVE  Knows(z)'
<1>a. At(z)' = At(z) /\ (ToHeader(z)' <=> ToHeader(z))
  BY DEF At, ToHeader
<1>b. \A l \in Lots : Exists(l)' => Exists(l) \/ db.status[l] = "none"
  BY DEF Spares, Exists
<1>c. \A s \in SOs, l \in Lots : db.sol[s][l] > 0 => db.status[l] # "none"
  BY DEF Consistent
<1>d. \A l \in Lots : Exists(l) /\ Line(l) \in locks[z] => /\ Exists(l)'
                                                          /\ db'.status[l] = db.status[l]
                                                          /\ db'.qty[l] = db.qty[l]
  BY DEF Spares, Exists
<1>e. ASSUME r.op \in SellAsks, ~ToHeader(z)
      PROVE  /\ r.so \in SOs /\ SO(r.so) \in locks[z] /\ HeaderStill(r)
             /\ db'.soStatus[r.so] = db.soStatus[r.so] /\ db'.sol[r.so] = db.sol[r.so]
             /\ Named(r.so)' \subseteq Named(r.so)
  <2>1. r.so \in SOs /\ SO(r.so) \in locks[z] /\ HeaderStill(r)
    BY <1>e, Asks DEF Knows, HeaderOK
  <2>2. db'.soStatus[r.so] = db.soStatus[r.so] /\ db'.sol[r.so] = db.sol[r.so]
    BY <2>1 DEF Spares
  <2>3. Named(r.so)' \subseteq Named(r.so)
    BY <1>b, <1>c, <2>1, <2>2 DEF Named
  <2> QED
    BY <2>1, <2>2, <2>3
<1>1. HeaderOK(z)'
  <2>1. HeaderOK(z)
    BY DEF Knows
  <2>2. r.op \in SellAsks /\ ~ToHeader(z) => HeaderStill(r)'
    BY <1>e DEF HeaderStill
  <2>3. r.op \in {"done", "unsell"} /\ ~ToHeader(z) => SourcesHeld(z, r.so)'
    BY <1>e, <2>1 DEF HeaderOK, SourcesHeld, SellAsks
  <2> QED
    BY <1>a, <1>e, <2>1, <2>2, <2>3 DEF HeaderOK, SellAsks
<1>f. ASSUME r.op \in {"promote", "rewrite", "done"}, At(z) \in {"asked", "write", "taken"}
      PROVE  /\ r.so \in SOs /\ Asked(r)' = Asked(r) /\ (Proposed(r)' <=> Proposed(r))
             /\ AskedLots(r)' \subseteq AskedLots(r)
             /\ Asked(r) \in [Lots -> Nat] /\ \A l \in Lots : Asked(r)[l] > 0 => db.status[l] # "none"
  <2>1. r.op \in SellAsks /\ ~ToHeader(z)
    BY <1>f, PastHeader DEF SellAsks
  <2>2. r.so \in SOs /\ db'.soStatus[r.so] = db.soStatus[r.so] /\ db'.sol[r.so] = db.sol[r.so]
    BY <1>e, <2>1
  <2>3. Asked(r)' = Asked(r) /\ (Proposed(r)' <=> Proposed(r))
    BY <2>2 DEF Asked, Proposed
  <2>4. AskedOK(z)
    BY DEF Knows
  <2>5. Asked(r) \in [Lots -> Nat]
    BY <2>2, Asks DEF Asked, Consistent
  <2>6. \A l \in Lots : Asked(r)[l] > 0 => db.status[l] # "none"
    BY <1>c, <1>f, <2>2, <2>4 DEF Asked, AskedOK
  <2>7. AskedLots(r)' \subseteq AskedLots(r)
    BY <1>b, <2>3, <2>6 DEF AskedLots
  <2> QED
    BY <2>2, <2>3, <2>5, <2>6, <2>7
<1>2. AskedOK(z)'
  <2> SUFFICES ASSUME r.op \in {"promote", "rewrite", "done"} PROVE AskedOK(z)'
    BY DEF AskedOK
  <2>1. AskedOK(z)
    BY DEF Knows
  <2>2. ASSUME r.op = "rewrite", NEW l \in Lots, r.want[l] > 0 PROVE db'.status[l] # "none"
    BY <2>1, <2>2 DEF AskedOK, Spares
  <2>3. ASSUME At(z) = "asked" PROVE \A l \in AskedLots(r)' : Line(l) \in Reach(z)'
    BY <1>f, <2>1, <2>3 DEF AskedOK
  <2>4. ASSUME At(z) \in {"write", "taken"}
        PROVE  (\A l \in AskedLots(r)' : Line(l) \in locks'[z]) /\ (Proposed(r)' => Validates(r)')
    <3>1. (\A l \in AskedLots(r) : Line(l) \in locks[z]) /\ (Proposed(r) => Validates(r))
      BY <2>1, <2>4 DEF AskedOK
    <3>2. \A l \in AskedLots(r)' : Line(l) \in locks'[z]
      BY <1>f, <2>4, <3>1
    <3>3. ASSUME Proposed(r)', NEW l \in Lots, Asked(r)'[l] > 0,
                 r.op = "rewrite" \/ db'.status[l] # "deleted"
          PROVE  db'.status[l] = "Done" /\ Asked(r)'[l] + Claims(l, r.so)' <= db'.qty[l]
      <4>1. Proposed(r) /\ Asked(r)' = Asked(r) /\ Asked(r)[l] > 0 /\ Asked(r)[l] \in Nat
            /\ db.status[l] # "none"
        BY <1>f, <2>4, <3>3
      <4>2. r.op = "rewrite" \/ db.status[l] # "deleted"
        BY <3>3 DEF Spares
      <4>3. db.status[l] = "Done" /\ Asked(r)[l] + Claims(l, r.so) <= db.qty[l]
        BY <3>1, <4>1, <4>2 DEF Validates
      <4>4. Exists(l) /\ l \in AskedLots(r)
        BY <4>1, <4>3 DEF Exists, AskedLots
      <4>5. Line(l) \in locks[z]
        BY <3>1, <4>4
      <4>6. db'.status[l] = "Done" /\ db'.qty[l] = db.qty[l]
        BY <1>d, <4>3, <4>4, <4>5
      <4> DEFINE e == r.so
                 c == Claims(l, e)
                 d == Claims(l, e)'
      <4>7. c \in Nat /\ d \in Nat /\ d <= c
        BY <4>4, <4>5, SparedClaims
      <4>8. db.qty[l] \in Nat
        BY BooksTyped
      <4>9. Asked(r)[l] + c <= db.qty[l]
        BY <4>3
      <4> HIDE DEF c, d
      <4>10. Asked(r)[l] + d <= db.qty[l]
        BY <4>1, <4>7, <4>8, <4>9
      <4> QED
        BY <4>1, <4>6, <4>10 DEF d
    <3>4. Proposed(r)' => Validates(r)'
      BY <3>3 DEF Validates
    <3> QED
      BY <3>2, <3>4
  <2> QED
    BY <1>a, <2>2, <2>3, <2>4 DEF AskedOK
<1>3. NamedOK(z)'
  <2> SUFFICES ASSUME r.op \in {"done", "unsell"}, At(z) \in {"taken", "back", "write"}
               PROVE  NamedOK(z)'
    BY <1>a DEF NamedOK
  <2>1. NamedOK(z)
    BY DEF Knows
  <2>2. Named(r.so)' \subseteq Named(r.so)
    <3>1. r.op \in SellAsks /\ ~ToHeader(z)
      BY PastHeader DEF SellAsks
    <3> QED
      BY <1>e, <3>1
  <2>3. \A l \in Named(r.so) : l \in Lots /\ Exists(l)
    BY DEF Named
  <2> QED
    BY <1>a, <1>d, <2>1, <2>2, <2>3 DEF NamedOK
<1>4. LinesOK(z)'
  <2> SUFFICES ASSUME r.op \in {"recount", "move", "split"} PROVE LinesOK(z)'
    BY DEF LinesOK
  <2>1. LinesOK(z) /\ r.lots \subseteq Lots
    BY Asks DEF Knows
  <2>2. \A l \in r.lots : db'.status[l] # "none" /\ (Exists(l)' => Exists(l))
    BY <1>b, <2>1 DEF LinesOK, Spares
  <2>3. ASSUME At(z) = "line" PROVE \A l \in r.lots : Exists(l)' => Line(l) \in Reach(z)'
    BY <2>1, <2>2, <2>3 DEF LinesOK
  <2>4. ASSUME At(z) = "write" PROVE LineAllows(r)' /\ \A l \in r.lots : Line(l) \in locks'[z]
    <3>1. LineAllows(r) /\ \A l \in r.lots : Line(l) \in locks[z]
      BY <2>1, <2>4 DEF LinesOK
    <3>2. ASSUME NEW l \in r.lots
          PROVE  /\ Exists(l)'
                 /\ IF r.op = "recount" THEN r.units >= Claims(l, NULL)'
                    ELSE /\ db'.status[l] = "Done"
                         /\ Claims(l, NULL)' + (IF r.op = "move" THEN db'.qty[l] ELSE 1) <= db'.qty[l]
                         /\ r.op = "split" => db'.qty[l] > 1
      <4>1. l \in Lots /\ Exists(l) /\ Line(l) \in locks[z]
        BY <2>1, <3>1 DEF LineAllows
      <4>2. Exists(l)' /\ db'.status[l] = db.status[l] /\ db'.qty[l] = db.qty[l]
        BY <1>d, <4>1
      <4> DEFINE c == Claims(l, NULL)
                 d == Claims(l, NULL)'
      <4>3. c \in Nat /\ d \in Nat /\ d <= c
        BY <4>1, SparedClaims
      <4>4. db.qty[l] \in Nat
        BY <4>1, BooksTyped
      <4>5. r.op = "recount" => r.units \in Nat
        BY Asks DEF WellFormed
      <4>6. IF r.op = "recount" THEN r.units >= c
            ELSE /\ db.status[l] = "Done" /\ c + (IF r.op = "move" THEN db.qty[l] ELSE 1) <= db.qty[l]
                 /\ r.op = "split" => db.qty[l] > 1
        BY <3>1 DEF LineAllows
      <4> HIDE DEF c, d
      <4>7. IF r.op = "recount" THEN r.units >= d
            ELSE /\ db.status[l] = "Done" /\ d + (IF r.op = "move" THEN db.qty[l] ELSE 1) <= db.qty[l]
                 /\ r.op = "split" => db.qty[l] > 1
        BY <4>3, <4>4, <4>5, <4>6
      <4> QED
        BY <4>2, <4>7 DEF d
    <3>3. LineAllows(r)'
      BY <3>2 DEF LineAllows
    <3> QED
      BY <3>1, <3>3
  <2> QED
    BY <1>a, <2>2, <2>3, <2>4 DEF LinesOK
<1>5. MovedOK(z)'
  <2> SUFFICES ASSUME r.op \in {"receive", "reopen", "discard"} PROVE MovedOK(z)'
    BY DEF MovedOK
  <2>1. MovedOK(z) /\ r.to \in TOs
    BY Asks DEF Knows, MoveAsks
  <2>2. db.toStatus[r.to] # "none" /\ db'.toStatus[r.to] # "none"
    BY <2>1 DEF MovedOK, Spares
  <2>3. LinesOn(r.to)' \subseteq LinesOn(r.to)
    BY <2>1, <2>2 DEF LinesOn, Spares
  <2>4. ASSUME At(z) = "moved" PROVE \A l \in LinesOn(r.to)' : Line(l) \in Reach(z)'
    BY <2>1, <2>3, <2>4 DEF MovedOK
  <2>5. ASSUME At(z) \in {"write", "peers"}
        PROVE  MovedAllow(r)' /\ \A l \in LinesOn(r.to)' : Line(l) \in locks'[z]
    <3>1. MovedAllow(r) /\ \A l \in LinesOn(r.to) : Line(l) \in locks[z]
      BY <2>1, <2>5 DEF MovedOK
    <3>2. ASSUME NEW l \in LinesOn(r.to)'
          PROVE  /\ r.op = "reopen" => db'.status[l] = "Done" /\ Claims(l, NULL)' = 0
                 /\ r.op = "discard" => db'.status[l] = "In Transit" /\ Claims(l, NULL)' = 0
      <4>1. l \in LinesOn(r.to) /\ l \in Lots /\ Exists(l) /\ Line(l) \in locks[z]
        BY <2>3, <3>1 DEF LinesOn
      <4>2. db'.status[l] = db.status[l]
        BY <1>d, <4>1
      <4> DEFINE c == Claims(l, NULL)
                 d == Claims(l, NULL)'
      <4>3. c \in Nat /\ d \in Nat /\ d <= c
        BY <4>1, SparedClaims
      <4>4. /\ r.op = "reopen" => db.status[l] = "Done" /\ c = 0
            /\ r.op = "discard" => db.status[l] = "In Transit" /\ c = 0
        BY <3>1, <4>1 DEF MovedAllow
      <4> HIDE DEF c, d
      <4>6. c = 0 => d = 0
        BY <4>3
      <4>5. /\ r.op = "reopen" => db'.status[l] = "Done" /\ d = 0
            /\ r.op = "discard" => db'.status[l] = "In Transit" /\ d = 0
        BY <4>2, <4>4, <4>6
      <4> QED
        BY <4>5 DEF d
    <3>3. MovedAllow(r)'
      BY <3>2 DEF MovedAllow
    <3> QED
      BY <2>3, <3>1, <3>3
  <2> QED
    BY <1>a, <2>2, <2>4, <2>5 DEF MovedOK
<1>6. NewOK(z)'
  <2>1. NewOK(z) /\ (Moves(r) => r.to \in TOs) /\ (Splits(r) => r.clone \in Lots)
    BY Asks DEF Knows, Moves, Splits, MoveAsks
  <2> QED
    BY <2>1, Asks DEF NewOK, Spares
<1> QED
  BY <1>1, <1>2, <1>3, <1>4, <1>5, <1>6 DEF Knows

----------------------------------------------------------------------------
(* Steps that leave the books alone.                                          *)
LEMMA SameBooks ==
  ASSUME db' = db, Consistent(db)
  PROVE  /\ \A l : Exists(l)' <=> Exists(l)
         /\ \A s : Named(s)' = Named(s)
         /\ \A t : LinesOn(t)' = LinesOn(t)
         /\ \A o : LinesOf(o)' = LinesOf(o)
         /\ \A r : /\ AskedLots(r)' = AskedLots(r) /\ (Proposed(r)' <=> Proposed(r))
                   /\ (Validates(r)' <=> Validates(r)) /\ (HeaderStill(r)' <=> HeaderStill(r))
                   /\ (LineAllows(r)' <=> LineAllows(r)) /\ (MovedAllow(r)' <=> MovedAllow(r))
         /\ \A z : Spares(z)
<1>1. /\ \A l : Exists(l)' <=> Exists(l)
      /\ \A l, e : Claims(l, e)' = Claims(l, e)
  BY DEF Exists, Claims
<1>2. /\ \A s : Named(s)' = Named(s)
      /\ \A t : LinesOn(t)' = LinesOn(t)
      /\ \A o : LinesOf(o)' = LinesOf(o)
  BY <1>1 DEF Named, LinesOn, LinesOf
<1>3. \A r : Asked(r)' = Asked(r) /\ (Proposed(r)' <=> Proposed(r)) /\ (HeaderStill(r)' <=> HeaderStill(r))
  BY DEF Asked, Proposed, HeaderStill
<1>4. \A r : AskedLots(r)' = AskedLots(r)
  BY <1>1, <1>3 DEF AskedLots
<1>5. \A r : Validates(r)' <=> Validates(r)
  BY <1>1, <1>3 DEF Validates
<1>6. \A r : LineAllows(r)' <=> LineAllows(r)
  BY <1>1 DEF LineAllows
<1>7. \A r : MovedAllow(r)' <=> MovedAllow(r)
  BY <1>1, <1>2 DEF MovedAllow
<1>8. \A z : Spares(z)
  <2> SUFFICES ASSUME NEW z PROVE Spares(z)
    OBVIOUS
  <2>1. \A s \in SOs, l \in Lots : db.sol[s][l] \in Nat
    BY BooksTyped
  <2> QED
    BY <1>1, <2>1 DEF Spares
<1> QED
  BY <1>1, <1>2, <1>3, <1>4, <1>5, <1>6, <1>7, <1>8

LEMMA SparedOK ==
  ASSUME Consistent(db), Consistent(db)', NEW z, TxOK(z), Spares(z), req'[z] = req[z],
         left'[z] = left[z], want'[z] = want[z], locks'[z] = locks[z]
  PROVE  TxOK(z)'
<1>1. CASE req[z] = NULL
  BY <1>1 DEF TxOK
<1>2. CASE req[z] # NULL
  <2>1. /\ req[z] \in Requests /\ Remains(req[z], left[z]) /\ want[z] \in Seq(Rows) /\ InOrder(z)
        /\ At(z) = "write" => want[z] = <<>>
        /\ Knows(z)
    BY <1>2 DEF TxOK
  <2>2. Reach(z)' = Reach(z) /\ At(z)' = At(z)
    BY DEF Reach, At
  <2>3. InOrder(z)'
    BY <2>1 DEF InOrder, At
  <2>4. Knows(z)'
    BY <2>1, <2>2, SparedKnows
  <2> QED
    BY <1>2, <2>1, <2>2, <2>3, <2>4 DEF TxOK
<1> QED
  BY <1>1, <1>2

LEMMA TurnKeeps ==
  ASSUME LocksInv, NEW x \in Txs, TxOK(x)', db' = db,
         DOMAIN req' = Txs, DOMAIN left' = Txs, DOMAIN want' = Txs, DOMAIN locks' = Txs,
         \A z \in Txs \ {x} : /\ req'[z] = req[z] /\ left'[z] = left[z] /\ want'[z] = want[z]
                              /\ locks'[z] = locks[z],
         \A z \in Txs \ {x} : locks'[x] \cap locks[z] = {} /\ OwnNew(x, z)' /\ OwnNew(z, x)'
  PROVE  LocksInv'
<1>1. Consistent(db) /\ Consistent(db)'
  BY DEF LocksInv
<1>2. ASSUME NEW z \in Txs \ {x} PROVE TxOK(z)'
  <2>1. TxOK(z) /\ Spares(z)
    BY <1>1, SameBooks DEF LocksInv
  <2> QED
    BY <1>1, <2>1, SparedOK
<1>3. ASSUME NEW y \in Txs, NEW z \in Txs, y # z
      PROVE  locks'[y] \cap locks'[z] = {} /\ OwnNew(y, z)'
  <2>1. CASE y = x \/ z = x
    BY <1>3, <2>1
  <2>2. CASE y # x /\ z # x
    <3>1. locks[y] \cap locks[z] = {} /\ OwnNew(y, z)
      BY <1>3 DEF LocksInv
    <3>2. /\ req'[y] = req[y] /\ req'[z] = req[z]
          /\ locks'[y] = locks[y] /\ locks'[z] = locks[z]
      BY <2>2
    <3> QED
      BY <3>1, <3>2 DEF OwnNew
  <2> QED
    BY <2>1, <2>2
<1> QED
  BY <1>1, <1>2, <1>3 DEF LocksInv

(* A statement that starts has all its rows in reach.                         *)
LEMMA RunInOrder ==
  ASSUME LocksInv, NEW x \in Txs, NEW r \in Requests, NEW p, Remains(r, p), Run(x, r, p),
         locks' = locks,
         Head(p) \notin Loose =>
           \A row \in locks[x] : RowLevel(row) \in Nat /\ RowLevel(row) < Level(Head(p))
  PROVE  /\ left'[x] = p /\ At(x)' = Head(p) /\ InOrder(x)' /\ want'[x] \in Seq(Rows)
         /\ Head(p) = "write" => want'[x] = <<>>
         /\ Reach(x)' = locks[x] \cup Selected(r, Head(p))
<1> DEFINE h == Head(p)
           n == Level(h)
<1>1. /\ DOMAIN left = Txs /\ DOMAIN want = Txs /\ left' = [left EXCEPT ![x] = p]
  BY DEF LocksInv, Run
<1>2. PICK q \in Queues(Selected(r, h) \ locks[x], h) : want' = [want EXCEPT ![x] = q]
  BY DEF Run
<1>3. left'[x] = p /\ want'[x] = q
  BY <1>1, <1>2
<1>4. h \in Own(r) /\ n \in Nat
  BY PlanAt DEF Level
<1>5. /\ q \in Seq(Rows) /\ locks[x] \cup {q[i] : i \in 1 .. Len(q)} = locks[x] \cup Selected(r, h)
      /\ h = "write" => q = <<>>
      /\ h \notin Loose =>
           /\ q \in Seq(RowsAt(n))
           /\ \A i, j \in 1 .. Len(q) : i < j => q[i][2] < q[j][2]
  BY <1>4, RunOrdered
<1>6. ASSUME h \notin Loose, NEW row \in locks[x]
      PROVE  RowLevel(row) \in 0 .. n /\ \A i \in 1 .. Len(q) : Before(row, q[i])
  <2>1. RowLevel(row) \in Nat /\ RowLevel(row) < n
    BY <1>6
  <2>2. \A i \in 1 .. Len(q) : q[i] \in RowsAt(n)
    BY <1>5, <1>6, ElementOfSeq
  <2>3. \A i \in 1 .. Len(q) : RowLevel(q[i]) = n
    BY <2>2 DEF RowsAt
  <2> HIDE DEF n
  <2> QED
    BY <1>4, <2>1, <2>3 DEF Before
<1> HIDE DEF n
<1>7. At(x)' = h
  BY <1>3 DEF At
<1>8. InOrder(x)'
  <2>1. h \notin Loose =>
          /\ q \in Seq(RowsAt(n))
          /\ \A i, j \in 1 .. Len(q) : i < j => q[i][2] < q[j][2]
          /\ \A row \in locks[x] : RowLevel(row) \in 0 .. n /\ \A i \in 1 .. Len(q) : Before(row, q[i])
    BY <1>5, <1>6
  <2> QED
    BY <1>3, <1>7, <2>1 DEF InOrder, n
<1>9. Reach(x)' = locks[x] \cup Selected(r, h)
  BY <1>3, <1>5 DEF Reach
<1> QED
  BY <1>3, <1>5, <1>7, <1>8, <1>9

LEMMA BeginKnows ==
  ASSUME LocksInv, NEW x \in Txs, NEW r \in Requests, db' = db, req'[x] = r,
         At(x)' = Head(Plan(r)), left'[x] = Plan(r), Reach(x)' = Selected(r, Head(Plan(r))),
         Seen(r), Fresh(r)
  PROVE  Knows(x)'
<1> DEFINE h == Head(Plan(r))
<1>0. Consistent(db) /\ WellFormed(r)
  BY Asks DEF LocksInv
<1>1. HeaderOK(x)'
  <2> SUFFICES ASSUME r.op \in SellAsks PROVE HeaderOK(x)'
    BY DEF HeaderOK
  <2>1. ToHeader(x)'
    BY <1>0, PlanStarts DEF ToHeader
  <2>2. h = "header" => SO(r.so) \in Reach(x)'
    BY DEF Selected
  <2> QED
    BY <2>1, <2>2 DEF HeaderOK, SellAsks
<1>2. AskedOK(x)'
  <2> SUFFICES ASSUME r.op \in {"promote", "rewrite", "done"} PROVE AskedOK(x)'
    BY DEF AskedOK
  <2>1. h \in {"header", "sources"}
    BY <1>0, PlanStarts
  <2>2. r.op = "rewrite" => \A l \in Lots : r.want[l] > 0 => db'.status[l] # "none"
    BY DEF Seen
  <2> QED
    BY <2>1, <2>2 DEF AskedOK
<1>3. NamedOK(x)'
  <2> SUFFICES ASSUME r.op \in {"done", "unsell"} PROVE NamedOK(x)'
    BY DEF NamedOK
  <2>1. h = "sources"
    BY <1>0, PlanStarts
  <2> QED
    BY <2>1 DEF NamedOK
<1>4. LinesOK(x)'
  <2> SUFFICES ASSUME r.op \in {"recount", "move", "split"} PROVE LinesOK(x)'
    BY DEF LinesOK
  <2>1. h \in {"order", "line"}
    BY <1>0, PlanStarts DEF OrderAsks
  <2>2. \A l \in r.lots : db'.status[l] # "none"
    BY DEF Seen
  <2>3. h = "line" => \A l \in r.lots : Exists(l)' => Line(l) \in Reach(x)'
    BY DEF Selected, Exists
  <2> QED
    BY <2>1, <2>2, <2>3 DEF LinesOK
<1>5. MovedOK(x)'
  <2> SUFFICES ASSUME r.op \in {"receive", "reopen", "discard"} PROVE MovedOK(x)'
    BY DEF MovedOK
  <2>1. h = "transfer" /\ db'.toStatus[r.to] # "none"
    BY <1>0, PlanStarts DEF Seen
  <2> QED
    BY <2>1 DEF MovedOK
<1>6. NewOK(x)'
  BY DEF NewOK, Fresh
<1> QED
  BY <1>1, <1>2, <1>3, <1>4, <1>5, <1>6 DEF Knows

LEMMA BeginKeeps ==
  ASSUME LocksInv, NEW x \in Txs, NEW r \in Requests, Begin(x, r)
  PROVE  LocksInv'
<1>1. /\ req[x] = NULL /\ Run(x, r, Plan(r)) /\ db' = db /\ locks' = locks
      /\ req' = [req EXCEPT ![x] = r] /\ Seen(r) /\ Fresh(r)
  BY DEF Begin
<1>2. locks[x] = {} /\ req'[x] = r /\ r # NULL /\ Remains(r, Plan(r))
  BY <1>1, PlanRemains, Asks DEF LocksInv, TxOK
<1>3. /\ left'[x] = Plan(r) /\ At(x)' = Head(Plan(r)) /\ InOrder(x)' /\ want'[x] \in Seq(Rows)
      /\ Head(Plan(r)) = "write" => want'[x] = <<>>
      /\ Reach(x)' = locks[x] \cup Selected(r, Head(Plan(r)))
  BY <1>1, <1>2, RunInOrder
<1>4. Knows(x)'
  BY <1>1, <1>2, <1>3, BeginKnows
<1>5. TxOK(x)'
  BY <1>2, <1>3, <1>4 DEF TxOK
<1>6. /\ DOMAIN req' = Txs /\ DOMAIN left' = Txs /\ DOMAIN want' = Txs /\ DOMAIN locks' = Txs
      /\ \A z \in Txs \ {x} : /\ req'[z] = req[z] /\ left'[z] = left[z] /\ want'[z] = want[z]
                              /\ locks'[z] = locks[z]
  BY <1>1 DEF LocksInv, Run
<1>7. ASSUME NEW z \in Txs \ {x}
      PROVE  locks'[x] \cap locks[z] = {} /\ OwnNew(x, z)' /\ OwnNew(z, x)'
  <2>1. locks'[x] = {} /\ req'[z] = req[z]
    BY <1>1, <1>2, <1>6
  <2>2. req[z] # NULL => /\ Moves(req[z]) /\ Moves(r) => req[z].to # r.to
                         /\ Splits(req[z]) /\ Splits(r) => req[z].clone # r.clone
    BY <1>1 DEF Fresh
  <2> QED
    BY <1>2, <2>1, <2>2 DEF OwnNew
<1> QED
  BY <1>1, <1>5, <1>6, <1>7, TurnKeeps

LEMMA GoOnKnows ==
  ASSUME LocksInv, NEW x \in Txs, NEW r \in Requests, req[x] = r, req'[x] = r, db' = db,
         locks' = locks, Knows(x), want[x] = <<>>, Remains(r, left[x]), Len(left[x]) > 1,
         Passes(x, At(x)), left'[x] = Tail(left[x]), At(x)' = Head(Tail(left[x])),
         Reach(x)' = locks[x] \cup Selected(r, At(x)')
  PROVE  Knows(x)'
<1>a. Consistent(db) /\ WellFormed(r)
  BY Asks DEF LocksInv
<1>b. Reach(x) = locks[x] /\ locks[x] \subseteq Reach(x)'
  <2>1. Len(want[x]) = 0
    OBVIOUS
  <2>2. 1 .. 0 = {}
    OBVIOUS
  <2>3. {want[x][i] : i \in 1 .. Len(want[x])} = {}
    BY <2>1, <2>2
  <2> QED
    BY <2>3 DEF Reach
<1>c. /\ \A l : Exists(l)' <=> Exists(l)
      /\ \A s : Named(s)' = Named(s)
      /\ \A t : LinesOn(t)' = LinesOn(t)
      /\ \A q : /\ AskedLots(q)' = AskedLots(q) /\ (Proposed(q)' <=> Proposed(q))
                /\ (Validates(q)' <=> Validates(q)) /\ (HeaderStill(q)' <=> HeaderStill(q))
                /\ (LineAllows(q)' <=> LineAllows(q)) /\ (MovedAllow(q)' <=> MovedAllow(q))
  BY <1>a, SameBooks
<1> DEFINE h == At(x)
           n == At(x)'
<1>d. ToHeader(x) /\ h # "header" => ToHeader(x)'
  <2> SUFFICES ASSUME ToHeader(x), h # "header" PROVE ToHeader(x)'
    OBVIOUS
  <2>1. PICK i \in 1 .. Len(left[x]) : left[x][i] = "header"
    BY DEF ToHeader
  <2>2. i # 1
    BY <2>1, PlanAt DEF At
  <2>3. i \in 2 .. Len(left[x])
    BY <2>1, <2>2, PlanAt
  <2>4. \E k \in 1 .. Len(Tail(left[x])) : Tail(left[x])[k] = "header"
    BY <2>1, <2>3, TailRemains
  <2> QED
    BY <2>4 DEF ToHeader
<1>e. /\ r.op \in {"promote", "rewrite"} =>
           <<h, n>> \in {<<"header", "asked">>, <<"asked", "write">>}
      /\ r.op = "done" =>
           <<h, n>> \in {<<"sources", "header">>, <<"header", "asked">>, <<"asked", "taken">>}
      /\ r.op = "unsell" =>
           <<h, n>> \in {<<"sources", "header">>, <<"header", "back">>, <<"back", "write">>}
      /\ r.op = "recount" => <<h, n>> \in {<<"order", "line">>, <<"line", "write">>}
      /\ r.op \in {"move", "split"} => <<h, n>> = <<"line", "write">>
      /\ r.op \in {"receive", "reopen"} =>
           <<h, n>> \in {<<"transfer", "moved">>, <<"moved", "write">>}
      /\ r.op = "discard" => <<h, n>> \in {<<"transfer", "moved">>, <<"moved", "peers">>}
  BY <1>a, NextStatement DEF At
<1>1. HeaderOK(x)'
  <2> SUFFICES ASSUME r.op \in SellAsks PROVE HeaderOK(x)'
    BY DEF HeaderOK
  <2>1. HeaderOK(x)
    BY DEF Knows
  <2>2. n = "header" => SO(r.so) \in Reach(x)'
    BY DEF Selected
  <2>3. ~ToHeader(x)' => SO(r.so) \in locks[x] /\ HeaderStill(r)
    <3>1. CASE ~ToHeader(x)
      BY <2>1, <3>1 DEF HeaderOK
    <3>2. CASE h = "header"
      <4>1. SO(r.so) \in locks[x]
        BY <1>b, <2>1, <3>2 DEF HeaderOK
      <4>2. HeaderAllows(x, r)
        BY <3>2 DEF Passes
      <4>3. HeaderStill(r)
        BY <4>2 DEF HeaderAllows, HeaderStill, SellAsks
      <4> QED
        BY <4>1, <4>3
    <3> QED
      BY <1>d, <3>1, <3>2
  <2>4. r.op \in {"done", "unsell"} /\ ~ToHeader(x)' => SourcesHeld(x, r.so)
    <3>1. CASE ~ToHeader(x)
      BY <2>1, <3>1 DEF HeaderOK
    <3>2. CASE h = "header"
      <4>1. HeaderAllows(x, r)
        BY <3>2 DEF Passes
      <4> QED
        BY <4>1 DEF HeaderAllows
    <3> QED
      BY <1>d, <3>1, <3>2
  <2>5. SourcesHeld(x, r.so)' <=> SourcesHeld(x, r.so)
    BY <1>c DEF SourcesHeld
  <2> QED
    BY <1>c, <2>2, <2>3, <2>4, <2>5 DEF HeaderOK
<1>2. AskedOK(x)'
  <2> SUFFICES ASSUME r.op \in {"promote", "rewrite", "done"} PROVE AskedOK(x)'
    BY DEF AskedOK
  <2>1. AskedOK(x)
    BY DEF Knows
  <2>2. n = "asked" => \A l \in AskedLots(r) : Line(l) \in Reach(x)'
    BY DEF Selected
  <2>3. ASSUME n \in {"write", "taken"}
        PROVE  (\A l \in AskedLots(r) : Line(l) \in locks[x]) /\ (Proposed(r) => Validates(r))
    <3>1. h = "asked"
      BY <1>e, <2>3
    <3>2. \A l \in AskedLots(r) : Line(l) \in locks[x]
      BY <1>b, <2>1, <3>1 DEF AskedOK
    <3>3. Proposed(r) => Validates(r)
      BY <3>1 DEF Passes
    <3> QED
      BY <3>2, <3>3
  <2>4. r.op = "rewrite" => \A l \in Lots : r.want[l] > 0 => db.status[l] # "none"
    BY <2>1 DEF AskedOK
  <2> QED
    BY <1>c, <2>2, <2>3, <2>4 DEF AskedOK
<1>3. NamedOK(x)'
  <2> SUFFICES ASSUME r.op \in {"done", "unsell"} PROVE NamedOK(x)'
    BY DEF NamedOK
  <2>1. NamedOK(x)
    BY DEF Knows
  <2>2. n \in {"taken", "back"} => \A l \in Named(r.so) : Line(l) \in Reach(x)'
    BY DEF Selected
  <2>3. ASSUME n = "write"
        PROVE  \A l \in Named(r.so) : Line(l) \in locks[x] /\ db.status[l] \in {"Done", "Sold"}
    <3>1. h = "back"
      BY <1>e, <2>3
    <3>2. \A l \in Named(r.so) : Line(l) \in locks[x]
      BY <1>b, <2>1, <3>1 DEF NamedOK
    <3>3. \A l \in Named(r.so) : db.status[l] \in {"Done", "Sold"}
      BY <3>1 DEF Passes
    <3> QED
      BY <3>2, <3>3
  <2> QED
    BY <1>c, <2>2, <2>3 DEF NamedOK
<1>4. LinesOK(x)'
  <2> SUFFICES ASSUME r.op \in {"recount", "move", "split"} PROVE LinesOK(x)'
    BY DEF LinesOK
  <2>1. LinesOK(x) /\ r.lots \subseteq Lots
    BY Asks DEF Knows
  <2>2. n = "line" => \A l \in r.lots : Exists(l) => Line(l) \in Reach(x)'
    BY DEF Selected
  <2>3. ASSUME n = "write" PROVE LineAllows(r) /\ \A l \in r.lots : Line(l) \in locks[x]
    <3>1. h = "line"
      BY <1>e, <2>3
    <3>2. LineAllows(r)
      BY <3>1 DEF Passes
    <3>3. \A l \in r.lots : Exists(l)
      BY <3>2 DEF LineAllows
    <3>4. \A l \in r.lots : Line(l) \in locks[x]
      BY <1>b, <2>1, <3>1, <3>3 DEF LinesOK
    <3> QED
      BY <3>2, <3>4
  <2>4. \A l \in r.lots : db'.status[l] # "none"
    BY <2>1 DEF LinesOK
  <2> QED
    BY <1>c, <2>2, <2>3, <2>4 DEF LinesOK
<1>5. MovedOK(x)'
  <2> SUFFICES ASSUME r.op \in {"receive", "reopen", "discard"} PROVE MovedOK(x)'
    BY DEF MovedOK
  <2>1. MovedOK(x)
    BY DEF Knows
  <2>2. n = "moved" => \A l \in LinesOn(r.to) : Line(l) \in Reach(x)'
    BY DEF Selected
  <2>3. ASSUME n \in {"write", "peers"}
        PROVE  MovedAllow(r) /\ \A l \in LinesOn(r.to) : Line(l) \in locks[x]
    <3>1. h = "moved"
      BY <1>e, <2>3
    <3>2. MovedAllow(r)
      BY <3>1 DEF Passes
    <3>3. \A l \in LinesOn(r.to) : Line(l) \in locks[x]
      BY <1>b, <2>1, <3>1 DEF MovedOK
    <3> QED
      BY <3>2, <3>3
  <2>4. db'.toStatus[r.to] # "none"
    BY <2>1 DEF MovedOK
  <2> QED
    BY <1>c, <2>2, <2>3, <2>4 DEF MovedOK
<1>6. NewOK(x)'
  BY DEF Knows, NewOK
<1> QED
  BY <1>1, <1>2, <1>3, <1>4, <1>5, <1>6 DEF Knows

LEMMA GoOnRuns ==
  ASSUME LocksInv, NEW x \in Txs, GoOn(x), NEW r, r = req[x]
  PROVE  /\ r # NULL /\ r \in Requests /\ Remains(r, left[x]) /\ Knows(x) /\ req'[x] = r
         /\ want[x] = <<>> /\ Len(left[x]) > 1 /\ Passes(x, At(x)) /\ Remains(r, Tail(left[x]))
         /\ left'[x] = Tail(left[x]) /\ At(x)' = Head(Tail(left[x])) /\ InOrder(x)'
         /\ want'[x] \in Seq(Rows) /\ (At(x)' = "write" => want'[x] = <<>>)
         /\ Reach(x)' = locks[x] \cup Selected(r, At(x)')
<1> DEFINE p == left[x]
           q == Tail(p)
<1>1. /\ r # NULL /\ want[x] = <<>> /\ Len(p) > 1 /\ Passes(x, At(x)) /\ Run(x, r, q)
      /\ db' = db /\ req' = req /\ locks' = locks
  BY DEF GoOn, Judging, At
<1>2. r \in Requests /\ Remains(r, p) /\ InOrder(x) /\ Knows(x)
  BY <1>1 DEF LocksInv, TxOK
<1>3. Remains(r, q) /\ Head(p) = p[1] /\ Rises(Head(p), Head(q))
  <2> HIDE DEF p
  <2>1. Remains(r, p) /\ Len(p) > 1
    BY <1>1, <1>2
  <2> QED
    BY <2>1, TailRemains
<1>4. ASSUME Head(q) \notin Loose, NEW row \in locks[x]
      PROVE  RowLevel(row) \in Nat /\ RowLevel(row) < Level(Head(q))
  <2>1. Head(p) \notin Loose /\ Level(Head(p)) < Level(Head(q))
    BY <1>3, <1>4 DEF Rises
  <2>2. RowLevel(row) \in 0 .. Level(Head(p))
    BY <1>2, <1>4, <2>1 DEF InOrder, At, p
  <2> DEFINE a == Level(Head(p))
             b == Level(Head(q))
  <2>3. a \in Nat /\ b \in Nat
    BY DEF Level
  <2>4. a < b /\ RowLevel(row) \in 0 .. a
    BY <2>1, <2>2
  <2> HIDE DEF a, b
  <2>5. RowLevel(row) \in Nat /\ RowLevel(row) < b
    BY <2>3, <2>4
  <2> QED
    BY <2>5 DEF b
<1> HIDE DEF q
<1>5. /\ left'[x] = q /\ At(x)' = Head(q) /\ InOrder(x)' /\ want'[x] \in Seq(Rows)
      /\ Head(q) = "write" => want'[x] = <<>>
      /\ Reach(x)' = locks[x] \cup Selected(r, Head(q))
  BY <1>1, <1>2, <1>3, <1>4, RunInOrder
<1> QED
  BY <1>1, <1>2, <1>3, <1>5 DEF q

LEMMA GoOnKeeps ==
  ASSUME LocksInv, NEW x \in Txs, GoOn(x)
  PROVE  LocksInv'
<1> DEFINE r == req[x]
<1>1. /\ r \in Requests /\ Remains(r, left[x]) /\ Knows(x) /\ req'[x] = r
      /\ want[x] = <<>> /\ Len(left[x]) > 1 /\ Passes(x, At(x)) /\ Remains(r, Tail(left[x]))
      /\ left'[x] = Tail(left[x]) /\ At(x)' = Head(Tail(left[x])) /\ InOrder(x)'
      /\ want'[x] \in Seq(Rows) /\ (At(x)' = "write" => want'[x] = <<>>)
      /\ Reach(x)' = locks[x] \cup Selected(r, At(x)')
  BY GoOnRuns
<1>2. /\ db' = db /\ req' = req /\ locks' = locks /\ r # NULL
      /\ left' = [left EXCEPT ![x] = Tail(left[x])] /\ DOMAIN left = Txs
  BY DEF GoOn, Judging, Run, LocksInv
<1>3. Knows(x)'
  BY <1>1, <1>2, GoOnKnows
<1>4. TxOK(x)'
  BY <1>1, <1>2, <1>3 DEF TxOK
<1>5. /\ DOMAIN req' = Txs /\ DOMAIN left' = Txs /\ DOMAIN want' = Txs /\ DOMAIN locks' = Txs
      /\ \A z \in Txs \ {x} : /\ req'[z] = req[z] /\ left'[z] = left[z] /\ want'[z] = want[z]
                              /\ locks'[z] = locks[z]
      /\ \A z \in Txs \ {x} : locks'[x] \cap locks[z] = {} /\ OwnNew(x, z)' /\ OwnNew(z, x)'
  BY <1>2 DEF GoOn, LocksInv, Run, OwnNew
<1> QED
  BY <1>2, <1>4, <1>5, TurnKeeps

LEMMA LockReaches ==
  ASSUME LocksInv, NEW x \in Txs, Lock(x)
  PROVE  /\ want'[x] \in Seq(Rows) /\ Reach(x)' = Reach(x) /\ locks[x] \subseteq locks'[x]
<1> DEFINE w == want[x]
           row == Head(w)
<1>1. /\ w # <<>> /\ w \in Seq(Rows)
      /\ locks'[x] = locks[x] \cup {row} /\ want'[x] = Tail(w)
  BY DEF Lock, LocksInv, TxOK
<1> DEFINE t == Tail(w)
<1>2. /\ Len(w) \in Nat /\ Len(w) # 0 /\ t \in Seq(Rows)
  BY <1>1, EmptySeq, HeadTailProperties
<1>3. Len(t) = Len(w) - 1 /\ row = w[1] /\ \A i \in 1 .. Len(t) : t[i] = w[i + 1]
  BY <1>1
<1> HIDE DEF t, row, w
<1>4. {t[i] : i \in 1 .. Len(t)} \cup {row} = {w[i] : i \in 1 .. Len(w)}
  <2>1. \A i \in 1 .. Len(t) : t[i] \in {w[k] : k \in 1 .. Len(w)}
    <3> SUFFICES ASSUME NEW i \in 1 .. Len(t) PROVE \E k \in 1 .. Len(w) : t[i] = w[k]
      OBVIOUS
    <3>1. i + 1 \in 1 .. Len(w) /\ t[i] = w[i + 1]
      BY <1>2, <1>3
    <3> QED
      BY <3>1
  <2>2. row \in {w[k] : k \in 1 .. Len(w)}
    BY <1>2, <1>3
  <2>3. \A k \in 1 .. Len(w) : w[k] = row \/ \E i \in 1 .. Len(t) : w[k] = t[i]
    <3> SUFFICES ASSUME NEW k \in 1 .. Len(w), k # 1 PROVE \E i \in 1 .. Len(t) : w[k] = t[i]
      BY <1>3
    <3>1. k - 1 \in 1 .. Len(t) /\ t[k - 1] = w[(k - 1) + 1] /\ (k - 1) + 1 = k
      BY <1>2, <1>3
    <3> QED
      BY <3>1
  <2> QED
    BY <2>1, <2>2, <2>3
<1>5. want'[x] = t /\ locks'[x] = locks[x] \cup {row}
  BY <1>1 DEF t
<1> QED
  BY <1>2, <1>4, <1>5 DEF Reach, w

LEMMA LockKeeps ==
  ASSUME LocksInv, NEW x \in Txs, Lock(x)
  PROVE  LocksInv'
<1> DEFINE r == req[x]
           w == want[x]
           row == Head(w)
           h == Head(left[x])
           n == Level(h)
<1>1. /\ w # <<>> /\ \A y \in Txs : row \notin locks[y]
      /\ locks' = [locks EXCEPT ![x] = @ \cup {row}] /\ want' = [want EXCEPT ![x] = Tail(@)]
      /\ db' = db /\ req' = req /\ left' = left
  BY DEF Lock, Free
<1>2. /\ r # NULL /\ r \in Requests /\ Remains(r, left[x]) /\ w \in Seq(Rows) /\ InOrder(x)
      /\ At(x) # "write" /\ Knows(x) /\ Consistent(db)
  BY <1>1 DEF LocksInv, TxOK
<1>3. locks'[x] = locks[x] \cup {row} /\ want'[x] = Tail(w)
  BY <1>1 DEF LocksInv
<1>4. InOrder(x)'
  <2>1. CASE h \in Loose
    BY <1>1, <2>1 DEF InOrder, At
  <2>2. CASE h \notin Loose
    <3>1. w \in Seq(RowsAt(n)) /\ n \in Nat
      BY <1>2, <2>2 DEF InOrder, At, Level
    <3>2. \A i, j \in 1 .. Len(w) : i < j => w[i][2] < w[j][2]
      BY <1>2, <2>2 DEF InOrder, At
    <3>3. \A k \in locks[x] : RowLevel(k) \in 0 .. n /\ \A i \in 1 .. Len(w) : Before(k, w[i])
      BY <1>2, <2>2 DEF InOrder, At
    <3> DEFINE t == Tail(w)
    <3>4. t \in Seq(RowsAt(n)) /\ Len(t) = Len(w) - 1 /\ Len(w) \in Nat /\ Len(w) # 0
      <4>1. Len(w) \in Nat /\ Len(w) # 0
        BY <1>1, <3>1, EmptySeq
      <4>2. t \in Seq(RowsAt(n))
        <5> HIDE DEF n, w
        <5> QED
          BY <1>1, <3>1, HeadTailProperties
      <4>3. Len(t) = Len(w) - 1
        BY <1>1, <3>1
      <4> QED
        BY <4>1, <4>2, <4>3
    <3>5. \A i \in 1 .. Len(t) : t[i] = w[i + 1] /\ i + 1 \in 1 .. Len(w)
      BY <1>1, <3>1, <3>4
    <3>6. row = w[1] /\ 1 \in 1 .. Len(w)
      BY <1>1, <3>1, <3>4
    <3> HIDE DEF n, t, row
    <3>7. \A i, j \in 1 .. Len(t) : i < j => t[i][2] < t[j][2]
      <4> SUFFICES ASSUME NEW i \in 1 .. Len(t), NEW j \in 1 .. Len(t), i < j
                   PROVE  t[i][2] < t[j][2]
        OBVIOUS
      <4>1. i + 1 < j + 1 /\ i + 1 \in 1 .. Len(w) /\ j + 1 \in 1 .. Len(w)
        BY <3>4, <3>5
      <4> QED
        BY <3>2, <3>5, <4>1
    <3>8. \A i \in 1 .. Len(w) : w[i] \in RowsAt(n)
      BY <3>1, ElementOfSeq
    <3>9. RowLevel(row) = n /\ \A i \in 1 .. Len(w) : RowLevel(w[i]) = n
      BY <3>6, <3>8 DEF RowsAt
    <3>10. ASSUME NEW i \in 1 .. Len(t) PROVE Before(row, t[i])
      <4>1. i + 1 \in 1 .. Len(w) /\ t[i] = w[i + 1] /\ 1 < i + 1
        BY <3>4, <3>5
      <4>2. row[2] < t[i][2]
        BY <3>2, <3>6, <4>1
      <4> QED
        BY <3>9, <4>1, <4>2 DEF Before
    <3>11. \A k \in locks[x] \cup {row} :
             RowLevel(k) \in 0 .. n /\ \A i \in 1 .. Len(t) : Before(k, t[i])
      BY <3>1, <3>3, <3>5, <3>9, <3>10
    <3>12. want'[x] = t /\ left'[x] = left[x] /\ locks'[x] = locks[x] \cup {row}
      BY <1>1, <1>3 DEF t
    <3> QED
      BY <3>4, <3>7, <3>11, <3>12 DEF InOrder, At, n
  <2> QED
    BY <2>1, <2>2
<1>5. want'[x] \in Seq(Rows) /\ Reach(x)' = Reach(x)
  BY LockReaches
<1>6. TxOK(x)'
  <2>1. locks[x] \subseteq locks'[x] /\ Consistent(db)' /\ Spares(x)
    BY <1>1, <1>2, <1>3, SameBooks
  <2>2. req'[x] = r /\ left'[x] = left[x]
    BY <1>1
  <2>3. Knows(x)'
    BY <1>2, <1>5, <2>1, <2>2, SparedKnows
  <2> QED
    BY <1>2, <1>4, <1>5, <2>2, <2>3 DEF TxOK, At
<1>7. /\ DOMAIN req' = Txs /\ DOMAIN left' = Txs /\ DOMAIN want' = Txs /\ DOMAIN locks' = Txs
      /\ \A z \in Txs \ {x} : /\ req'[z] = req[z] /\ left'[z] = left[z] /\ want'[z] = want[z]
                              /\ locks'[z] = locks[z]
  BY <1>1 DEF LocksInv
<1>8. \A z \in Txs \ {x} : locks'[x] \cap locks[z] = {} /\ OwnNew(x, z)' /\ OwnNew(z, x)'
  BY <1>1, <1>3 DEF LocksInv, OwnNew
<1> QED
  BY <1>1, <1>6, <1>7, <1>8, TurnKeeps

----------------------------------------------------------------------------
(* What a transaction knows when it writes.                                   *)
Ready(x, r) ==
  /\ r.op \in SellAsks => SO(r.so) \in locks[x] /\ HeaderStill(r)
  /\ r.op \in {"promote", "rewrite", "done"} =>
       (\A l \in AskedLots(r) : Line(l) \in locks[x]) /\ (Proposed(r) => Validates(r))
  /\ r.op \in {"done", "unsell"} => \A l \in Named(r.so) : Line(l) \in locks[x]
  /\ r.op = "unsell" => \A l \in Named(r.so) : db.status[l] \in {"Done", "Sold"}
  /\ r.op \in {"recount", "move", "split"} =>
       LineAllows(r) /\ \A l \in r.lots : Line(l) \in locks[x]
  /\ r.op \in {"receive", "reopen", "discard"} =>
       /\ db.toStatus[r.to] # "none" /\ MovedAllow(r)
       /\ \A l \in LinesOn(r.to) : Line(l) \in locks[x]
  /\ Moves(r) => db.toStatus[r.to] = "none"
  /\ Splits(r) => db.status[r.clone] = "none"

LEMMA NoneReached ==
  ASSUME NEW x, want[x] = <<>>
  PROVE  Reach(x) = locks[x]
<1>1. Len(want[x]) = 0
  OBVIOUS
<1>2. 1 .. 0 = {}
  OBVIOUS
<1>3. {want[x][i] : i \in 1 .. Len(want[x])} = {}
  BY <1>1, <1>2
<1> QED
  BY <1>3 DEF Reach

LEMMA CommitReady ==
  ASSUME LocksInv, NEW x \in Txs, Commit(x), NEW r, r = req[x]
  PROVE  r \in Requests /\ At(x) = Final(r) /\ Reach(x) = locks[x] /\ Ready(x, r)
<1>1. /\ r \in Requests /\ Remains(r, left[x]) /\ want[x] = <<>> /\ Knows(x)
      /\ Len(left[x]) = 1 /\ Passes(x, At(x))
  BY DEF LocksInv, Commit, Judging, TxOK, At
<1>2. At(x) = Final(r)
  BY <1>1, PlanAt DEF At
<1>3. Reach(x) = locks[x]
  BY <1>1, NoneReached
<1>4. r.op \in SellAsks => ~ToHeader(x)
  <2>1. r.op \in SellAsks => Final(r) \in {"taken", "write"}
    BY DEF Final, SellAsks
  <2> QED
    BY <1>1, <1>2, <2>1, PastHeader
<1>5. r.op \in SellAsks => SO(r.so) \in locks[x] /\ HeaderStill(r)
  BY <1>1, <1>4 DEF Knows, HeaderOK
<1>6. r.op \in {"promote", "rewrite", "done"} =>
        (\A l \in AskedLots(r) : Line(l) \in locks[x]) /\ (Proposed(r) => Validates(r))
  BY <1>1, <1>2 DEF Knows, AskedOK, Final
<1>7. /\ r.op \in {"done", "unsell"} => \A l \in Named(r.so) : Line(l) \in locks[x]
      /\ r.op = "unsell" => \A l \in Named(r.so) : db.status[l] \in {"Done", "Sold"}
  BY <1>1, <1>2, <1>3 DEF Knows, NamedOK, Final
<1>8. r.op \in {"recount", "move", "split"} =>
        LineAllows(r) /\ \A l \in r.lots : Line(l) \in locks[x]
  BY <1>1, <1>2 DEF Knows, LinesOK, Final
<1>9. r.op \in {"receive", "reopen", "discard"} =>
        /\ db.toStatus[r.to] # "none" /\ MovedAllow(r)
        /\ \A l \in LinesOn(r.to) : Line(l) \in locks[x]
  BY <1>1, <1>2 DEF Knows, MovedOK, Final
<1>10. (Moves(r) => db.toStatus[r.to] = "none") /\ (Splits(r) => db.status[r.clone] = "none")
  BY <1>1 DEF Knows, NewOK
<1> QED
  BY <1>1, <1>2, <1>3, <1>5, <1>6, <1>7, <1>8, <1>9, <1>10 DEF Ready

(* What a commit may change: rows it holds, and new ones of its own.          *)
Fields == {"status", "qty", "on", "soStatus", "sol", "toStatus", "archived"}
Frame(x, r, d) ==
  /\ Consistent(d)
  /\ \A l \in Lots :
       /\ db.status[l] = "deleted" => d.status[l] = "deleted"
       /\ db.status[l] # "none" => d.status[l] # "none"
       /\ db.status[l] # "none" /\ Line(l) \notin locks[x] =>
            d.status[l] = db.status[l] /\ d.qty[l] = db.qty[l]
       /\ db.status[l] = "none" /\ d.status[l] # "none" =>
            Splits(r) /\ l = r.clone /\ d.on[l] = r.to
       /\ d.on[l] \in {db.on[l], NULL} \/ (Moves(r) /\ d.on[l] = r.to)
  /\ \A s \in SOs : SO(s) \notin locks[x] =>
       d.soStatus[s] = db.soStatus[s] /\ d.sol[s] = db.sol[s]
  /\ \A l \in Lots, s \in SOs :
       Exists(l) /\ Line(l) \notin locks[x] /\ d.soStatus[s] \in Committed /\ d.sol[s][l] > 0 =>
         db.soStatus[s] \in Committed /\ d.sol[s][l] <= db.sol[s][l]
  /\ \A t \in TOs : /\ db.toStatus[t] # "none" => d.toStatus[t] # "none"
                    /\ db.toStatus[t] = "none" /\ d.toStatus[t] # "none" => Moves(r) /\ t = r.to

LEMMA FieldsTyped ==
  ASSUME Consistent(db)
  PROVE  /\ DOMAIN db = Fields /\ db.status \in [Lots -> Statuses] /\ db.qty \in [Lots -> Nat]
         /\ db.on \in [Lots -> TOs \cup {NULL}]
         /\ db.soStatus \in [SOs -> {"Draft", "Shipped", "Done"}]
         /\ db.sol \in [SOs -> [Lots -> Nat]] /\ DOMAIN db.toStatus = TOs
         /\ \A s \in SOs, l \in Lots : db.sol[s][l] > 0 => db.status[l] # "none"
BY DEF Consistent, Fields

(* Books where only lines of the transaction change, and no line is new.      *)
LEMMA LinesFrame ==
  ASSUME Consistent(db), NEW x, NEW r, NEW d,
         DOMAIN d = Fields, d.soStatus = db.soStatus, d.sol = db.sol,
         d.status \in [Lots -> Statuses], d.qty \in [Lots -> Nat], d.on \in [Lots -> TOs \cup {NULL}],
         DOMAIN d.toStatus = TOs,
         \A l \in Lots : /\ ~Exists(l) => d.status[l] = db.status[l]
                         /\ Exists(l) => d.status[l] # "none"
                         /\ Line(l) \notin locks[x] =>
                              d.status[l] = db.status[l] /\ d.qty[l] = db.qty[l]
                         /\ d.on[l] \in {db.on[l], NULL} \/ (Moves(r) /\ d.on[l] = r.to),
         \A t \in TOs : /\ db.toStatus[t] # "none" => d.toStatus[t] # "none"
                        /\ db.toStatus[t] = "none" /\ d.toStatus[t] # "none" => Moves(r) /\ t = r.to
  PROVE  Frame(x, r, d)
<1>1. /\ d.soStatus \in [SOs -> {"Draft", "Shipped", "Done"}] /\ d.sol \in [SOs -> [Lots -> Nat]]
      /\ \A s \in SOs, l \in Lots : db.sol[s][l] > 0 => db.status[l] # "none"
  BY FieldsTyped
<1>2. \A l \in Lots : /\ db.status[l] = "deleted" => d.status[l] = "deleted"
                      /\ db.status[l] # "none" => d.status[l] # "none"
                      /\ db.status[l] = "none" => d.status[l] = "none"
  BY DEF Exists
<1>3. \A s \in SOs, l \in Lots : d.sol[s][l] > 0 => d.status[l] # "none"
  BY <1>1, <1>2
<1>4. Consistent(d)
  BY <1>1, <1>3 DEF Consistent, Fields
<1>5. \A l \in Lots, s \in SOs : d.sol[s][l] <= db.sol[s][l]
  BY <1>1
<1> QED
  BY <1>2, <1>4, <1>5 DEF Frame

LEMMA SaleFrames ==
  ASSUME Consistent(db), NEW x, NEW r \in Requests, r.op \in SellAsks, Ready(x, r)
  PROVE  Frame(x, r, Written(x, r))
<1> DEFINE d == Written(x, r)
<1>0. r.so \in SOs /\ SO(r.so) \in locks[x]
  BY Asks DEF Ready
<1>1. /\ DOMAIN db = Fields /\ db.status \in [Lots -> Statuses] /\ db.qty \in [Lots -> Nat]
      /\ db.on \in [Lots -> TOs \cup {NULL}]
      /\ db.soStatus \in [SOs -> {"Draft", "Shipped", "Done"}]
      /\ db.sol \in [SOs -> [Lots -> Nat]] /\ DOMAIN db.toStatus = TOs
      /\ \A s \in SOs, l \in Lots : db.sol[s][l] > 0 => db.status[l] # "none"
  BY FieldsTyped
<1>2. CASE r.op = "promote"
  <2>1. d = [db EXCEPT !.soStatus[r.so] = "Shipped"]
    BY <1>2 DEF Written
  <2>2. /\ DOMAIN d = Fields /\ d.status = db.status /\ d.qty = db.qty /\ d.on = db.on
        /\ d.sol = db.sol /\ d.toStatus = db.toStatus
        /\ d.soStatus = [db.soStatus EXCEPT ![r.so] = "Shipped"]
    BY <1>1, <2>1 DEF Fields
  <2> HIDE DEF d
  <2>3. Consistent(d)
    BY <1>1, <2>2 DEF Consistent, Fields
  <2>4. \A l \in Lots : Exists(l) /\ Line(l) \notin locks[x] => ~(db.sol[r.so][l] > 0)
    <3>1. \A l \in AskedLots(r) : Line(l) \in locks[x]
      BY <1>2 DEF Ready
    <3> QED
      BY <1>2, <3>1 DEF AskedLots, Asked, Proposed
  <2>5. \A s \in SOs \ {r.so} : d.soStatus[s] = db.soStatus[s]
    BY <1>1, <2>2
  <2>6. ASSUME NEW l \in Lots, NEW s \in SOs, Exists(l), Line(l) \notin locks[x],
               d.soStatus[s] \in Committed, d.sol[s][l] > 0
        PROVE  db.soStatus[s] \in Committed /\ d.sol[s][l] <= db.sol[s][l]
    BY <1>1, <2>2, <2>4, <2>5, <2>6
  <2>7. \A s \in SOs : SO(s) \notin locks[x] => d.soStatus[s] = db.soStatus[s] /\ d.sol[s] = db.sol[s]
    BY <1>0, <2>2, <2>5
  <2>8. Frame(x, r, d)
    BY <2>2, <2>3, <2>6, <2>7 DEF Frame
  <2> QED
    BY <2>8 DEF d
<1>3. CASE r.op = "rewrite"
  <2>1. d = [db EXCEPT !.sol[r.so] = r.want]
    BY <1>3 DEF Written
  <2>2. /\ DOMAIN d = Fields /\ d.status = db.status /\ d.qty = db.qty /\ d.on = db.on
        /\ d.soStatus = db.soStatus /\ d.toStatus = db.toStatus
        /\ d.sol = [db.sol EXCEPT ![r.so] = r.want]
    BY <1>1, <2>1 DEF Fields
  <2>3. r.want \in [Lots -> Nat]
    BY <1>3, Asks
  <2>4. Validates(r) /\ \A l \in AskedLots(r) : Line(l) \in locks[x]
    BY <1>3 DEF Ready, Proposed
  <2>5. \A l \in Lots : r.want[l] > 0 => db.status[l] = "Done" /\ Line(l) \in locks[x]
    BY <1>3, <2>4 DEF Validates, Asked, AskedLots, Proposed, Exists
  <2> HIDE DEF d
  <2>6. d.sol \in [SOs -> [Lots -> Nat]]
    BY <1>0, <1>1, <2>2, <2>3
  <2>7. d.sol[r.so] = r.want /\ \A s \in SOs \ {r.so} : d.sol[s] = db.sol[s]
    BY <1>0, <1>1, <2>2
  <2>8. \A s \in SOs, l \in Lots : d.sol[s][l] > 0 => d.status[l] # "none"
    BY <1>1, <2>2, <2>5, <2>7
  <2>9. Consistent(d)
    BY <1>1, <2>2, <2>6, <2>8 DEF Consistent, Fields
  <2>10. ASSUME NEW l \in Lots, NEW s \in SOs, Exists(l), Line(l) \notin locks[x],
                d.soStatus[s] \in Committed, d.sol[s][l] > 0
         PROVE  db.soStatus[s] \in Committed /\ d.sol[s][l] <= db.sol[s][l]
    BY <1>1, <2>2, <2>5, <2>7, <2>10
  <2>11. \A s \in SOs : SO(s) \notin locks[x] => d.soStatus[s] = db.soStatus[s] /\ d.sol[s] = db.sol[s]
    BY <1>0, <2>2, <2>7
  <2>12. Frame(x, r, d)
    BY <2>2, <2>9, <2>10, <2>11 DEF Frame
  <2> QED
    BY <2>12 DEF d
<1>4. CASE r.op = "done"
  <2> DEFINE S == Named(r.so)
  <2>1. /\ DOMAIN d = Fields /\ d.on = db.on /\ d.sol = db.sol /\ d.toStatus = db.toStatus
        /\ d.soStatus = [db.soStatus EXCEPT ![r.so] = "Done"]
        /\ d.status = Restatus(S, [l \in Lots |-> IF SoldOut(r.so, l) THEN "Sold" ELSE db.status[l]])
        /\ d.qty = [l \in Lots |-> IF l \in S /\ ~SoldOut(r.so, l)
                                   THEN db.qty[l] - db.sol[r.so][l] ELSE db.qty[l]]
    BY <1>1, <1>4 DEF Written, Fields
  <2>2. S \subseteq Lots /\ \A l \in S : Exists(l) /\ Line(l) \in locks[x]
    BY <1>4 DEF Ready, Named
  <2> HIDE DEF d, S
  <2>3. \A l \in Lots :
          d.status[l] = IF l \in S /\ SoldOut(r.so, l) THEN "Sold" ELSE db.status[l]
    BY <2>1 DEF Restatus
  <2>4. d.status \in [Lots -> Statuses]
    <3>1. d.status = [l \in Lots |-> d.status[l]]
      BY <2>1 DEF Restatus
    <3>2. \A l \in Lots : d.status[l] \in Statuses
      BY <1>1, <2>3 DEF Statuses
    <3> QED
      BY <3>1, <3>2
  <2>5. d.qty \in [Lots -> Nat]
    <3>1. \A l \in Lots : ~SoldOut(r.so, l) => db.qty[l] - db.sol[r.so][l] \in Nat
      BY <1>0, <1>1 DEF SoldOut
    <3> QED
      BY <1>1, <2>1, <3>1
  <2>6. d.soStatus \in [SOs -> {"Draft", "Shipped", "Done"}]
    BY <1>1, <2>1
  <2>7. \A s \in SOs, l \in Lots : d.sol[s][l] > 0 => d.status[l] # "none"
    BY <1>1, <2>1, <2>3
  <2>8. Consistent(d)
    BY <1>1, <2>1, <2>4, <2>5, <2>6, <2>7 DEF Consistent, Fields
  <2>9. \A s \in SOs : d.soStatus[s] = IF s = r.so THEN "Done" ELSE db.soStatus[s]
    BY <1>1, <2>1
  <2>10. ASSUME NEW l \in Lots, NEW s \in SOs, d.soStatus[s] \in Committed
         PROVE  db.soStatus[s] \in Committed /\ d.sol[s][l] <= db.sol[s][l]
    BY <1>1, <2>1, <2>9, <2>10 DEF Committed
  <2>11. \A l \in Lots : Line(l) \notin locks[x] => d.status[l] = db.status[l] /\ d.qty[l] = db.qty[l]
    BY <2>1, <2>2, <2>3
  <2>12. \A s \in SOs : SO(s) \notin locks[x] => d.soStatus[s] = db.soStatus[s] /\ d.sol[s] = db.sol[s]
    BY <1>0, <2>1, <2>9
  <2>13. \A l \in Lots : /\ db.status[l] = "deleted" => d.status[l] = "deleted"
                         /\ db.status[l] # "none" => d.status[l] # "none"
                         /\ db.status[l] = "none" => d.status[l] = "none"
    BY <2>2, <2>3 DEF Exists
  <2>14. Frame(x, r, d)
    BY <2>1, <2>8, <2>10, <2>11, <2>12, <2>13 DEF Frame
  <2> QED
    BY <2>14 DEF d
<1>5. CASE r.op = "unsell"
  <2> DEFINE S == Named(r.so)
  <2>1. /\ DOMAIN d = Fields /\ d.on = db.on /\ d.sol = db.sol /\ d.toStatus = db.toStatus
        /\ d.soStatus = [db.soStatus EXCEPT ![r.so] = "Shipped"]
        /\ d.status = Restatus(S, All("Done"))
        /\ d.qty = [l \in Lots |-> IF l \notin S THEN db.qty[l]
                                   ELSE db.sol[r.so][l] + IF db.status[l] = "Sold" THEN 0 ELSE db.qty[l]]
    BY <1>1, <1>5 DEF Written, Fields
  <2>2. S \subseteq Lots /\ \A l \in S : Exists(l) /\ Line(l) \in locks[x]
    BY <1>5 DEF Ready, Named
  <2>3. \A l \in Lots : l \in S <=> db.sol[r.so][l] > 0 /\ Exists(l)
    BY DEF Named
  <2> HIDE DEF d, S
  <2>4. \A l \in Lots : d.status[l] = IF l \in S THEN "Done" ELSE db.status[l]
    BY <2>1 DEF Restatus, All
  <2>5. d.status \in [Lots -> Statuses]
    <3>1. d.status = [l \in Lots |-> d.status[l]]
      BY <2>1 DEF Restatus
    <3>2. \A l \in Lots : d.status[l] \in Statuses
      BY <1>1, <2>4 DEF Statuses
    <3> QED
      BY <3>1, <3>2
  <2>6. d.qty \in [Lots -> Nat]
    <3>1. \A l \in Lots : db.qty[l] \in Nat /\ db.sol[r.so][l] \in Nat
      BY <1>0, <1>1
    <3> QED
      BY <2>1, <3>1
  <2>7. d.soStatus \in [SOs -> {"Draft", "Shipped", "Done"}]
    BY <1>1, <2>1
  <2>8. \A s \in SOs, l \in Lots : d.sol[s][l] > 0 => d.status[l] # "none"
    BY <1>1, <2>1, <2>4
  <2>9. Consistent(d)
    BY <1>1, <2>1, <2>5, <2>6, <2>7, <2>8 DEF Consistent, Fields
  <2>10. \A s \in SOs : d.soStatus[s] = IF s = r.so THEN "Shipped" ELSE db.soStatus[s]
    BY <1>1, <2>1
  <2>11. ASSUME NEW l \in Lots, NEW s \in SOs, Exists(l), Line(l) \notin locks[x],
                d.soStatus[s] \in Committed, d.sol[s][l] > 0
         PROVE  db.soStatus[s] \in Committed /\ d.sol[s][l] <= db.sol[s][l]
    <3>1. s # r.so
      BY <2>1, <2>2, <2>3, <2>11
    <3> QED
      BY <1>1, <2>1, <2>10, <2>11, <3>1
  <2>12. \A l \in Lots : Line(l) \notin locks[x] => d.status[l] = db.status[l] /\ d.qty[l] = db.qty[l]
    BY <2>1, <2>2, <2>4
  <2>13. \A s \in SOs : SO(s) \notin locks[x] => d.soStatus[s] = db.soStatus[s] /\ d.sol[s] = db.sol[s]
    BY <1>0, <2>1, <2>10
  <2>14. \A l \in Lots : /\ db.status[l] = "deleted" => d.status[l] = "deleted"
                         /\ db.status[l] # "none" => d.status[l] # "none"
                         /\ db.status[l] = "none" => d.status[l] = "none"
    BY <2>2, <2>4 DEF Exists
  <2>15. Frame(x, r, d)
    BY <2>1, <2>9, <2>11, <2>12, <2>13, <2>14 DEF Frame
  <2> QED
    BY <2>15 DEF d
<1> QED
  BY <1>2, <1>3, <1>4, <1>5 DEF SellAsks

LEMMA OrderFrames ==
  ASSUME Consistent(db), NEW x, NEW r \in Requests, r.op \in OrderAsks, Ready(x, r)
  PROVE  Frame(x, r, Written(x, r))
<1> DEFINE d == Written(x, r)
           S == Taken(x, r)
<1>1. /\ DOMAIN db = Fields /\ db.status \in [Lots -> Statuses] /\ db.qty \in [Lots -> Nat]
      /\ db.on \in [Lots -> TOs \cup {NULL}]
      /\ db.soStatus \in [SOs -> {"Draft", "Shipped", "Done"}]
      /\ db.sol \in [SOs -> [Lots -> Nat]] /\ DOMAIN db.toStatus = TOs
      /\ \A s \in SOs, l \in Lots : db.sol[s][l] > 0 => db.status[l] # "none"
  BY FieldsTyped
<1>2. S \subseteq Lots /\ \A l \in S : Exists(l) /\ Line(l) \in locks[x]
  BY DEF Taken, Leaving, LinesOf
<1>3. CASE r.op = "archive"
  <2> DEFINE gone(s, l) == l \in LinesOf(r.po) /\ db.status[l] # "Sold" /\ Strips(x, s)
  <2>1. /\ DOMAIN d = Fields /\ d.qty = db.qty /\ d.on = db.on /\ d.soStatus = db.soStatus
        /\ d.toStatus = db.toStatus /\ d.status = Restatus(S, All("Archived"))
        /\ d.sol = [s \in SOs |-> [l \in Lots |-> IF gone(s, l) THEN 0 ELSE db.sol[s][l]]]
    BY <1>1, <1>3 DEF Written, Fields
  <2>2. \A s \in SOs, l \in Lots : gone(s, l) => SO(s) \in locks[x]
    BY DEF Strips
  <2> HIDE DEF d, S, gone
  <2>3. \A l \in Lots : d.status[l] = IF l \in S THEN "Archived" ELSE db.status[l]
    BY <2>1 DEF Restatus, All
  <2>4. d.status \in [Lots -> Statuses]
    <3>1. d.status = [l \in Lots |-> d.status[l]]
      BY <2>1 DEF Restatus
    <3>2. \A l \in Lots : d.status[l] \in Statuses
      BY <1>1, <2>3 DEF Statuses
    <3> QED
      BY <3>1, <3>2
  <2>5. \A s \in SOs, l \in Lots : d.sol[s][l] = IF gone(s, l) THEN 0 ELSE db.sol[s][l]
    BY <2>1
  <2>6. d.sol \in [SOs -> [Lots -> Nat]]
    BY <1>1, <2>1
  <2>7. \A s \in SOs, l \in Lots : d.sol[s][l] > 0 => d.status[l] # "none"
    BY <1>1, <2>3, <2>5
  <2>8. Consistent(d)
    BY <1>1, <2>1, <2>4, <2>6, <2>7 DEF Consistent, Fields
  <2>9. \A s \in SOs, l \in Lots : d.sol[s][l] <= db.sol[s][l]
    BY <1>1, <2>5
  <2>10. ASSUME NEW s \in SOs, SO(s) \notin locks[x]
         PROVE  d.sol[s] = db.sol[s]
    <3>1. d.sol[s] = [l \in Lots |-> db.sol[s][l]]
      BY <2>1, <2>2, <2>10
    <3> QED
      BY <1>1, <3>1
  <2>11. \A l \in Lots : /\ db.status[l] = "deleted" => d.status[l] = "deleted"
                         /\ db.status[l] # "none" => d.status[l] # "none"
                         /\ db.status[l] = "none" => d.status[l] = "none"
                         /\ Line(l) \notin locks[x] => d.status[l] = db.status[l]
    BY <1>2, <2>3 DEF Exists
  <2>12. Frame(x, r, d)
    BY <2>1, <2>8, <2>9, <2>10, <2>11 DEF Frame
  <2> QED
    BY <2>12 DEF d
<1>4. CASE r.op = "cascade"
  <2>1. /\ DOMAIN d = Fields /\ d.qty = db.qty /\ d.on = db.on /\ d.soStatus = db.soStatus
        /\ d.toStatus = db.toStatus /\ d.status = Restatus(S, All(r.stage)) /\ d.sol = db.sol
    BY <1>1, <1>4 DEF Written, Fields
  <2>2. r.stage \in Statuses \ {"none"}
    BY <1>4, Asks DEF WellFormed, Statuses
  <2> HIDE DEF d, S
  <2>3. \A l \in Lots : d.status[l] = IF l \in S THEN r.stage ELSE db.status[l]
    BY <2>1 DEF Restatus, All
  <2>4. d.status \in [Lots -> Statuses]
    <3>1. d.status = [l \in Lots |-> d.status[l]]
      BY <2>1 DEF Restatus
    <3>2. \A l \in Lots : d.status[l] \in Statuses
      BY <1>1, <2>2, <2>3
    <3> QED
      BY <3>1, <3>2
  <2>5. \A l \in Lots : /\ ~Exists(l) => d.status[l] = db.status[l]
                        /\ Exists(l) => d.status[l] # "none"
                        /\ Line(l) \notin locks[x] => d.status[l] = db.status[l]
    BY <1>2, <2>2, <2>3 DEF Exists
  <2>6. Frame(x, r, d)
    BY <1>1, <2>1, <2>4, <2>5, LinesFrame
  <2> QED
    BY <2>6 DEF d
<1>5. CASE r.op = "recount"
  <2>1. /\ DOMAIN d = Fields /\ d.status = db.status /\ d.on = db.on /\ d.soStatus = db.soStatus
        /\ d.toStatus = db.toStatus /\ d.sol = db.sol
        /\ d.qty = [l \in Lots |-> IF l \in r.lots THEN r.units ELSE db.qty[l]]
    BY <1>1, <1>5 DEF Written, Fields
  <2>2. r.units \in Nat /\ \A l \in r.lots : Line(l) \in locks[x]
    BY <1>5, Asks DEF WellFormed, Ready
  <2> HIDE DEF d
  <2>3. d.qty \in [Lots -> Nat] /\ \A l \in Lots : Line(l) \notin locks[x] => d.qty[l] = db.qty[l]
    BY <1>1, <2>1, <2>2
  <2>4. Frame(x, r, d)
    BY <1>1, <2>1, <2>3, LinesFrame DEF Exists
  <2> QED
    BY <2>4 DEF d
<1> QED
  BY <1>3, <1>4, <1>5 DEF OrderAsks

LEMMA TotalOfNone ==
  ASSUME NEW n
  PROVE  Total(n, {}) = 0
<1>1. Units(n, {}) = {}
  BY DEF Units
<1> QED
  BY <1>1, FS_EmptySet DEF Total

LEMMA MoveFrames ==
  ASSUME Consistent(db), NEW x, NEW r \in Requests, r.op \in MoveAsks, Ready(x, r)
  PROVE  Frame(x, r, Written(x, r))
<1> DEFINE d == Written(x, r)
<1>0. r.to \in TOs
  BY Asks
<1>1. /\ DOMAIN db = Fields /\ db.status \in [Lots -> Statuses] /\ db.qty \in [Lots -> Nat]
      /\ db.on \in [Lots -> TOs \cup {NULL}]
      /\ db.soStatus \in [SOs -> {"Draft", "Shipped", "Done"}]
      /\ db.sol \in [SOs -> [Lots -> Nat]] /\ DOMAIN db.toStatus = TOs
      /\ \A s \in SOs, l \in Lots : db.sol[s][l] > 0 => db.status[l] # "none"
  BY FieldsTyped
<1>3. \A l \in Lots : Landing[l] \in {"Done", "Archived"}
  BY DEF Landing
<1>4. CASE r.op = "move"
  <2> DEFINE S == r.lots
             t == r.to
  <2>1. /\ DOMAIN d = Fields /\ d.qty = db.qty /\ d.soStatus = db.soStatus /\ d.sol = db.sol
        /\ d.toStatus = [db.toStatus EXCEPT ![t] = "Pending"]
        /\ d.status = Restatus(S, All("In Transit"))
        /\ d.on = [l \in Lots |-> IF l \in S THEN t ELSE db.on[l]]
    BY <1>1, <1>4 DEF Written, Fields
  <2>2. /\ S \in SUBSET Lots /\ LineAllows(r) /\ \A l \in S : Line(l) \in locks[x]
        /\ Moves(r)
    BY <1>4, Asks DEF Ready, Moves
  <2>3. \A l \in S : Exists(l) /\ Line(l) \in locks[x] /\ All("In Transit")[l] \in Statuses \ {"none"}
    BY <2>2 DEF LineAllows, All, Statuses
  <2> HIDE DEF d, S, t
  <2>4. /\ d.status \in [Lots -> Statuses]
        /\ \A l \in Lots : /\ ~Exists(l) => d.status[l] = db.status[l]
                           /\ Exists(l) => d.status[l] # "none"
                           /\ Line(l) \notin locks[x] => d.status[l] = db.status[l]
    <3>1. /\ d.status = [l \in Lots |-> d.status[l]]
          /\ \A l \in Lots : d.status[l] = IF l \in S THEN All("In Transit")[l] ELSE db.status[l]
      BY <2>1 DEF Restatus
    <3>2. \A l \in S : Exists(l) /\ Line(l) \in locks[x] /\ d.status[l] \in Statuses \ {"none"}
      BY <2>2, <2>3, <3>1
    <3>3. \A l \in Lots \ S : d.status[l] = db.status[l]
      BY <3>1
    <3>4. \A l \in Lots : db.status[l] \in Statuses /\ (Exists(l) => db.status[l] # "none")
      BY <1>1 DEF Exists
    <3>5. \A l \in Lots : d.status[l] \in Statuses
      BY <3>2, <3>3, <3>4
    <3>6. d.status \in [Lots -> Statuses]
      BY <3>1, <3>5
    <3> QED
      BY <3>2, <3>3, <3>4, <3>6
  <2>5. d.on \in [Lots -> TOs \cup {NULL}] /\ \A l \in Lots : d.on[l] = db.on[l] \/ d.on[l] = t
    <3>1. d.on = [l \in Lots |-> d.on[l]] /\ \A l \in Lots : d.on[l] = IF l \in S THEN t ELSE db.on[l]
      BY <2>1
    <3>2. t \in TOs /\ \A l \in Lots : db.on[l] \in TOs \cup {NULL}
      BY <1>0, <1>1 DEF t
    <3>3. \A l \in Lots : d.on[l] \in TOs \cup {NULL}
      BY <3>1, <3>2
    <3> QED
      BY <3>1, <3>3
  <2>6. DOMAIN d.toStatus = TOs /\ \A u \in TOs : d.toStatus[u] = db.toStatus[u]
                                                  \/ (u = t /\ d.toStatus[u] = "Pending")
    BY <1>1, <2>1
  <2>7. Frame(x, r, d)
    BY <1>1, <2>1, <2>2, <2>4, <2>5, <2>6, LinesFrame DEF t
  <2> QED
    BY <2>7 DEF d
<1>5. CASE r.op = "split"
  <2> DEFINE S == r.lots
             t == r.to
             c == r.clone
  <2>1. /\ DOMAIN d = Fields /\ d.soStatus = db.soStatus /\ d.sol = db.sol
        /\ d.toStatus = [db.toStatus EXCEPT ![t] = "Pending"]
        /\ d.status = [db.status EXCEPT ![c] = "In Transit"]
        /\ d.on = [db.on EXCEPT ![c] = t]
        /\ d.qty = [l \in Lots |-> IF l \in S THEN db.qty[l] - 1
                                   ELSE IF l = c THEN 1 ELSE db.qty[l]]
    BY <1>1, <1>5 DEF Written, Fields
  <2>2. /\ S \subseteq Lots /\ LineAllows(r) /\ \A l \in S : Line(l) \in locks[x]
        /\ Splits(r) /\ Moves(r) /\ c \in Lots /\ db.status[c] = "none"
    BY <1>5, Asks DEF Ready, Moves, Splits
  <2>3. \A l \in S : db.qty[l] > 1
    BY <1>5, <2>2 DEF LineAllows
  <2> HIDE DEF d, S, t, c
  <2>4. \A l \in Lots : d.status[l] = IF l = c THEN "In Transit" ELSE db.status[l]
    BY <1>1, <2>1
  <2>5. d.status \in [Lots -> Statuses]
    BY <1>1, <2>1, <2>2 DEF Statuses
  <2>6. d.qty \in [Lots -> Nat]
    <3>1. /\ d.qty = [l \in Lots |-> d.qty[l]]
          /\ \A l \in Lots : d.qty[l] = IF l \in S THEN db.qty[l] - 1 ELSE IF l = c THEN 1 ELSE db.qty[l]
      BY <2>1
    <3>2. \A l \in Lots : db.qty[l] \in Nat /\ (l \in S => db.qty[l] > 1)
      BY <1>1, <2>3
    <3>3. \A l \in Lots : d.qty[l] \in Nat
      BY <3>1, <3>2
    <3> QED
      BY <3>1, <3>3
  <2>7. d.on \in [Lots -> TOs \cup {NULL}] /\ d.on[c] = t
        /\ \A l \in Lots : d.on[l] = db.on[l] \/ d.on[l] = t
    <3>1. DOMAIN db.on = Lots /\ \A l \in Lots : db.on[l] \in TOs \cup {NULL}
      BY <1>1
    <3>2. d.on = [l \in Lots |-> d.on[l]] /\ \A l \in Lots : d.on[l] = IF l = c THEN t ELSE db.on[l]
      BY <2>1, <3>1
    <3>3. t \in TOs /\ c \in Lots
      BY <1>0, <2>2 DEF t
    <3>4. \A l \in Lots : d.on[l] \in TOs \cup {NULL}
      BY <3>1, <3>2, <3>3
    <3> QED
      BY <3>2, <3>3, <3>4
  <2>8. DOMAIN d.toStatus = TOs /\ \A u \in TOs : d.toStatus[u] = db.toStatus[u]
                                                  \/ (u = t /\ d.toStatus[u] = "Pending")
    BY <1>1, <2>1
  <2>9. \A s \in SOs, l \in Lots : d.sol[s][l] > 0 => d.status[l] # "none"
    BY <1>1, <2>1, <2>4
  <2>10. Consistent(d)
    BY <1>1, <2>1, <2>5, <2>6, <2>7, <2>8, <2>9 DEF Consistent, Fields
  <2>11. \A l \in Lots : /\ db.status[l] # "none" => d.status[l] = db.status[l]
                         /\ db.status[l] # "none" /\ Line(l) \notin locks[x] => d.qty[l] = db.qty[l]
                         /\ db.status[l] = "none" /\ d.status[l] # "none" => l = c
    <3>1. \A l \in Lots : d.qty[l] = IF l \in S THEN db.qty[l] - 1 ELSE IF l = c THEN 1 ELSE db.qty[l]
      BY <2>1
    <3>2. \A l \in Lots : db.status[l] # "none" => l # c
      BY <2>2
    <3> QED
      BY <2>2, <2>4, <3>1, <3>2
  <2>12. \A s \in SOs, l \in Lots : d.sol[s][l] <= db.sol[s][l]
    <3>1. \A s \in SOs, l \in Lots : db.sol[s][l] \in Nat
      BY <1>1
    <3>2. d.sol = db.sol
      BY <2>1
    <3> QED
      BY <3>1, <3>2
  <2>13. Frame(x, r, d)
    BY <2>1, <2>2, <2>7, <2>8, <2>10, <2>11, <2>12 DEF Frame, t, c
  <2> QED
    BY <2>13 DEF d
<1>6. CASE r.op = "receive"
  <2> DEFINE S == {l \in LinesOn(r.to) : db.status[l] = "In Transit"}
  <2>1. /\ DOMAIN d = Fields /\ d.qty = db.qty /\ d.soStatus = db.soStatus /\ d.sol = db.sol
        /\ d.on = db.on /\ d.toStatus = [db.toStatus EXCEPT ![r.to] = "Received"]
        /\ d.status = Restatus(S, Landing)
    BY <1>1, <1>6 DEF Written, Fields
  <2>2. db.toStatus[r.to] # "none" /\ \A l \in LinesOn(r.to) : Line(l) \in locks[x]
    BY <1>6 DEF Ready
  <2>3. /\ S \in SUBSET Lots
        /\ \A l \in S : Exists(l) /\ Line(l) \in locks[x] /\ Landing[l] \in Statuses \ {"none"}
    BY <1>3, <2>2 DEF LinesOn, Statuses
  <2> HIDE DEF d, S
  <2>4. /\ d.status \in [Lots -> Statuses]
        /\ \A l \in Lots : /\ ~Exists(l) => d.status[l] = db.status[l]
                           /\ Exists(l) => d.status[l] # "none"
                           /\ Line(l) \notin locks[x] => d.status[l] = db.status[l]
    <3>1. /\ d.status = [l \in Lots |-> d.status[l]]
          /\ \A l \in Lots : d.status[l] = IF l \in S THEN Landing[l] ELSE db.status[l]
      BY <2>1 DEF Restatus
    <3>2. \A l \in S : Exists(l) /\ Line(l) \in locks[x] /\ d.status[l] \in Statuses \ {"none"}
      BY <2>2, <2>3, <3>1
    <3>3. \A l \in Lots \ S : d.status[l] = db.status[l]
      BY <3>1
    <3>4. \A l \in Lots : db.status[l] \in Statuses /\ (Exists(l) => db.status[l] # "none")
      BY <1>1 DEF Exists
    <3>5. \A l \in Lots : d.status[l] \in Statuses
      BY <3>2, <3>3, <3>4
    <3>6. d.status \in [Lots -> Statuses]
      BY <3>1, <3>5
    <3> QED
      BY <3>2, <3>3, <3>4, <3>6
  <2>5. DOMAIN d.toStatus = TOs /\ \A t \in TOs : d.toStatus[t] = db.toStatus[t]
                                                  \/ (t = r.to /\ d.toStatus[t] = "Received")
    BY <1>1, <2>1
  <2>6. Frame(x, r, d)
    BY <1>1, <2>1, <2>2, <2>4, <2>5, LinesFrame
  <2> QED
    BY <2>6 DEF d
<1>7. CASE r.op = "reopen"
  <2> DEFINE S == LinesOn(r.to)
  <2>1. /\ DOMAIN d = Fields /\ d.qty = db.qty /\ d.soStatus = db.soStatus /\ d.sol = db.sol
        /\ d.on = db.on /\ d.toStatus = [db.toStatus EXCEPT ![r.to] = "Pending"]
        /\ d.status = Restatus(S, All("In Transit"))
    BY <1>1, <1>7 DEF Written, Fields
  <2>2. db.toStatus[r.to] # "none" /\ \A l \in LinesOn(r.to) : Line(l) \in locks[x]
    BY <1>7 DEF Ready
  <2>3. /\ S \in SUBSET Lots
        /\ \A l \in S : Exists(l) /\ Line(l) \in locks[x] /\ All("In Transit")[l] \in Statuses \ {"none"}
    BY <2>2 DEF LinesOn, All, Statuses
  <2> HIDE DEF d, S
  <2>4. /\ d.status \in [Lots -> Statuses]
        /\ \A l \in Lots : /\ ~Exists(l) => d.status[l] = db.status[l]
                           /\ Exists(l) => d.status[l] # "none"
                           /\ Line(l) \notin locks[x] => d.status[l] = db.status[l]
    <3>1. /\ d.status = [l \in Lots |-> d.status[l]]
          /\ \A l \in Lots : d.status[l] = IF l \in S THEN All("In Transit")[l] ELSE db.status[l]
      BY <2>1 DEF Restatus
    <3>2. \A l \in S : Exists(l) /\ Line(l) \in locks[x] /\ d.status[l] \in Statuses \ {"none"}
      BY <2>2, <2>3, <3>1
    <3>3. \A l \in Lots \ S : d.status[l] = db.status[l]
      BY <3>1
    <3>4. \A l \in Lots : db.status[l] \in Statuses /\ (Exists(l) => db.status[l] # "none")
      BY <1>1 DEF Exists
    <3>5. \A l \in Lots : d.status[l] \in Statuses
      BY <3>2, <3>3, <3>4
    <3>6. d.status \in [Lots -> Statuses]
      BY <3>1, <3>5
    <3> QED
      BY <3>2, <3>3, <3>4, <3>6
  <2>5. DOMAIN d.toStatus = TOs /\ \A t \in TOs : d.toStatus[t] = db.toStatus[t]
                                                  \/ (t = r.to /\ d.toStatus[t] = "Pending")
    BY <1>1, <2>1
  <2>6. Frame(x, r, d)
    BY <1>1, <2>1, <2>2, <2>4, <2>5, LinesFrame
  <2> QED
    BY <2>6 DEF d
<1>8. CASE r.op = "discard"
  <2> DEFINE S == LinesOn(r.to)
             M == Merged(x, r.to)
             to == [l \in Lots |-> IF l \in M THEN "deleted" ELSE Landing[l]]
  <2>1. /\ DOMAIN d = Fields /\ d.soStatus = db.soStatus /\ d.sol = db.sol
        /\ d.toStatus = [db.toStatus EXCEPT ![r.to] = "discarded"]
        /\ d.status = Restatus(S, to)
        /\ d.on = [l \in Lots |-> IF l \in S THEN NULL ELSE db.on[l]]
        /\ d.qty = [l \in Lots |-> db.qty[l] + Total(db.qty, {k \in M : PeerOf[k] = l})]
    BY <1>1, <1>8 DEF Written, Fields
  <2>2. db.toStatus[r.to] # "none" /\ \A l \in LinesOn(r.to) : Line(l) \in locks[x]
    BY <1>8 DEF Ready
  <2>3. /\ S \in SUBSET Lots
        /\ \A l \in S : Exists(l) /\ Line(l) \in locks[x] /\ to[l] \in Statuses \ {"none"}
    BY <1>3, <2>2 DEF LinesOn, Statuses
  <2>4. M \subseteq Lots /\ \A k \in M : Line(PeerOf[k]) \in locks[x]
    BY DEF Merged, LinesOn
  <2> HIDE DEF d, S, M, to
  <2>5. /\ d.status \in [Lots -> Statuses]
        /\ \A l \in Lots : /\ ~Exists(l) => d.status[l] = db.status[l]
                           /\ Exists(l) => d.status[l] # "none"
                           /\ Line(l) \notin locks[x] => d.status[l] = db.status[l]
    <3>1. /\ d.status = [l \in Lots |-> d.status[l]]
          /\ \A l \in Lots : d.status[l] = IF l \in S THEN to[l] ELSE db.status[l]
      BY <2>1 DEF Restatus
    <3>2. \A l \in S : Exists(l) /\ Line(l) \in locks[x] /\ d.status[l] \in Statuses \ {"none"}
      BY <2>2, <2>3, <3>1
    <3>3. \A l \in Lots \ S : d.status[l] = db.status[l]
      BY <3>1
    <3>4. \A l \in Lots : db.status[l] \in Statuses /\ (Exists(l) => db.status[l] # "none")
      BY <1>1 DEF Exists
    <3>5. \A l \in Lots : d.status[l] \in Statuses
      BY <3>2, <3>3, <3>4
    <3>6. d.status \in [Lots -> Statuses]
      BY <3>1, <3>5
    <3> QED
      BY <3>2, <3>3, <3>4, <3>6
  <2>6. ASSUME NEW l \in Lots
        PROVE  /\ d.qty[l] \in Nat
               /\ Line(l) \notin locks[x] => d.qty[l] = db.qty[l]
    <3> DEFINE K == {k \in M : PeerOf[k] = l}
    <3>1. IsFiniteSet(K) /\ \A k \in K : db.qty[k] \in Nat
      <4>1. K \subseteq Lots /\ IsFiniteSet(Lots)
        BY <2>4, LocksAssumption DEF LocksAssumption
      <4> QED
        BY <1>1, <4>1, FS_Subset
    <3>2. Line(l) \notin locks[x] => K = {}
      BY <2>4
    <3>3. d.qty[l] = db.qty[l] + Total(db.qty, K) /\ db.qty[l] \in Nat
      BY <1>1, <2>1
    <3> HIDE DEF K
    <3>4. Total(db.qty, K) \in Nat
      BY <3>1, TotalNat
    <3>5. K = {} => Total(db.qty, K) = 0
      BY TotalOfNone
    <3> QED
      BY <3>2, <3>3, <3>4, <3>5
  <2>7. d.qty \in [Lots -> Nat]
    <3>1. d.qty = [l \in Lots |-> d.qty[l]]
      BY <2>1
    <3> QED
      BY <2>6, <3>1
  <2>8. d.on \in [Lots -> TOs \cup {NULL}] /\ \A l \in Lots : d.on[l] \in {db.on[l], NULL}
    BY <1>1, <2>1
  <2>9. DOMAIN d.toStatus = TOs /\ \A t \in TOs : d.toStatus[t] = db.toStatus[t]
                                                  \/ (t = r.to /\ d.toStatus[t] = "discarded")
    BY <1>1, <2>1
  <2>10. Frame(x, r, d)
    BY <2>1, <2>2, <2>5, <2>6, <2>7, <2>8, <2>9, LinesFrame
  <2> QED
    BY <2>10 DEF d
<1> QED
  BY <1>4, <1>5, <1>6, <1>7, <1>8 DEF MoveAsks

LEMMA CommitFrames ==
  ASSUME LocksInv, NEW x \in Txs, Commit(x), NEW r, r = req[x]
  PROVE  r \in Requests /\ Ready(x, r) /\ db' = Written(x, r) /\ Frame(x, r, db')
<1>1. r \in Requests /\ Ready(x, r) /\ db' = Written(x, r) /\ Consistent(db)
  BY CommitReady DEF Commit, LocksInv
<1> QED
  BY <1>1, Asks, SaleFrames, OrderFrames, MoveFrames

(* A commit spares the others.                                                *)
LEMMA CommitSpares ==
  ASSUME LocksInv, NEW x \in Txs, Commit(x), NEW z \in Txs \ {x}
  PROVE  Spares(z)
<1> DEFINE r == req[x]
<1>1. r \in Requests /\ Ready(x, r) /\ Frame(x, r, db')
  BY CommitFrames
<1>2. locks[x] \cap locks[z] = {} /\ OwnNew(x, z) /\ r # NULL /\ TxOK(z)
  BY <1>1, Asks DEF LocksInv
<1>3. Splits(r) => Moves(r)
  BY DEF Splits, Moves
<1>4. Moves(r) => db.toStatus[r.to] = "none"
  BY <1>1 DEF Ready
<1> HIDE DEF r
<1>6. \A l \in Lots : /\ db.status[l] = "deleted" => db'.status[l] = "deleted"
                      /\ db.status[l] # "none" => db'.status[l] # "none"
                      /\ db.status[l] # "none" /\ Line(l) \in locks[z] =>
                           db'.status[l] = db.status[l] /\ db'.qty[l] = db.qty[l]
  BY <1>1, <1>2 DEF Frame
<1>7. req[z] # NULL
      => \A l \in Lots : db.status[l] = "none" /\ Splits(req[z]) /\ req[z].clone = l => db'.status[l] = "none"
  BY <1>1, <1>2 DEF Frame, OwnNew, r
<1>8. \A s \in SOs : SO(s) \in locks[z] => db'.soStatus[s] = db.soStatus[s] /\ db'.sol[s] = db.sol[s]
  BY <1>1, <1>2 DEF Frame
<1>9. \A l \in Lots, s \in SOs :
        Exists(l) /\ Line(l) \in locks[z] /\ db'.soStatus[s] \in Committed /\ db'.sol[s][l] > 0 =>
          db.soStatus[s] \in Committed /\ db'.sol[s][l] <= db.sol[s][l]
  BY <1>1, <1>2 DEF Frame
<1>10. ASSUME NEW t \in TOs, db.toStatus[t] # "none", NEW l \in Lots, Exists(l)', db'.on[l] = t
       PROVE  Exists(l) /\ db.on[l] = t
  <2>1. t # NULL
    BY LocksAssumption DEF LocksAssumption
  <2>2. Moves(r) => t # r.to
    BY <1>4, <1>10
  <2>3. db.status[l] # "none"
    BY <1>1, <1>3, <1>10, <2>2 DEF Frame, Exists
  <2>4. Exists(l)
    BY <1>6, <1>10, <2>3 DEF Exists
  <2> QED
    BY <1>1, <1>10, <2>1, <2>2, <2>4 DEF Frame
<1>11. \A t \in TOs : db.toStatus[t] # "none" => db'.toStatus[t] # "none"
  BY <1>1 DEF Frame
<1>12. req[z] # NULL
       => \A t \in TOs : db.toStatus[t] = "none" /\ Moves(req[z]) /\ req[z].to = t => db'.toStatus[t] = "none"
  BY <1>1, <1>2 DEF Frame, OwnNew, r
<1> QED
  BY <1>6, <1>7, <1>8, <1>9, <1>10, <1>11, <1>12 DEF Spares

----------------------------------------------------------------------------
(* A transaction that ends leaves the others as they were.                    *)
LEMMA EndKeeps ==
  ASSUME LocksInv, NEW x \in Txs, End(x), Consistent(db)', \A z \in Txs \ {x} : Spares(z)
  PROVE  LocksInv'
<1>1. /\ DOMAIN req' = Txs /\ DOMAIN left' = Txs /\ DOMAIN want' = Txs /\ DOMAIN locks' = Txs
      /\ req'[x] = NULL /\ left'[x] = <<>> /\ want'[x] = <<>> /\ locks'[x] = {}
      /\ \A z \in Txs \ {x} : /\ req'[z] = req[z] /\ left'[z] = left[z] /\ want'[z] = want[z]
                              /\ locks'[z] = locks[z]
  BY DEF LocksInv, End
<1>2. TxOK(x)'
  BY <1>1 DEF TxOK
<1>3. ASSUME NEW z \in Txs \ {x} PROVE TxOK(z)'
  <2>1. Consistent(db) /\ TxOK(z) /\ Spares(z)
    BY DEF LocksInv
  <2> QED
    BY <1>1, <2>1, SparedOK
<1>4. ASSUME NEW y \in Txs, NEW z \in Txs, y # z
      PROVE  locks'[y] \cap locks'[z] = {} /\ OwnNew(y, z)'
  <2>1. CASE y = x \/ z = x
    BY <1>1, <2>1 DEF OwnNew
  <2>2. CASE y # x /\ z # x
    <3>1. locks[y] \cap locks[z] = {} /\ OwnNew(y, z)
      BY <1>4 DEF LocksInv
    <3>2. /\ req'[y] = req[y] /\ req'[z] = req[z]
          /\ locks'[y] = locks[y] /\ locks'[z] = locks[z]
      BY <1>1, <2>2
    <3> QED
      BY <3>1, <3>2 DEF OwnNew
  <2> QED
    BY <2>1, <2>2
<1> QED
  BY <1>1, <1>2, <1>3, <1>4 DEF LocksInv

LEMMA CommitKeeps ==
  ASSUME LocksInv, NEW x \in Txs, Commit(x)
  PROVE  LocksInv'
<1>1. Consistent(db)'
  BY CommitFrames DEF Frame
<1>2. \A z \in Txs \ {x} : Spares(z)
  BY CommitSpares
<1> QED
  BY <1>1, <1>2, EndKeeps DEF Commit

LEMMA StopKeeps ==
  ASSUME LocksInv, NEW x \in Txs, End(x), db' = db
  PROVE  LocksInv'
<1>1. Consistent(db) /\ Consistent(db)'
  BY DEF LocksInv
<1> QED
  BY <1>1, SameBooks, EndKeeps

LEMMA InitKeeps == Init => LocksInv
<1> SUFFICES ASSUME Init PROVE LocksInv
  OBVIOUS
<1>1. Consistent(db)
  BY LocksAssumption DEF Init, LocksAssumption
<1>2. \A x \in Txs : TxOK(x)
  BY DEF Init, TxOK
<1>3. \A x, y \in Txs : OwnNew(x, y)
  BY DEF Init, OwnNew
<1>4. \A x, y \in Txs : locks[x] \cap locks[y] = {}
  BY DEF Init
<1> QED
  BY <1>1, <1>2, <1>3, <1>4 DEF Init, LocksInv

LEMMA NextKeeps ==
  ASSUME LocksInv, [Next]_vars
  PROVE  LocksInv'
<1>1. CASE Next
  <2>1. PICK x \in Txs : Serve(x) \/ \E r \in Requests : Begin(x, r)
    BY <1>1 DEF Next
  <2>2. ASSUME NEW r \in Requests, Begin(x, r) PROVE LocksInv'
    BY <2>2, BeginKeeps
  <2>3. CASE Lock(x)
    BY <2>3, LockKeeps
  <2>4. CASE GoOn(x)
    BY <2>4, GoOnKeeps
  <2>5. CASE Commit(x)
    BY <2>5, CommitKeeps
  <2>6. CASE Refuse(x)
    BY <2>6, StopKeeps DEF Refuse
  <2>7. CASE Abort(x)
    BY <2>7, StopKeeps DEF Abort
  <2> QED
    BY <2>1, <2>2, <2>3, <2>4, <2>5, <2>6, <2>7 DEF Serve
<1>2. CASE UNCHANGED vars
  <2>1. ASSUME NEW z \in Txs PROVE TxOK(z)'
    <3>1. /\ TxOK(z) /\ req'[z] = req[z] /\ left'[z] = left[z] /\ want'[z] = want[z]
          /\ locks'[z] = locks[z] /\ Consistent(db) /\ Consistent(db)' /\ db' = db
      BY <1>2 DEF vars, LocksInv
    <3> QED
      BY <3>1, SameBooks, SparedOK
  <2>2. \A y, z \in Txs : OwnNew(y, z)' <=> OwnNew(y, z)
    BY <1>2 DEF vars, OwnNew
  <2> QED
    BY <1>2, <2>1, <2>2 DEF vars, LocksInv
<1> QED
  BY <1>1, <1>2

(* No row is ever locked by two transactions; a transaction holds, in front   *)
(* of an ordered statement, only rows that come before those it waits for;    *)
(* what a transaction has checked still holds, on rows it has locked.         *)
THEOREM LocksInOrder == Spec => []LocksInv
<1>1. Init => LocksInv
  BY InitKeeps
<1>2. LocksInv /\ [Next]_vars => LocksInv'
  BY NextKeeps
<1> QED
  BY <1>1, <1>2, PTL DEF Spec

(* A sale writes totals only of purchase orders it has locked: the orders it  *)
(* picked before it locked itself are read again, and stay the orders of its  *)
(* lots, since no one else can make it name more.                             *)
THEOREM SaleKeepsItsOrders == Spec => SaleHoldsOrders
<1>1. ASSUME LocksInv, [Next]_vars, NEW x \in Txs, Commit(x), req[x].op \in {"done", "unsell"}
      PROVE  \A l \in Named(req[x].so) : PO(PoOf[l]) \in locks[x]
  <2>1. /\ req[x] \in Requests /\ Remains(req[x], left[x]) /\ Knows(x) /\ At(x) = Final(req[x])
    BY <1>1, CommitReady DEF Commit, Judging, LocksInv, TxOK
  <2>2. At(x) \in {"taken", "write"}
    BY <1>1, <2>1 DEF Final
  <2>3. ~ToHeader(x)
    BY <2>1, <2>2, PastHeader
  <2>4. SourcesHeld(x, req[x].so)
    BY <1>1, <2>1, <2>3 DEF Knows, HeaderOK, SellAsks
  <2> QED
    BY <2>4 DEF SourcesHeld
<1>2. LocksInv /\ [Next]_vars =>
        [\A x \in Txs : Commit(x) /\ req[x].op \in {"done", "unsell"} =>
           \A l \in Named(req[x].so) : PO(PoOf[l]) \in locks[x]]_vars
  BY <1>1
<1> QED
  BY <1>2, LocksInOrder, PTL DEF Spec, SaleHoldsOrders

----------------------------------------------------------------------------
(* Waiting in a circle.                                                       *)
LEMMA SmallestSubset ==
  ASSUME NEW S, IsFiniteSet(S), S # {}, NEW A \in [S -> SUBSET S]
  PROVE  \E x \in S : \A y \in S : A[y] \subseteq A[x] => A[y] = A[x]
<1> DEFINE U == {A[x] : x \in S}
<1>1. IsWellFoundedOn(StrictSubsetOrdering(S), SUBSET S)
  BY FS_StrictSubsetOrderingWellFounded, FS_FiniteSubsetsOfFinite
<1>2. U \subseteq SUBSET S /\ U # {}
  OBVIOUS
<1> HIDE DEF U
<1>3. \E a \in U : \A b \in U : ~(<<b, a>> \in StrictSubsetOrdering(S))
  BY <1>1, <1>2, WFMin
<1>4. PICK x \in S : \A b \in U : ~(<<b, A[x]>> \in StrictSubsetOrdering(S))
  BY <1>3 DEF U
<1>5. \A y \in S : A[y] \in U /\ A[y] \in SUBSET S
  BY DEF U
<1> QED
  BY <1>4, <1>5 DEF StrictSubsetOrdering

LEMMA NoOrderedCircle ==
  ASSUME LocksInv
  PROVE  DeadlockNeedsUnordered
<1> SUFFICES ASSUME NEW S \in SUBSET Txs, Deadlocked(S),
                    \A x \in S : Head(left[x]) \notin Unordered
             PROVE  FALSE
  BY DEF DeadlockNeedsUnordered
<1> DEFINE w(x) == Head(want[x])
           A == [x \in S |-> {z \in S : Before(w(x), w(z))}]
<1>1. IsFiniteSet(S) /\ S # {}
  BY FS_Subset, LocksAssumption DEF LocksAssumption, Deadlocked
<1>2. ASSUME NEW x \in S
      PROVE  /\ w(x)[2] \in Nat /\ RowLevel(w(x)) \in Nat
             /\ \A row \in locks[x] : Before(row, w(x))
  <2> DEFINE n == Level(At(x))
  <2>1. want[x] # <<>>
    BY DEF Deadlocked, WaitsFor
  <2>2. InOrder(x) /\ At(x) \notin Loose
    BY <2>1 DEF LocksInv, TxOK, At, Loose
  <2>3. want[x] \in Seq(RowsAt(n)) /\ \A row \in locks[x] : \A i \in 1 .. Len(want[x]) : Before(row, want[x][i])
    BY <2>2 DEF InOrder
  <2> HIDE DEF n
  <2>4. Len(want[x]) \in Nat /\ Len(want[x]) # 0
    BY <2>1, <2>3, EmptySeq
  <2>5. w(x) = want[x][1] /\ 1 \in 1 .. Len(want[x])
    BY <2>3, <2>4
  <2>6. w(x) \in RowsAt(n)
    BY <2>3, <2>5, ElementOfSeq
  <2>7. w(x)[2] \in Nat /\ RowLevel(w(x)) \in Nat
    BY <2>6 DEF RowsAt, Rows, RowLevel
  <2> QED
    BY <2>3, <2>5, <2>7
<1>3. PICK x \in S : \A y \in S : A[y] \subseteq A[x] => A[y] = A[x]
  <2>1. A \in [S -> SUBSET S]
    OBVIOUS
  <2> HIDE DEF A
  <2> QED
    BY <1>1, <2>1, SmallestSubset
<1>4. PICK y \in S : w(x) \in locks[y]
  BY DEF Deadlocked, WaitsFor
<1> HIDE DEF w
<1>5. Before(w(x), w(y))
  BY <1>2, <1>4
<1>6. A[y] \subseteq A[x]
  <2>1. ASSUME NEW z \in S, Before(w(y), w(z)) PROVE Before(w(x), w(z))
    BY <1>2, <1>5, <2>1 DEF Before
  <2> QED
    BY <2>1
<1>7. y \in A[x] /\ y \notin A[y]
  BY <1>2, <1>5 DEF Before
<1> QED
  BY <1>3, <1>6, <1>7

(* Transactions that wait for one another in a circle always have one at a    *)
(* statement that locks rows in no order: the stock writers whose statements  *)
(* all say ORDER BY never deadlock, however many there are.                   *)
THEOREM OrderedNeverDeadlock == Spec => []DeadlockNeedsUnordered
<1>1. LocksInv => DeadlockNeedsUnordered
  BY NoOrderedCircle
<1> QED
  BY <1>1, LocksInOrder, PTL

----------------------------------------------------------------------------
(* What an archive or a stage move knows of the lines it will write.          *)
LEMMA StageSpared ==
  ASSUME Consistent(db), Consistent(db)', NEW z, NEW q, req[z] = q, req'[z] = q,
         left'[z] = left[z], want'[z] = want[z], locks'[z] = locks[z], StageOK(z), Spares(z),
         q.op \in {"archive", "cascade"} => LinesOf(q.po)' \subseteq LinesOf(q.po)
  PROVE  StageOK(z)'
<1> SUFFICES ASSUME q.op \in {"archive", "cascade"} PROVE StageOK(z)'
  BY DEF StageOK
<1>1. At(z)' = At(z) /\ Reach(z)' = Reach(z)
  BY DEF At, Reach
<1>2. LinesOf(q.po)' \subseteq LinesOf(q.po) /\ \A l \in LinesOf(q.po) : l \in Lots /\ Exists(l) /\ db.status[l] # "none"
  BY DEF LinesOf, Exists
<1>3. \A l \in LinesOf(q.po), s \in SOs :
        Line(l) \in locks[z] /\ db'.soStatus[s] \in Committed /\ db'.sol[s][l] > 0 =>
          db.soStatus[s] \in Committed /\ db.sol[s][l] > 0
  <2>1. \A s \in SOs, l \in Lots : db.sol[s][l] \in Nat /\ db'.sol[s][l] \in Nat
    BY BooksTyped
  <2> QED
    BY <1>2, <2>1 DEF Spares
<1>4. \A l \in LinesOf(q.po) : Line(l) \in locks[z] => db'.status[l] = db.status[l]
  BY <1>2 DEF Spares
<1>5. At(z) \in {"stripped", "rest"} => \A l \in LinesOf(q.po) : Line(l) \in locks[z]
  BY DEF StageOK
<1>6. At(z) = "lines" => \A l \in LinesOf(q.po)' : Line(l) \in Reach(z)
  BY <1>2 DEF StageOK
<1>7. At(z) \in {"stripped", "rest"} => \A l \in LinesOf(q.po)' : Line(l) \in locks[z]
  BY <1>2, <1>5
<1>8. ASSUME At(z) = "rest", q.op = "cascade", q.stage = "Draft", NEW l \in LinesOf(q.po)',
             db'.status[l] = "Done"
      PROVE  ~NamedBy(l, Committed)'
  <2>1. l \in LinesOf(q.po) /\ Line(l) \in locks[z] /\ db.status[l] = "Done"
    BY <1>2, <1>4, <1>5, <1>8
  <2>2. ~NamedBy(l, Committed)
    BY <1>8, <2>1 DEF StageOK
  <2> QED
    BY <1>3, <2>1, <2>2 DEF NamedBy
<1>9. ASSUME At(z) \in {"stripped", "rest"}, q.op = "archive", NEW l \in LinesOf(q.po)', NEW s \in SOs,
             db'.status[l] # "Sold", db'.soStatus[s] \in Committed, db'.sol[s][l] > 0
      PROVE  SO(s) \in IF At(z) = "rest" THEN locks[z] ELSE Reach(z)
  <2>1. l \in LinesOf(q.po) /\ Line(l) \in locks[z] /\ db.status[l] # "Sold"
    BY <1>2, <1>4, <1>5, <1>9
  <2>2. db.soStatus[s] \in Committed /\ db.sol[s][l] > 0
    BY <1>3, <1>9, <2>1
  <2> QED
    BY <1>9, <2>1, <2>2 DEF StageOK
<1> QED
  BY <1>1, <1>6, <1>7, <1>8, <1>9 DEF StageOK

(* No lot of its order is born meanwhile.                                     *)
LEMMA StageStays ==
  ASSUME LocksInv, LedgerInv, SplitsApart, NEW x \in Txs, Commit(x), NEW z \in Txs \ {x},
         req[z] # NULL
  PROVE  StageOK(z)'
<1> DEFINE r == req[x]
           q == req[z]
<1>1. /\ r \in Requests /\ Frame(x, r, db') /\ Spares(z) /\ Consistent(db) /\ Consistent(db)'
      /\ r # NULL
  BY CommitFrames, CommitSpares, Asks DEF LocksInv, Frame
<1>2. /\ req'[z] = q /\ left'[z] = left[z] /\ want'[z] = want[z] /\ locks'[z] = locks[z]
      /\ StageOK(z)
  BY DEF LocksInv, LedgerInv, Commit, End
<1>3. q.op \in {"archive", "cascade"} => LinesOf(q.po)' \subseteq LinesOf(q.po)
  <2> SUFFICES ASSUME q.op \in {"archive", "cascade"}, NEW l \in Lots, PoOf[l] = q.po, Exists(l)'
               PROVE  Exists(l)
    BY <1>2 DEF LinesOf
  <2>1. Splits(r) => PoOf[r.clone] # q.po
    BY <1>1 DEF SplitsApart
  <2> HIDE DEF r, q
  <2>2. db.status[l] # "none"
    BY <1>1, <2>1 DEF Frame, Exists
  <2> QED
    BY <1>1, <2>2 DEF Frame, Exists
<1> HIDE DEF r
<1> QED
  BY <1>1, <1>2, <1>3, StageSpared

LEMMA StageGoesOn ==
  ASSUME LocksInv, LedgerInv, NEW x \in Txs, GoOn(x)
  PROVE  StageOK(x)'
<1> SUFFICES ASSUME NEW r, r = req[x], NEW h, h = At(x), NEW n, n = At(x)'
             PROVE  StageOK(x)'
  OBVIOUS
<1>1. /\ r \in Requests /\ WellFormed(r) /\ Remains(r, left[x]) /\ req'[x] = r /\ want[x] = <<>>
      /\ Len(left[x]) > 1 /\ Passes(x, h) /\ n = Head(Tail(left[x]))
      /\ Reach(x)' = locks[x] \cup Selected(r, n)
  BY GoOnRuns, Asks
<1>2. StageOK(x) /\ db' = db /\ locks' = locks /\ Consistent(db)
  BY DEF LedgerInv, LocksInv, GoOn, Judging
<1>3. Reach(x) = locks[x]
  BY <1>1, NoneReached
<1>4. \A o : LinesOf(o)' = LinesOf(o)
  BY <1>2, SameBooks
<1>5. \A l : NamedBy(l, Committed)' = NamedBy(l, Committed)
  BY <1>2 DEF NamedBy
<1>6. Committed \subseteq Open
  BY DEF Committed, Open
<1>7. CASE r.op = "archive"
  <2>1. <<h, n>> \in {<<"order", "sellers">>, <<"sellers", "lines">>, <<"lines", "stripped">>,
                      <<"stripped", "rest">>}
    BY <1>1, <1>7, NextStatement DEF At
  <2>2. n = "lines" => \A l \in LinesOf(r.po) : Line(l) \in Reach(x)'
    BY <1>1 DEF Selected
  <2>3. n \in {"stripped", "rest"} => \A l \in LinesOf(r.po) : Line(l) \in locks[x]
    BY <1>2, <1>3, <1>7, <2>1 DEF StageOK
  <2>4. ASSUME n = "stripped", NEW l \in LinesOf(r.po), NEW s \in SOs,
               db.status[l] # "Sold", db.soStatus[s] \in Committed, db.sol[s][l] > 0
        PROVE  SO(s) \in Reach(x)'
    <3>1. s \in Stripped(r.po)
      BY <1>6, <2>4 DEF Stripped, SellersOf
    <3> QED
      BY <1>1, <2>4, <3>1 DEF Selected
  <2>5. ASSUME n = "rest", NEW l \in LinesOf(r.po), NEW s \in SOs,
               db.status[l] # "Sold", db.soStatus[s] \in Committed, db.sol[s][l] > 0
        PROVE  SO(s) \in locks[x]
    BY <1>2, <1>3, <1>7, <2>1, <2>5 DEF StageOK
  <2>6. \A l \in LinesOf(r.po), s \in SOs :
          n \in {"stripped", "rest"} /\ db.status[l] # "Sold" /\ db.soStatus[s] \in Committed
            /\ db.sol[s][l] > 0 => SO(s) \in IF n = "rest" THEN locks[x] ELSE Reach(x)'
    BY <2>4, <2>5
  <2>7. req'[x] = r /\ db' = db /\ locks'[x] = locks[x] /\ LinesOf(r.po)' = LinesOf(r.po)
    BY <1>1, <1>2, <1>4
  <2> QED
    BY <1>7, <2>2, <2>3, <2>6, <2>7 DEF StageOK
<1>8. CASE r.op = "cascade"
  <2>1. <<h, n>> \in {<<"order", "lines">>, <<"lines", "rest">>}
    BY <1>1, <1>8, NextStatement DEF At
  <2>2. n = "lines" => \A l \in LinesOf(r.po) : Line(l) \in Reach(x)'
    BY <1>1 DEF Selected
  <2>3. n = "rest" => \A l \in LinesOf(r.po) : Line(l) \in locks[x]
    BY <1>2, <1>3, <1>8, <2>1 DEF StageOK
  <2>4. ASSUME n = "rest", r.stage = "Draft", NEW l \in LinesOf(r.po), db.status[l] = "Done"
        PROVE  ~NamedBy(l, Committed)
    <3>1. CascadeFree(r.po, "Draft")
      BY <1>1, <1>8, <2>1, <2>4 DEF Passes, LinesAllow
    <3>2. ~NamedBy(l, Open)
      BY <2>4, <3>1 DEF CascadeFree
    <3> QED
      BY <1>6, <3>2 DEF NamedBy
  <2>5. req'[x] = r /\ db' = db /\ locks'[x] = locks[x] /\ LinesOf(r.po)' = LinesOf(r.po)
    BY <1>1, <1>2, <1>4
  <2>6. n # "stripped"
    BY <2>1
  <2> QED
    BY <1>5, <1>8, <2>2, <2>3, <2>4, <2>5, <2>6 DEF StageOK
<1>9. CASE r.op \notin {"archive", "cascade"}
  BY <1>1, <1>9 DEF StageOK
<1> QED
  BY <1>7, <1>8, <1>9

LEMMA StageLocks ==
  ASSUME LocksInv, LedgerInv, NEW x \in Txs, Lock(x)
  PROVE  StageOK(x)'
<1> DEFINE r == req[x]
<1>1. /\ Reach(x)' = Reach(x) /\ locks[x] \subseteq locks'[x]
  BY LockReaches
<1>2. /\ db' = db /\ req' = req /\ left' = left /\ StageOK(x) /\ Consistent(db)
  BY DEF Lock, LedgerInv, LocksInv, TxOK
<1>3. \A o : LinesOf(o)' = LinesOf(o)
  BY <1>2, SameBooks
<1>4. \A l : NamedBy(l, Committed)' = NamedBy(l, Committed)
  BY <1>2 DEF NamedBy
<1>5. At(x)' = At(x)
  BY <1>2 DEF At
<1> QED
  BY <1>1, <1>2, <1>3, <1>4, <1>5 DEF StageOK

LEMMA StageBegins ==
  ASSUME LocksInv, NEW x \in Txs, NEW r \in Requests, Begin(x, r)
  PROVE  StageOK(x)'
<1>1. req'[x] = r /\ left'[x] = Plan(r)
  BY DEF Begin, Run, LocksInv
<1>2. r.op \in {"archive", "cascade"} => At(x)' = "order"
  BY <1>1, Asks, PlanStarts DEF At, OrderAsks
<1> QED
  BY <1>1, <1>2 DEF StageOK

(* Steps that write nothing.                                                  *)
LEMMA QuietKeepsLedger ==
  ASSUME LocksInv, LedgerInv, db' = db, NEW x \in Txs, req'[x] # NULL => StageOK(x)',
         \A z \in Txs \ {x} : /\ req'[z] = req[z] /\ left'[z] = left[z] /\ want'[z] = want[z]
                              /\ locks'[z] = locks[z]
  PROVE  LedgerInv'
<1>1. Covered(db)' /\ Consistent(db) /\ Consistent(db)'
  BY DEF LedgerInv, LocksInv
<1>2. ASSUME NEW z \in Txs \ {x}, req'[z] # NULL PROVE StageOK(z)'
  <2> DEFINE q == req[z]
  <2>1. /\ req'[z] = q /\ left'[z] = left[z] /\ want'[z] = want[z] /\ locks'[z] = locks[z]
        /\ StageOK(z) /\ Spares(z) /\ LinesOf(q.po)' = LinesOf(q.po)
    BY <1>1, <1>2, SameBooks DEF LedgerInv
  <2> QED
    BY <1>1, <2>1, StageSpared
<1> QED
  BY <1>1, <1>2 DEF LedgerInv

----------------------------------------------------------------------------
(* Every commit is one entry of the ledger.                                   *)
LEMMA SameTotal == \A n, S : Ledger!Total(n, S) = Total(n, S)
  BY DEF Ledger!Total, Ledger!Units, Ledger!Cardinality, Total, Units, Cardinality

CommittedOf(l) == {s \in SOs : db.soStatus[s] \in Committed /\ db.sol[s][l] > 0}
Counts(l) ==
  /\ Claims(l, NULL) \in Nat /\ InStock[l] \in Nat
  /\ \A s \in SOs : /\ Claims(l, s) \in Nat
                    /\ Claims(l, NULL) =
                         Claims(l, s) + IF db.soStatus[s] \in Committed THEN db.sol[s][l] ELSE 0
  /\ CommittedOf(l) = {} => Claims(l, NULL) = 0
Fitting == \A l \in Lots : Exists(l) => Claims(l, NULL) <= InStock[l]

LEMMA CountsNow == Consistent(db) => \A l \in Lots : Counts(l)
<1> SUFFICES ASSUME Consistent(db), NEW l \in Lots PROVE Counts(l)
  OBVIOUS
<1> DEFINE n == [s \in SOs |-> db.sol[s][l]]
           S == {s \in SOs : db.soStatus[s] \in Committed}
<1>1. /\ \A s \in SOs : n[s] = db.sol[s][l] /\ n[s] \in Nat
      /\ IsFiniteSet(S) /\ S \subseteq SOs /\ NULL \notin SOs
  <2>1. IsFiniteSet(S) /\ NULL \notin SOs
    BY LocksAssumption, FS_Subset DEF LocksAssumption
  <2> QED
    BY <2>1, BooksTyped
<1>2. Claims(l, NULL) = Total(n, S)
  <2>1. {s \in SOs \ {NULL} : db.soStatus[s] \in Committed} = S
    BY <1>1
  <2> QED
    BY <2>1 DEF Claims
<1>3. \A s \in SOs : Claims(l, s) = Total(n, S \ {s})
  <2>1. \A s \in SOs : {z \in SOs \ {s} : db.soStatus[z] \in Committed} = S \ {s}
    OBVIOUS
  <2> QED
    BY <2>1 DEF Claims
<1>4. InStock[l] \in Nat
  BY BooksTyped DEF InStock
<1> HIDE DEF n
<1>5. Total(n, S) \in Nat /\ \A s \in SOs : Total(n, S \ {s}) \in Nat
  <2>1. \A s \in SOs : IsFiniteSet(S \ {s})
    BY <1>1, FS_Subset
  <2> HIDE DEF S
  <2> QED
    BY <1>1, <2>1, TotalNat
<1>6. ASSUME NEW s \in SOs
      PROVE  Total(n, S) = Total(n, S \ {s}) + IF db.soStatus[s] \in Committed THEN db.sol[s][l] ELSE 0
  <2>1. CASE s \in S
    <3>1. db.soStatus[s] \in Committed
      BY <2>1
    <3> HIDE DEF S
    <3>2. Total(n, S) = Total(n, S \ {s}) + n[s]
      BY <1>1, <2>1, TotalSplit
    <3> QED
      BY <1>1, <3>1, <3>2
  <2>2. CASE s \notin S
    <3>1. S \ {s} = S /\ db.soStatus[s] \notin Committed
      BY <2>2
    <3> QED
      BY <1>5, <3>1
  <2> QED
    BY <2>1, <2>2
<1>7. ASSUME CommittedOf(l) = {} PROVE Total(n, S) = 0
  <2>1. \A s \in S : ~(n[s] > 0)
    BY <1>1, <1>7 DEF CommittedOf
  <2> HIDE DEF S
  <2>2. ~(Total(n, S) > 0)
    BY <1>1, <2>1, TotalPositive
  <2> QED
    BY <1>5, <2>2
<1> HIDE DEF S
<1> QED
  BY <1>2, <1>3, <1>4, <1>5, <1>6, <1>7 DEF Counts

LEMMA CountsNext == Consistent(db)' => (\A l \in Lots : Counts(l))'
  BY CountsNow, PTL

(* Covered books, as the ledger sees them.                                    *)
LEMMA CoveredFits == Covered(db) <=> Fitting
<1>1. \A l \in Lots :
        Claims(l, NULL) = Total([s \in SOs |-> db.sol[s][l]], {s \in SOs : db.soStatus[s] \in Committed})
  <2>1. {s \in SOs \ {NULL} : db.soStatus[s] \in Committed} = {s \in SOs : db.soStatus[s] \in Committed}
    BY LocksAssumption DEF LocksAssumption
  <2> QED
    BY <2>1 DEF Claims
<1>2. \A l \in Lots : InStock[l] = IF db.status[l] = "Done" THEN db.qty[l] ELSE 0
  BY DEF InStock
<1> QED
  BY <1>1, <1>2 DEF Covered, Fitting, Exists

LEMMA FitsNow ==
  Consistent(db) /\ Fitting => Ledger!Fits(UnitsWhile(Committed), InStock)
<1> SUFFICES ASSUME Consistent(db), Fitting, NEW l \in Lots
             PROVE  Total([s \in SOs |-> UnitsWhile(Committed)[s][l]], SOs) <= InStock[l]
  BY SameTotal DEF Ledger!Fits, Ledger!Claimed
<1> DEFINE c == [s \in SOs |-> UnitsWhile(Committed)[s][l]]
           n == [s \in SOs |-> db.sol[s][l]]
           S == {s \in SOs : db.soStatus[s] \in Committed}
<1>0. \A s \in SOs : c[s] = IF db.soStatus[s] \in Committed /\ Exists(l) THEN db.sol[s][l] ELSE 0
  BY DEF UnitsWhile
<1>1. InStock[l] \in Nat
  BY CountsNow DEF Counts
<1>2. CASE ~Exists(l)
  <2>1. \A s \in SOs : c[s] = 0
    BY <1>0, <1>2
  <2>2. {} \in SUBSET SOs /\ Total(n, {}) = 0
    BY TotalOfNone
  <2> HIDE DEF c, n
  <2>3. Total(c, SOs) = Total(n, {})
    BY <2>1, <2>2, TotalSupport
  <2> QED
    BY <1>1, <2>2, <2>3 DEF c
<1>3. CASE Exists(l)
  <2>1. S \in SUBSET SOs /\ (\A s \in S : c[s] = n[s]) /\ \A s \in SOs \ S : c[s] = 0
    BY <1>0, <1>3
  <2>2. Claims(l, NULL) = Total(n, S)
    <3>1. {s \in SOs \ {NULL} : db.soStatus[s] \in Committed} = S
      BY LocksAssumption DEF LocksAssumption
    <3> QED
      BY <3>1 DEF Claims
  <2> HIDE DEF c, n, S
  <2>3. Total(c, SOs) = Total(n, S)
    BY <2>1, TotalSupport
  <2>4. Claims(l, NULL) <= InStock[l]
    BY <1>3 DEF Fitting
  <2> QED
    BY <2>2, <2>3, <2>4 DEF c
<1> QED
  BY <1>2, <1>3

LEMMA FitsNext ==
  Consistent(db)' /\ Fitting' => Ledger!Fits(UnitsWhile(Committed), InStock)'
  BY FitsNow, PTL

(* A step around the claims.                                                  *)
LEMMA RestockEntry ==
  ASSUME Consistent(db), Consistent(db)', Fitting', db'.soStatus = db.soStatus,
         \A s \in SOs, l \in Lots :
           db'.sol[s][l] = db.sol[s][l] \/ (db'.sol[s][l] = 0 /\ db'.status[l] # "Done"),
         \A l \in Lots : Exists(l)' => Exists(l) \/ db.status[l] = "none"
  PROVE  Ledger!Next
<1>1. ASSUME NEW sts, NEW s \in SOs, NEW l \in Lots,
             UnitsWhile(sts)'[s][l] # UnitsWhile(sts)[s][l]
      PROVE  UnitsWhile(sts)'[s][l] = 0 /\ InStock'[l] = 0
  <2>1. /\ UnitsWhile(sts)[s][l] = IF db.soStatus[s] \in sts /\ Exists(l) THEN db.sol[s][l] ELSE 0
        /\ UnitsWhile(sts)'[s][l] = IF db'.soStatus[s] \in sts /\ Exists(l)' THEN db'.sol[s][l] ELSE 0
        /\ InStock'[l] = IF db'.status[l] = "Done" THEN db'.qty[l] ELSE 0
    BY DEF UnitsWhile, InStock
  <2>2. CASE ~Exists(l)'
    BY <2>1, <2>2 DEF Exists
  <2>3. CASE Exists(l)' /\ ~Exists(l)
    <3>1. db.sol[s][l] \in Nat /\ ~(db.sol[s][l] > 0)
      BY <2>3, BooksTyped
    <3> QED
      BY <1>1, <2>1, <2>3, <3>1
  <2>4. CASE Exists(l)' /\ Exists(l)
    BY <1>1, <2>1, <2>4
  <2> QED
    BY <2>2, <2>3, <2>4
<1> QED
  BY <1>1, FitsNext DEF Ledger!Next, Ledger!Restock

(* The claims on a lot do not grow; it keeps the units they need, or has none.*)
LEMMA StillFits ==
  ASSUME Consistent(db), Consistent(db)', db'.soStatus = db.soStatus,
         \A s \in SOs, l \in Lots : db'.sol[s][l] <= db.sol[s][l],
         \A l \in Lots : Exists(l)' => Claims(l, NULL) <= InStock'[l] \/ CommittedOf(l)' = {}
  PROVE  Fitting'
<1> SUFFICES ASSUME NEW l \in Lots, Exists(l)' PROVE Claims(l, NULL)' <= InStock'[l]
  BY DEF Fitting
<1>1. Counts(l) /\ Counts(l)'
  BY CountsNow, CountsNext
<1>2. CASE CommittedOf(l)' = {}
  BY <1>1, <1>2 DEF Counts
<1>3. CASE Claims(l, NULL) <= InStock'[l]
  <2> DEFINE f == [s \in SOs |-> db.sol[s][l]]
             g == [s \in SOs |-> db'.sol[s][l]]
             S == {s \in SOs \ {NULL} : db.soStatus[s] \in Committed}
  <2>1. f \in [SOs -> Nat] /\ g \in [SOs -> Nat] /\ \A s \in SOs : g[s] <= f[s]
    BY BooksTyped
  <2>2. Claims(l, NULL) = Total(f, S) /\ Claims(l, NULL)' = Total(g, S) /\ S \in SUBSET SOs
    BY DEF Claims
  <2> HIDE DEF f, g, S
  <2>3. \A s \in S : g[s] > 0 => s \in S /\ g[s] <= f[s]
    BY <2>1, <2>2
  <2>4. Total(g, S) <= Total(f, S)
    BY <2>1, <2>2, <2>3, ClaimsShrink
  <2> QED
    BY <1>1, <1>3, <2>2, <2>4 DEF Counts
<1> QED
  BY <1>2, <1>3

LEMMA OrderEntry ==
  ASSUME LocksInv, LedgerInv, NEW x \in Txs, Commit(x), NEW r, r = req[x], r.op \in OrderAsks
  PROVE  Fitting' /\ Ledger!Next
<1>1. /\ r \in Requests /\ Ready(x, r) /\ db' = Written(x, r) /\ Frame(x, r, db')
      /\ At(x) = Final(r) /\ Consistent(db) /\ Consistent(db)' /\ r # NULL
  BY CommitFrames, CommitReady, Asks DEF LocksInv, Frame
<1>2. /\ DOMAIN db = Fields /\ db.status \in [Lots -> Statuses] /\ db.qty \in [Lots -> Nat]
      /\ \A s \in SOs, l \in Lots : db.sol[s][l] \in Nat
  BY <1>1, FieldsTyped, BooksTyped
<1>3. StageOK(x) /\ Fitting
  BY <1>1, CoveredFits DEF LedgerInv
<1>4. \A l \in Lots : Counts(l) /\ InStock[l] = IF db.status[l] = "Done" THEN db.qty[l] ELSE 0
  BY <1>1, CountsNow DEF InStock
<1>5. \A l \in Lots : InStock'[l] = IF db'.status[l] = "Done" THEN db'.qty[l] ELSE 0
  BY DEF InStock
<1>6. \A l \in Lots : Exists(l)' => Exists(l)
  BY <1>1 DEF Frame, Exists, Splits, OrderAsks
<1>7. \A l \in Lots : Exists(l) => Claims(l, NULL) <= InStock[l]
  BY <1>3 DEF Fitting
<1>8. \A l \in Lots : InStock'[l] \in Nat
  BY <1>1, CountsNext DEF Counts
<1> DEFINE T == Taken(x, r)
<1>9. CASE r.op = "archive"
  <2>1. /\ db'.soStatus = db.soStatus /\ db'.qty = db.qty
        /\ db'.status = Restatus(T, All("Archived"))
        /\ db'.sol = [s \in SOs |-> [l \in Lots |->
             IF l \in LinesOf(r.po) /\ db.status[l] # "Sold" /\ Strips(x, s) THEN 0 ELSE db.sol[s][l]]]
    BY <1>1, <1>2, <1>9 DEF Written, Fields
  <2>2. \A l \in Lots : db'.status[l] = IF l \in T THEN "Archived" ELSE db.status[l]
    BY <2>1 DEF Restatus, All
  <2>3. \A s \in SOs, l \in Lots :
          db'.sol[s][l] = IF l \in LinesOf(r.po) /\ db.status[l] # "Sold" /\ Strips(x, s)
                          THEN 0 ELSE db.sol[s][l]
    BY <2>1
  <2>4. \A l \in LinesOf(r.po) : db.status[l] # "Sold" => db'.status[l] = "Archived"
    <3>1. At(x) = "rest"
      BY <1>1, <1>9 DEF Final
    <3>2. \A l \in LinesOf(r.po) : Line(l) \in locks[x]
      BY <1>3, <1>9, <3>1 DEF StageOK
    <3>3. \A l \in LinesOf(r.po) : l \in Lots
      BY DEF LinesOf
    <3>4. \A l \in LinesOf(r.po) : db.status[l] \notin {"Sold", "Archived"} => l \in T
      BY <1>9, <3>2 DEF Taken, Leaving, Stage
    <3> QED
      BY <2>2, <3>3, <3>4
  <2>5. \A s \in SOs, l \in Lots :
          db'.sol[s][l] = db.sol[s][l] \/ (db'.sol[s][l] = 0 /\ db'.status[l] # "Done")
    BY <2>3, <2>4
  <2>6. \A s \in SOs, l \in Lots : db'.sol[s][l] <= db.sol[s][l]
    BY <1>2, <2>3
  <2>7. ASSUME NEW l \in Lots, Exists(l)'
        PROVE  Claims(l, NULL) <= InStock'[l] \/ CommittedOf(l)' = {}
    <3>1. CASE l \notin T
      BY <1>4, <1>5, <1>6, <1>7, <2>1, <2>2, <2>7, <3>1
    <3>2. CASE l \in T
      <4>1. l \in LinesOf(r.po) /\ db.status[l] # "Sold"
        BY <3>2 DEF Taken, Leaving
      <4>2. ASSUME NEW s \in SOs, db.soStatus[s] \in Committed, db'.sol[s][l] > 0 PROVE FALSE
        <5>1. db.sol[s][l] > 0
          BY <1>2, <2>3, <4>2
        <5>2. SO(s) \in locks[x]
          BY <1>1, <1>3, <1>9, <4>1, <4>2, <5>1 DEF StageOK, Final
        <5>3. Strips(x, s)
          BY <4>2, <5>2 DEF Strips, Committed, Open
        <5> QED
          BY <2>3, <4>1, <4>2, <5>3
      <4> QED
        BY <2>1, <4>2 DEF CommittedOf
    <3> QED
      BY <3>1, <3>2
  <2>8. Fitting'
    BY <1>1, <2>1, <2>6, <2>7, StillFits
  <2> QED
    BY <1>1, <1>6, <2>1, <2>5, <2>8, RestockEntry
<1>10. ASSUME db'.soStatus = db.soStatus, db'.sol = db.sol,
              \A l \in Lots : Exists(l)' => Claims(l, NULL) <= InStock'[l] \/ CommittedOf(l)' = {}
       PROVE  Fitting' /\ Ledger!Next
  <2>1. \A s \in SOs, l \in Lots : db'.sol[s][l] <= db.sol[s][l]
    BY <1>2, <1>10
  <2>2. Fitting'
    BY <1>1, <1>10, <2>1, StillFits
  <2> QED
    BY <1>1, <1>6, <1>10, <2>2, RestockEntry
<1>11. CASE r.op = "cascade"
  <2>1. /\ db'.soStatus = db.soStatus /\ db'.sol = db.sol /\ db'.qty = db.qty
        /\ db'.status = Restatus(T, All(r.stage))
    BY <1>1, <1>2, <1>11 DEF Written, Fields
  <2>2. \A l \in Lots : db'.status[l] = IF l \in T THEN r.stage ELSE db.status[l]
    BY <2>1 DEF Restatus, All
  <2>3. ASSUME NEW l \in Lots, Exists(l)'
        PROVE  Claims(l, NULL) <= InStock'[l] \/ CommittedOf(l)' = {}
    <3>1. CASE l \notin T
      BY <1>4, <1>5, <1>6, <1>7, <2>1, <2>2, <2>3, <3>1
    <3>2. CASE l \in T /\ db.status[l] # "Done"
      BY <1>4, <1>6, <1>7, <1>8, <2>3, <3>2 DEF Counts
    <3>3. CASE l \in T /\ db.status[l] = "Done"
      <4>1. l \in LinesOf(r.po) /\ r.stage # "Done" /\ At(x) = "rest"
        BY <1>1, <1>11, <3>3 DEF Taken, Leaving, Stage, Final
      <4>2. r.stage = "Draft"
        BY <1>1, <1>11, <4>1, Asks DEF WellFormed
      <4>3. ~NamedBy(l, Committed)
        BY <1>1, <1>3, <1>11, <3>3, <4>1, <4>2 DEF StageOK
      <4> QED
        BY <2>1, <4>3 DEF NamedBy, CommittedOf
    <3> QED
      BY <3>1, <3>2, <3>3
  <2> QED
    BY <1>10, <2>1, <2>3
<1>12. CASE r.op = "recount"
  <2>1. /\ db'.soStatus = db.soStatus /\ db'.sol = db.sol /\ db'.status = db.status
        /\ db'.qty = [l \in Lots |-> IF l \in r.lots THEN r.units ELSE db.qty[l]]
    BY <1>1, <1>2, <1>12 DEF Written, Fields
  <2>2. \A l \in r.lots : r.units >= Claims(l, NULL) /\ Exists(l)
    BY <1>1, <1>12 DEF Ready, LineAllows
  <2>3. r.units \in Nat
    BY <1>1, <1>12, Asks DEF WellFormed
  <2>4. ASSUME NEW l \in Lots, Exists(l)' PROVE Claims(l, NULL) <= InStock'[l]
    <3>1. CASE l \notin r.lots \/ db.status[l] # "Done"
      BY <1>4, <1>5, <1>6, <1>7, <2>1, <2>4, <3>1
    <3>2. CASE l \in r.lots /\ db.status[l] = "Done"
      <4>1. InStock'[l] = r.units
        BY <1>5, <2>1, <3>2
      <4> QED
        BY <1>4, <2>2, <2>3, <3>2, <4>1 DEF Counts
    <3> QED
      BY <3>1, <3>2
  <2> QED
    BY <1>10, <2>1, <2>4
<1> QED
  BY <1>9, <1>11, <1>12 DEF OrderAsks

LEMMA MoveEntry ==
  ASSUME LocksInv, LedgerInv, NEW x \in Txs, Commit(x), NEW r, r = req[x], r.op \in MoveAsks
  PROVE  Fitting' /\ Ledger!Next
<1>1. /\ r \in Requests /\ Ready(x, r) /\ db' = Written(x, r) /\ Frame(x, r, db')
      /\ Consistent(db) /\ Consistent(db)'
  BY CommitFrames DEF LocksInv, Frame
<1>2. /\ DOMAIN db = Fields /\ db.status \in [Lots -> Statuses] /\ db.qty \in [Lots -> Nat]
      /\ \A s \in SOs, l \in Lots : db.sol[s][l] \in Nat
      /\ \A s \in SOs, l \in Lots : db.sol[s][l] > 0 => db.status[l] # "none"
  BY <1>1, FieldsTyped, BooksTyped
<1>3. \A l \in Lots : Exists(l) => Claims(l, NULL) <= InStock[l]
  BY <1>1, CoveredFits DEF LedgerInv, Fitting
<1>4. \A l \in Lots : /\ Claims(l, NULL) \in Nat
                      /\ InStock[l] = IF db.status[l] = "Done" THEN db.qty[l] ELSE 0
  BY <1>1, CountsNow DEF InStock, Counts
<1>5. \A l \in Lots : /\ InStock'[l] \in Nat
                      /\ InStock'[l] = IF db'.status[l] = "Done" THEN db'.qty[l] ELSE 0
  BY <1>1, CountsNext DEF InStock, Counts
<1>6. \A l \in Lots : Exists(l)' => Exists(l) \/ db.status[l] = "none"
  BY <1>1 DEF Frame, Exists
<1>7. db'.soStatus = db.soStatus /\ db'.sol = db.sol
  BY <1>1, <1>2 DEF Written, Fields, MoveAsks
<1>8. SUFFICES ASSUME NEW l \in Lots, Exists(l)'
               PROVE  Claims(l, NULL) <= InStock'[l] \/ CommittedOf(l)' = {}
  <2>1. \A s \in SOs, l \in Lots : db'.sol[s][l] <= db.sol[s][l]
    BY <1>2, <1>7
  <2>2. Fitting'
    BY <1>1, <1>7, <1>8, <2>1, StillFits
  <2> QED
    BY <1>1, <1>6, <1>7, <2>2, RestockEntry
(* A lot that keeps its status and its units, or that nobody claims.          *)
<1>9. ASSUME Exists(l), db'.status[l] = db.status[l], db'.qty[l] >= db.qty[l]
      PROVE  Claims(l, NULL) <= InStock'[l]
  <2>1. db.qty[l] \in Nat /\ db'.qty[l] \in Nat
    BY <1>1, BooksTyped
  <2> QED
    BY <1>3, <1>4, <1>5, <1>9, <2>1
<1>10. ASSUME Exists(l), db.status[l] # "Done" \/ Claims(l, NULL) = 0
       PROVE  Claims(l, NULL) <= InStock'[l]
  BY <1>3, <1>4, <1>5, <1>10
<1>11. db.qty[l] \in Nat /\ db.qty[l] >= db.qty[l]
  BY <1>2
<1>12. CASE r.op = "move"
  <2>1. /\ db'.status[l] = IF l \in r.lots THEN "In Transit" ELSE db.status[l]
        /\ db'.qty = db.qty
    BY <1>1, <1>2, <1>12 DEF Written, Fields, Restatus, All
  <2>2. CASE l \in r.lots
    <3>1. Exists(l) /\ Claims(l, NULL) + db.qty[l] <= db.qty[l]
      BY <1>1, <1>12, <2>2 DEF Ready, LineAllows
    <3>2. Claims(l, NULL) = 0
      BY <1>4, <1>11, <3>1
    <3> QED
      BY <1>10, <3>1, <3>2
  <2>3. CASE l \notin r.lots
    <3>1. Exists(l)
      BY <1>8, <2>1, <2>3 DEF Exists
    <3> QED
      BY <1>9, <1>11, <2>1, <2>3, <3>1
  <2> QED
    BY <2>2, <2>3
<1>13. CASE r.op = "split"
  <2>1. /\ db'.status[l] = IF l = r.clone THEN "In Transit" ELSE db.status[l]
        /\ db'.qty[l] = IF l \in r.lots THEN db.qty[l] - 1 ELSE IF l = r.clone THEN 1 ELSE db.qty[l]
    BY <1>1, <1>2, <1>13 DEF Written, Fields
  <2>2. /\ db.status[r.clone] = "none"
        /\ \A k \in r.lots : Exists(k) /\ db.status[k] = "Done" /\ Claims(k, NULL) + 1 <= db.qty[k]
    BY <1>1, <1>13 DEF Ready, LineAllows, Splits
  <2>3. CASE l = r.clone
    <3>1. \A s \in SOs : ~(db'.sol[s][l] > 0)
      BY <1>2, <1>7, <2>2, <2>3
    <3> QED
      BY <3>1 DEF CommittedOf
  <2>4. CASE l \in r.lots
    <3>1. db'.status[l] = "Done" /\ Claims(l, NULL) + 1 <= db.qty[l] /\ db'.qty[l] = db.qty[l] - 1
      BY <2>1, <2>2, <2>4 DEF Exists
    <3> QED
      BY <1>4, <1>5, <1>11, <3>1
  <2>5. CASE l # r.clone /\ l \notin r.lots
    <3>1. Exists(l)
      BY <1>8, <2>1, <2>5 DEF Exists
    <3> QED
      BY <1>9, <1>11, <2>1, <2>5, <3>1
  <2> QED
    BY <2>3, <2>4, <2>5
<1>14. CASE r.op = "receive"
  <2>1. /\ db'.status[l] = db.status[l] \/ (l \in LinesOn(r.to) /\ db.status[l] = "In Transit")
        /\ db'.qty = db.qty
    BY <1>1, <1>2, <1>14 DEF Written, Fields, Restatus
  <2>2. CASE db'.status[l] = db.status[l]
    <3>1. Exists(l)
      BY <1>8, <2>2 DEF Exists
    <3> QED
      BY <1>9, <1>11, <2>1, <2>2, <3>1
  <2>3. CASE l \in LinesOn(r.to) /\ db.status[l] = "In Transit"
    BY <1>10, <2>3 DEF LinesOn
  <2> QED
    BY <2>1, <2>2, <2>3
<1>15. CASE r.op = "reopen"
  <2>1. /\ db'.status[l] = db.status[l] \/ l \in LinesOn(r.to)
        /\ db'.qty = db.qty
    BY <1>1, <1>2, <1>15 DEF Written, Fields, Restatus
  <2>2. CASE l \notin LinesOn(r.to)
    <3>1. Exists(l)
      BY <1>8, <2>1, <2>2 DEF Exists
    <3> QED
      BY <1>9, <1>11, <2>1, <2>2, <3>1
  <2>3. CASE l \in LinesOn(r.to)
    <3>1. Claims(l, NULL) = 0 /\ Exists(l)
      BY <1>1, <1>15, <2>3 DEF Ready, MovedAllow, LinesOn
    <3> QED
      BY <1>10, <3>1
  <2> QED
    BY <2>2, <2>3
<1>16. CASE r.op = "discard"
  <2> DEFINE K == {k \in Merged(x, r.to) : PeerOf[k] = l}
  <2>1. /\ db'.status[l] = db.status[l] \/ l \in LinesOn(r.to)
        /\ db'.qty[l] = db.qty[l] + Total(db.qty, K)
    BY <1>1, <1>2, <1>16 DEF Written, Fields, Restatus
  <2>2. CASE l \notin LinesOn(r.to)
    <3>1. Exists(l) /\ db'.status[l] = db.status[l]
      BY <1>8, <2>1, <2>2 DEF Exists
    <3>2. IsFiniteSet(K) /\ \A k \in K : db.qty[k] \in Nat
      <4>1. K \subseteq Lots
        BY DEF Merged, LinesOn
      <4> QED
        BY <1>2, <4>1, LocksAssumption, FS_Subset DEF LocksAssumption
    <3> HIDE DEF K
    <3>3. Total(db.qty, K) \in Nat
      BY <3>2, TotalNat
    <3>4. db'.qty[l] >= db.qty[l]
      BY <1>11, <2>1, <3>3
    <3> QED
      BY <1>9, <3>1, <3>4
  <2>3. CASE l \in LinesOn(r.to)
    <3>1. Claims(l, NULL) = 0 /\ Exists(l)
      BY <1>1, <1>16, <2>3 DEF Ready, MovedAllow, LinesOn
    <3> QED
      BY <1>10, <3>1
  <2> QED
    BY <2>2, <2>3
<1> QED
  BY <1>12, <1>13, <1>14, <1>15, <1>16 DEF MoveAsks

(* Steps that change one sell order only.                                     *)
LEMMA OthersClaims ==
  ASSUME NEW s \in SOs,
         \A z \in SOs \ {s} : db'.soStatus[z] = db.soStatus[z] /\ db'.sol[z] = db.sol[z]
  PROVE  \A l \in Lots : Claims(l, s)' = Claims(l, s)
<1> SUFFICES ASSUME NEW l \in Lots PROVE Claims(l, s)' = Claims(l, s)
  OBVIOUS
<1> DEFINE f == [z \in SOs |-> db.sol[z][l]]
           g == [z \in SOs |-> db'.sol[z][l]]
           S == {z \in SOs \ {s} : db.soStatus[z] \in Committed}
<1>1. {z \in SOs \ {s} : db'.soStatus[z] \in Committed} = S
  OBVIOUS
<1>2. Claims(l, s) = Total(f, S) /\ Claims(l, s)' = Total(g, S)
  BY <1>1 DEF Claims
<1>3. \A z \in S : g[z] = f[z]
  OBVIOUS
<1> HIDE DEF f, g, S
<1> QED
  BY <1>2, <1>3, TotalSame

LEMMA ClaimEntry ==
  ASSUME Consistent(db), Consistent(db)', Fitting, NEW s \in SOs,
         db'.status = db.status, db'.qty = db.qty,
         db.soStatus[s] # "Done", db'.soStatus[s] # "Done",
         \A z \in SOs \ {s} : db'.soStatus[z] = db.soStatus[z] /\ db'.sol[z] = db.sol[z],
         \A l \in Lots : Exists(l) /\ db'.soStatus[s] \in Committed /\ db'.sol[s][l] > 0 =>
           db.status[l] = "Done" /\ db'.sol[s][l] + Claims(l, s) <= db.qty[l]
  PROVE  Fitting' /\ Ledger!Next
<1>1. InStock' = InStock /\ \A l : Exists(l)' <=> Exists(l)
  BY DEF InStock, Exists
<1>2. \A l \in Lots : Claims(l, s)' = Claims(l, s)
  BY OthersClaims
<1>3. Fitting'
  <2> SUFFICES ASSUME NEW l \in Lots, Exists(l) PROVE Claims(l, NULL)' <= InStock[l]
    BY <1>1 DEF Fitting
  <2>1. Counts(l) /\ Counts(l)' /\ Claims(l, s)' = Claims(l, s)
    BY <1>2, CountsNow, CountsNext
  <2>2. Claims(l, NULL) <= InStock[l] /\ db'.sol[s][l] \in Nat /\ db.sol[s][l] \in Nat
    BY BooksTyped DEF Fitting
  <2>3. Claims(l, s) <= InStock[l]
    BY <2>1, <2>2 DEF Counts
  <2>4. CASE db'.soStatus[s] \in Committed /\ db'.sol[s][l] > 0
    <3>1. InStock[l] = db.qty[l] /\ db'.sol[s][l] + Claims(l, s) <= db.qty[l]
      BY <2>4 DEF InStock
    <3>2. Claims(l, NULL)' = Claims(l, s) + db'.sol[s][l] /\ Claims(l, s) \in Nat
      BY <2>1, <2>4 DEF Counts
    <3> QED
      BY <2>2, <3>1, <3>2
  <2>5. CASE ~(db'.soStatus[s] \in Committed /\ db'.sol[s][l] > 0)
    <3>1. Claims(l, NULL)' = Claims(l, s)
      BY <2>1, <2>2, <2>5 DEF Counts
    <3> QED
      BY <2>3, <3>1
  <2> QED
    BY <2>4, <2>5
<1>4. \A sts : \A z \in SOs \ {s} : UnitsWhile(sts)'[z] = UnitsWhile(sts)[z]
  BY <1>1 DEF UnitsWhile
<1>5. UnitsWhile({"Done"})[s] = Ledger!Nothing /\ UnitsWhile({"Done"})'[s] = Ledger!Nothing
  BY DEF UnitsWhile, Ledger!Nothing
<1>6. UnitsWhile({"Done"})' = UnitsWhile({"Done"})
  <2>1. \A z \in SOs : UnitsWhile({"Done"})'[z] = UnitsWhile({"Done"})[z]
    BY <1>4, <1>5
  <2> QED
    BY <2>1 DEF UnitsWhile
<1>7. Ledger!Claim(s)
  BY <1>1, <1>3, <1>4, <1>5, <1>6, FitsNext DEF Ledger!Claim, Ledger!OnlyFor, Ledger!Fits, Ledger!Claimed
<1> QED
  BY <1>3, <1>7 DEF Ledger!Next

LEMMA DoneEntry ==
  ASSUME LocksInv, LedgerInv, NEW x \in Txs, Commit(x), NEW r, r = req[x], r.op = "done"
  PROVE  Fitting' /\ Ledger!Next
<1> SUFFICES ASSUME NEW s, s = r.so PROVE Fitting' /\ Ledger!Next
  OBVIOUS
<1>1. /\ r \in Requests /\ Ready(x, r) /\ db' = Written(x, r) /\ s \in SOs
      /\ Consistent(db) /\ Consistent(db)' /\ Fitting
  BY CommitFrames, CoveredFits, Asks DEF LocksInv, LedgerInv, Frame, SellAsks
<1>2. /\ DOMAIN db = Fields /\ \A l \in Lots : db.qty[l] \in Nat /\ db.sol[s][l] \in Nat
      /\ DOMAIN db.soStatus = SOs
  BY <1>1, FieldsTyped, BooksTyped
<1>3. /\ db'.sol = db.sol /\ \A z \in SOs : db'.soStatus[z] = IF z = s THEN "Done" ELSE db.soStatus[z]
      /\ \A l \in Lots :
           /\ db'.status[l] = IF l \in Named(s) /\ SoldOut(s, l) THEN "Sold" ELSE db.status[l]
           /\ db'.qty[l] = IF l \in Named(s) /\ ~SoldOut(s, l) THEN db.qty[l] - db.sol[s][l] ELSE db.qty[l]
  BY <1>1, <1>2 DEF Written, Fields, Restatus
<1>4. \A l \in Lots : Claims(l, s)' = Claims(l, s) /\ Counts(l) /\ Counts(l)'
  BY <1>1, <1>3, OthersClaims, CountsNow, CountsNext
<1>5. ASSUME NEW l \in Lots, Exists(l)
      PROVE  Claims(l, s) <= InStock[l] /\ Claims(l, NULL) <= InStock[l]
  BY <1>1, <1>2, <1>4, <1>5 DEF Counts, Fitting
<1>6. db.soStatus[s] \in {"Draft", "Shipped"}
  BY <1>1 DEF Ready, HeaderStill, SellAsks, Open
(* What it takes was for sale, beside what the others claim.                  *)
<1>7. ASSUME NEW l \in Named(s)
      PROVE  db.status[l] = "Done" /\ db.sol[s][l] + Claims(l, s) <= db.qty[l]
  <2>1. l \in Lots /\ Exists(l) /\ db.sol[s][l] > 0
    BY DEF Named
  <2>2. CASE db.soStatus[s] = "Draft"
    <3>1. Validates(r)
      BY <1>1, <2>2 DEF Ready, Proposed
    <3> QED
      BY <2>1, <3>1 DEF Validates, Asked, Exists
  <2>3. CASE db.soStatus[s] = "Shipped"
    <3>1. Claims(l, NULL) = Claims(l, s) + db.sol[s][l] /\ Claims(l, s) \in Nat
      BY <1>1, <1>4, <2>1, <2>3 DEF Counts, Committed
    <3>2. Claims(l, NULL) <= InStock[l]
      BY <1>5, <2>1
    <3>3. InStock[l] = IF db.status[l] = "Done" THEN db.qty[l] ELSE 0
      BY <2>1 DEF InStock
    <3> QED
      BY <1>2, <2>1, <3>1, <3>2, <3>3
  <2> QED
    BY <1>6, <2>2, <2>3
<1>8. \A l \in Lots : Exists(l)' <=> Exists(l)
  BY <1>3 DEF Exists, Named
<1>9. ASSUME NEW l \in Lots
      PROVE  /\ InStock'[l] = InStock[l] - UnitsWhile({"Done"})'[s][l]
             /\ Exists(l) => Claims(l, s) <= InStock'[l]
  <2>1. /\ InStock[l] = IF db.status[l] = "Done" THEN db.qty[l] ELSE 0
        /\ InStock'[l] = IF db'.status[l] = "Done" THEN db'.qty[l] ELSE 0
        /\ UnitsWhile({"Done"})'[s][l] = IF Exists(l) THEN db.sol[s][l] ELSE 0
    BY <1>1, <1>3, <1>8 DEF InStock, UnitsWhile
  <2>2. CASE l \notin Named(s)
    <3>1. db'.status[l] = db.status[l] /\ db'.qty[l] = db.qty[l]
      BY <1>3, <2>2
    <3>2. UnitsWhile({"Done"})'[s][l] = 0
      BY <1>2, <2>1, <2>2 DEF Named
    <3> QED
      BY <1>2, <1>5, <2>1, <3>1, <3>2
  <2>3. CASE l \in Named(s)
    <3>1. db.status[l] = "Done" /\ db.sol[s][l] + Claims(l, s) <= db.qty[l] /\ Exists(l)
      BY <1>7, <2>3 DEF Named
    <3>2. Claims(l, s) \in Nat /\ db.qty[l] \in Nat /\ db.sol[s][l] \in Nat
      BY <1>1, <1>2, <1>4 DEF Counts, Named
    <3>3. CASE SoldOut(s, l)
      <4>1. db'.status[l] = "Sold"
        BY <1>3, <2>3, <3>3
      <4> QED
        BY <2>1, <3>1, <3>2, <3>3, <4>1 DEF SoldOut
    <3>4. CASE ~SoldOut(s, l)
      <4>1. db'.status[l] = "Done" /\ db'.qty[l] = db.qty[l] - db.sol[s][l]
        BY <1>3, <2>3, <3>1, <3>4
      <4> QED
        BY <2>1, <3>1, <3>2, <4>1
    <3> QED
      BY <3>3, <3>4
  <2> QED
    BY <2>2, <2>3
<1>10. Fitting'
  <2>1. \A l \in Lots : Claims(l, NULL)' = Claims(l, s)
    <3>1. db'.soStatus[s] = "Done"
      BY <1>1, <1>3
    <3>2. \A l \in Lots : Claims(l, NULL)' = Claims(l, s)' + 0 /\ Claims(l, s)' \in Nat
      BY <1>1, <1>4, <3>1 DEF Counts, Committed
    <3> QED
      BY <1>4, <3>2
  <2> QED
    BY <1>8, <1>9, <2>1 DEF Fitting
<1>11. \A sts : \A z \in SOs \ {s} : UnitsWhile(sts)'[z] = UnitsWhile(sts)[z]
  BY <1>3, <1>8 DEF UnitsWhile
<1>12. UnitsWhile({"Done"})[s] = Ledger!Nothing /\ UnitsWhile(Committed)'[s] = Ledger!Nothing
  BY <1>1, <1>3, <1>6 DEF UnitsWhile, Ledger!Nothing, Committed
<1>13. UnitsWhile(Committed)[s] \in {Ledger!Nothing, UnitsWhile({"Done"})'[s]}
  BY <1>1, <1>3, <1>6, <1>8 DEF UnitsWhile, Ledger!Nothing, Committed
<1>14. InStock' = [l \in Lots |-> InStock[l] - UnitsWhile({"Done"})'[s][l]]
  BY <1>9 DEF InStock
<1>15. Ledger!Sell(s)
  BY <1>1, <1>10, <1>11, <1>12, <1>13, <1>14, FitsNext DEF Ledger!Sell, Ledger!OnlyFor, Ledger!Fits, Ledger!Claimed
<1> QED
  BY <1>1, <1>10, <1>15 DEF Ledger!Next

LEMMA UnsellEntry ==
  ASSUME LocksInv, LedgerInv, NEW x \in Txs, Commit(x), NEW r, r = req[x], r.op = "unsell"
  PROVE  Fitting' /\ Ledger!Next
<1> SUFFICES ASSUME NEW s, s = r.so PROVE Fitting' /\ Ledger!Next
  OBVIOUS
<1>1. /\ r \in Requests /\ Ready(x, r) /\ db' = Written(x, r) /\ s \in SOs
      /\ Consistent(db) /\ Consistent(db)' /\ Fitting
  BY CommitFrames, CoveredFits, Asks DEF LocksInv, LedgerInv, Frame, SellAsks
<1>2. /\ DOMAIN db = Fields /\ \A l \in Lots : db.qty[l] \in Nat /\ db.sol[s][l] \in Nat
      /\ DOMAIN db.soStatus = SOs
  BY <1>1, FieldsTyped, BooksTyped
<1>3. /\ db'.sol = db.sol /\ \A z \in SOs : db'.soStatus[z] = IF z = s THEN "Shipped" ELSE db.soStatus[z]
      /\ \A l \in Lots :
           /\ db'.status[l] = IF l \in Named(s) THEN "Done" ELSE db.status[l]
           /\ db'.qty[l] = IF l \notin Named(s) THEN db.qty[l]
                           ELSE db.sol[s][l] + IF db.status[l] = "Sold" THEN 0 ELSE db.qty[l]
  BY <1>1, <1>2 DEF Written, Fields, Restatus, All
<1>4. \A l \in Lots : Claims(l, s)' = Claims(l, s) /\ Counts(l) /\ Counts(l)'
  BY <1>1, <1>3, OthersClaims, CountsNow, CountsNext
<1>5. db.soStatus[s] = "Done"
  BY <1>1 DEF Ready, HeaderStill, SellAsks
<1>6. ASSUME NEW l \in Lots, Exists(l)
      PROVE  Claims(l, s) <= InStock[l]
  BY <1>1, <1>2, <1>4, <1>6 DEF Counts, Fitting
<1>7. \A l \in Named(s) : l \in Lots /\ Exists(l) /\ db.status[l] \in {"Done", "Sold"}
  BY <1>1 DEF Ready, Named
<1>8. \A l \in Lots : Exists(l)' <=> Exists(l)
  BY <1>3 DEF Exists, Named
<1>9. ASSUME NEW l \in Lots
      PROVE  /\ InStock'[l] = InStock[l] + UnitsWhile({"Done"})[s][l]
             /\ Exists(l) => InStock'[l] = InStock[l] + db.sol[s][l]
  <2>1. /\ InStock[l] = IF db.status[l] = "Done" THEN db.qty[l] ELSE 0
        /\ InStock'[l] = IF db'.status[l] = "Done" THEN db'.qty[l] ELSE 0
        /\ UnitsWhile({"Done"})[s][l] = IF Exists(l) THEN db.sol[s][l] ELSE 0
    BY <1>1, <1>5 DEF InStock, UnitsWhile
  <2>2. CASE l \notin Named(s)
    <3>1. db'.status[l] = db.status[l] /\ db'.qty[l] = db.qty[l]
      BY <1>3, <2>2
    <3>2. Exists(l) => db.sol[s][l] = 0
      BY <1>2, <2>2 DEF Named
    <3> QED
      BY <1>2, <2>1, <3>1, <3>2
  <2>3. CASE l \in Named(s)
    <3>1. /\ db'.status[l] = "Done"
          /\ db'.qty[l] = db.sol[s][l] + IF db.status[l] = "Sold" THEN 0 ELSE db.qty[l]
      BY <1>3, <2>3
    <3> QED
      BY <1>2, <1>7, <2>1, <2>3, <3>1
  <2> QED
    BY <2>2, <2>3
<1>10. Fitting'
  <2> SUFFICES ASSUME NEW l \in Lots, Exists(l) PROVE Claims(l, NULL)' <= InStock'[l]
    BY <1>8 DEF Fitting
  <2>1. db'.soStatus[s] \in Committed /\ db'.sol[s][l] = db.sol[s][l]
    BY <1>1, <1>3 DEF Committed
  <2>2. Claims(l, NULL)' = Claims(l, s) + db.sol[s][l] /\ Claims(l, s) \in Nat
    BY <1>1, <1>4, <2>1 DEF Counts
  <2>3. Claims(l, s) <= InStock[l] /\ InStock[l] \in Nat /\ db.sol[s][l] \in Nat
    BY <1>2, <1>4, <1>6 DEF Counts
  <2> QED
    BY <1>9, <2>2, <2>3
<1>11. \A sts : \A z \in SOs \ {s} : UnitsWhile(sts)'[z] = UnitsWhile(sts)[z]
  BY <1>3, <1>8 DEF UnitsWhile
<1>12. UnitsWhile({"Done"})'[s] = Ledger!Nothing
  BY <1>1, <1>3 DEF UnitsWhile, Ledger!Nothing
<1>13. UnitsWhile(Committed)'[s] = UnitsWhile({"Done"})[s]
  BY <1>1, <1>3, <1>5, <1>8 DEF UnitsWhile, Committed
<1>14. InStock' = [l \in Lots |-> InStock[l] + UnitsWhile({"Done"})[s][l]]
  BY <1>9 DEF InStock
<1>15. Ledger!Return(s)
  BY <1>1, <1>10, <1>11, <1>12, <1>13, <1>14, FitsNext
     DEF Ledger!Return, Ledger!OnlyFor, Ledger!Fits, Ledger!Claimed
<1> QED
  BY <1>1, <1>10, <1>15 DEF Ledger!Next

LEMMA SaleEntry ==
  ASSUME LocksInv, LedgerInv, NEW x \in Txs, Commit(x), NEW r, r = req[x], r.op \in SellAsks
  PROVE  Fitting' /\ Ledger!Next
<1> SUFFICES ASSUME NEW s, s = r.so PROVE Fitting' /\ Ledger!Next
  OBVIOUS
<1>1. /\ r \in Requests /\ Ready(x, r) /\ db' = Written(x, r) /\ s \in SOs
      /\ Consistent(db) /\ Consistent(db)' /\ Fitting
  BY CommitFrames, CoveredFits, Asks DEF LocksInv, LedgerInv, Frame
<1>2. DOMAIN db = Fields /\ DOMAIN db.soStatus = SOs /\ DOMAIN db.sol = SOs
  BY <1>1, FieldsTyped
<1>3. CASE r.op = "promote"
  <2>1. /\ db'.status = db.status /\ db'.qty = db.qty /\ db'.sol = db.sol
        /\ \A z \in SOs : db'.soStatus[z] = IF z = s THEN "Shipped" ELSE db.soStatus[z]
    BY <1>1, <1>2, <1>3 DEF Written, Fields
  <2>2. db.soStatus[s] = "Draft" /\ Validates(r)
    BY <1>1, <1>3 DEF Ready, HeaderStill, Proposed
  <2>3. \A l \in Lots : Exists(l) /\ db.sol[s][l] > 0 =>
          db.status[l] = "Done" /\ db.sol[s][l] + Claims(l, s) <= db.qty[l]
    BY <1>3, <2>2 DEF Validates, Asked, Exists
  <2> QED
    BY <1>1, <2>1, <2>2, <2>3, ClaimEntry
<1>4. CASE r.op = "rewrite"
  <2>1. /\ db'.status = db.status /\ db'.qty = db.qty /\ db'.soStatus = db.soStatus
        /\ \A z \in SOs : db'.sol[z] = IF z = s THEN r.want ELSE db.sol[z]
    BY <1>1, <1>2, <1>4 DEF Written, Fields
  <2>2. db.soStatus[s] # "Done" /\ Validates(r)
    BY <1>1, <1>4 DEF Ready, HeaderStill, Proposed, Open
  <2>3. \A l \in Lots : r.want[l] > 0 =>
          db.status[l] = "Done" /\ r.want[l] + Claims(l, s) <= db.qty[l]
    BY <1>4, <2>2 DEF Validates, Asked
  <2> QED
    BY <1>1, <2>1, <2>2, <2>3, ClaimEntry
<1> QED
  BY <1>3, <1>4, DoneEntry, UnsellEntry DEF SellAsks

LEMMA CommitEntry ==
  ASSUME LocksInv, LedgerInv, NEW x \in Txs, Commit(x)
  PROVE  Covered(db)' /\ Ledger!Next
<1>1. req[x] \in Requests
  BY CommitFrames
<1>2. Fitting' /\ Ledger!Next
  BY <1>1, Asks, OrderEntry, MoveEntry, SaleEntry
<1>3. (Covered(db) <=> Fitting)'
  BY CoveredFits, PTL
<1> QED
  BY <1>2, <1>3

LEMMA LedgerStep ==
  ASSUME LocksInv, LedgerInv, SplitsApart, [Next]_vars
  PROVE  LedgerInv' /\ [Ledger!Next]_(Ledger!ledger)
<1>1. ASSUME db' = db PROVE UNCHANGED Ledger!ledger
  BY <1>1 DEF Ledger!ledger, InStock, UnitsWhile, Exists
<1>2. CASE UNCHANGED vars
  <2>1. /\ db' = db /\ Consistent(db) /\ Consistent(db)' /\ Covered(db)'
    BY <1>2 DEF vars, LedgerInv, LocksInv
  <2>2. ASSUME NEW z \in Txs, req'[z] # NULL PROVE StageOK(z)'
    <3> DEFINE q == req[z]
    <3>1. /\ req'[z] = q /\ left'[z] = left[z] /\ want'[z] = want[z] /\ locks'[z] = locks[z]
          /\ StageOK(z) /\ Spares(z) /\ LinesOf(q.po)' = LinesOf(q.po)
      BY <1>2, <2>1, <2>2, SameBooks DEF vars, LedgerInv
    <3> QED
      BY <2>1, <3>1, StageSpared
  <2> QED
    BY <1>1, <2>1, <2>2 DEF LedgerInv
<1>3. CASE Next
  <2>1. PICK x \in Txs : Serve(x) \/ \E r \in Requests : Begin(x, r)
    BY <1>3 DEF Next
  <2>2. ASSUME NEW r \in Requests, Begin(x, r) PROVE db' = db /\ LedgerInv'
    <3>1. \A z \in Txs \ {x} : /\ req'[z] = req[z] /\ left'[z] = left[z] /\ want'[z] = want[z]
                               /\ locks'[z] = locks[z]
      BY <2>2 DEF Begin, Run, LocksInv
    <3>2. StageOK(x)' /\ db' = db
      BY <2>2, StageBegins DEF Begin
    <3> QED
      BY <3>1, <3>2, QuietKeepsLedger
  <2>3. ASSUME Lock(x) PROVE db' = db /\ LedgerInv'
    <3>1. \A z \in Txs \ {x} : /\ req'[z] = req[z] /\ left'[z] = left[z] /\ want'[z] = want[z]
                               /\ locks'[z] = locks[z]
      BY <2>3 DEF Lock, LocksInv
    <3>2. db' = db /\ req'[x] = req[x]
      BY <2>3 DEF Lock
    <3>3. req[x] # NULL
      BY <2>3 DEF Lock, LocksInv, TxOK
    <3>4. StageOK(x)'
      BY <2>3, StageLocks
    <3> QED
      BY <3>1, <3>2, <3>4, QuietKeepsLedger
  <2>4. ASSUME GoOn(x) PROVE db' = db /\ LedgerInv'
    <3>1. \A z \in Txs \ {x} : /\ req'[z] = req[z] /\ left'[z] = left[z] /\ want'[z] = want[z]
                               /\ locks'[z] = locks[z]
      BY <2>4 DEF GoOn, Run, LocksInv
    <3>2. StageOK(x)' /\ db' = db
      BY <2>4, StageGoesOn DEF GoOn
    <3> QED
      BY <3>1, <3>2, QuietKeepsLedger
  <2>5. ASSUME Refuse(x) \/ Abort(x) PROVE db' = db /\ LedgerInv'
    <3>1. \A z \in Txs \ {x} : /\ req'[z] = req[z] /\ left'[z] = left[z] /\ want'[z] = want[z]
                               /\ locks'[z] = locks[z]
      BY <2>5 DEF Refuse, Abort, End, LocksInv
    <3>2. req'[x] = NULL /\ db' = db
      BY <2>5 DEF Refuse, Abort, End, LocksInv
    <3> QED
      BY <3>1, <3>2, QuietKeepsLedger
  <2>6. ASSUME Commit(x) PROVE Ledger!Next /\ LedgerInv'
    <3>1. Covered(db)' /\ Ledger!Next
      BY <2>6, CommitEntry
    <3>2. req'[x] = NULL /\ \A z \in Txs \ {x} : req'[z] = req[z]
      BY <2>6 DEF Commit, End, LocksInv
    <3>3. \A z \in Txs \ {x} : req'[z] # NULL => StageOK(z)'
      BY <2>6, <3>2, StageStays
    <3> QED
      BY <3>1, <3>2, <3>3 DEF LedgerInv
  <2> QED
    BY <1>1, <2>1, <2>2, <2>3, <2>4, <2>5, <2>6 DEF Serve
<1> QED
  BY <1>2, <1>3

(* Whatever commits between the statements of a transaction, what it judged   *)
(* still holds when it writes: every commit is one entry of the ledger, for   *)
(* any requests and any number of them at a time, as long as no lot is split  *)
(* off while its purchase order is being archived or moved along.             *)
THEOREM LocksAreTheLedger == Spec /\ []SplitsApart => LocksKeepLedger
<1>1. Init => LedgerInv
  BY LocksAssumption DEF LocksAssumption, Init, LedgerInv
<1>2. LocksInv /\ LedgerInv /\ SplitsApart /\ [Next]_vars =>
        LedgerInv' /\ [Ledger!Next]_(Ledger!ledger)
  BY LedgerStep
<1> QED
  BY <1>1, <1>2, LocksInOrder, PTL DEF Spec, LocksKeepLedger
=============================================================================
