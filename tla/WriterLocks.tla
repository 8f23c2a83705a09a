---------------------------- MODULE WriterLocks ----------------------------
(***************************************************************************)
(* The row locks that let Stock treat a transaction as one step.  Here a   *)
(* transaction is its statements, in the code's order: each locks the rows *)
(* it selects, one at a time and to the end of the transaction, and what   *)
(* it read decides whether the next one runs.  As in READ COMMITTED, every *)
(* statement sees what was committed when it starts.  A transaction only   *)
(* writes rows it has locked, all at its commit: what its checks read has  *)
(* to stand until then.                                                    *)
(*                                                                         *)
(* Stages are Done (sellable), Draft (not), In Transit, Sold and Archived. *)
(***************************************************************************)
EXTENDS Totals, SequencesExt

CONSTANTS
  Txs,        \* requests served at a time
  POs, SOs, TOs, Lots,   \* ids, compared as the database orders them
  PoOf,       \* order_lines.order_id
  PeerOf,     \* a clone's source: the lot its transfer split it from
  Requests,   \* bound: what may be asked
  Starts,     \* bound: the stock books requests meet
  NULL

Statuses == {"none", "Draft", "Done", "In Transit", "Sold", "Archived", "deleted"}
SellAsks == {"promote", "rewrite", "done", "unsell"}
OrderAsks == {"archive", "cascade", "recount"}
MoveAsks == {"move", "split", "receive", "reopen", "discard"}
WellFormed(r) ==
  /\ r.op \in SellAsks \cup OrderAsks \cup MoveAsks
  /\ r.op \in SellAsks => r.so \in SOs
  /\ r.op \in OrderAsks => r.po \in POs
  /\ r.op \in MoveAsks => r.to \in TOs
  /\ r.op = "rewrite" => r.want \in [Lots -> Nat]
  /\ r.op = "cascade" => r.stage \in {"Draft", "Done"}
  /\ r.op \in {"recount", "move", "split"} => r.lots \subseteq Lots /\ r.lots # {}
  /\ r.op = "recount" => r.units \in Nat
  /\ r.op = "split" => r.clone \in Lots
Committed == {"Shipped"}
Open == {"Draft", "Shipped"}

(* No order names a lot that was not bought yet, and committed orders claim   *)
(* no more of a lot than is for sale.                                         *)
Consistent(d) ==
  /\ DOMAIN d = {"status", "qty", "on", "soStatus", "sol", "toStatus", "archived"}
  /\ d.status \in [Lots -> Statuses] /\ d.qty \in [Lots -> Nat] /\ d.on \in [Lots -> TOs \cup {NULL}]
  /\ d.soStatus \in [SOs -> {"Draft", "Shipped", "Done"}] /\ d.sol \in [SOs -> [Lots -> Nat]]
  /\ DOMAIN d.toStatus = TOs
  /\ \A s \in SOs, l \in Lots : d.sol[s][l] > 0 => d.status[l] # "none"
Covered(d) ==
  \A l \in Lots : d.status[l] \notin {"none", "deleted"} =>
    Total([s \in SOs |-> d.sol[s][l]], {s \in SOs : d.soStatus[s] \in Committed})
      <= IF d.status[l] = "Done" THEN d.qty[l] ELSE 0

ASSUME LocksAssumption ==
  /\ POs \cup SOs \cup TOs \cup Lots \subseteq Nat
  /\ IsFiniteSet(Txs) /\ IsFiniteSet(SOs) /\ IsFiniteSet(Lots)
  /\ PoOf \in [Lots -> POs] /\ PeerOf \in [Lots -> Lots \cup {NULL}]
  /\ NULL \notin Requests /\ NULL \notin SOs /\ NULL \notin TOs
  /\ \A r \in Requests : WellFormed(r)
  /\ \A d \in Starts : Consistent(d) /\ Covered(d)

VARIABLES
  db,     \* committed rows: [status, qty, on, soStatus, sol, toStatus, archived]
  req,    \* the request a transaction serves, NULL before and after it
  left,   \* the statements it has yet to run
  want,   \* the rows its current statement has yet to lock, in its order
  locks,  \* the rows it holds
  served  \* transactions that have ended: each serves one request

vars == <<db, req, left, want, locks, served>>

PO(o) == <<"orders", o>>
SO(s) == <<"sell_orders", s>>
TO(t) == <<"transfer_orders", t>>
Line(l) == <<"order_lines", l>>

Exists(l) == db.status[l] \notin {"none", "deleted"}
LinesOf(o) == {l \in Lots : PoOf[l] = o /\ Exists(l)}
LinesOn(t) == {l \in Lots : Exists(l) /\ db.on[l] = t}
Named(s) == {l \in Lots : db.sol[s][l] > 0 /\ Exists(l)}
Claims(l, except) ==
  Total([s \in SOs |-> db.sol[s][l]], {s \in SOs \ {except} : db.soStatus[s] \in Committed})
NamedBy(l, sts) == \E s \in SOs : db.soStatus[s] \in sts /\ db.sol[s][l] > 0

Asked(r) == IF r.op = "rewrite" THEN r.want ELSE db.sol[r.so]
Validates(r) ==
  \A l \in Lots : Asked(r)[l] > 0 /\ (r.op = "rewrite" \/ db.status[l] # "deleted") =>
    db.status[l] = "Done" /\ Asked(r)[l] + Claims(l, r.so) <= db.qty[l]

----------------------------------------------------------------------------
(* The statements of each writer that lock rows, in order.                    *)
LinesFirst == <<"order", "lines", "sellers", "stripped", "rest">>   \* mutant: lines before sell orders
Archiving == <<"order", "sellers", "lines", "stripped", "rest">>
Plan(r) ==
  CASE r.op \in {"promote", "rewrite"} -> <<"header", "asked", "write">>
    [] r.op = "done"     -> <<"sources", "header", "asked", "taken">>
    [] r.op = "unsell"   -> <<"sources", "header", "back", "write">>
    [] r.op = "archive"  -> Archiving
    [] r.op = "cascade"  -> <<"order", "lines", "rest">>
    [] r.op = "recount"  -> <<"order", "line", "write">>
    [] r.op \in {"move", "split"} -> <<"line", "write">>
    [] r.op \in {"receive", "reopen"} -> <<"transfer", "moved", "write">>
    [] r.op = "discard"  -> <<"transfer", "moved", "peers">>

(* A clone goes back to a source that is off transfers and that nobody names. *)
Absorbing(l) ==
  /\ PeerOf[l] # NULL /\ Exists(PeerOf[l]) /\ db.on[PeerOf[l]] = NULL
  /\ \A s \in SOs : db.sol[s][PeerOf[l]] = 0

SellersOf(o) == {s \in SOs : db.soStatus[s] \in Open /\ \E l \in LinesOf(o) : db.sol[s][l] > 0}
Stripped(o) ==
  {s \in SellersOf(o) : \E l \in LinesOf(o) : db.sol[s][l] > 0 /\ db.status[l] # "Sold"}

(* The lines a stage move or an archive takes along: its UPDATE locks a clone *)
(* that was split off after the lines were locked.                            *)
Stage(r) == IF r.op = "archive" THEN "Archived" ELSE r.stage
Leaving(r) == {l \in LinesOf(r.po) : db.status[l] \notin {"Sold", Stage(r)}}

Proposed(r) == r.op # "done" \/ db.soStatus[r.so] = "Draft"
AskedUnlocked(r) == {}   \* mutant: validates lines it has not locked
AskedLots(r) == IF Proposed(r) THEN {l \in Lots : Asked(r)[l] > 0 /\ Exists(l)} ELSE {}

Selected(r, stmt) ==
  CASE stmt = "order"    -> {PO(r.po)}
    [] stmt = "header"   -> {SO(r.so)}
    [] stmt = "transfer" -> {TO(r.to)}
    [] stmt = "line"     -> {Line(l) : l \in {k \in r.lots : Exists(k)}}
    [] stmt = "lines"    -> {Line(l) : l \in LinesOf(r.po)}
    [] stmt = "rest"     -> {Line(l) : l \in Leaving(r)}
    [] stmt = "moved"    -> {Line(l) : l \in LinesOn(r.to)}
    [] stmt = "peers"    -> {Line(PeerOf[l]) : l \in {k \in LinesOn(r.to) : Absorbing(k)}}
    [] stmt = "sources"  -> {PO(PoOf[l]) : l \in Named(r.so)}
    [] stmt = "sellers"  -> {SO(s) : s \in SellersOf(r.po)}
    [] stmt = "stripped" -> {SO(s) : s \in Stripped(r.po)}
    [] stmt = "asked"    -> {Line(l) : l \in AskedLots(r)}
    [] stmt \in {"taken", "back"} -> {Line(l) : l \in Named(r.so)}
    [] stmt = "write"    -> {}

(* Statements with an ORDER BY lock in that order; the others in whatever     *)
(* order the database's plan finds the rows.                                  *)
Unordered == {"moved", "peers", "taken", "stripped", "rest"}
Queues(S, stmt) ==
  IF stmt \in Unordered THEN SetToSeqs(S)
  ELSE {q \in SetToSeqs(S) : \A i, j \in DOMAIN q : i < j => q[i][2] < q[j][2]}

----------------------------------------------------------------------------
(* What a writer checks once a statement has locked its rows.  The archive    *)
(* flag a line lock reads beside the line is older than the lock: it is left  *)
(* out, and the line's status has to tell.                                    *)
Pending(l) == db.status[l] = "In Transit" /\ db.on[l] # NULL
CascadeFree(o, st) ==
  /\ st = "Draft" => \A l \in LinesOf(o) : db.status[l] = "Done" => ~NamedBy(l, Open)
  /\ \A l \in LinesOf(o) : ~Pending(l)

SourcesHeldOnce(x, s) == TRUE   \* mutant: the sources are not read again
SourcesHeld(x, s) == \A l \in Named(s) : PO(PoOf[l]) \in locks[x]

HeaderAllows(x, r) ==
  CASE r.op = "promote" -> db.soStatus[r.so] = "Draft" /\ Named(r.so) # {}
    [] r.op = "rewrite" -> db.soStatus[r.so] \in Open
    [] r.op = "done"    -> db.soStatus[r.so] \in Open /\ Named(r.so) # {} /\ SourcesHeld(x, r.so)
    [] r.op = "unsell"  -> db.soStatus[r.so] = "Done" /\ SourcesHeld(x, r.so)

LineAllows(r) ==
  \A l \in r.lots :
    /\ Exists(l)
    /\ IF r.op = "recount" THEN r.units >= Claims(l, NULL)
       ELSE /\ db.status[l] = "Done"
            /\ Claims(l, NULL) + (IF r.op = "move" THEN db.qty[l] ELSE 1) <= db.qty[l]
            /\ r.op = "split" => db.qty[l] > 1

LinesAllow(r) ==
  IF r.op = "cascade" THEN CascadeFree(r.po, r.stage)
  ELSE CascadeFree(r.po, "Archived") /\ (r.remove \/ Stripped(r.po) = {})

MovedAllow(r) ==
  \A l \in LinesOn(r.to) :
    CASE r.op = "receive" -> TRUE
      [] r.op = "reopen"  -> db.status[l] = "Done" /\ Claims(l, NULL) = 0
      [] r.op = "discard" -> db.status[l] = "In Transit" /\ Claims(l, NULL) = 0

Passes(x, stmt) ==
  LET r == req[x] IN
  CASE stmt = "order"    -> r.po \notin db.archived
    [] stmt = "header"   -> HeaderAllows(x, r)
    [] stmt = "asked"    -> Proposed(r) => Validates(r)
    [] stmt = "back"     -> \A l \in Named(r.so) : /\ db.status[l] \in {"Done", "Sold"}
                                                   /\ PoOf[l] \notin db.archived
    [] stmt = "line"     -> LineAllows(r)
    [] stmt = "lines"    -> LinesAllow(r)
    [] stmt = "transfer" -> db.toStatus[r.to] = IF r.op = "reopen" THEN "Received" ELSE "Pending"
    [] stmt = "moved"    -> MovedAllow(r)
    [] OTHER             -> TRUE

----------------------------------------------------------------------------
(* What it writes when all have passed.                                       *)
Restatus(S, to) == [l \in Lots |-> IF l \in S THEN to[l] ELSE db.status[l]]
All(st) == [l \in Lots |-> st]
SoldOut(s, l) == db.qty[l] <= db.sol[s][l]
Landing == [l \in Lots |-> IF PoOf[l] \in db.archived THEN "Archived" ELSE "Done"]
Taken(x, r) == {l \in Leaving(r) : Line(l) \in locks[x]}
(* The open sell orders the archive found, and locked.                        *)
Strips(x, s) == SO(s) \in locks[x] /\ db.soStatus[s] \in Open
Merged(x, t) ==
  {l \in LinesOn(t) : /\ PeerOf[l] # NULL /\ Line(PeerOf[l]) \in locks[x]
                      /\ Exists(PeerOf[l]) /\ db.on[PeerOf[l]] = NULL}

Written(x, r) ==
  CASE r.op = "promote" -> [db EXCEPT !.soStatus[r.so] = "Shipped"]
    [] r.op = "rewrite" -> [db EXCEPT !.sol[r.so] = r.want]
    [] r.op = "done" ->
         [db EXCEPT !.soStatus[r.so] = "Done",
            !.status = Restatus(Named(r.so), [l \in Lots |-> IF SoldOut(r.so, l) THEN "Sold" ELSE @[l]]),
            !.qty = [l \in Lots |-> IF l \in Named(r.so) /\ ~SoldOut(r.so, l)
                                    THEN @[l] - db.sol[r.so][l] ELSE @[l]]]
    [] r.op = "unsell" ->
         [db EXCEPT !.soStatus[r.so] = "Shipped",
            !.status = Restatus(Named(r.so), All("Done")),
            !.qty = [l \in Lots |-> IF l \notin Named(r.so) THEN @[l]
                                    ELSE db.sol[r.so][l] + IF db.status[l] = "Sold" THEN 0 ELSE @[l]]]
    [] r.op = "archive" ->
         [db EXCEPT !.archived = @ \cup {r.po},
            !.sol = [s \in SOs |-> [l \in Lots |->
               IF l \in LinesOf(r.po) /\ db.status[l] # "Sold" /\ Strips(x, s) THEN 0 ELSE @[s][l]]],
            !.status = Restatus(Taken(x, r), All("Archived"))]
    [] r.op = "cascade" -> [db EXCEPT !.status = Restatus(Taken(x, r), All(r.stage))]
    [] r.op = "recount" ->
         [db EXCEPT !.qty = [l \in Lots |-> IF l \in r.lots THEN r.units ELSE @[l]]]
    [] r.op = "move" ->
         [db EXCEPT !.toStatus[r.to] = "Pending",
            !.status = Restatus(r.lots, All("In Transit")),
            !.on = [l \in Lots |-> IF l \in r.lots THEN r.to ELSE @[l]]]
    [] r.op = "split" ->
         [db EXCEPT !.toStatus[r.to] = "Pending", !.on[r.clone] = r.to,
            !.status[r.clone] = "In Transit",
            !.qty = [l \in Lots |-> IF l \in r.lots THEN @[l] - 1 ELSE IF l = r.clone THEN 1 ELSE @[l]]]
    [] r.op = "receive" ->
         [db EXCEPT !.toStatus[r.to] = "Received",
            !.status = Restatus({l \in LinesOn(r.to) : @[l] = "In Transit"}, Landing)]
    [] r.op = "reopen" ->
         [db EXCEPT !.toStatus[r.to] = "Pending",
            !.status = Restatus(LinesOn(r.to), All("In Transit"))]
    [] r.op = "discard" ->
         [db EXCEPT !.toStatus[r.to] = "discarded",
            !.on = [l \in Lots |-> IF l \in LinesOn(r.to) THEN NULL ELSE @[l]],
            !.status = Restatus(LinesOn(r.to),
                         [l \in Lots |-> IF l \in Merged(x, r.to) THEN "deleted" ELSE Landing[l]]),
            !.qty = [l \in Lots |->
               @[l] + Total(db.qty, {k \in Merged(x, r.to) : PeerOf[k] = l})]]

----------------------------------------------------------------------------
Init ==
  /\ db \in Starts
  /\ req = [x \in Txs |-> NULL] /\ left = [x \in Txs |-> <<>>]
  /\ want = [x \in Txs |-> <<>>] /\ locks = [x \in Txs |-> {}]
  /\ served = {}

Run(x, r, stmts) ==
  /\ left' = [left EXCEPT ![x] = stmts]
  /\ \E queue \in Queues(Selected(r, Head(stmts)) \ locks[x], Head(stmts)) :
       want' = [want EXCEPT ![x] = queue]

(* A request names what its caller has seen; a new row gets an id of its own. *)
Seen(r) ==
  /\ r.op = "rewrite" => \A l \in Lots : r.want[l] > 0 => db.status[l] # "none"
  /\ r.op \in {"recount", "move", "split"} => \A l \in r.lots : db.status[l] # "none"
  /\ r.op \in {"receive", "reopen", "discard"} => db.toStatus[r.to] # "none"
Splits(r) == r.op = "split"
Moves(r) == r.op \in {"move", "split"}
Fresh(r) ==
  /\ Moves(r) => /\ db.toStatus[r.to] = "none"
                 /\ \A y \in Txs : req[y] # NULL /\ Moves(req[y]) => req[y].to # r.to
  /\ Splits(r) => /\ db.status[r.clone] = "none"
                  /\ \A y \in Txs : req[y] # NULL /\ Splits(req[y]) => req[y].clone # r.clone

Begin(x, r) ==
  /\ req[x] = NULL /\ x \notin served
  /\ Seen(r) /\ Fresh(r)
  /\ req' = [req EXCEPT ![x] = r]
  /\ Run(x, r, Plan(r))
  /\ UNCHANGED <<db, locks, served>>

Free(row) == \A y \in Txs : row \notin locks[y]
Lock(x) ==
  /\ want[x] # <<>> /\ Free(Head(want[x]))
  /\ locks' = [locks EXCEPT ![x] = @ \cup {Head(want[x])}]
  /\ want' = [want EXCEPT ![x] = Tail(@)]
  /\ UNCHANGED <<db, req, left, served>>

Judging(x) == req[x] # NULL /\ want[x] = <<>>
GoOn(x) ==
  /\ Judging(x) /\ Len(left[x]) > 1 /\ Passes(x, Head(left[x]))
  /\ Run(x, req[x], Tail(left[x]))
  /\ UNCHANGED <<db, req, locks, served>>

End(x) ==
  /\ req' = [req EXCEPT ![x] = NULL] /\ left' = [left EXCEPT ![x] = <<>>]
  /\ want' = [want EXCEPT ![x] = <<>>] /\ locks' = [locks EXCEPT ![x] = {}]
  /\ served' = served \cup {x}

Commit(x) ==
  /\ Judging(x) /\ Len(left[x]) = 1 /\ Passes(x, Head(left[x]))
  /\ db' = Written(x, req[x])
  /\ End(x)
Refuse(x) ==
  /\ Judging(x) /\ ~Passes(x, Head(left[x]))
  /\ End(x) /\ UNCHANGED db

(* Transactions waiting for one another: the database aborts one of them, and *)
(* its request answers 500.                                                   *)
WaitsFor(x, S) == want[x] # <<>> /\ \E y \in S \ {x} : Head(want[x]) \in locks[y]
Deadlocked(S) == S # {} /\ \A x \in S : WaitsFor(x, S)
Abort(x) ==
  /\ \E S \in SUBSET Txs : x \in S /\ Deadlocked(S)
  /\ End(x) /\ UNCHANGED db

Serve(x) == Lock(x) \/ GoOn(x) \/ Commit(x) \/ Refuse(x) \/ Abort(x)
Next == \E x \in Txs : Serve(x) \/ \E r \in Requests : Begin(x, r)

Spec == Init /\ [][Next]_vars

----------------------------------------------------------------------------
InStock == [l \in Lots |-> IF db.status[l] = "Done" THEN db.qty[l] ELSE 0]
UnitsWhile(sts) ==
  [s \in SOs |-> [l \in Lots |-> IF db.soStatus[s] \in sts /\ Exists(l) THEN db.sol[s][l] ELSE 0]]
Ledger == INSTANCE StockLedger WITH
  Sellers <- SOs, Goods <- Lots,
  stock <- InStock, claims <- UnitsWhile(Committed), sold <- UnitsWhile({"Done"})

(* The locks make every transaction one entry of the ledger: whatever commits *)
(* between its statements, what it judged still holds when it writes.         *)
LocksKeepLedger == [][Ledger!Next]_Ledger!ledger

(* "A line an open sell order still names cannot just vanish": what a         *)
(* committed sell order claims is not archived (orderAdvance.ts:356-362).     *)
(* The archive has not locked a clone that was split off while it waited for  *)
(* the source: a sale may still come to name it after the look at the claims. *)
NoClaimVanishes == \A l \in Lots : db.status[l] = "Archived" => ~NamedBy(l, Committed)

(* A sale writes the totals of the purchase orders its lots belong to only    *)
(* with those orders locked, though it picked them before it locked itself.   *)
SaleHoldsOrders ==
  [][\A x \in Txs : Commit(x) /\ req[x].op \in {"done", "unsell"} =>
       \A l \in Named(req[x].so) : PO(PoOf[l]) \in locks[x]]_vars

(* orders, then sell orders, then lines by id: writers whose statements all   *)
(* follow that order never wait for one another.  A deadlock takes a          *)
(* statement that locks lines in no order, or the archive's late sell orders. *)
DeadlockNeedsUnordered ==
  \A S \in SUBSET Txs : Deadlocked(S) => \E x \in S : Head(left[x]) \in Unordered
=============================================================================
