# Verification of the recycling ERP

TLA+ modules, TLC configurations and TLAPS proofs for the backend of the ERP in
`src/` (TypeScript on Hono and Postgres). The models are translated from the
handlers and services under `src/apps/backend/src` and from the migrations that
constrain their tables.

## The system and its parts

The company buys used parts on **purchase orders** (POs), keeps them as **lots**
(a lot is one `order_lines` row), moves lots between warehouses on **transfer
orders**, and sells them on **sell orders**. Every request is one Postgres
transaction. Around this core, managers link the bank's transactions to the orders
they paid, a fleet of scraping workers leases accounts and searches, and a queue of
AI reviews reads purchase orders.

The stock is where most of the difficulty lies: four families of requests write the
same lots, and each has to respect what the others were promised. The rest meets the
outside world: lost answers, crashes, retries, and people deciding on old pages.

| Component | State | Operations | Hard behaviour | What makes it correct |
|---|---|---|---|---|
| Purchase orders (`services/orderAdvance.ts`, `routes/orders/*`) | `orders.lifecycle`, `archived_at`; `order_lines.status`, `qty`, `qty_purchased` | create, advance, jump, edit (a purchaser's edit reverts to Draft), recount, archive, unarchive, delete | a stage move cascades to every line, claimed, transferred and sold lots among them | claims, pending transfers and sold lots survive every cascade |
| Sell orders (`routes/sellOrders.ts`, `services/sellOrderCreate.ts`, `lib/sellCommitment.ts`) | `sell_orders.status`, `done_at`, `archived_at`; `sell_order_lines` | draft, rewrite lines, move, Done, reopen a sale, close, archive | rival promotions; Done consumes stock and reopening it gives units back from the audit log | no unit is promised twice; bought = on hand + sold |
| Transfers (`routes/inventory.ts`) | `transfer_orders.status`, `order_lines.transfer_order_id`, `inventory_events` | transfer whole or split, receive, reopen, discard | status and origin come back from the log; a clone is merged back or kept | goods out are never stranded; moving buys nothing |
| Inventory page (`routes/inventory.ts`) | `order_lines` | set a status by hand, edit a quantity | works in any state of the other three | leaves committed units alone |
| Row locks (`services/orderLocks.ts`) | Postgres row locks | orders, then sell orders, then lines | READ COMMITTED statements read different snapshots | values used are those that were locked; deadlocks only where an order is missing |
| Pack mode (`routes/sellOrderPack.ts`) | `sell_order_packs` | tick, untick, count, apply | a tick lowers a line, an untick restores it after the line changed | what was ticked is what is sold |
| Sign-off (`services/sellOrderSignoff.ts`) | signatures with a fingerprint | sign, withdraw, gate Done | lines or prices change after signing, after loading, or between the two reads of a page | Done only on what stood when the signed page was loaded |
| Bank transactions (`banktx/`, `routes/bankTx.ts`) | pair, link, ignored, status | sync, pair, link, ignore, typed ids, rules | rival pairings, legs that fail later, rows waited for | a payment is one pair, linked whole, and counted once |
| Fleet control plane and agent (`fleet/`, `apps/fleet-agent`) | slots, leases, epochs, tickets, tasks; the agent's `/state` | claim, renew, stop, hand off, park, expire, next task | leases that lapse under a live worker; lost answers; agent restarts | one holder of an account; every account ends up driven |
| PO AI review (`services/poAiReview.ts`) | review rows, findings | queue, claim, supersede, retry | a slow run finishing late | findings are those of one run; every review ends |
| OAuth, sessions (`oauth/`, `routes/auth.ts`) | token families, codes | rotate, revoke, exchange once | a lost answer and its retry | one live token of a family (not modelled, see below) |
| Hand-off, shipping, after-sales, accounting, market, trackers, frontend, infrastructure | | mostly row-at-a-time CRUD, screens, scripts | | not modelled, see below |

The parts meet in three ways. The stock writers share rows and are ordered by row
locks. Pack mode, sign-off and sell order edits share one sell order row, which each
locks first. The fleet's agents and workers, the review loops and the bank sync run
beside the requests and meet them in the tables only.

`PROJECT.json` lists every component with its sources and what is left out of it, and
every hazard with the properties that watch it.

## Modules

    Totals ── Stock ─┬─ PurchaseOrders ─┐
                     ├─ SellOrders ─────┼─ StockSystem ── StockBook ── MCStockSystem
                     └─ Transfers ──────┘                     ⋮ refines
                                                          StockLedger
                                                              ⋮ refines
    Totals ── WriterLocks ── MCWriterLocks ...................┘
    FleetLeases ── FleetTasks ── FleetSystem ── MCFleet
    Payments ── MCPayments
    SellDesk, ReviewQueue ── MCDesk

    proofs:  TotalsProof ┐
             StockSystem ┴ StockClaims ─┬─ StockGoods
                                        └─ StockRefines (with StockBook)
             WriterLocks ── LocksProof    FleetSystem ── FleetProof
             Payments ── PaymentsProof    SellDesk, ReviewQueue ── DeskProof

### The stock core

* **Totals**: `SUM` over rows as the cardinality of the set of units. It is not
  recursive, so the same definition is evaluated by TLC and proved about.
* **Stock**: all the state, and the rules every writer shares: which statuses
  commit units, what a committed order holds of a lot (`CommittedQty`), what was
  bought (`Purchased`), how a recount moves it (`Recounted`), and the CHECK
  constraint that refuses it (`PurchasedCheck`).
* **PurchaseOrders**: `CreateOrder`, `Advance` (next stage or a manager's jump),
  the edits `PatchHeader`, `PatchAddLine`, `PatchRemoveLine`, `PatchRecount`, the
  inventory page's `EditLot`, `ArchiveOrder`, `UnarchiveOrder`, `DeleteOrder`.
  `CascadeBlocked`, `HeldBack` and `Cascade` are the three steps of the cascade.
* **SellOrders**: `CreateDraft`, `RewriteLines`, `Move` (every status move that
  touches no stock), `MarkDone`, `ReopenSale`, `ArchiveSellOrder`,
  `UnarchiveSellOrder`. `Sells`/`Validates` are `validateSellLines`.
* **Transfers**: `Transfer` (any mix of whole and split lots), `Receive`,
  `Reopen`, `Discard` (merges clones back or returns lines).
* **StockSystem** composes the three and states the properties.
* **StockLedger** is what the stock promises a salesperson, with no statuses,
  purchase orders or transfers: a lot has units in stock; one order at a time claims
  units that fit, takes what it claimed, or gets back exactly what it took; anything
  else restocks around the claims.
* **StockBook** reads `StockSystem` as that ledger. In stock are the units of a
  sellable lot on a live PO; claims and sales are the lines of committed and of Done
  orders. `KeepsLedger` says every request is at most one ledger entry.

How its state and steps correspond to the code:

* A step is one committed transaction. A refused request writes nothing and is not
  a step, so each refusal is a conjunct that is false. The code takes its row locks
  before it reads what it decides on; **WriterLocks** models those locks.
* A PATCH that edits several things is a sequence of single-effect steps: the
  edits of one request touch different lines, and the first edit of a purchaser is
  the one that reverts the order, so the rest of it lands on a draft.
* `sol[s][l]` is the sum over the lines of sell order `s` that name lot `l`; lines
  held at 0 are in `held[s]`. A lot that was deleted keeps its id as `"deleted"`: a
  sell line still naming it stands for one whose `inventory_id` the foreign key
  emptied.
* Of the audit log (`inventory_events`) only what a later request reads back is
  state: whether a PO was ever `submitted`, the `prior_status` and `peer_line_id` of
  a transfer, the status unarchive restores, and the `priorStatus` and `priorQty` a
  reopened sale gives back. An entry no later request can reach is reset.
* `handled` is a history variable. It marks lots whose status a manager set by hand
  or whose count was changed while `Sold`; the code lets the manager overrule the
  stock rules there, and the conservation law is stated for the other lots only.
* Left out because no line or claim depends on it: money, prices, owners, evidence,
  warehouses (a request always names another one), product numbers. Sign-off and
  paperwork can only delay a move, so leaving them out gives more behaviours.

### WriterLocks: what the atomic steps rest on

A transaction is its locking statements in the code's order, as `Plan` lists them for
each writer (promote, rewrite, Done, reopen a sale, cascade, recount, archive, transfer
whole or split, receive, reopen, discard). A statement takes its rows one at a time, and
every lock is held to the commit. As under READ COMMITTED, a statement sees what was
committed when it starts; between statements the code's checks run on what was read, and
its writes, all to rows it has locked, are made at the commit (`write` stands for the
statements after the last check, which lock nothing new). `Abort` is Postgres ending a
deadlock. A request names only what its caller can have seen (`Seen`), and a new row
gets an id of its own (`Fresh`).

Five statements take rows in no fixed order, named in `Unordered`: the line lock of
receive, reopen and discard, which has no `ORDER BY` (`inventory.ts` 2001, 2085,
2157); discard's lookup of the clones' sources, one by one (2198); the UPDATE of the
lines a Done order sells (`sellOrders.ts` 1926); archive's UPDATE of the sell
orders it strips lines from, which can meet one that named a lot only after archive
locked its sellers (`orderAdvance.ts` 421); and the UPDATE of a cascade (277), which
picks its lines by their order once more and so can meet a clone that was inserted
after the line lock (`rest`).

Left out: writers that take a single row, and DELETE of an order, whose locks are
those of a cascade.

### The scraping fleet

* **FleetLeases**: the ERP's slots, tickets and claims; a worker's container from
  `docker run` to its end; and the agent's tick in its steps, between any two of which
  it may die and restart with only what it wrote under `/state`. `sent` holds the
  claims whose request or answer is still on its way, so an answer may be lost and
  the claim repeated.
* **FleetTasks**: `NextTask` closes the task whose result the worker brings, hands back
  the task its lease already holds if the last answer was lost, or leases a ready one;
  `HandBack` is a worker on its way out, which takes no other; `WriteSearch` and
  `Expire` are the scheduler's.
* **FleetSystem** composes them, states fairness and the properties.

Simplifications: one worker on a host, no slot waits for its proxy, a claim takes any
free slot that `SKIP LOCKED` may offer, and the rollout of a release is one event
that has an idle worker replaced (`Roll`). A boot's claims are dropped with its ticket, as the
ERP would refuse them. `desired` names a lease from slot rows that come in no order.
Left out: quarantine, budgets, slug checks and priorities, walled workers (among them
the heartbeat of a parked one that releases its tasks, `fleet/claim.ts` 653-657), lost
accounts (`/retire` fences a slot that is still held, `fleet/workers.ts` 491-523),
deleting a host, holds after special exit codes, back-off and stagger, outages of the
licence, and a second agent on one host. A host wants its one worker or none, and the
tick's care of workers beyond that count is left out: removing a stopped one
(`plan.ts` 285) and running again one that was stopped for its replacement (317-327).

### Payments

**Payments** has the four kinds of transaction that write bank transactions: a
manager's call (link, unlink, pair, ungroup, ignore, restore), the sync (store what
the bank reports, dissolve, pair, apply rules, link), an order save that types a
PayPal id, and an edit of the ignore rules. A transaction that reads and later waits
for rows is two steps, with its own writes in a draft that locks them. A manager's
call widens what it locks to the group as it finds it (`Widen`) and is judged on what
it locked. Any transaction may fail.

A pair id is the set of its two legs; the ignore rules are one set of legs at a time.
The limit of four rounds in `lockBankGroupTx` is out of the model. So are sell orders
and commission as targets, notes, assignees, internal transfers, disputes, currencies
and the bank's cursor.

### The desk and the review queue

* **SellDesk** is the people at one sell order: editors whose forms may be old,
  packers, managers who sign from their page, and the purchase order that archives a
  lot away under them. Every writer locks the order row first, so a request is one
  step; a page is a read that may be old when it is used. `rows` counts rewrites of the
  lines, standing for their ids, `Version` is the lines fingerprint and `Deal` the
  sign-off's. A manager's page is two reads, as `GET /:id` runs them on two connections
  with no transaction around: `ReadLines` takes the lines, `ReadFingerprint` the
  fingerprint later, and only then the screen shows the answer (`page`). The queries
  start in that order; were the lines read last, the page would show later lines than
  its fingerprint, and `Sign` asks for the fingerprint alone. History variables are
  `reviewed`, the page each manager signed from, and `adopted`, the editors that send
  the version of their own adjustment. That a line was rewritten since a tick is told by
  `pack[l].at` and `rows`.
  Left out: lines typed by hand, a lot named by two lines, customers and currencies
  (they stand in the fingerprint as a price does), the check against the stock, which
  only refuses, and changes to who is an active manager. `Save` always checks the
  version: the code checks it when one is sent (`sellOrders.ts:957`), and the one editor
  page always sends the one it has (`DesktopSellOrders.tsx:1612`); a caller that sends
  lines without one rewrites unchecked. `ArchiveTakes` is one step; in the code an
  archive takes lines off an order that came to name a lot after its first lock in a
  second one (`orderAdvance.ts` 420-430), which `WriterLocks` models.
* **ReviewQueue** is `po_ai_reviews` and the loop of each backend process: `GiveUp`
  and `Claim` are the two statements of a claim, `GoStale` is the timeout, `EndRun`
  ends a run that may have been taken over, `Crash` ends a process. What a review
  reads and finds is left out; findings are named by the attempt that wrote them.
* **MCDesk** puts both in one run. They share no state, so a behaviour moves one of
  them, chosen at the start (`Parts`).

## What the runs check

Every reachable state of each instance is explored. `CHECK_DEADLOCK FALSE` is set
throughout: ids and budgets are finite, so a system with everything deleted, closed or
spent stops.

| Run | Instance | Checks |
|---|---|---|
| `transfers` | 1 PO, lots a and b (b is drawn by splits only), 1 sell order, 1 transfer, up to 2 units, a status of a set by hand once | `TypeOK`, `NoOversell`, `CommittedSellable`, `StockConserved`, `TransferNotStranded`, `MovesBuyNothing`, `KeepsLedger` |
| `rivals` | 1 lot of up to 2 units, 2 sell orders (symmetric), recounts to 0 and 1, a status set by hand once | `NoOversell`, `SaleFits`, `CommittedSellable`, `StockConserved`, `ArchivedOutOfStock`, `NoHiddenClaim`, `SaleStays`, `HeldLotNeverBack`, `KeepsLedger` |
| `two_orders` | 2 POs with a lot each, 1 sell order over both, every sell status | `ArchivedOutOfStock`, `CommittedSellable`, `CascadeKeepsDrafts`, `KeepsLedger` |
| `locks` | 2 POs, 2 sell orders, 4 lots (one a clone of another), 2 transfers, 3 transactions (symmetric) of one request each, 4 books to start from | `DeadlockNeedsUnordered`, `LocksKeepLedger`, `SaleHoldsOrders` |
| `fleet` | 2 hosts with a worker each, 1 or 2 accounts, 2 searches, 1 to 3 troubles | `OneLease`, `HandoffLeavesNoBrowser`, `HandedOnce`, `ReservationKept`, `DeadTokenStaysDead`, `Served`, `QueueDrains` |
| `payments` | 3 legs of one amount, 2 orders and 2 managers (symmetric), 4 starts with budgets | `PairsWhole`, `NeverLinkedAndIgnored`, `UngroupingKeepsPaid`, `VerdictsStand` |
| `desk` | 1 lot of up to 2 units, 1 editor, 2 managers, 2 prices; and 2 orders, 2 processes, 3 attempts, 2 reviews | `DoneAsLoaded`, `TickedIsSold`, `FindingsOfOneRun`, `SaveSeesLines`, `ReviewsEnd` |

Stock:

* `NoOversell`: committed sell orders never hold more of a lot than it has.
* `CommittedSellable`: a lot they hold stays confirmed stock on a live PO.
* `StockConserved`: bought = on hand + sold, over partial sales, sell-outs, reopened
  sales, recounts, splits and merges.
* `SaleFits`: the cap on what a reopened sale gives back never bites.
* `TransferNotStranded`: a pending transfer's lines are In Transit.
* `ArchivedOutOfStock`: archiving takes all of a PO's goods out of stock, and only that.
* `NoHiddenClaim`, `SaleStays`: no archived sell order holds stock; a sale never ends
  Closed or as a proposal.
* `MovesBuyNothing`, `HeldLotNeverBack`, `CascadeKeepsDrafts` are action properties:
  transfers change no purchase count, a held lot never goes back to unconfirmed, and
  a stage move leaves open sell orders promotable.
* `KeepsLedger`: the stock system implements `StockLedger`.

Locks:

* `LocksKeepLedger`: the commits of transactions that interleave a lock and a check at
  a time are still entries of the ledger. This is what lets `Stock` treat a
  transaction as one step. With four at a time there is one exception, the clone of
  the run `late_clone`; the theorem says it is the only one.
* `SaleHoldsOrders`: a sale commits with the POs of all its lots locked, though it
  read which POs those are before it locked its own header.
* `DeadlockNeedsUnordered`: in every deadlock some transaction is at one of the five
  unordered statements; the documented order keeps the others from waiting in a circle.

Fleet: `OneLease` (no worker holds two live leases), `HandoffLeavesNoBrowser` (an
account reserved for a successor is not open in the predecessor's browser),
`HandedOnce` (a worker leases one task, also after lost answers), `ReservationKept`
(only its reserved worker claims a handed-off account), `DeadTokenStaysDead` (a fenced
token is never honoured again, unless its account was removed and counts its epochs
anew), `Served` (once the troubles end every account that is
not parked is driven for good) and `QueueDrains` (no search stays queued or leased).

Payments: `PairsWhole` (a pair id always has both its legs),
`NeverLinkedAndIgnored` (the CHECK of migration 0178), `UngroupingKeepsPaid` (the legs
of a linked pair that is broken up never count for more than the pair did) and
`VerdictsStand` (what a manager linked, unlinked or gave back from the ignored ones is
not undone by the sync, a rule or a typed id, unless the payment itself becomes
another one: a leg that leaves one pair for another takes the new pair's link).

Desk: `DoneAsLoaded` (a Done order is what stood when the page each active manager
signed from read its fingerprint: nothing written later is signed unseen),
`TickedIsSold` (a lot ticked and not edited since sells what was counted),
`SaveSeesLines` (a save replaces only lines its editor has seen) and for the queue
`FindingsOfOneRun` and `ReviewsEnd`.

### Bounds, and why they are enough

In the stock instances `MaxQty` bounds what a request buys, sells or moves (2: a lot
can be sold in part, sold out, split, and over-asked); `Counts` the recounts (0 and 1,
below and above what is claimed); `Clones` the lots splits draw; `Stages` and
`SellMoves` leave out stages and statuses that the code treats like one that is kept
(`rivals` keeps every stage a move names, `two_orders` every sell status; `Awaiting
payment` is reached by reopened sales in all of them); `HandLots` with `handled` limits
a hand-set status to one, of lot a (the next lot to be counted or sold may be a clone
of it).
Claims concern one lot at a time, so two sell orders over one lot show every rivalry;
two POs show that an archive or a move touches its own lots only. `SellerSymmetry` is
sound: sell orders are interchangeable and the run has no liveness property. For what
is proved, these bounds matter to TLC only.

In `locks` each transaction id serves one request, so three transactions meet in every
order: two that run together, and one whose commit both may have read before or after.
The books start with lots claimed by one order and named by the other, with lots kept
apart, and with a pending transfer. Every writer can be asked for.

In `fleet`, `MaxTroubles` bounds what does not happen by itself: crashes and restarts,
lost answers and words, leases that lapse under a live worker, rolls, containers
started by hand and managers' edits. With both accounts in the fleet a behaviour meets
1, with one account 2, with one account and a host that only observes 3. A lease whose
worker is gone lapses without one. Eight boot ids, reused once nothing names them, are
more than are in use at a time. Searches are written once each. There are two of each
party that can be rivals.

In `payments` the legs are a charge, the pull that names it, and a second pull of the
same amount, so that each pairing has a rival. Each start has a budget of calls, typed
ids, rule edits and syncs; one sync and one typed id run at a time, as the advisory
lock and the order row make them. The sync may be told of one leg and may skip any leg
a waiting transaction wants. In `desk`, one lot is enough because the desk's rules
compare a line with its own tick and the fingerprint is of the whole; one rewrite makes
every tick and page old; three attempts with two crashes and two processes let a run be
taken over, taken over again and given up. The part `prices` has one manager, both
prices and packing, and its pages load between two writes (`LoadPage`, the two reads in
a row); the part `managers` has both managers, one price and no packing, and any write
may come between the reads of a page, with one page loading at a time. The desk's
theorems hold for all values, with no such restriction.

### Fairness

The stock, locks and payments runs have none: requests come from people, nothing
obliges them to come, and no liveness is claimed.

In `fleet`, weak fairness stands for what runs by itself: the agent's tick loop, the
worker's heartbeat and task loop, the network answering or dropping a claim, time
passing for a lease (`Lapse`) and the scheduler, which runs every 30 seconds. Crashes,
restarts, rolls and managers are troubles: they have no fairness and are finitely many,
and `Served` speaks of what is so once they have ended. `Served` assumes as many
authoritative workers as accounts. Each disjunction of an agent is one fair action, so
no order of its steps is assumed beyond the code's own.

In `desk`, the loop of each process and the passing of a run's time limit are weakly
fair; crashes are bounded, and so is the number of times a run goes stale between the
two statements of a claim, which would otherwise let attempts grow for ever.

### Where the code departs from what it says

Five runs end in a violation, each of one claim the repository makes:

* `discard_sold_clone` (`DiscardKeepsBought`): buy 3, split 2 off, receive, sell 1 of
  the clone, reopen the transfer, discard. The clone merges back with 1 unit and the
  PO is left having bought 2. The comment at `routes/inventory.ts:2205` says a clone
  cannot have been sold from.
* `late_clone` (`NoClaimVanishes`): an archive waits for a line while a transfer splits
  a clone off another line of the PO (its lock on the PO lets the INSERT through) and is
  received. The archive goes on, with no lock on the clone, and finds no claim on it. A
  shipped order is rewritten to name the clone, and the archive's UPDATE, which picks
  lines by their PO anew, takes the clone out of stock with the claim on it.
  `services/orderAdvance.ts:356` says a line an open sell order names cannot just
  vanish. It takes four requests; with three the locks hold.
* `linked_pair_unpaid` (`LinkedPairCounts`): an order save reads a lone pull, a sync
  pairs it with its charge, the save links the pull only. The paid figure counts the
  PayPal leg of a pair, so the order is linked and unpaid for good.
* `adjusted_save` (`CountsNotReverted`): an editor adopts the lines version answered to
  its own price adjustment, which also covers a count Pack mode wrote since it loaded;
  its next save puts the old quantity back. `routes/sellOrders.ts:58` says the version
  prevents exactly that.
* `torn_page` (`DoneAsShown`): a page reads the lines, a save commits, the page reads
  the fingerprint. Its manager looks at the old lines and signs the new fingerprint,
  which is current, and Done sells lines no one was shown. `routes/sellOrders.ts:2086`
  says an edit cannot be signed for a manager unseen; for the lines version of the same
  answer the handler folds it from the lines it read (62).

`MovesBuyNothing` excludes the first by its antecedent (no line of the transfer is on a
Done sell order), `SaveSeesLines` the one of `adjusted_save`, and `DoneAsLoaded` speaks
of the fingerprint's read instead of the screen, so the passing runs say how far the
claims hold.

Other behaviour met while modelling, for which no run is kept:

* A reopened sale gives units to a lot of a PO at Draft, as only the archive flag and
  the lot's own status are asked (`sellOrders.ts:1739`); ticket RS-343 says it is refused
  when the PO is "not at Reviewing / Done".
* A discard deletes a clone that a Draft sell order names (`inventory.ts:2231`);
  `lib/sellCommitment.ts:36` says such a line cannot vanish.
* Once `qty_purchased` is set, a lot cannot be counted to 0: the CHECK of migration
  0088 refuses it, while `lib/orderInput.ts:12` says it may be.
* Archive's late lock of a sell order (`orderAdvance.ts:421`) comes after its line
  locks, against the order `orderLocks.ts:16-20` gives; `locks` reaches the deadlock.
* A charge ignored by a rule is paired with a pull that arrives later, and the sync
  then links the pull alone (`banktx/sync.ts:425`).
* A typed id links the Mercury leg of a reversed charge, which `/link` refuses
  (`routes/bankTx.ts:545`).
* Two saves that type the ids of the two legs of one pair at once each link their own
  leg (`banktx/sync.ts:707`).
* A tick that lowers 5 to 3 followed by an edit back to 5 reads as 3 packed of 5, and
  an untick after another edit restores the old 5 (`sellOrderPack.ts:57`, 167).
* A review's attempts can exceed `MAX_ATTEMPTS` when its run goes stale between the
  two statements of a claim (`poAiReview.ts:397-416`).

## What is proved

TLAPS checks every proof to the last leaf. What is assumed are the constants'
assumptions, which TLC evaluates in the runs: `StockAssumption` (sell orders and lots
are finitely many, every lot has one PO, bounds have their types, `NULL` is no id),
`LocksAssumption` (ids are numbers, transactions, sell orders and lots are finitely
many, requests are well formed, the books to start from name no lot that was not bought
and claim no more than is for sale), `PaymentsAssumption` (no leg is of both banks,
marks are no pairs and no orders), `FleetAssumption` (workers and boot ids are numbers),
`DeskAssumption` and `QueueAssumption`.

| Module | Theorem | States |
|---|---|---|
| StockClaims | `TypeCorrect`, `NeverOversold`, `ClaimedStaySellable`, `SalesFit` | `Spec => []` of `TypeOK`, `NoOversell`, `CommittedSellable`, `SaleFits` |
| StockClaims | `HeldStaysDone`, `DraftsStayServed` | `Spec =>` `HeldLotNeverBack`, `CascadeKeepsDrafts` |
| StockGoods | `ArchivedStayOut`, `NoTransferStranded` | `Spec => []` of `ArchivedOutOfStock`, `TransferNotStranded` |
| StockGoods | `GoodsConserved`, `NoClaimHidden`, `SalesStay` | `Spec => []` of `StockConserved`, `NoHiddenClaim`, `SaleStays` |
| StockGoods | `MovedIsBought` | `Spec => MovesBuyNothing` |
| StockRefines | `ImplementsLedger` | `Spec => KeepsLedger` |
| LocksProof | `LocksInOrder`, `SaleKeepsItsOrders`, `OrderedNeverDeadlock` | `Spec =>` `[]LocksInv`, `SaleHoldsOrders`, `[]DeadlockNeedsUnordered` |
| LocksProof | `LocksAreTheLedger` | `Spec /\ []SplitsApart => LocksKeepLedger` |
| FleetProof | `FleetRows`, `WorkerHoldsOneLease`, `ReservedIsLeft`, `LeaseCoversOneTask` | `Spec => []` of `FleetInv`, `OneLease`, `HandoffLeavesNoBrowser`, `HandedOnce` |
| FleetProof | `ReservationHolds`, `FencedTokensStayDead` | `Spec =>` `ReservationKept`, `DeadTokenStaysDead` |
| PaymentsProof | `PaymentTypes`, `PairsStayWhole`, `LinkMeetsNoIgnore` | `PaySpec => []` of `PayTypeOK`, `PairsWhole`, `NeverLinkedAndIgnored` |
| PaymentsProof | `UngroupedCountsNoMore`, `ManagersVerdictsStand` | `PaySpec =>` `UngroupingKeepsPaid`, `VerdictsStand` |
| DeskProof | `DeskDoneAsLoaded`, `DeskTickedIsSold`, `DeskSaveSeesLines` | `DeskSpec =>` `[]DoneAsLoaded`, `[]TickedIsSold`, `SaveSeesLines` |
| DeskProof | `QueueFindings` | `QueueSpec => []FindingsOfOneRun` |

### Claims

The first four follow from one inductive invariant, `IInv`, the conjunction of
`TypeOK`, `NoOversell`, `CommittedSellable`, `SaleFits` and `NamesKnown` (a sell order
only names lots that were bought). No part is inductive alone:

* `TypeOK` needs `CommittedSellable` where `MarkDone` records the status a lot was
  sold from, which has to be a sellable one;
* `CommittedSellable` needs `NoOversell` where `MarkDone` turns a lot `Sold`: no
  other order may hold units of it then;
* `NoOversell` needs `SaleFits` where `ReopenSale` claims again all the units of the
  order but gives back at most what the lot had;
* all of them need `NamesKnown` where a new lot appears.

The argument follows the three kinds of action. Those that change no sell order keep
the claims if each claimed lot stays sellable and large enough (`ClaimsStand`); for
cascades that is `CascadeSparesClaims`: what the cascade would take out of
`Sellable`, `CascadeBlocked` refuses. Those that change one sell order are compared
with what the others hold (`OneOrder`, `PromotionServed`). `ArchiveOrder` takes lines
off several orders and only ever lowers what they hold (`TotalMonotone`).
`TotalsProof` has the facts about sums: a sum is positive iff a row is, grows with its
rows, can be split, and stays what it is when rows are renamed or put together. They
are proved by bijections between sets of units, as there is no induction to use.

The two action properties of held and of drafted lots follow from the same invariant:
`StepStays` goes through the actions once, with two questions of each (`HeldStays`,
`DraftsServed`). Only a cascade can answer them badly, and `HeldBack` and
`CascadeBlocked` are what keeps it from that.

### Places, books and the ledger

* **StockGoods** adds `PlaceInv`: every existing lot is in its place (`InPlace`: on an
  archived PO it is Archived or Sold, only there is it Archived, and on a pending
  transfer it is In Transit unless a status was set by hand), and new ids carry nothing.
  It is inductive relative to `IInv`, whose claims keep a promoted lot from being moved.
* It also adds `BookInv`: conservation, every `Sold` lot is on a Done order, a
  lot that was sold out and whose purchase is not counted apart was all taken by that
  sale, and new ids are clean. Conservation alone does not survive `ReopenSale`, which
  counts back from what the log recorded. Most steps move quantity and purchase alike
  (`BooksStand`); `MarkDone`, `ReopenSale` and the merge in `Discard` are the rest.
  `Headers`, over `TypeOK` alone, gives the two theorems on sell order statuses.
  `MovesBuyNothing` takes conservation and `ClonesStay` (a clone's source is of the same
  PO): a split gives a clone the units its source loses (`TotalReindex`), and a merge
  gives each source the counts of its clones (`TotalGroups`), which are what they were
  bought for because no Done order names them.
* **StockRefines** reads `IInv` as the ledger's `Fits` (`ClaimsFit`). A step that
  changes no sell order is a restock (`RestockStep`), one that changes a single order
  is a claim, a sale or a return, since the ledger sees the other orders unchanged.
  The theorem also covers statuses set by hand, of any lots at any time.

### Locks

`LocksInv` says that no row is held twice, and of each transaction that the statements
it has yet to run are the end of its plan (`Remains`), that at an ordered statement the
rows it waits for come in order and after all it holds (`InOrder`; transfers, orders,
sell orders, lines, and by id among themselves), and what it `Knows`: whatever its
checks have let pass still holds, because it holds the rows it stands on. `Knows` has a
part for each kind of check: the header of a sale and the orders of its lots
(`HeaderOK`), the units asked for (`AskedOK`), the lots recounted or moved (`NamedOK`),
the lines of a cascade (`LinesOK`) and of a transfer (`MovedOK`), and that a new row is
still new (`NewOK`).

`Knows` is kept by what others commit. `CommitFrames` says of each writer which rows it
changes and that it holds them (`Frame`), from which follows what any other transaction
`z` may rely on (`Spares`): its rows are as they were, and claims on its lots have only
shrunk. One lemma, `SparedOK`, then covers every pair of writers. New claims on a lot need its
lock (`AskedOK`), which is why a lot somebody else has locked meets none.

* `SaleHoldsOrders` takes `HeaderOK`, which survives other commits because a rewrite,
  the only request that lets a sell order name more lots, holds its header too.
* `DeadlockNeedsUnordered` takes `InOrder`: in a circle of ordered statements each waits
  for a row that comes after all it holds, and no finite circle has such an order.
* `LocksKeepLedger` takes `Knows` at the commit and `LedgerInv`: claims fit what is for
  sale (`Covered`), and a cascade or archive past its line lock holds all its lines and,
  for an archive, the sell orders that claim them (`StageOK`). `CommitEntry` then
  compares the books before and after each writer: an archive, a cascade, a recount or a
  transfer restocks, a promotion or a rewrite claims, Done sells, a reopened sale
  returns.

`StageOK` is false when a clone is split off after the line lock, so the last theorem
assumes `SplitsApart`: no lot is split off while its PO is archived or moved along. The
hypothesis is needed: `late_clone` meets all four requests and breaks `LocksKeepLedger`
too. Three transactions are too few for that, so the run `locks`, in which splits and
archives do overlap, checks the property without it.

### Fleet

`FleetInv` has five parts. `FleetTypeOK` is the rows. `StepsOK` says what an agent may
rely on in the middle of a tick: there is no container from the confirmation of a stop
to the next `docker run`, and a confirmed stop is written under `/state`. `RunsOK`
says that a running container spent its worker's ticket on its own boot. `SlotsOK` ties
accounts to containers: a live lease of a running worker, and any slot of the account
it drives, names its boot; a worker has one live lease, and a boot one account; a
reserved slot names no boot. `TasksOK` says that one lease (worker, account, epoch)
covers one search. `HandoffLeavesNoBrowser` is then immediate: a running container of
the worker an account is reserved for would be named by a slot that names no boot.
`OneLease` needs the boots: what a claim repeats is the slot that names its boot, so a
lost answer draws no second lease.

### Payments

A sync and a typed id write to drafts, so there are two tables to keep right: the one
committed and the one the sync sees (`SyncView`). `PayInv` says of both that each pair
has its legs (`PairsOK`) and no row is linked and ignored (`RowOK`), that a draft row
came of its committed row (`Comes`), that the drafts of a sync and of a typed id have no
row in common, and that a waiting manager's call names legs among those it locks. A step
that writes a set of legs keeps pairs if the set holds each leg's pair with it
(`Apart`). The theorems are of `PaySpec`, whose tables start empty and whose budgets are
any numbers; the run's other starts satisfy `PayInv`, so what is proved holds from them.

### Desk and queue

* `DeskProof`: signatures name the page they were given from (`Signatures`: a signature
  is the fingerprint of the page its manager reviewed, and at Done every active
  manager's is the order's own; the lines shown on that page are not in it, which is
  where `torn_page` breaks `DoneAsShown`), ticks
  are no newer than the rows (`Ticks`), and the version of a form that did not adopt
  one describes the lines it shows (`Versions`). For the queue, `FindingsOfOneRun` with
  the runs in flight (a process that runs an attempt names a review that exists and an
  attempt no later than its count).

Each of these invariants was model-checked on the instances before it was proved.

### What the proofs changed

Some things were right on the instances and wrong in general.

* `DeadTokenStaysDead` had no exception. With four troubles (the run has up to three) a
  claim sent twice is answered, its account parked, removed and added again, and then
  its second copy arrives: the slot is a fresh row (`fleet/workers.ts:448`) that counts
  epochs from 0 (`0206_fleet.sql:54`), so the claim is granted epoch 1 once more and
  the old token, which signs account and epoch (`fleet/claim.ts:493`), is good again.
  `CountsAnew` names exactly that.
* `VerdictsStand` said that only a manager links a leg whose link was cleared by hand. A
  leg whose pair is dissolved and which is joined to another charge in the same sync
  takes that charge's order; a manager's verdict was on another payment. With one
  PayPal leg this cannot happen.
* The locks of `WriterLocks` kept the ledger with three transactions and do not with
  four: a clone that is split off during an archive (`late_clone`, above). The cascade's
  own UPDATE is a locking statement of its own since (`rest`).
* In the same module a rewrite could name a lot that was never bought, two transfers
  could be given one id, a transfer that was never sent could be received, and a request
  made its last check and committed in one step, so that nothing came in between. None
  of it showed on the instances; the code is as the model now says.

### Only model-checked

The liveness properties `ReviewsEnd`, `Served` and `QueueDrains`, and `LocksKeepLedger`
where a lot is split off during an archive or a move of its PO, on three transactions.
Liveness under fairness, `ENABLED` and induction over data are beyond the provers used.

## What is left

* The parts of partly modelled components named above: sell orders and commission as
  payment targets, several workers on a host, holds and quarantine of the fleet, lots
  on several lines in Pack mode.

## Not modelled, and why

OAuth and sessions: a rotation, a revocation and the exchange of a code are each one
conditional UPDATE, so nothing happens between two of their steps, and that a repeated
rotation ends its family is a choice with nothing to check it against. Order hand-off
and members change owners only. Shipping takes a status from a
carrier. After-sales cases record money on finished sales; an open one delays a
reopened sale. Accounting, market prices, dashboards and suppliers are row-at-a-time
CRUD and reports. The trackers are browser automation. The frontend repeats checks
that the server makes again under its locks; the one thing it decides, the lines
version an open editor keeps, is in `SellDesk`. Scanning, price sheets and the MCP
tools call the same handlers. Deployment, backup and monitoring
scripts are pure I/O.
