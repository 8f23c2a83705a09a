------------------------------ MODULE SellDesk ------------------------------
(***************************************************************************)
(* The people at one sell order: editors who save the lines they loaded,   *)
(* packers who tick lots into the box, managers who sign what they read,   *)
(* and the purchase order that archives a lot away under them.  Every      *)
(* writer locks the order row before it reads, so each request is one      *)
(* step; a page is a read that may be old when it is used, and a manager's *)
(* page is two: its lines, and later the fingerprint it signs.             *)
(*                                                                         *)
(* Left out: lines typed by hand and lots named twice, customers and       *)
(* currencies (they are in the fingerprint as a price is), warehouses, the *)
(* check against the stock, which can only refuse a request, and callers   *)
(* that send lines without a version.                                      *)
(***************************************************************************)
EXTENDS Integers, FiniteSets

CONSTANTS
  Lots,         \* the lots the order may name
  Editors,      \* open editors of the order
  Managers,     \* the managers
  MaxQty,       \* most units of a lot on the order (bound)
  Prices,       \* the unit prices in use
  MaxRewrites   \* line rewrites of a behaviour (bound)

ASSUME DeskAssumption == MaxQty \in Nat \ {0} /\ Prices \subseteq Nat /\ Prices # {}

VARIABLES
  soStatus,   \* sell_orders.status
  wasDone,    \* done_at is set
  line,       \* sell_order_lines by lot: qty and unit price
  rows,       \* how often the rows were replaced: their ids
  pack,       \* sell_order_packs by lot; `at` is the value of rows it was written at
  form,       \* each editor's lines as loaded or last saved, and the version it sends back
  active,     \* the active managers, who stay the same in a behaviour
  loading,    \* the lines of a page whose fingerprint is not read yet
  page,       \* what each manager has on the screen: lines, and a fingerprint to sign
  signed,     \* sell_order_signoffs: the fingerprint each manager signed
  reviewed,   \* history: the page each manager signed from
  adopted     \* history: editors that carry the version of an adjustment

orderVars == <<soStatus, wasDone>>
lineVars == <<line, rows, pack>>
formVars == <<form, adopted>>
signVars == <<active, loading, page, signed, reviewed>>
deskVars == <<orderVars, lineVars, formVars, signVars>>

Proposal == {"Draft", "Packing"}
Open == Proposal \cup {"Shipped", "Awaiting payment"}
NoLine == [qty |-> -1, price |-> 0]
NoRow == [of |-> 0, counted |-> 0, packed |-> FALSE, at |-> 0]
NoDeal == [l \in Lots |-> [qty |-> -2, price |-> 0]]
NoPage == [lines |-> NoDeal, deal |-> NoDeal]
OnOrder(l) == line[l] # NoLine
Units(l) == line[l].qty

(* linesVersion: the id, qty and price of every line. *)
VersionByPrice ==   \* mutant: qty left out of the hash
  <<rows, [l \in Lots |-> line[l].price]>>
Version == <<rows, line>>

(* orderFingerprint: what the order sells, whatever rows say it. *)
Deal == line

DeskInit ==
  /\ soStatus = "Draft" /\ wasDone = FALSE
  /\ line \in {f \in [Lots -> {NoLine} \cup [qty : {MaxQty}, price : Prices]] : \E l \in Lots : f[l] # NoLine}
  /\ rows = 0
  /\ pack = [l \in Lots |-> NoRow]
  /\ form = [e \in Editors |-> [lines |-> line, version |-> Version]]
  /\ adopted = {}
  /\ active \in SUBSET Managers
  /\ loading = [m \in Managers |-> NoDeal]
  /\ page = [m \in Managers |-> NoPage]
  /\ signed = [m \in Managers |-> NoDeal]
  /\ reviewed = [m \in Managers |-> NoPage]

----------------------------------------------------------------------------
(* Ticks no line answers to any more are dropped. *)
Pruned(ticks, lines) == [l \in Lots |-> IF lines[l] = NoLine THEN NoRow ELSE ticks[l]]

LoadForm(e) ==
  /\ form' = [form EXCEPT ![e] = [lines |-> line, version |-> Version]]
  /\ adopted' = adopted \ {e}
  /\ UNCHANGED <<orderVars, lineVars, signVars>>

(* What an editor sends: the lines it shows, with one lot added, dropped,     *)
(* recounted or repriced.  Only a lot on the order may be held at 0.          *)
Edits(e) ==
  {[form[e].lines EXCEPT ![l] = x] :
     l \in Lots, x \in {NoLine} \cup [qty : 0..MaxQty, price : Prices]}

(* PATCH: the rows are deleted and written again as sent, if nothing wrote    *)
(* the lines since the version sent with them; the editor page always sends   *)
(* one.                                                                       *)
Save(e, edited) ==
  /\ soStatus \in Open
  /\ rows < MaxRewrites
  /\ form[e].version = Version
  /\ \E l \in Lots : edited[l] # NoLine
  /\ \A l \in Lots : edited[l].qty = 0 => OnOrder(l)
  /\ line' = edited
  /\ rows' = rows + 1
  /\ pack' = Pruned(pack, edited)
  /\ form' = [form EXCEPT ![e] = [lines |-> edited, version |-> Version']]
  /\ adopted' = adopted \ {e}
  /\ UNCHANGED <<orderVars, signVars>>

(* adjust-price, unversioned: the prices move in place.                       *)
Adjusted(to) ==
  /\ soStatus \in Open
  /\ \E l \in Lots : Units(l) > 0
  /\ line' = [l \in Lots |-> IF OnOrder(l) THEN [line[l] EXCEPT !.price = to] ELSE NoLine]
  /\ UNCHANGED <<orderVars, rows, pack, signVars>>
AdjustFromView(to) == Adjusted(to) /\ UNCHANGED formVars
(* An editor whose save goes no further, its status move refused, stays open  *)
(* and sends the version of its adjustment from then on.                      *)
AdjustFromEditor(e, to) ==
  /\ Adjusted(to)
  /\ form' = [form EXCEPT ![e].version = Version']
  /\ adopted' = adopted \cup {e}

----------------------------------------------------------------------------
(* Pack mode.  A tick on a proposal short of the line's qty lowers the line   *)
(* to the count; taking that tick back restores the qty it came down from.    *)
TakesCounts == soStatus \in Proposal
Lowered(l) ==
  /\ TakesCounts
  /\ pack[l].packed
  /\ pack[l].counted = Units(l)
  /\ pack[l].of > Units(l)
Restores(l, packed) == Lowered(l) /\ ~packed
Packable(l, packed) == IF Restores(l, packed) THEN pack[l].of ELSE Units(l)
Lowers(l, counted, packed) == TakesCounts /\ packed /\ counted < Units(l)
WrittenAgainst(l, counted, packed) ==
  IF Restores(l, packed) \/ (Lowers(l, counted, packed) /\ Lowered(l)) THEN pack[l].of
  ELSE Units(l)
PackedQty(l, counted, packed) ==
  IF Restores(l, packed) THEN pack[l].of
  ELSE IF Lowers(l, counted, packed) THEN counted ELSE Units(l)
Row(of, counted, packed) == [of |-> of, counted |-> counted, packed |-> packed, at |-> rows]

Tick(l, counted, packed) ==
  /\ soStatus # "Closed"
  /\ OnOrder(l)
  /\ Packable(l, packed) > 0
  /\ counted <= Packable(l, packed)
  /\ ~(Lowered(l) /\ packed /\ counted = Units(l))
  /\ line' = [line EXCEPT ![l].qty = PackedQty(l, counted, packed)]
  /\ pack' = [pack EXCEPT ![l] = Row(WrittenAgainst(l, counted, packed), counted, packed)]
  /\ UNCHANGED <<orderVars, rows, formVars, signVars>>

(* Apply ticks every named lot still counted short of its line. *)
Flagged(l) ==
  /\ OnOrder(l) /\ Units(l) > 0
  /\ pack[l].of = Units(l) /\ ~pack[l].packed /\ pack[l].counted < Units(l)
Apply(named) ==
  /\ TakesCounts
  /\ \E l \in named : Flagged(l)
  /\ line' = [l \in Lots |->
       IF l \in named /\ Flagged(l) THEN [line[l] EXCEPT !.qty = pack[l].counted] ELSE line[l]]
  /\ pack' = [l \in Lots |->
       IF l \in named /\ Flagged(l) THEN Row(Units(l), pack[l].counted, TRUE) ELSE pack[l]]
  /\ UNCHANGED <<orderVars, rows, formVars, signVars>>

(* The purchase order of the lots in `gone` is archived, its sell lines with  *)
(* it; a line held at 0 claims nothing and stays.                             *)
ArchiveTakes(gone) ==
  /\ soStatus \in Open
  /\ gone # {} /\ \A l \in gone : Units(l) > 0
  /\ line' = [l \in Lots |-> IF l \in gone THEN NoLine ELSE line[l]]
  /\ pack' = Pruned(pack, line')
  /\ UNCHANGED <<orderVars, rows, formVars, signVars>>

----------------------------------------------------------------------------
(* Sign-off.  GET /:id reads the lines and then, by a query of its own and    *)
(* outside a transaction, the fingerprint; the screen shows the last answer.  *)
ReadLines(m) ==
  /\ loading' = [loading EXCEPT ![m] = line]
  /\ UNCHANGED <<orderVars, lineVars, formVars, active, page, signed, reviewed>>
ReadFingerprint(m) ==
  /\ loading[m] # NoDeal
  /\ page' = [page EXCEPT ![m] = [lines |-> loading[m], deal |-> Deal]]
  /\ loading' = [loading EXCEPT ![m] = NoDeal]
  /\ UNCHANGED <<orderVars, lineVars, formVars, active, signed, reviewed>>

(* The signature names the fingerprint of the page. *)
SignsUnread(m) == TRUE   \* mutant: the order is signed as it stands, unread
SignsRead(m) == page[m].deal = Deal

Sign(m) ==
  /\ soStatus \in Open
  /\ SignsRead(m)
  /\ signed' = [signed EXCEPT ![m] = Deal]
  /\ reviewed' = [reviewed EXCEPT ![m] = page[m]]
  /\ UNCHANGED <<orderVars, lineVars, formVars, active, loading, page>>

Withdraw(m) ==
  /\ soStatus \in Open
  /\ signed[m] # NoDeal
  /\ signed' = [signed EXCEPT ![m] = NoDeal]
  /\ reviewed' = [reviewed EXCEPT ![m] = NoPage]
  /\ UNCHANGED <<orderVars, lineVars, formVars, active, loading, page>>

----------------------------------------------------------------------------
(* Status moves: to a committed status, Done (with every signature on the     *)
(* order as it stands), Closed, and back.                                     *)
Forward ==
  [Draft |-> {"Packing", "Shipped", "Awaiting payment"}, Packing |-> {"Draft", "Shipped", "Awaiting payment"},
   Shipped |-> {"Awaiting payment"}]
MissingSigners == {m \in active : signed[m] # Deal}

MoveOn(to) ==
  /\ soStatus \in DOMAIN Forward /\ to \in Forward[soStatus]
  /\ to \in Proposal \/ \E l \in Lots : Units(l) > 0
  /\ soStatus' = to
  /\ UNCHANGED <<wasDone, lineVars, formVars, signVars>>

MarkDone ==
  /\ soStatus \in Open
  /\ \E l \in Lots : Units(l) > 0
  /\ MissingSigners = {}
  /\ soStatus' = "Done" /\ wasDone' = TRUE
  /\ UNCHANGED <<lineVars, formVars, signVars>>

ReopenSale ==
  /\ soStatus = "Done"
  /\ \E l \in Lots : Units(l) > 0
  /\ soStatus' = "Awaiting payment"
  /\ UNCHANGED <<wasDone, lineVars, formVars, signVars>>

Close ==
  /\ soStatus \in Open /\ ~wasDone
  /\ soStatus' = "Closed"
  /\ UNCHANGED <<wasDone, lineVars, formVars, signVars>>

(* A deal revived after it was closed is a new one to approve and to pack. *)
RevivedKept == pack   \* mutant: the ticks are kept
RevivedTicks == [l \in Lots |-> NoRow]

Revive ==
  /\ soStatus = "Closed"
  /\ soStatus' = "Draft"
  /\ signed' = [m \in Managers |-> NoDeal]
  /\ reviewed' = [m \in Managers |-> NoPage]
  /\ pack' = RevivedTicks
  /\ UNCHANGED <<wasDone, line, rows, formVars, active, loading, page>>

----------------------------------------------------------------------------
Editing(e) ==
  \/ LoadForm(e)
  \/ \E edited \in Edits(e) : Save(e, edited)
  \/ \E to \in Prices : AdjustFromEditor(e, to)

Signing(m) == ReadLines(m) \/ ReadFingerprint(m) \/ Sign(m) \/ Withdraw(m)

Packing ==
  \/ \E l \in Lots, counted \in 0..MaxQty, packed \in BOOLEAN : Tick(l, counted, packed)
  \/ \E named \in SUBSET Lots : Apply(named)

Moving ==
  \/ \E to \in Proposal \cup {"Shipped", "Awaiting payment"} : MoveOn(to)
  \/ MarkDone \/ ReopenSale \/ Close \/ Revive

DeskNext ==
  \/ \E e \in Editors : Editing(e)
  \/ \E to \in Prices : AdjustFromView(to)
  \/ \E m \in active : Signing(m)
  \/ Packing
  \/ \E gone \in SUBSET Lots : ArchiveTakes(gone)
  \/ Moving

DeskSpec == DeskInit /\ [][DeskNext]_deskVars

----------------------------------------------------------------------------
(* A Done order sells exactly what it sold when the page each active manager  *)
(* signed from read its fingerprint: lots, units and prices, whatever was     *)
(* saved, ticked, adjusted, archived or reopened since.                       *)
DoneAsLoaded == soStatus = "Done" => \A m \in active : reviewed[m].deal = Deal

(* What the comment on setSignoff promises: nothing can be signed for a       *)
(* manager unseen.  A Done order sells the lines each active manager had on   *)
(* the screen when signing.                                                   *)
DoneAsShown == soStatus = "Done" => \A m \in active : reviewed[m].lines = Deal

(* Pack mode's rows are about lines on the order, and on a proposal a lot     *)
(* ticked into the box and not edited since sells exactly what was counted    *)
(* into it, also when the order was closed and revived.                       *)
TickedIsSold ==
  \A l \in Lots : pack[l] # NoRow =>
    /\ OnOrder(l)
    /\ soStatus \in Proposal /\ pack[l].packed /\ pack[l].at = rows => pack[l].counted = Units(l)

(* A save replaces only lines its editor has seen: a short count, a price or  *)
(* a lot taken away since the page was loaded is never written over.  (The    *)
(* exception is an editor that sends the version of its own adjustment.)      *)
Rewrites(e) == rows' # rows /\ form'[e] # form[e]
SaveSeesLines ==
  [][\A e \in Editors : Rewrites(e) /\ e \notin adopted => form[e].lines = line]_deskVars

(* The same without the exception, for what Pack mode and archives write: a   *)
(* count put on a line since the editor loaded it is never written over.  The *)
(* comment on linesVersion promises it: the rewrite would revert it without a *)
(* word.                                                                      *)
Counts(lines) == [l \in Lots |-> lines[l].qty]
CountsNotReverted ==
  [][\A e \in Editors : Rewrites(e) => Counts(form[e].lines) = Counts(line)]_deskVars
=============================================================================
