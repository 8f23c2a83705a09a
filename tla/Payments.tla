------------------------------ MODULE Payments ------------------------------
(***************************************************************************)
(* The Payments page and the bank sync.  A bank transaction is a leg; a    *)
(* PayPal charge and the Mercury pull that settled it are two legs of one  *)
(* payment and are joined as a pair; a payment is linked to the purchase   *)
(* order it paid.  Four kinds of transaction write legs: a manager's call  *)
(* (routes/bankTx.ts), the sync (banktx/sync.ts), an order save that types *)
(* a PayPal transaction id (routes/orders/patch.ts) and an edit of the     *)
(* ignore rules.                                                           *)
(*                                                                         *)
(* A transaction that waits for a row between two of its statements keeps  *)
(* its own rows in a draft, which nobody else reads and which locks them;  *)
(* committing lays the draft over the table.                               *)
(***************************************************************************)
EXTENDS Naturals, FiniteSets

CONSTANTS
  Mercury, PayPal,  \* the legs of either bank
  Orders, Ids,      \* purchase orders; PayPal transaction ids
  IdOf,             \* paypal_txn_id of a leg, NoId if it carries none
  Near,             \* {mercury, paypal} pairs of one amount within the window
  SaysPaypal,       \* Mercury legs whose descriptor names PayPal
  Patterns,         \* the sets of legs an ignore rule may match
  Managers,
  MaxFetched,       \* legs one sync is told of
  NoId, NoOrder, NoPair, NoTx, NoRule

Legs == Mercury \cup PayPal

(* A pair joins one leg of each bank; the marks are no such thing. *)
Pairs == {{a, b} : a \in Mercury, b \in PayPal}

ASSUME PaymentsAssumption ==
  /\ Mercury \cap PayPal = {}
  /\ IdOf \in [Legs -> Ids \cup {NoId}]
  /\ Near \subseteq Pairs
  /\ Patterns \subseteq SUBSET Legs
  /\ NoPair \notin Pairs
  /\ NoOrder \notin Orders

VARIABLES
  leg,      \* bank_transactions, as committed
  txn,      \* orders.paypal_txn_id
  rule,     \* the legs the ignore rule matches, or NoRule
  asked,    \* what each manager's transaction waits to do
  typing,   \* the order save that types an id
  sync,     \* the sync's transaction
  left      \* how many transactions of each kind are still to come

pvars == <<leg, txn, rule, asked, typing, sync, left>>

Fresh == [status |-> "absent", pair |-> NoPair, order |-> NoOrder,
          by |-> "nobody", ign |-> "no",
          noLink |-> FALSE, noPair |-> FALSE, noRule |-> FALSE]

Over(draft, base) ==
  [l \in Legs |-> IF l \in DOMAIN draft THEN draft[l] ELSE base[l]]

SyncLocks   == IF sync = NoTx THEN {} ELSE DOMAIN sync.draft
TypingLocks == IF typing = NoTx THEN {} ELSE DOMAIN typing.draft
Holds(m)    == IF asked[m] = NoTx THEN {} ELSE asked[m].held
HeldByManagers(ms) == UNION {Holds(m) : m \in ms}

FreeForSync    == Legs \ (TypingLocks \cup HeldByManagers(Managers))
FreeForTyping  == Legs \ (SyncLocks \cup HeldByManagers(Managers))
FreeForRules   == FreeForTyping \ TypingLocks
FreeFor(m)     == Legs \ (SyncLocks \cup TypingLocks
                          \cup HeldByManagers(Managers \ {m}))

(***************************************************************************)
(* Groups                                                                  *)
(***************************************************************************)
Siblings(v, l) ==
  {k \in Legs : v[l].pair # NoPair /\ v[k].pair = v[l].pair}
GroupOf(v, l)  == {l} \cup Siblings(v, l)
Linked(v, l)   == v[l].order # NoOrder
Ignored(v, l)  == v[l].ign # "no"
Dead(v, l)     == v[l].status \in {"failed", "reversed"}
NoLink         == [order |-> NoOrder, by |-> "nobody"]

SetLink(row, order, by) == [row EXCEPT !.order = order, !.by = by]
ClearLink(row)          == SetLink(row, NoOrder, "nobody")

(* Two legs become one payment: a lone link spreads to the other leg. *)
JoinedRow(v, pair, l) ==
  LET linked == {k \in pair : Linked(v, k)}
      row    == [v[l] EXCEPT !.pair = pair]
  IN IF linked = {} \/ Linked(v, l) THEN row
     ELSE LET k == CHOOSE k \in linked : TRUE
          IN SetLink(row, v[k].order, v[k].by)

SameLink(v, a, b) ==
  Linked(v, a) /\ Linked(v, b) => v[a].order = v[b].order

(***************************************************************************)
(* A manager's transaction: lock the group, judge it, write, commit        *)
(***************************************************************************)
Calls ==
  [op : {"unlink", "unpair", "ignore", "unignore"}, legs : {{l} : l \in Legs}]
  \cup [op : {"link"}, legs : {{l} : l \in Legs}, order : Orders]
  \cup [op : {"pair"}, legs : Pairs]

(* The locking SELECT picks its rows from the pairs of its snapshot. *)
Candidates(want) == UNION {GroupOf(leg, l) : l \in want}
PairsOf(want)    == {leg[l].pair : l \in want} \ {NoPair}

Request(call, want, held) ==
  [call |-> call, want |-> want, held |-> held,
   rows |-> Candidates(want), pairs |-> PairsOf(want)]

Ask(m, call) ==
  /\ asked[m] = NoTx
  /\ left.calls > 0
  /\ \A l \in call.legs : leg[l].status # "absent"
  /\ asked' = [asked EXCEPT ![m] = Request(call, call.legs, {})]
  /\ left' = [left EXCEPT !.calls = @ - 1]
  /\ UNCHANGED <<leg, txn, rule, typing, sync>>

Granted(m)  == asked[m] # NoTx /\ asked[m].rows \subseteq FreeFor(m)
(* A row whose version changed while it was waited for is judged again. *)
Locked(m)   == {l \in asked[m].rows : \/ l \in asked[m].want
                                      \/ leg[l].pair \in asked[m].pairs}
Members(m)  == UNION {GroupOf(leg, l) : l \in Locked(m)}
Closed(m)   == Members(m) = Locked(m)

(* A rival paired one of the legs meanwhile: expand under the locks held. *)
Widen(m) ==
  /\ Granted(m)
  /\ ~Closed(m)
  /\ asked' = [asked EXCEPT
       ![m] = Request(@.call, Members(m), @.held \cup @.rows)]
  /\ UNCHANGED <<leg, txn, rule, typing, sync, left>>

Answer(m, rows) ==
  /\ leg' = Over(rows, leg)
  /\ asked' = [asked EXCEPT ![m] = NoTx]
  /\ UNCHANGED <<rule, typing, sync, left>>

Judging(m, op) == /\ asked[m] # NoTx
                  /\ asked[m].call.op = op
                  /\ Granted(m)
                  /\ Closed(m)
Target(m) == CHOOSE l \in asked[m].call.legs : TRUE
Group(m)  == GroupOf(leg, Target(m))

LinkableByHand(m) ==
  \A l \in Group(m) : ~Ignored(leg, l) /\ ~Dead(leg, l)

OrderFree(o) == typing # NoTx => typing.order # o

(* The id a link fills into an order that names none: the first of the group, *)
(* PayPal's leg before Mercury's.                                             *)
NamedBy(group) ==
  LET named == {l \in group : IdOf[l] # NoId}
  IN {IdOf[l] : l \in IF named \cap PayPal = {} THEN named ELSE named \cap PayPal}

Link(m) ==
  /\ Judging(m, "link")
  /\ LinkableByHand(m)
  /\ LET o   == asked[m].call.order
         ids == NamedBy(Group(m))
     IN /\ ids # {} => OrderFree(o)
        /\ Answer(m, [l \in Group(m) |-> SetLink(leg[l], o, "manager")])
        /\ IF txn[o] = NoId /\ ids # {}
           THEN \E i \in ids : txn' = [txn EXCEPT ![o] = i]
           ELSE UNCHANGED txn

Unlink(m) ==
  /\ Judging(m, "unlink")
  /\ \E l \in Group(m) : Linked(leg, l)
  /\ Answer(m, [l \in Group(m) |->
                  [ClearLink(leg[l]) EXCEPT !.noLink = TRUE]])
  /\ UNCHANGED txn

PairableStale(a, b) ==   \* mutant: paired or not is not read under the lock
  /\ \A l \in {a, b} : ~Ignored(leg, l) /\ ~Dead(leg, l)
  /\ SameLink(leg, a, b)

Pairable(a, b) ==
  /\ \A l \in {a, b} : /\ leg[l].pair = NoPair
                       /\ ~Ignored(leg, l)
                       /\ ~Dead(leg, l)
  /\ SameLink(leg, a, b)

Pair(m) ==
  /\ Judging(m, "pair")
  /\ \E a \in Mercury, b \in PayPal :
       /\ asked[m].call.legs = {a, b}
       /\ Pairable(a, b)
       /\ Answer(m, [l \in {a, b} |-> JoinedRow(leg, {a, b}, l)])
  /\ UNCHANGED txn

KeepsLink(row, mine, kept) ==   \* mutant: ungrouping leaves both legs linked
  [row EXCEPT !.noLink = @ \/ mine = kept]

(* The link stays on the PayPal leg, and the other must not come back. *)
Shadow(row, mine, kept) ==
  [ClearLink(row) EXCEPT !.noLink = @ \/ (mine # NoId /\ mine = kept)]

Unpair(m) ==
  /\ Judging(m, "unpair")
  /\ leg[Target(m)].pair # NoPair
  /\ LET keep == IF Group(m) \cap PayPal # {}
                 THEN CHOOSE l \in Group(m) : l \in PayPal
                 ELSE CHOOSE l \in Group(m) : TRUE
         freed(l) == [leg[l] EXCEPT !.pair = NoPair, !.noPair = TRUE]
     IN Answer(m, [l \in Group(m) |->
                     IF l = keep THEN freed(l)
                     ELSE Shadow(freed(l), IdOf[l], IdOf[keep])])
  /\ UNCHANGED txn

Ignore(m) ==
  /\ Judging(m, "ignore")
  /\ \A l \in Group(m) : ~Linked(leg, l)
  /\ Answer(m, [l \in Group(m) |->
                  IF Ignored(leg, l) THEN leg[l]
                  ELSE [leg[l] EXCEPT !.ign = "hand"]])
  /\ UNCHANGED txn

Unignore(m) ==
  /\ Judging(m, "unignore")
  /\ Answer(m, [l \in Group(m) |->
                  [leg[l] EXCEPT !.noRule = @ \/ leg[l].ign = "rule",
                                 !.ign = "no"]])
  /\ UNCHANGED txn

(* A refusal, a lost connection or a deadlock's victim: nothing is written. *)
GiveUp(m) ==
  /\ asked[m] # NoTx
  /\ Answer(m, [l \in {} |-> Fresh])
  /\ UNCHANGED txn

Judge(m) == \/ Link(m) \/ Unlink(m) \/ Pair(m) \/ Unpair(m)
            \/ Ignore(m) \/ Unignore(m)

(***************************************************************************)
(* A typed id claims its payment                                           *)
(***************************************************************************)
(* Only an id no other order carries says which order it paid. *)
Eligible(o, i) == i # NoId /\ \A other \in Orders \ {o} : txn[other] # i

Unclaimed(row) == row.order = NoOrder /\ ~row.noLink /\ row.ign = "no"

(* linkPaypalTxnToOrder's SELECT *)
Claimable(v, i) ==
  {l \in Legs : /\ IdOf[l] = i
                /\ v[l].status = "live"
                /\ Unclaimed(v[l])
                /\ \A k \in Siblings(v, l) : ~Linked(v, k)}

ClaimUnchecked(v, legs, o, by) ==   \* mutant: the UPDATE trusts the SELECT
  [l \in legs |-> SetLink(v[l], o, by)]

(* linkPaypalTxnToOrder's UPDATE: the row's own conditions, once more *)
Claim(v, legs, o, by) ==
  [l \in {k \in legs : Unclaimed(v[k])} |-> SetLink(v[l], o, by)]

Released(o, old) ==
  LET hit == {l \in Legs : /\ leg[l].order = o
                           /\ leg[l].by # "manager"
                           /\ IdOf[l] = old}
  IN {l \in UNION {GroupOf(leg, k) : k \in hit} :
        leg[l].order = o /\ leg[l].by # "manager"}

(* The save writes the id, lets the old id's payments go and reads what the *)
(* new one names; what it waits for before the link is written may change. *)
TypeId(o, i) ==
  LET out   == IF txn[o] \notin {NoId, i} THEN Released(o, txn[o]) ELSE {}
      draft == [l \in out |-> ClearLink(leg[l])]
  IN /\ typing = NoTx
     /\ left.typed > 0
     /\ out \subseteq FreeForTyping
     /\ typing' = [order |-> o, id |-> i, draft |-> draft,
                   group |-> IF Eligible(o, i)
                             THEN Claimable(Over(draft, leg), i) ELSE {}]
     /\ left' = [left EXCEPT !.typed = @ - 1]
     /\ UNCHANGED <<leg, txn, rule, asked, sync>>

TypedCommits ==
  /\ typing # NoTx
  /\ typing.group \subseteq FreeForTyping
  /\ LET v == Over(typing.draft, leg)
     IN leg' = Over(Claim(v, typing.group, typing.order, "purchaser"), v)
  /\ txn' = [txn EXCEPT ![typing.order] = typing.id]
  /\ typing' = NoTx
  /\ UNCHANGED <<rule, asked, sync, left>>

TypedFails ==
  /\ typing # NoTx
  /\ typing' = NoTx
  /\ UNCHANGED <<leg, txn, rule, asked, sync, left>>

(***************************************************************************)
(* The ignore rule                                                         *)
(***************************************************************************)
RuleHits(v, r) ==
  {l \in r : /\ ~Linked(v, l) /\ ~Ignored(v, l) /\ ~v[l].noRule
             /\ v[l].status = "live"
             /\ \A k \in Siblings(v, l) : ~Linked(v, k) /\ ~v[k].noRule}

RuleSpreads(v) ==
  {l \in Legs : /\ ~Linked(v, l) /\ ~Ignored(v, l) /\ ~v[l].noRule
                /\ \E k \in Siblings(v, l) \ {l} : v[k].ign = "rule"}

ByRule(v, legs) == [l \in legs |-> [v[l] EXCEPT !.ign = "rule"]]

(* applyIgnoreRules: the rule's own rows, then the other leg of each pair *)
Applied(v, r) ==
  LET hit == IF r = NoRule THEN v ELSE Over(ByRule(v, RuleHits(v, r)), v)
  IN Over(ByRule(hit, RuleSpreads(hit)), hit)

Reverted(v) == [l \in Legs |-> IF v[l].ign = "rule"
                               THEN [v[l] EXCEPT !.ign = "no"] ELSE v[l]]

Changed(v) == {l \in Legs : v[l] # leg[l]}

(* A rule is taught, edited or retracted: its rows go back, and the rules  *)
(* run again over all of them.                                             *)
EditRule(r) ==
  LET v == Applied(Reverted(leg), r)
  IN /\ left.rules > 0
     /\ r # rule
     /\ Changed(v) \cup {l \in Legs : leg[l].ign = "rule"} \subseteq FreeForRules
     /\ leg' = v
     /\ rule' = r
     /\ left' = [left EXCEPT !.rules = @ - 1]
     /\ UNCHANGED <<txn, asked, typing, sync>>

(***************************************************************************)
(* The sync                                                                *)
(***************************************************************************)
(* What the provider may say of a leg it is asked for again. *)
News(l) == CASE leg[l].status = "absent" -> {"live", "failed"}
             [] leg[l].status = "live"   -> {"live", "failed", "reversed"}
             [] OTHER                    -> {leg[l].status}

(* A pair with a failed leg is dissolved, and its shadow's link with it. *)
Broken(v) == {l \in Legs : \E k \in Siblings(v, l) : v[k].status = "failed"}

Dissolved(v) ==
  [l \in Broken(v) |->
     IF l \in PayPal THEN [v[l] EXCEPT !.pair = NoPair]
     ELSE [ClearLink(v[l]) EXCEPT !.pair = NoPair,
                                  !.noLink = @ \/ Linked(v, l)]]

(* autoPair's SELECT ... SKIP LOCKED *)
Waiting(v, free) ==
  {l \in free : /\ v[l].pair = NoPair
                /\ ~v[l].noPair
                /\ v[l].ign # "hand"
                /\ v[l].status = "live"}

Disjoint(ps) == \A p, q \in ps : p # q => p \cap q = {}

(* Every Mercury leg that carries a PayPal leg's id takes it, first come. *)
Referenced(legs) ==
  LET all == {{a, b} : a \in legs \cap Mercury, b \in legs \cap PayPal}
      ok  == {p \in all : \A k, l \in p : IdOf[k] = IdOf[l] /\ IdOf[k] # NoId}
      cut == {ps \in SUBSET ok : Disjoint(ps)}
  IN {ps \in cut : ~\E p \in ok \ ps : Disjoint(ps \cup {p})}

(* Each other's only candidate within the window. *)
OnlyNear(legs) ==
  LET close == {p \in Near : p \subseteq legs
                             /\ p \cap Mercury \subseteq SaysPaypal}
  IN {p \in close : \A q \in close \ {p} : p \cap q = {}}

JoinsIgnored(v, pair) ==   \* mutant: a link spreads onto an ignored leg
  \A a, b \in pair : SameLink(v, a, b)

(* One of conflicting links is wrong, and a link never meets an ignore. *)
Joinable(v, pair) ==
  LET linked == {l \in pair : Linked(v, l)}
  IN /\ \A a, b \in pair : SameLink(v, a, b)
     /\ Cardinality(linked) = 1 => \A l \in pair : ~Ignored(v, l)

Paired(v, pairs) ==
  LET made == {p \in pairs : Joinable(v, p)}
  IN [l \in UNION made |->
        JoinedRow(v, CHOOSE p \in made : l \in p, l)]

(* Upsert what the provider sent, dissolve, pair; all of it in the draft. *)
SyncStart(fetched, skipped) ==
  /\ sync = NoTx
  /\ left.syncs > 0
  /\ Cardinality(fetched) <= MaxFetched
  /\ fetched \subseteq FreeForSync
  /\ \E told \in [fetched -> {"live", "failed", "reversed"}] :
       LET v1   == [l \in Legs |-> IF l \in fetched
                    THEN [leg[l] EXCEPT !.status = told[l]] ELSE leg[l]]
           v2   == Over(Dissolved(v1), v1)
           seen == Waiting(v2, FreeForSync \ skipped)
       IN /\ \A l \in fetched : told[l] \in News(l)
          /\ Broken(v1) \subseteq FreeForSync
          /\ \E refs \in Referenced(seen) :
               LET near  == OnlyNear(seen \ UNION refs)
                   v3    == Over(Paired(v2, refs \cup near), v2)
                   locks == fetched \cup Broken(v1) \cup seen
               IN sync' = [draft |-> [l \in locks |-> v3[l]],
                           todo |-> Orders, order |-> NoOrder, group |-> {}]
  /\ left' = [left EXCEPT !.syncs = @ - 1]
  /\ UNCHANGED <<leg, txn, rule, asked, typing>>

SyncView == Over(sync.draft, leg)
Claims(o) == IF Eligible(o, txn[o]) THEN Claimable(SyncView, txn[o]) ELSE {}

SyncReads(o) ==
  /\ sync # NoTx
  /\ sync.group = {}
  /\ o \in sync.todo
  /\ Claims(o) # {}
  /\ sync' = [sync EXCEPT !.todo = @ \ {o}, !.order = o, !.group = Claims(o)]
  /\ UNCHANGED <<leg, txn, rule, asked, typing, left>>

SyncLinks ==
  /\ sync # NoTx
  /\ sync.group # {}
  /\ sync.group \subseteq FreeForSync
  /\ LET new   == Claim(SyncView, sync.group, sync.order, "auto")
         locks == DOMAIN sync.draft \cup DOMAIN new
     IN sync' = [sync EXCEPT !.group = {}, !.order = NoOrder,
                   !.draft = [l \in locks |-> Over(new, SyncView)[l]]]
  /\ UNCHANGED <<leg, txn, rule, asked, typing, left>>

SyncCommits ==
  /\ sync # NoTx
  /\ sync.group = {}
  /\ \A o \in sync.todo : Claims(o) = {}
  /\ LET v == Applied(SyncView, rule)
     IN /\ {l \in Legs : v[l] # SyncView[l]} \subseteq FreeForSync
        /\ leg' = v
  /\ sync' = NoTx
  /\ UNCHANGED <<txn, rule, asked, typing, left>>

SyncFails ==
  /\ sync # NoTx
  /\ sync' = NoTx
  /\ UNCHANGED <<leg, txn, rule, asked, typing, left>>

(* SKIP LOCKED passes over a leg some transaction has locked already while *)
(* it waits for another one.                                               *)
Wanted == UNION {asked[m].rows : m \in {n \in Managers : asked[n] # NoTx}}

(***************************************************************************)
(* The system                                                              *)
(***************************************************************************)
PayNext ==
  \/ \E m \in Managers : \/ \E call \in Calls : Ask(m, call)
                         \/ Widen(m) \/ Judge(m) \/ GiveUp(m)
  \/ \E o \in Orders, i \in Ids \cup {NoId} : TypeId(o, i)
  \/ TypedCommits \/ TypedFails
  \/ \E r \in Patterns \cup {NoRule} : EditRule(r)
  \/ \E fetched \in SUBSET Legs, skipped \in SUBSET Wanted :
       SyncStart(fetched, skipped)
  \/ \E o \in Orders : SyncReads(o)
  \/ SyncLinks \/ SyncCommits \/ SyncFails

(* Nothing was synced yet, and any number of transactions will come. *)
PayInit ==
  /\ leg = [l \in Legs |-> Fresh]
  /\ txn = [o \in Orders |-> NoId]
  /\ rule = NoRule
  /\ asked = [m \in Managers |-> NoTx]
  /\ typing = NoTx
  /\ sync = NoTx
  /\ left \in [calls : Nat, typed : Nat, rules : Nat, syncs : Nat]
PaySpec == PayInit /\ [][PayNext]_pvars

(***************************************************************************)
(* Properties                                                              *)
(***************************************************************************)
(* A pair is one Mercury and one PayPal leg, never a leg alone under a     *)
(* pair_id, whoever pairs, ungroups or syncs either of them meanwhile.     *)
PairsWhole ==
  \A l \in Legs : leg[l].pair # NoPair =>
    \A k \in leg[l].pair : leg[k].pair = leg[l].pair

(* No leg is linked and ignored, the state the CHECK of migration 0178     *)
(* refuses: a sync that wrote it would abort on every later run.           *)
NeverLinkedAndIgnored == \A l \in Legs : ~(Linked(leg, l) /\ Ignored(leg, l))

Counted(v, o, legs) ==
  {l \in legs : /\ v[l].order = o /\ ~Ignored(v, l) /\ ~Dead(v, l)
                /\ (v[l].pair = NoPair \/ l \in PayPal)}

(* Breaking up a pair that is linked to an order, by a manager or because a *)
(* leg failed, never makes its legs count for more of it than the pair did. *)
UngroupingKeepsPaid ==
  [][\A a, b \in Legs :
       /\ leg[a].pair # NoPair /\ leg[a].pair = leg[b].pair
       /\ leg'[a].pair = NoPair /\ leg'[b].pair = NoPair
       => \A o \in Orders : leg[a].order = o /\ leg[b].order = o =>
            Cardinality(Counted(leg', o, {a, b}))
              <= Cardinality(Counted(leg, o, {a, b}))]_pvars

(* What a manager decided about a leg stands against everything automatic: *)
(* an unlinked leg is linked again by a manager or with a new pair only, a *)
(* row given back by Unignore is not ignored by a rule again, and a link a *)
(* manager made is not moved to another order by a sync or a typed id,     *)
(* unless its pair broke up and the sync found the leg another.            *)
VerdictsStand ==
  [][\A l \in Legs :
       /\ leg[l].noLink /\ ~Linked(leg, l) /\ Linked(leg', l)
            => leg'[l].by = "manager" \/ leg'[l].pair # leg[l].pair
       /\ leg[l].noRule => ~(leg[l].ign = "no" /\ leg'[l].ign = "rule")
       /\ leg[l].by = "manager" /\ leg'[l].by # "manager"
            => leg'[l].order = NoOrder \/ leg'[l].pair # leg[l].pair]_pvars

(* A pair that is linked counts: if the payment stands, its PayPal leg, the *)
(* only one of a pair an order's paid figure reads, carries the link too.   *)
LinkedPairCounts ==
  \A l \in Mercury :
    /\ leg[l].pair # NoPair
    /\ Linked(leg, l)
    /\ \A k \in leg[l].pair : ~Dead(leg, k)
    => \A k \in leg[l].pair : leg[k].order = leg[l].order
=============================================================================
