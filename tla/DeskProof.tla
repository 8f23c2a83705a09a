----------------------------- MODULE DeskProof -----------------------------
(***************************************************************************)
(* SellDesk: a Done order sells what it sold when the pages its managers   *)
(* signed from read their fingerprints, what is ticked on a proposal is    *)
(* what it sells, and a save writes over nothing its editor has not seen:  *)
(* for any lots, prices, editors and managers.                             *)
(*                                                                         *)
(* ReviewQueue: a review's findings are those of the run that ended it,    *)
(* for any number of orders, processes, attempts and crashes.              *)
(***************************************************************************)
EXTENDS SellDesk, ReviewQueue, TLAPS

Line == {NoLine} \cup [qty : Nat, price : Nat]
Lines == [Lots -> Line]
Deals == Lines \cup {NoDeal}
Pages == [lines : Deals, deal : Deals]
Statuses == Open \cup {"Done", "Closed"}

LineTypes ==
  /\ line \in Lines
  /\ rows \in Nat
  /\ pack \in [Lots -> [of : Nat, counted : Nat, packed : BOOLEAN, at : Nat]]
FormTypes == form \in [Editors -> [lines : Lines, version : Nat \X Lines]]
SignTypes ==
  /\ active \subseteq Managers
  /\ loading \in [Managers -> Deals]
  /\ page \in [Managers -> Pages]
  /\ signed \in [Managers -> Deals]
  /\ reviewed \in [Managers -> Pages]
DeskTypes == soStatus \in Statuses /\ LineTypes /\ FormTypes /\ SignTypes

(* A signature is on the fingerprint of the page it was given from; a Done    *)
(* order has every signature on the deal it sells.                            *)
Signatures ==
  /\ \A m \in Managers : signed[m] = reviewed[m].deal
  /\ soStatus = "Done" => \A m \in active : signed[m] = line

(* No tick is newer than the rows of the order. *)
Ticks == TickedIsSold /\ \A l \in Lots : pack[l].at <= rows

(* A version describes the lines it was sent out with, but for adjustments. *)
Versions == \A e \in Editors : e \notin adopted => form[e].version[2] = form[e].lines

DeskInv == DeskTypes /\ Signatures /\ Ticks /\ Versions

----------------------------------------------------------------------------
(* Building blocks of the lines and of the pack rows.                         *)
LEMMA LineFacts ==
  /\ \A x \in [qty : 0..MaxQty, price : Prices] : x \in Line
  /\ \A x \in [qty : {MaxQty}, price : Prices] : x \in Line
  /\ \A x \in Line : x.qty \in Int
  /\ \A x \in Line : x # NoLine => x.qty \in Nat /\ x.price \in Nat /\ x = [qty |-> x.qty, price |-> x.price]
  /\ NoLine \in Line /\ NoLine.qty = -1
<1>1. MaxQty \in Nat /\ \A p \in Prices : p \in Nat
  BY DeskAssumption
<1>2. \A x \in [qty : 0..MaxQty, price : Prices] : x \in [qty : Nat, price : Nat]
  BY <1>1
<1>3. \A x \in [qty : {MaxQty}, price : Prices] : x \in [qty : Nat, price : Nat]
  BY <1>1
<1>4. NoLine.qty = -1
  BY DEF NoLine
<1> QED BY <1>2, <1>3, <1>4 DEF Line

LEMMA NoRowType ==
  /\ NoRow \in [of : Nat, counted : Nat, packed : BOOLEAN, at : Nat]
  /\ NoRow.at = 0
  BY DEF NoRow

LEMMA PrunedType ==
  ASSUME LineTypes, NEW lines
  PROVE  /\ Pruned(pack, lines) \in [Lots -> [of : Nat, counted : Nat, packed : BOOLEAN, at : Nat]]
         /\ \A l \in Lots : Pruned(pack, lines)[l] = pack[l] \/ Pruned(pack, lines)[l] = NoRow
         /\ \A l \in Lots : lines[l] = NoLine => Pruned(pack, lines)[l] = NoRow
  BY NoRowType DEF Pruned, LineTypes

----------------------------------------------------------------------------
(* An order starts with lines, and nothing signed or packed. *)
LEMMA DeskInitInv == DeskInit => DeskInv
<1> SUFFICES ASSUME DeskInit PROVE DeskInv
  OBVIOUS
<1>1. line \in Lines
  BY LineFacts DEF DeskInit, Lines
<1>2. LineTypes
  BY <1>1, NoRowType DEF DeskInit, LineTypes
<1>3. FormTypes /\ Versions
  BY <1>1 DEF DeskInit, FormTypes, Versions, Version
<1>4. SignTypes /\ Signatures
  BY DEF DeskInit, SignTypes, Signatures, Deals, Pages, NoPage
<1>5. Ticks
  BY NoRowType DEF DeskInit, Ticks, TickedIsSold
<1> QED BY <1>2, <1>3, <1>4, <1>5 DEF DeskInv, DeskTypes, Statuses, Open, Proposal, DeskInit

(* Loading the form takes the lines with their version. *)
LEMMA LoadFormKeeps ==
  ASSUME DeskInv, NEW e \in Editors, LoadForm(e)
  PROVE  DeskInv'
<1>1. UNCHANGED <<orderVars, lineVars, signVars>>
  BY DEF LoadForm
<1>2. FormTypes' /\ Versions'
  BY DEF DeskInv, DeskTypes, FormTypes, LineTypes, Versions, LoadForm, Version, lineVars
<1>3. LineTypes' /\ SignTypes' /\ Signatures' /\ Ticks' /\ soStatus' \in Statuses
  BY <1>1 DEF DeskInv, DeskTypes, LineTypes, SignTypes, Signatures, Ticks, TickedIsSold, OnOrder,
       Units, orderVars, lineVars, signVars
<1> QED BY <1>2, <1>3 DEF DeskInv, DeskTypes

(* A save carries the version it was loaded with, and makes older ticks old.  *)
LEMMA SaveKeeps ==
  ASSUME DeskInv, NEW e \in Editors, NEW edited \in Edits(e), Save(e, edited)
  PROVE  DeskInv'
<1>1. edited \in Lines
  <2>1. form[e].lines \in Lines
    BY DEF DeskInv, DeskTypes, FormTypes
  <2>2. PICK l \in Lots, x \in {NoLine} \cup [qty : 0..MaxQty, price : Prices] :
          edited = [form[e].lines EXCEPT ![l] = x]
    BY DEF Edits
  <2>3. x \in Line
    BY LineFacts
  <2> QED BY <2>1, <2>2, <2>3 DEF Lines
<1>2. /\ soStatus \in Open /\ UNCHANGED <<orderVars, signVars>>
      /\ line' = edited /\ rows' = rows + 1 /\ pack' = Pruned(pack, edited)
      /\ form' = [form EXCEPT ![e] = [lines |-> edited, version |-> <<rows + 1, edited>>]]
      /\ adopted' = adopted \ {e}
  BY DEF Save, Version
<1>3. LineTypes'
  BY <1>1, <1>2, PrunedType DEF DeskInv, DeskTypes, LineTypes
<1>4. FormTypes' /\ Versions'
  BY <1>1, <1>2 DEF DeskInv, DeskTypes, FormTypes, LineTypes, Versions
<1>5. SignTypes' /\ Signatures' /\ soStatus' \in Statuses
  BY <1>2 DEF DeskInv, DeskTypes, SignTypes, Signatures, orderVars, signVars, Open, Proposal
<1>6. Ticks'
  <2>1. \A l \in Lots : pack'[l].at <= rows
    BY <1>2, PrunedType, NoRowType DEF DeskInv, DeskTypes, LineTypes, Ticks
  <2>2. rows \in Nat /\ \A l \in Lots : pack'[l].at \in Nat
    BY <1>3 DEF DeskInv, DeskTypes, LineTypes
  <2>3. \A l \in Lots : pack'[l].at # rows' /\ pack'[l].at <= rows'
    BY <1>2, <2>1, <2>2
  <2>4. \A l \in Lots : pack'[l] # NoRow => line'[l] # NoLine
    BY <1>2, PrunedType DEF DeskInv, DeskTypes
  <2> QED BY <2>3, <2>4 DEF Ticks, TickedIsSold, OnOrder
<1> QED BY <1>3, <1>4, <1>5, <1>6 DEF DeskInv, DeskTypes

(* An adjustment moves prices of an order that is not Done. *)
LEMMA AdjustedKeeps ==
  ASSUME DeskInv, NEW to \in Prices, Adjusted(to)
  PROVE  LineTypes' /\ SignTypes' /\ Signatures' /\ Ticks' /\ soStatus' \in Statuses
<1>1. /\ soStatus \in Open /\ UNCHANGED <<orderVars, rows, pack, signVars>>
      /\ line' = [l \in Lots |-> IF OnOrder(l) THEN [line[l] EXCEPT !.price = to] ELSE NoLine]
  BY DEF Adjusted
<1>2. \A l \in Lots : /\ line'[l] \in Line /\ line'[l].qty = line[l].qty
                      /\ line[l] # NoLine => line'[l] # NoLine
  <2>1. SUFFICES ASSUME NEW l \in Lots
                 PROVE  /\ line'[l] \in Line /\ line'[l].qty = line[l].qty
                        /\ line[l] # NoLine => line'[l] # NoLine
    OBVIOUS
  <2>2. line[l] \in Line /\ to \in Nat
    BY DeskAssumption DEF DeskInv, DeskTypes, LineTypes, Lines
  <2>3. CASE OnOrder(l)
    <3>1. line'[l] = [qty |-> line[l].qty, price |-> to] /\ line[l].qty \in Nat
      BY <1>1, <2>2, <2>3, LineFacts DEF OnOrder
    <3>2. line'[l] \in [qty : Nat, price : Nat] /\ line'[l].qty = line[l].qty
      BY <2>2, <3>1
    <3>3. line'[l] # NoLine
      BY <3>1, <3>2, LineFacts
    <3> QED BY <3>2, <3>3 DEF Line
  <2>4. CASE ~OnOrder(l)
    BY <1>1, <2>4, LineFacts DEF OnOrder
  <2> QED BY <2>3, <2>4
<1>3. LineTypes'
  BY <1>1, <1>2 DEF DeskInv, DeskTypes, LineTypes, Lines
<1>5. Ticks'
  BY <1>1, <1>2 DEF DeskInv, Ticks, TickedIsSold, OnOrder, Units, orderVars
<1> QED BY <1>1, <1>3, <1>5 DEF DeskInv, DeskTypes, SignTypes, Signatures, orderVars, signVars,
           Open, Proposal

(* From the view modal it leaves the editors alone. *)
LEMMA AdjustFromViewKeeps ==
  ASSUME DeskInv, NEW to \in Prices, AdjustFromView(to)
  PROVE  DeskInv'
<1>1. FormTypes' /\ Versions'
  BY DEF DeskInv, DeskTypes, FormTypes, Versions, AdjustFromView, formVars
<1> QED BY <1>1, AdjustedKeeps DEF AdjustFromView, DeskInv, DeskTypes

(* From an editor it leaves a version that is not of the editor's lines. *)
LEMMA AdjustFromEditorKeeps ==
  ASSUME DeskInv, NEW e \in Editors, NEW to \in Prices, AdjustFromEditor(e, to)
  PROVE  DeskInv'
<1>1. Adjusted(to) /\ LineTypes'
  BY AdjustedKeeps DEF AdjustFromEditor
<1>2. /\ form' = [form EXCEPT ![e].version = <<rows', line'>>]
      /\ adopted' = adopted \cup {e} /\ line' \in Lines /\ rows' \in Nat
  BY <1>1 DEF AdjustFromEditor, Version, LineTypes
<1>3. FormTypes' /\ Versions'
  BY <1>2 DEF DeskInv, DeskTypes, FormTypes, Versions
<1> QED BY <1>1, <1>3, AdjustedKeeps DEF DeskInv, DeskTypes

----------------------------------------------------------------------------
(* Pack mode.                                                                 *)

(* What a tick writes: on an order past the proposals, no qty; on a proposal, *)
(* ticked, the count.                                                         *)
LEMMA TickWrites ==
  ASSUME DeskInv, NEW l \in Lots, NEW counted \in 0..MaxQty, NEW packed \in BOOLEAN,
         Tick(l, counted, packed)
  PROVE  /\ PackedQty(l, counted, packed) \in Nat
         /\ WrittenAgainst(l, counted, packed) \in Nat
         /\ Units(l) \in Nat
         /\ soStatus \notin Proposal => PackedQty(l, counted, packed) = Units(l)
         /\ soStatus \in Proposal /\ packed => PackedQty(l, counted, packed) = counted
<1>1. line[l] \in Line /\ line[l] # NoLine
  BY DEF Tick, OnOrder, DeskInv, DeskTypes, LineTypes, Lines
<1>2. Units(l) \in Nat /\ pack[l].of \in Nat /\ counted \in Nat
  BY <1>1, LineFacts, DeskAssumption DEF Units, DeskInv, DeskTypes, LineTypes
<1>3. counted <= Packable(l, packed)
  BY DEF Tick
<1>4. soStatus \notin Proposal => PackedQty(l, counted, packed) = Units(l)
  BY DEF PackedQty, Restores, Lowered, Lowers, TakesCounts
<1>5. soStatus \in Proposal /\ packed => PackedQty(l, counted, packed) = counted
  BY <1>2, <1>3 DEF PackedQty, Packable, Restores, Lowers, TakesCounts
<1> QED BY <1>2, <1>4, <1>5 DEF PackedQty, WrittenAgainst

LEMMA TickKeeps ==
  ASSUME DeskInv, NEW l \in Lots, NEW counted \in 0..MaxQty, NEW packed \in BOOLEAN,
         Tick(l, counted, packed)
  PROVE  DeskInv'
<1> DEFINE q == PackedQty(l, counted, packed)
           w == WrittenAgainst(l, counted, packed)
<1>1. /\ line' = [line EXCEPT ![l].qty = q]
      /\ pack' = [pack EXCEPT ![l] = [of |-> w, counted |-> counted, packed |-> packed, at |-> rows]]
      /\ UNCHANGED <<orderVars, rows, formVars, signVars>>
  BY DEF Tick, Row
<1>2. /\ q \in Nat /\ w \in Nat /\ counted \in Nat
      /\ soStatus \notin Proposal => q = line[l].qty
      /\ soStatus \in Proposal /\ packed => q = counted
  BY TickWrites, DeskAssumption DEF Units
<1>3. line \in Lines /\ rows \in Nat /\ line[l] # NoLine /\ line[l] \in Line
  BY DEF DeskInv, DeskTypes, LineTypes, Lines, Tick, OnOrder
<1> HIDE DEF q, w
<1>4. /\ line'[l] = [qty |-> q, price |-> line[l].price] /\ line[l].price \in Nat
      /\ \A k \in Lots \ {l} : line'[k] = line[k]
  BY <1>1, <1>3, LineFacts DEF Lines
<1>5. line'[l] \in [qty : Nat, price : Nat] /\ line'[l].qty = q /\ line'[l] # NoLine
  BY <1>2, <1>4, LineFacts
<1>6. line' \in Lines
  BY <1>1, <1>3, <1>4, <1>5 DEF Lines, Line
<1>7. LineTypes'
  BY <1>1, <1>2, <1>3, <1>6 DEF DeskInv, DeskTypes, LineTypes
<1>8. soStatus = "Done" => line' = line
  <2>1. SUFFICES ASSUME soStatus = "Done" PROVE line' = line
    OBVIOUS
  <2>2. line'[l] = line[l]
    BY <1>2, <1>3, <1>4, <2>1, LineFacts DEF Proposal
  <2> QED BY <1>3, <1>4, <1>6, <2>2 DEF Lines
<1>9. Signatures' /\ SignTypes' /\ FormTypes' /\ Versions' /\ soStatus' \in Statuses
  BY <1>1, <1>8 DEF DeskInv, DeskTypes, Signatures, SignTypes, FormTypes, Versions, orderVars, signVars, formVars
<1>10. Ticks'
  <2>1. SUFFICES ASSUME NEW k \in Lots
                 PROVE  /\ pack'[k].at <= rows'
                        /\ pack'[k] # NoRow =>
                             /\ line'[k] # NoLine
                             /\ soStatus \in Proposal /\ pack'[k].packed /\ pack'[k].at = rows' =>
                                  pack'[k].counted = line'[k].qty
    BY <1>1 DEF Ticks, TickedIsSold, OnOrder, Units, orderVars
  <2>2. CASE k = l
    <3>1. pack'[k] = [of |-> w, counted |-> counted, packed |-> packed, at |-> rows]
      BY <1>1, <2>2 DEF DeskInv, DeskTypes, LineTypes
    <3> QED BY <1>1, <1>2, <1>3, <1>5, <2>2, <3>1
  <2>3. CASE k # l
    <3>1. pack'[k] = pack[k] /\ line'[k] = line[k]
      BY <1>1, <1>4, <2>3 DEF DeskInv, DeskTypes, LineTypes
    <3> QED BY <1>1, <3>1 DEF DeskInv, Ticks, TickedIsSold, OnOrder, Units
  <2> QED BY <2>2, <2>3
<1> QED BY <1>7, <1>9, <1>10 DEF DeskInv, DeskTypes

(* Apply writes a proposal's lines down to their counts, each with its tick.  *)
LEMMA ApplyKeeps ==
  ASSUME DeskInv, NEW named \in SUBSET Lots, Apply(named)
  PROVE  DeskInv'
<1>1. /\ soStatus \in Proposal /\ UNCHANGED <<orderVars, rows, formVars, signVars>>
      /\ line' = [l \in Lots |->
           IF l \in named /\ Flagged(l) THEN [line[l] EXCEPT !.qty = pack[l].counted] ELSE line[l]]
      /\ pack' = [l \in Lots |->
           IF l \in named /\ Flagged(l)
           THEN [of |-> Units(l), counted |-> pack[l].counted, packed |-> TRUE, at |-> rows] ELSE pack[l]]
  BY DEF Apply, Row, TakesCounts
<1>2. rows \in Nat /\ \A l \in Lots : line[l] \in Line
  BY DEF DeskInv, DeskTypes, LineTypes, Lines
<1>3. ASSUME NEW l \in Lots, l \in named, Flagged(l)
      PROVE  /\ line'[l] \in [qty : Nat, price : Nat] /\ line'[l] # NoLine
             /\ line'[l].qty = pack[l].counted
             /\ pack'[l] = [of |-> Units(l), counted |-> pack[l].counted, packed |-> TRUE, at |-> rows]
             /\ pack'[l] \in [of : Nat, counted : Nat, packed : BOOLEAN, at : Nat]
  <2>1. line[l] = [qty |-> Units(l), price |-> line[l].price] /\ Units(l) \in Nat /\ line[l].price \in Nat
    BY <1>2, <1>3, LineFacts DEF Flagged, OnOrder, Units
  <2>2. pack[l].counted \in Nat
    BY DEF DeskInv, DeskTypes, LineTypes
  <2>3. line'[l] = [qty |-> pack[l].counted, price |-> line[l].price]
    BY <1>1, <1>3, <2>1
  <2>4. line'[l] \in [qty : Nat, price : Nat] /\ line'[l] # NoLine
    BY <2>1, <2>2, <2>3, LineFacts
  <2> QED BY <1>1, <1>2, <1>3, <2>1, <2>2, <2>3, <2>4
<1>4. \A l \in Lots : ~(l \in named /\ Flagged(l)) => line'[l] = line[l] /\ pack'[l] = pack[l]
  BY <1>1
<1>5. LineTypes'
  <2>1. \A l \in Lots : line'[l] \in Line
    BY <1>2, <1>3, <1>4 DEF Line
  <2>2. \A l \in Lots : pack'[l] \in [of : Nat, counted : Nat, packed : BOOLEAN, at : Nat]
    BY <1>3, <1>4 DEF DeskInv, DeskTypes, LineTypes
  <2>3. DOMAIN line' = Lots /\ DOMAIN pack' = Lots
    BY <1>1
  <2> QED BY <1>1, <1>2, <2>1, <2>2 DEF LineTypes, Lines
<1>6. Ticks'
  <2>1. SUFFICES ASSUME NEW k \in Lots
                 PROVE  /\ pack'[k].at <= rows'
                        /\ pack'[k] # NoRow =>
                             /\ line'[k] # NoLine
                             /\ soStatus \in Proposal /\ pack'[k].packed /\ pack'[k].at = rows' =>
                                  pack'[k].counted = line'[k].qty
    BY <1>1 DEF Ticks, TickedIsSold, OnOrder, Units, orderVars
  <2>2. CASE k \in named /\ Flagged(k)
    BY <1>1, <1>2, <1>3, <2>2
  <2>3. CASE ~(k \in named /\ Flagged(k))
    BY <1>1, <1>4, <2>3 DEF DeskInv, Ticks, TickedIsSold, OnOrder, Units
  <2> QED BY <2>2, <2>3
<1>7. Signatures' /\ SignTypes' /\ FormTypes' /\ Versions' /\ soStatus' \in Statuses
  BY <1>1 DEF DeskInv, DeskTypes, Signatures, SignTypes, FormTypes, Versions, orderVars, signVars,
       formVars, Proposal
<1> QED BY <1>5, <1>6, <1>7 DEF DeskInv, DeskTypes

(* An archive takes lines off an order that is not Done, and their ticks.     *)
LEMMA ArchiveTakesKeeps ==
  ASSUME DeskInv, NEW gone \in SUBSET Lots, ArchiveTakes(gone)
  PROVE  DeskInv'
<1>1. /\ soStatus \in Open /\ UNCHANGED <<orderVars, rows, formVars, signVars>>
      /\ line' = [l \in Lots |-> IF l \in gone THEN NoLine ELSE line[l]]
      /\ pack' = Pruned(pack, line')
  BY DEF ArchiveTakes
<1>2. LineTypes'
  BY <1>1, LineFacts, PrunedType DEF DeskInv, DeskTypes, LineTypes, Lines
<1>3. Ticks'
  <2>1. SUFFICES ASSUME NEW k \in Lots
                 PROVE  /\ pack'[k].at <= rows'
                        /\ pack'[k] # NoRow =>
                             /\ line'[k] # NoLine
                             /\ soStatus \in Proposal /\ pack'[k].packed /\ pack'[k].at = rows' =>
                                  pack'[k].counted = line'[k].qty
    BY <1>1 DEF Ticks, TickedIsSold, OnOrder, Units, orderVars
  <2>2. CASE pack'[k] = NoRow
    BY <1>1, <2>2, NoRowType DEF DeskInv, DeskTypes, LineTypes
  <2>3. CASE pack'[k] # NoRow
    <3>1. pack'[k] = pack[k] /\ line'[k] # NoLine
      BY <1>1, <2>3, PrunedType DEF DeskInv, DeskTypes
    <3>2. line'[k] = line[k]
      BY <1>1, <3>1
    <3> QED BY <1>1, <2>3, <3>1, <3>2 DEF DeskInv, Ticks, TickedIsSold, OnOrder, Units
  <2> QED BY <2>2, <2>3
<1>4. Signatures' /\ SignTypes' /\ FormTypes' /\ Versions' /\ soStatus' \in Statuses
  BY <1>1 DEF DeskInv, DeskTypes, Signatures, SignTypes, FormTypes, Versions, orderVars, signVars,
       formVars, Open, Proposal
<1> QED BY <1>2, <1>3, <1>4 DEF DeskInv, DeskTypes

----------------------------------------------------------------------------
(* Signing and moving.                                                        *)

(* Signing touches one manager's page or signature, of an open order.         *)
LEMMA SigningKeeps ==
  ASSUME DeskInv, NEW m \in active, Signing(m)
  PROVE  DeskInv'
<1>1. m \in Managers /\ line \in Deals
  BY DEF DeskInv, DeskTypes, SignTypes, LineTypes, Deals
<1>2. UNCHANGED <<orderVars, lineVars, formVars, active>>
  BY DEF Signing, ReadLines, ReadFingerprint, Sign, Withdraw
<1>3. LineTypes' /\ FormTypes' /\ Ticks' /\ Versions' /\ soStatus' \in Statuses
  BY <1>2 DEF DeskInv, DeskTypes, LineTypes, FormTypes, Ticks, TickedIsSold, OnOrder, Units, Versions,
       orderVars, lineVars, formVars
<1>4. CASE ReadLines(m)
  <2>1. SignTypes' /\ Signatures'
    BY <1>1, <1>2, <1>4 DEF ReadLines, DeskInv, DeskTypes, SignTypes, Signatures, orderVars, lineVars, Deals
  <2> QED BY <1>3, <2>1 DEF DeskInv, DeskTypes
<1>5. CASE ReadFingerprint(m)
  <2>1. [lines |-> loading[m], deal |-> Deal] \in Pages
    BY <1>1 DEF Pages, Deal, DeskInv, DeskTypes, SignTypes
  <2>2. SignTypes' /\ Signatures'
    BY <1>1, <1>2, <1>5, <2>1 DEF ReadFingerprint, DeskInv, DeskTypes, SignTypes, Signatures, orderVars,
         lineVars, Deals
  <2> QED BY <1>3, <2>2 DEF DeskInv, DeskTypes
<1>6. CASE Sign(m)
  <2>1. SignTypes' /\ Signatures'
    BY <1>1, <1>2, <1>6 DEF Sign, SignsRead, Deal, DeskInv, DeskTypes, SignTypes, Signatures, orderVars,
         lineVars, Open, Proposal
  <2> QED BY <1>3, <2>1 DEF DeskInv, DeskTypes
<1>7. CASE Withdraw(m)
  <2>1. NoPage \in Pages /\ NoPage.deal = NoDeal
    BY DEF NoPage, Pages, Deals
  <2>2. SignTypes' /\ Signatures'
    BY <1>1, <1>2, <1>7, <2>1 DEF Withdraw, DeskInv, DeskTypes, SignTypes, Signatures, orderVars, lineVars,
         Open, Proposal, Deals
  <2> QED BY <1>3, <2>2 DEF DeskInv, DeskTypes
<1> QED BY <1>4, <1>5, <1>6, <1>7 DEF Signing

(* Every move but reviving keeps the lines, and only Done needs signatures; no *)
(* move leads from a claiming status into a proposal.                          *)
LEMMA MovesKeep ==
  ASSUME DeskInv, UNCHANGED <<lineVars, formVars, signVars>>, soStatus' \in Statuses,
         soStatus' \in Proposal => soStatus \in Proposal,
         soStatus' = "Done" => \A m \in active : signed[m] = line
  PROVE  DeskInv'
  BY DEF DeskInv, DeskTypes, LineTypes, FormTypes, SignTypes, Signatures, Ticks, TickedIsSold, OnOrder,
       Units, Versions, lineVars, formVars, signVars

LEMMA MovingKeeps ==
  ASSUME DeskInv, Moving
  PROVE  DeskInv'
<1>1. ASSUME NEW to \in Proposal \cup {"Shipped", "Awaiting payment"}, MoveOn(to) PROVE DeskInv'
  <2>1. to \in Proposal => soStatus \in Proposal
    <3>1. DOMAIN Forward = {"Draft", "Packing", "Shipped"} /\ Forward["Shipped"] = {"Awaiting payment"}
      BY DEF Forward
    <3>2. soStatus \in {"Draft", "Packing", "Shipped"} /\ to \in Forward[soStatus]
      BY <1>1, <3>1 DEF MoveOn
    <3> QED BY <3>1, <3>2 DEF Proposal
  <2> QED BY <1>1, <2>1, MovesKeep DEF MoveOn, Statuses, Open, Proposal
<1>2. CASE MarkDone
  <2>1. \A m \in active : signed[m] = line
    BY <1>2 DEF MarkDone, MissingSigners, Deal
  <2> QED BY <1>2, <2>1, MovesKeep DEF MarkDone, Statuses, Proposal
<1>3. CASE ReopenSale
  BY <1>3, MovesKeep DEF ReopenSale, Statuses, Open, Proposal
<1>4. CASE Close
  BY <1>4, MovesKeep DEF Close, Statuses, Proposal
<1>5. CASE Revive
  <2>1. /\ soStatus' = "Draft" /\ UNCHANGED <<line, rows, formVars, active, loading, page>>
        /\ signed' = [m \in Managers |-> NoDeal] /\ reviewed' = [m \in Managers |-> NoPage]
        /\ pack' = [l \in Lots |-> NoRow]
    BY <1>5 DEF Revive, RevivedTicks
  <2>2. LineTypes' /\ Ticks'
    BY <2>1, NoRowType DEF DeskInv, DeskTypes, LineTypes, Ticks, TickedIsSold
  <2>3. SignTypes' /\ Signatures'
    BY <2>1 DEF DeskInv, DeskTypes, SignTypes, Signatures, Deals, Pages, NoPage
  <2>4. FormTypes' /\ Versions' /\ soStatus' \in Statuses
    BY <2>1 DEF DeskInv, DeskTypes, FormTypes, Versions, formVars, Statuses, Open, Proposal
  <2> QED BY <2>2, <2>3, <2>4 DEF DeskInv, DeskTypes
<1> QED BY <1>1, <1>2, <1>3, <1>4, <1>5 DEF Moving

----------------------------------------------------------------------------
LEMMA DeskStepKeeps == DeskInv /\ [DeskNext]_deskVars => DeskInv'
<1> SUFFICES ASSUME DeskInv, [DeskNext]_deskVars PROVE DeskInv'
  OBVIOUS
<1>1. ASSUME NEW e \in Editors, Editing(e) PROVE DeskInv'
  BY <1>1, LoadFormKeeps, SaveKeeps, AdjustFromEditorKeeps DEF Editing
<1>2. ASSUME NEW to \in Prices, AdjustFromView(to) PROVE DeskInv'
  BY <1>2, AdjustFromViewKeeps
<1>3. ASSUME NEW m \in active, Signing(m) PROVE DeskInv'
  BY <1>3, SigningKeeps
<1>4. CASE Packing
  BY <1>4, TickKeeps, ApplyKeeps DEF Packing
<1>5. ASSUME NEW gone \in SUBSET Lots, ArchiveTakes(gone) PROVE DeskInv'
  BY <1>5, ArchiveTakesKeeps
<1>6. CASE Moving
  BY <1>6, MovingKeeps
<1>7. CASE UNCHANGED deskVars
  BY <1>7 DEF deskVars, orderVars, lineVars, formVars, signVars, DeskInv, DeskTypes, LineTypes, FormTypes,
       SignTypes, Signatures, Ticks, TickedIsSold, OnOrder, Units, Versions
<1> QED BY <1>1, <1>2, <1>3, <1>4, <1>5, <1>6, <1>7 DEF DeskNext

(* A Done order sells exactly what it sold when the page each active manager  *)
(* signed from read its fingerprint: nothing written later is signed unseen.  *)
THEOREM DeskDoneAsLoaded == DeskSpec => []DoneAsLoaded
<1>1. DeskInv => DoneAsLoaded
  BY DEF DeskInv, DeskTypes, SignTypes, Signatures, DoneAsLoaded, Deal
<1> QED BY DeskInitInv, DeskStepKeeps, <1>1, PTL DEF DeskSpec

(* Ticks are of lines on the order, and on a proposal a lot ticked and not    *)
(* edited since sells what was counted.                                       *)
THEOREM DeskTickedIsSold == DeskSpec => []TickedIsSold
<1>1. DeskInv => TickedIsSold
  BY DEF DeskInv, Ticks
<1> QED BY DeskInitInv, DeskStepKeeps, <1>1, PTL DEF DeskSpec

(* A save writes over nothing its editor has not seen, except with the        *)
(* version of its own adjustment.                                             *)
THEOREM DeskSaveSeesLines == DeskSpec => SaveSeesLines
<1> DEFINE Sees == \A e \in Editors : Rewrites(e) /\ e \notin adopted => form[e].lines = line
<1>1. DeskInv /\ [DeskNext]_deskVars => [Sees]_deskVars
  <2>1. SUFFICES ASSUME DeskInv, DeskNext, NEW e \in Editors, Rewrites(e), e \notin adopted
                 PROVE  form[e].lines = line
    OBVIOUS
  <2>2. PICK f \in Editors : \E edited \in Edits(f) : Save(f, edited)
    <3>1. rows' # rows
      BY <2>1 DEF Rewrites
    <3> QED BY <2>1, <3>1 DEF DeskNext, Editing, LoadForm, AdjustFromEditor, AdjustFromView, Adjusted,
              Signing, ReadLines, ReadFingerprint, Sign, Withdraw, Packing, Tick, Apply, ArchiveTakes, Moving, MoveOn,
              MarkDone, ReopenSale, Close, Revive, lineVars
  <2>3. f = e
    BY <2>1, <2>2 DEF Save, Rewrites, DeskInv, DeskTypes, FormTypes
  <2>4. form[e].version = <<rows, line>>
    BY <2>2, <2>3 DEF Save, Version
  <2>5. form[e].version[2] = form[e].lines
    BY <2>1 DEF DeskInv, Versions
  <2> QED BY <2>4, <2>5
<1> QED BY DeskInitInv, DeskStepKeeps, <1>1, PTL DEF DeskSpec, SaveSeesLines
----------------------------------------------------------------------------
(* The review queue.                                                         *)
ReviewStatuses == {"queued", "running", "done", "failed", "superseded"}
Review == [order : Orders, status : ReviewStatuses, attempts : Nat, stale : BOOLEAN]

(* A process that runs a review runs one that exists. *)
RunsExist ==
  \A i \in Instances : loop[i].at = "running" => loop[i].review \in Reviews

QueueTypes ==
  /\ review \in Seq(Review)
  /\ found \in Seq(SUBSET Nat)
  /\ Len(found) = Len(review)
  /\ loop \in [Instances -> [at : {"idle", "claiming", "running"}, review : Nat, attempt : Nat]]
  /\ RunsExist

QueueInv == QueueTypes /\ FindingsOfOneRun

----------------------------------------------------------------------------
(* Writing a status leaves the rest of a review. *)
LEMMA StatusOfReview ==
  ASSUME NEW r \in Review, NEW s \in ReviewStatuses
  PROVE  LET new == [r EXCEPT !.status = s]
         IN  new \in Review /\ new.status = s /\ new.attempts = r.attempts
  BY DEF Review

LEMMA TakenReview ==
  ASSUME NEW r \in Review
  PROVE  LET new == [r EXCEPT !.status = "running", !.stale = FALSE, !.attempts = @ + 1]
         IN  new \in Review /\ new.status = "running" /\ r.attempts \in Nat
<1>1. r.attempts \in Nat /\ r.attempts + 1 \in Nat
  BY DEF Review
<1> QED BY <1>1 DEF Review, ReviewStatuses

LEMMA StaleReview ==
  ASSUME NEW r \in Review
  PROVE  LET new == [r EXCEPT !.stale = TRUE]
         IN  new \in Review /\ new.status = r.status /\ new.attempts = r.attempts
  BY DEF Review

(* No review exists at the start. *)
LEMMA QueueInitInv == QueueInit => QueueInv
  BY DEF QueueInit, QueueInv, QueueTypes, FindingsOfOneRun, Reviews, RunsExist, Idle

(* A new review has no findings yet. *)
LEMMA QueueReviewKeeps ==
  ASSUME QueueInv, NEW o \in Orders, QueueReview(o)
  PROVE  QueueInv'
<1> DEFINE new == [order |-> o, status |-> "queued", attempts |-> 0, stale |-> FALSE]
<1>1. /\ review' = Append(review, new) /\ found' = Append(found, {})
      /\ new \in Review /\ {} \in SUBSET Nat
  BY DEF QueueReview, Review, ReviewStatuses
<1>2. /\ review' \in Seq(Review) /\ found' \in Seq(SUBSET Nat)
      /\ Len(review') = Len(review) + 1 /\ Len(found') = Len(found) + 1
  BY <1>1 DEF QueueInv, QueueTypes
<1>3. /\ \A k \in 1..Len(review) : review'[k] = review[k] /\ found'[k] = found[k]
      /\ review'[Len(review) + 1].status = "queued" /\ found'[Len(review) + 1] = {}
  BY <1>1 DEF QueueInv, QueueTypes
<1>4. Reviews = 1..Len(review) /\ Reviews' = 1..(Len(review) + 1)
  BY <1>2 DEF Reviews, QueueInv, QueueTypes
<1>5. QueueTypes'
  BY <1>2, <1>4 DEF QueueInv, QueueTypes, RunsExist, QueueReview
<1>6. FindingsOfOneRun'
  <2>1. SUFFICES ASSUME NEW k \in 1..(Len(review) + 1)
                 PROVE  found'[k] = IF review'[k].status = "done" THEN {review'[k].attempts} ELSE {}
    BY <1>4 DEF FindingsOfOneRun
  <2>2. CASE k = Len(review) + 1
    BY <1>3, <2>2
  <2>3. CASE k \in 1..Len(review)
    BY <1>3, <1>4, <2>3 DEF QueueInv, FindingsOfOneRun
  <2> QED BY <2>2, <2>3, <1>4 DEF QueueInv, QueueTypes
<1> QED BY <1>5, <1>6 DEF QueueInv

(* Steps that write the status of some reviews, none of them done before or   *)
(* after, and no findings.                                                    *)
LEMMA StatusKeeps ==
  ASSUME QueueInv, UNCHANGED found,
         review' \in Seq(Review), Len(review') = Len(review),
         loop' \in [Instances -> [at : {"idle", "claiming", "running"}, review : Nat, attempt : Nat]],
         \A i \in Instances : loop'[i].at = "running" => loop'[i].review \in Reviews,
         \A k \in Reviews : \/ review'[k].status = review[k].status /\ review'[k].attempts = review[k].attempts
                            \/ review[k].status # "done" /\ review'[k].status # "done"
  PROVE  QueueInv'
<1>1. Reviews = 1..Len(review) /\ Reviews' = Reviews
  BY DEF Reviews, QueueInv, QueueTypes
<1>2. QueueTypes'
  BY <1>1 DEF QueueInv, QueueTypes, RunsExist
<1>3. FindingsOfOneRun'
  BY <1>1 DEF QueueInv, FindingsOfOneRun
<1> QED BY <1>2, <1>3 DEF QueueInv

(* Leaving review backwards, or archiving, ends pending reviews only. *)
LEMMA SupersedeKeeps ==
  ASSUME QueueInv, NEW o \in Orders, Supersede(o)
  PROVE  QueueInv'
<1>1. /\ review \in Seq(Review) /\ Reviews = 1..Len(review)
      /\ review' = [k \in 1..Len(review) |->
           IF k \in Waiting(o) THEN [review[k] EXCEPT !.status = "superseded"] ELSE review[k]]
  BY DEF Supersede, QueueInv, QueueTypes, Reviews
<1>2. \A k \in 1..Len(review) : review'[k] \in Review
  <2>1. SUFFICES ASSUME NEW k \in 1..Len(review) PROVE review'[k] \in Review
    OBVIOUS
  <2>2. review[k] \in Review
    BY <1>1
  <2> QED BY <1>1, <2>2, StatusOfReview DEF ReviewStatuses
<1>3. review' \in Seq(Review) /\ Len(review') = Len(review)
  BY <1>1, <1>2
<1>4. \A k \in Reviews : \/ review'[k] = review[k]
                         \/ review[k].status # "done" /\ review'[k].status # "done"
  <2>1. SUFFICES ASSUME NEW k \in Reviews, k \in Waiting(o)
                 PROVE  review[k].status # "done" /\ review'[k].status # "done"
    BY <1>1
  <2>2. review[k] \in Review
    BY <1>1
  <2>3. review'[k].status = "superseded"
    BY <1>1, <2>1, <2>2, StatusOfReview DEF ReviewStatuses
  <2> QED BY <2>1, <2>3 DEF Waiting, Pending
<1> QED BY <1>3, <1>4, StatusKeeps DEF Supersede, QueueInv, QueueTypes, RunsExist

(* Time passing writes no status. *)
LEMMA GoStaleKeeps ==
  ASSUME QueueInv, NEW k \in Reviews, GoStale(k)
  PROVE  QueueInv'
<1>1. /\ review \in Seq(Review) /\ k \in 1..Len(review)
      /\ review' = [review EXCEPT ![k].stale = TRUE]
  BY DEF GoStale, QueueInv, QueueTypes, Reviews
<1>2. review[k] \in Review
  BY <1>1
<1>3. review' \in Seq(Review) /\ Len(review') = Len(review)
  BY <1>1, <1>2, StaleReview
<1>4. \A j \in Reviews : review'[j].status = review[j].status /\ review'[j].attempts = review[j].attempts
  BY <1>1, <1>2, StaleReview DEF Reviews
<1> QED BY <1>3, <1>4, StatusKeeps DEF GoStale, QueueInv, QueueTypes, RunsExist

(* Giving up ends running reviews only. *)
LEMMA GiveUpKeeps ==
  ASSUME QueueInv, NEW i \in Instances, GiveUp(i)
  PROVE  QueueInv'
<1>1. /\ review \in Seq(Review) /\ Reviews = 1..Len(review)
      /\ review' = [k \in 1..Len(review) |->
           IF Spent(k) THEN [review[k] EXCEPT !.status = "failed"] ELSE review[k]]
  BY DEF GiveUp, QueueInv, QueueTypes, Reviews
<1>2. \A k \in 1..Len(review) : review'[k] \in Review
  <2>1. SUFFICES ASSUME NEW k \in 1..Len(review) PROVE review'[k] \in Review
    OBVIOUS
  <2>2. review[k] \in Review
    BY <1>1
  <2> QED BY <1>1, <2>2, StatusOfReview DEF ReviewStatuses
<1>3. review' \in Seq(Review) /\ Len(review') = Len(review)
  BY <1>1, <1>2
<1>4. \A k \in Reviews : \/ review'[k] = review[k]
                         \/ review[k].status # "done" /\ review'[k].status # "done"
  <2>1. SUFFICES ASSUME NEW k \in Reviews, Spent(k)
                 PROVE  review[k].status # "done" /\ review'[k].status # "done"
    BY <1>1
  <2>2. review[k] \in Review
    BY <1>1
  <2>3. review'[k].status = "failed"
    BY <1>1, <2>1, <2>2, StatusOfReview DEF ReviewStatuses
  <2> QED BY <2>1, <2>3 DEF Spent
<1>5. loop' = [loop EXCEPT ![i] = Claiming]
  BY DEF GiveUp
<1>6. loop' \in [Instances -> [at : {"idle", "claiming", "running"}, review : Nat, attempt : Nat]]
  BY <1>5 DEF QueueInv, QueueTypes, Claiming
<1>7. \A j \in Instances : loop'[j].at = "running" => loop'[j].review \in Reviews
  BY <1>5 DEF QueueInv, QueueTypes, RunsExist, Claiming
<1> QED BY <1>3, <1>4, <1>6, <1>7, StatusKeeps DEF GiveUp

(* A claim takes a queued or a stale running review. *)
LEMMA ClaimKeeps ==
  ASSUME QueueInv, NEW i \in Instances, Claim(i)
  PROVE  QueueInv'
<1>1. CASE Claimable = {} /\ loop' = [loop EXCEPT ![i] = Idle] /\ UNCHANGED review
  <2>1. loop' \in [Instances -> [at : {"idle", "claiming", "running"}, review : Nat, attempt : Nat]]
    BY <1>1 DEF QueueInv, QueueTypes, Idle
  <2>2. \A j \in Instances : loop'[j].at = "running" => loop'[j].review \in Reviews
    BY <1>1 DEF QueueInv, QueueTypes, RunsExist, Idle
  <2> QED BY <1>1, <2>1, <2>2, StatusKeeps DEF Claim, QueueInv, QueueTypes
<1>2. ASSUME NEW k \in Claimable, review' = [review EXCEPT ![k] = Taken(k)],
             loop' = [loop EXCEPT ![i] = [at |-> "running", review |-> k, attempt |-> review[k].attempts + 1]]
      PROVE  QueueInv'
  <2>1. review \in Seq(Review) /\ k \in 1..Len(review) /\ k \in Reviews /\ review[k].status # "done"
    BY DEF QueueInv, QueueTypes, Claimable, Reviews
  <2>2. Taken(k) \in Review /\ Taken(k).status = "running" /\ review[k].attempts \in Nat
    <3>1. review[k] \in Review
      BY <2>1
    <3> QED BY <3>1, TakenReview DEF Taken
  <2>3. review' \in Seq(Review) /\ Len(review') = Len(review)
    BY <1>2, <2>1, <2>2
  <2>4. \A j \in Reviews : \/ review'[j] = review[j]
                           \/ review[j].status # "done" /\ review'[j].status # "done"
    BY <1>2, <2>1, <2>2 DEF Reviews
  <2>5. loop' \in [Instances -> [at : {"idle", "claiming", "running"}, review : Nat, attempt : Nat]]
    BY <1>2, <2>1, <2>2 DEF QueueInv, QueueTypes
  <2>6. \A j \in Instances : loop'[j].at = "running" => loop'[j].review \in Reviews
    BY <1>2, <2>1 DEF QueueInv, QueueTypes, RunsExist
  <2> QED BY <2>3, <2>4, <2>5, <2>6, StatusKeeps DEF Claim
<1> QED BY <1>1, <1>2 DEF Claim

(* A run writes findings only to a review it still runs, which has none. *)
LEMMA EndRunKeeps ==
  ASSUME QueueInv, NEW i \in Instances, NEW result \in {"done", "failed"}, EndRun(i, result)
  PROVE  QueueInv'
<1> DEFINE k == loop[i].review
           n == loop[i].attempt
<1>1. /\ review \in Seq(Review) /\ found \in Seq(SUBSET Nat) /\ Len(found) = Len(review)
      /\ Reviews = 1..Len(review) /\ k \in Reviews /\ n \in Nat
  BY DEF EndRun, QueueInv, QueueTypes, RunsExist, Reviews
<1>2. loop' = [loop EXCEPT ![i] = Idle]
  BY DEF EndRun
<1>3. loop' \in [Instances -> [at : {"idle", "claiming", "running"}, review : Nat, attempt : Nat]]
  BY <1>2 DEF QueueInv, QueueTypes, Idle
<1>4. \A j \in Instances : loop'[j].at = "running" => loop'[j].review \in Reviews
  BY <1>2 DEF QueueInv, QueueTypes, RunsExist, Idle
<1>5. CASE UNCHANGED <<review, found>>
  BY <1>1, <1>3, <1>4, <1>5, StatusKeeps
<1>6. CASE /\ StillOwn(i)
           /\ review' = [review EXCEPT ![k].status = result]
           /\ found' = IF result = "done" THEN [found EXCEPT ![k] = @ \cup {n}] ELSE found
  <2>1. review[k].status = "running" /\ review[k].attempts = n
    BY <1>6 DEF StillOwn
  <2>2. found[k] = {}
    BY <1>1, <2>1 DEF QueueInv, FindingsOfOneRun
  <2>3. /\ review' \in Seq(Review) /\ Len(review') = Len(review)
        /\ review'[k].status = result /\ review'[k].attempts = n
        /\ \A j \in Reviews \ {k} : review'[j] = review[j]
    <3>1. review[k] \in Review /\ result \in ReviewStatuses
      BY <1>1 DEF ReviewStatuses
    <3>2. review' = [review EXCEPT ![k] = [review[k] EXCEPT !.status = result]]
      BY <1>6
    <3> HIDE DEF k
    <3> QED BY <1>1, <2>1, <3>1, <3>2, StatusOfReview
  <2>4. /\ found' \in Seq(SUBSET Nat) /\ Len(found') = Len(found)
        /\ found'[k] = (IF result = "done" THEN {n} ELSE {})
        /\ \A j \in Reviews \ {k} : found'[j] = found[j]
    <3>1. found' = IF result = "done" THEN [found EXCEPT ![k] = {n}] ELSE found
      BY <1>6, <2>2
    <3>2. {n} \in SUBSET Nat /\ k \in 1..Len(found)
      BY <1>1
    <3> HIDE DEF k, n
    <3>3. CASE result = "done"
      <4>1. found' = [found EXCEPT ![k] = {n}]
        BY <3>1, <3>3
      <4> QED BY <1>1, <3>2, <3>3, <4>1
    <3>4. CASE result # "done"
      BY <1>1, <2>2, <3>1, <3>4
    <3> QED BY <3>3, <3>4
  <2>5. Reviews' = Reviews
    BY <1>1, <2>3 DEF Reviews
  <2>6. QueueTypes'
    BY <1>1, <1>3, <1>4, <2>3, <2>4, <2>5 DEF QueueTypes, RunsExist
  <2>7. FindingsOfOneRun'
    <3>1. SUFFICES ASSUME NEW j \in Reviews
                   PROVE  found'[j] = IF review'[j].status = "done" THEN {review'[j].attempts} ELSE {}
      BY <2>5 DEF FindingsOfOneRun
    <3>2. CASE j = k
      BY <2>3, <2>4, <3>2
    <3>3. CASE j # k
      BY <2>3, <2>4, <3>3 DEF QueueInv, FindingsOfOneRun
    <3> QED BY <3>2, <3>3
  <2> QED BY <2>6, <2>7 DEF QueueInv
<1> QED BY <1>5, <1>6 DEF EndRun

(* A process that starts again runs nothing. *)
LEMMA CrashKeeps ==
  ASSUME QueueInv, NEW i \in Instances, Crash(i)
  PROVE  QueueInv'
<1>1. loop' = [loop EXCEPT ![i] = Idle] /\ UNCHANGED <<review, found>>
  BY DEF Crash
<1>2. loop' \in [Instances -> [at : {"idle", "claiming", "running"}, review : Nat, attempt : Nat]]
  BY <1>1 DEF QueueInv, QueueTypes, Idle
<1>3. \A j \in Instances : loop'[j].at = "running" => loop'[j].review \in Reviews
  BY <1>1 DEF QueueInv, QueueTypes, RunsExist, Idle
<1> QED BY <1>1, <1>2, <1>3, StatusKeeps DEF QueueInv, QueueTypes

----------------------------------------------------------------------------
(* A review that is done holds the findings of the one run that ended it, and *)
(* any other review holds none, whichever processes ran, died or were slow.   *)
THEOREM QueueFindings == QueueSpec => []FindingsOfOneRun
<1>1. QueueInv /\ [QueueNext]_queueVars => QueueInv'
  <2> SUFFICES ASSUME QueueInv, [QueueNext]_queueVars PROVE QueueInv'
    OBVIOUS
  <2>1. ASSUME NEW o \in Orders, QueueReview(o) PROVE QueueInv'
    BY <2>1, QueueReviewKeeps
  <2>2. ASSUME NEW o \in Orders, Supersede(o) PROVE QueueInv'
    BY <2>2, SupersedeKeeps
  <2>3. ASSUME NEW k \in Reviews, GoStale(k) PROVE QueueInv'
    BY <2>3, GoStaleKeeps
  <2>4. ASSUME NEW i \in Instances, Work(i) PROVE QueueInv'
    BY <2>4, GiveUpKeeps, ClaimKeeps, EndRunKeeps DEF Work
  <2>5. ASSUME NEW i \in Instances, Crash(i) PROVE QueueInv'
    BY <2>5, CrashKeeps
  <2>6. CASE UNCHANGED queueVars
    BY <2>6 DEF queueVars, QueueInv, QueueTypes, RunsExist, FindingsOfOneRun, Reviews
  <2> QED BY <2>1, <2>2, <2>3, <2>4, <2>5, <2>6 DEF QueueNext
<1>2. QueueInv => FindingsOfOneRun
  BY DEF QueueInv
<1> QED BY QueueInitInv, <1>1, <1>2, PTL DEF QueueSpec
=============================================================================
