----------------------------- MODULE FleetProof -----------------------------
(***************************************************************************)
(* Whom the ERP lets drive an account, and which task it hands out, for    *)
(* any fleet: hosts, accounts, pairs and number of troubles.               *)
(*                                                                         *)
(* A slot carries the claim id it was leased to (boot).  All that a later  *)
(* claim, a heartbeat or a stop may do rests on it: a container that runs  *)
(* spent its ticket on its own claim id, so the slot it drives and every   *)
(* live lease of its worker carry that id, and no other slot does.         *)
(***************************************************************************)
EXTENDS FleetSystem, FiniteSetTheorems, WellFoundedInduction, TLAPS

MaybeNat == Nat \cup {NULL}
Slots ==
  [holder : Workers \cup {NULL}, epoch : Nat, worker : Workers \cup {NULL},
   boot : Boots \cup {NULL}, handoff : MaybeNat, lease : {"live", "reserved", "free", "parked"}]
Tickets == [id : Boots, handoff : MaybeNat, spent : Boots \cup {NULL}]
Boxes ==
  [ticket : Boots, handoff : MaybeNat, boot : Boots \cup {NULL},
   state : {"claiming", "running", "exited"}, account : Accounts \cup {NULL}, epoch : MaybeNat]
Named == [account : Accounts, epoch : Nat] \cup {NULL}
Ticks == [step : {"idle", "pull", "stop", "confirm", "ticket", "run"}, lease : Named]
Stops == [account : Accounts, epoch : Nat, restart : BOOLEAN, confirmed : BOOLEAN]
Asks == [worker : Workers, boot : Boots, ticket : Boots, handoff : MaybeNat]
Searches ==
  [id : Nat, state : {"closed", "ready", "leased"}, worker : Workers \cup {NULL},
   account : Accounts \cup {NULL}, epoch : MaybeNat]

FleetTypeOK ==
  /\ slot \in [Accounts -> Slots \cup {NULL}]
  /\ ticket \in [Workers -> Tickets \cup {NULL}]
  /\ box \in [Workers -> Boxes \cup {NULL}]
  /\ agent \in [Workers -> Ticks]
  /\ pending \in [Workers -> Stops \cup {NULL}]
  /\ sent \subseteq Asks
  /\ search \in [Pairs -> Searches]

(* What the agent has done by the time it does the next thing.                *)
StepsOK ==
  \A w \in Workers :
    /\ agent[w].step \in {"confirm", "ticket", "run"} => box[w] = NULL
    /\ agent[w].step = "confirm" => pending[w] \in Stops
    /\ agent[w].step = "run" => ticket[w] \in Tickets

(* A running container has its lease, and spent its ticket on its claim id.   *)
RunsOK ==
  \A w \in Workers : Running(w) =>
    /\ ticket[w] \in Tickets /\ ticket[w].spent = box[w].boot
    /\ box[w].boot \in Boots /\ box[w].account \in Accounts /\ box[w].epoch \in Nat

SlotOK(a) ==
  slot[a] # NULL =>
    /\ slot[a].lease = "reserved" => slot[a].boot = NULL
    /\ \A w \in Workers :
         Running(w) /\ slot[a].worker = w /\ (box[w].account = a \/ slot[a].lease = "live")
           => slot[a].boot = box[w].boot
Same(a, b) == slot[a].worker = slot[b].worker /\ slot[a].worker # NULL
SlotsOK ==
  /\ \A a \in Accounts : SlotOK(a)
  /\ \A a, b \in InFleet :
       Same(a, b) /\ slot[a].boot = slot[b].boot /\ slot[a].boot # NULL => a = b
  /\ \A a, b \in InFleet :
       Same(a, b) /\ slot[a].lease = "live" /\ slot[b].lease = "live" => a = b

(* One lease of one worker covers one task.                                   *)
TasksOK ==
  \A p, q \in Pairs :
    /\ Leased(p) /\ Leased(q) /\ search[p].worker = search[q].worker
    /\ search[p].account = search[q].account /\ search[p].epoch = search[q].epoch
    => p = q

FleetInv == FleetTypeOK /\ StepsOK /\ RunsOK /\ SlotsOK /\ TasksOK

----------------------------------------------------------------------------
(* New ids.                                                                   *)
LEMMA SmallestBoot ==
  ASSUME NEW S \in SUBSET Nat, S # {}
  PROVE  \E b \in S : \A c \in S : b <= c
<1>1. PICK n \in S : n \in Nat
  OBVIOUS
<1> DEFINE U == {0 .. c : c \in {b \in S : b <= n}}
<1>2. U \subseteq SUBSET (0 .. n) /\ 0 .. n \in U
  BY <1>1
<1>3. IsFiniteSet(0 .. n)
  BY <1>1, FS_Interval
<1>4. IsWellFoundedOn(StrictSubsetOrdering(0 .. n), SUBSET (0 .. n))
  BY <1>3, FS_StrictSubsetOrderingWellFounded, FS_FiniteSubsetsOfFinite
<1> HIDE DEF U
<1>5. \E x \in U : \A y \in U : ~(<<y, x>> \in StrictSubsetOrdering(0 .. n))
  BY <1>2, <1>4, WFMin
<1>6. PICK b \in S : b <= n /\ \A y \in U : ~(<<y, 0 .. b>> \in StrictSubsetOrdering(0 .. n))
  BY <1>5 DEF U
<1>7. ASSUME NEW c \in S, c < b PROVE FALSE
  <2>1. 0 .. c \in U /\ 0 .. c \subseteq 0 .. b /\ b \notin 0 .. c /\ b \in 0 .. b
    BY <1>1, <1>6, <1>7 DEF U
  <2>2. 0 .. c \in SUBSET (0 .. n) /\ 0 .. b \in SUBSET (0 .. n)
    BY <1>1, <1>6, <1>7
  <2> QED
    BY <2>1, <2>2, <1>6 DEF StrictSubsetOrdering
<1> QED
  BY <1>6, <1>7

LEMMA NewBootIsBoot ==
  ASSUME Boots \ Used # {}
  PROVE  NewBoot \in Boots
<1> DEFINE S == Boots \ Used
<1>1. S \in SUBSET Nat /\ S # {}
  BY FleetAssumption DEF FleetAssumption
<1> HIDE DEF S
<1>2. \E b \in S : \A c \in S : b <= c
  BY <1>1, SmallestBoot
<1> QED
  BY <1>2 DEF NewBoot, S

----------------------------------------------------------------------------
(* What no step but a few can disturb.                                        *)
EmptyStays == \A w \in Workers : box[w] = NULL => box'[w] = NULL
RunsStay ==
  \A w \in Workers : Running(w)' => Running(w) /\ box'[w] = box[w] /\ ticket'[w] = ticket[w]

LEMMA StepsKept ==
  ASSUME StepsOK, EmptyStays, UNCHANGED <<agent, ticket, pending>>
  PROVE  StepsOK'
  BY DEF StepsOK, EmptyStays

LEMMA RunsKept ==
  ASSUME RunsOK, RunsStay
  PROVE  RunsOK'
  BY DEF RunsOK, RunsStay

(* A slot is left, freed, emptied, or taken from a worker that does not run.  *)
Softer(a) ==
  slot'[a] # NULL =>
    \/ /\ slot'[a].worker = NULL /\ slot'[a].boot = NULL /\ slot'[a].lease \in {"free", "parked"}
    \/ /\ slot[a] # NULL
       /\ slot'[a].holder = slot[a].holder /\ slot'[a].epoch = slot[a].epoch
       /\ slot'[a].worker = slot[a].worker /\ slot'[a].boot = slot[a].boot
       /\ slot'[a].lease \in {slot[a].lease, "free"}
    \/ /\ slot'[a].boot = NULL /\ slot'[a].lease # "live"
       /\ \A w \in Workers : slot'[a].worker = w => ~Running(w)'

Softens == RunsStay /\ \A a \in Accounts : Softer(a)

LEMMA SlotsSoften ==
  ASSUME SlotsOK, Softens
  PROVE  SlotsOK'
<1> USE DEF Softens
<1>1. ASSUME NEW a \in Accounts PROVE SlotOK(a)'
  <2> SUFFICES ASSUME slot'[a] # NULL
      PROVE /\ slot'[a].lease = "reserved" => slot'[a].boot = NULL
            /\ \A w \in Workers :
                 Running(w)' /\ slot'[a].worker = w /\ (box'[w].account = a \/ slot'[a].lease = "live")
                   => slot'[a].boot = box'[w].boot
    BY DEF SlotOK
  <2>1. SlotOK(a) /\ Softer(a)
    BY <1>1 DEF SlotsOK
  <2> QED
    BY <2>1, FleetAssumption DEF SlotOK, Softer, RunsStay, FleetAssumption
<1>2. ASSUME NEW a \in Accounts, slot'[a] # NULL, slot'[a].boot # NULL \/ slot'[a].lease = "live",
             slot'[a].worker # NULL
      PROVE  /\ slot[a] # NULL /\ slot'[a].worker = slot[a].worker /\ slot'[a].boot = slot[a].boot
             /\ slot'[a].lease = "live" => slot[a].lease = "live"
  BY <1>2 DEF Softer
<1>3. \A a, b \in InFleet' : Same(a, b)' /\ slot'[a].boot = slot'[b].boot /\ slot'[a].boot # NULL => a = b
  BY <1>2 DEF InFleet, Same, SlotsOK
<1>4. \A a, b \in InFleet' : Same(a, b)' /\ slot'[a].lease = "live" /\ slot'[b].lease = "live" => a = b
  BY <1>2 DEF InFleet, Same, SlotsOK
<1> QED
  BY <1>1, <1>3, <1>4 DEF SlotsOK

LEMMA SlotsKept ==
  ASSUME SlotsOK, RunsStay, slot' = slot
  PROVE  SlotsOK' /\ Softens
<1>1. Softens
  BY DEF Softer, Softens
<1> QED
  BY <1>1, SlotsSoften

LEMMA TasksKept ==
  ASSUME TasksOK, \A p \in Pairs : Leased(p)' => search'[p] = search[p]
  PROVE  TasksOK'
<1> SUFFICES ASSUME NEW p \in Pairs, NEW q \in Pairs, Leased(p)', Leased(q)',
        search'[p].worker = search'[q].worker, search'[p].account = search'[q].account,
        search'[p].epoch = search'[q].epoch
    PROVE p = q
  BY DEF TasksOK
<1> QED
  BY DEF TasksOK, Leased

LEMMA ReleasedTasks ==
  ASSUME FleetTypeOK, NEW a \in Accounts
  PROVE  /\ Released(a) \in [Pairs -> Searches]
         /\ \A p \in Pairs : Released(a)[p].state = "leased" => Released(a)[p] = search[p]
  BY DEF FleetTypeOK, Released, OffHand, Searches, MaybeNat
----------------------------------------------------------------------------
(* Claims.                                                                    *)
LEMMA OffersAreSlots ==
  ASSUME FleetTypeOK, NEW r \in Asks, NEW a \in Offers(r)
  PROVE  /\ a \in Accounts /\ slot[a] \in Slots /\ slot[a] # NULL
         /\ TicketHolds(r) /\ ~AlreadyRuns(r) /\ ticket[r.worker] \in Tickets
         /\ \/ Repeats(r, a)
            \/ /\ slot[a].lease \in {"free", "reserved"}
               /\ \A b \in InFleet : ~Repeats(r, b)
               /\ slot[a].lease = "reserved" => slot[a].worker = r.worker
               /\ \A b \in LeasedTo(r.worker) : slot[b].lease = "reserved"
<1>1. TicketHolds(r) /\ ~AlreadyRuns(r) /\ a \in InFleet /\ slot[a] # NULL
  BY DEF Offers, Free, InFleet
<1>2. /\ a \in Accounts /\ slot[a] \in Slots /\ ticket[r.worker] \in Tickets
  BY <1>1 DEF InFleet, FleetTypeOK, TicketHolds, Asks
<1>3. ASSUME ~Repeats(r, a)
      PROVE  /\ \A b \in InFleet : ~Repeats(r, b)
             /\ HandedTo(r, a) \/ a \in Free
  BY <1>1, <1>3 DEF Offers
<1>4. ASSUME ~Repeats(r, a) PROVE \A b \in LeasedTo(r.worker) : slot[b].lease = "reserved"
  BY <1>1, <1>3, <1>4 DEF AlreadyRuns, HandedTo, LeasedTo
<1> QED
  BY <1>1, <1>2, <1>3, <1>4 DEF HandedTo, Free

LEMMA GrantedRow ==
  ASSUME FleetTypeOK, NEW r \in Asks, NEW a \in Offers(r)
  PROVE  /\ Granted(r, a) \in Slots
         /\ Granted(r, a).worker = r.worker /\ Granted(r, a).boot = r.boot
         /\ Repeats(r, a) => Granted(r, a) = slot[a]
         /\ ~Repeats(r, a) => Granted(r, a).lease = "live"
<1>1. /\ slot[a] \in Slots /\ r \in Asks
  BY OffersAreSlots
<1>2. CASE Repeats(r, a)
  BY <1>1, <1>2 DEF Granted, Repeats
<1>3. CASE ~Repeats(r, a)
  BY <1>1, <1>3 DEF Granted, Slots, Asks, MaybeNat
<1> QED
  BY <1>2, <1>3

(* What a claim leaves of the containers and their tickets.                   *)
LEMMA ClaimRuns ==
  ASSUME FleetInv, NEW r \in Asks, NEW a \in Offers(r),
         ticket' = [ticket EXCEPT ![r.worker].spent = r.boot],
         \/ box' = box
         \/ /\ Hears(r)
            /\ box' = [box EXCEPT ![r.worker] =
                         [box[r.worker] EXCEPT !.state = "running", !.account = a,
                                               !.epoch = Granted(r, a).epoch]]
  PROVE  /\ ticket' \in [Workers -> Tickets \cup {NULL}]
         /\ box' \in [Workers -> Boxes \cup {NULL}]
         /\ RunsOK' /\ EmptyStays
         /\ \A w \in Workers : ticket[w] \in Tickets => ticket'[w] \in Tickets
         /\ \A w \in Workers : w # r.worker => box'[w] = box[w]
         /\ Running(r.worker)' =>
              /\ box'[r.worker].boot = r.boot
              /\ \/ Running(r.worker) /\ box'[r.worker] = box[r.worker]
                 \/ ~Running(r.worker) /\ box'[r.worker].account = a
<1> USE DEF FleetInv
<1>1. /\ a \in Accounts /\ slot[a] \in Slots /\ TicketHolds(r)
      /\ ticket[r.worker] \in Tickets /\ Granted(r, a) \in Slots
  BY OffersAreSlots, GrantedRow
<1>2. r.worker \in Workers /\ r.boot \in Boots /\ r.boot # NULL
  BY FleetAssumption DEF Asks, FleetAssumption
<1>3. ticket'[r.worker] \in Tickets /\ ticket'[r.worker].spent = r.boot
  BY <1>1, <1>2 DEF FleetTypeOK, Tickets
<1>4. \A w \in Workers : w # r.worker => ticket'[w] = ticket[w] /\ box'[w] = box[w]
  BY DEF FleetTypeOK
<1>5. ticket' \in [Workers -> Tickets \cup {NULL}]
  BY <1>2, <1>3 DEF FleetTypeOK
<1>6. CASE box' = box
  <2>1. Running(r.worker)' => Running(r.worker) /\ box[r.worker].boot = r.boot
    BY <1>1, <1>2, <1>6, FleetAssumption DEF Running, RunsOK, TicketHolds, FleetAssumption
  <2>2. RunsOK'
    BY <1>3, <1>4, <1>6, <2>1 DEF RunsOK, Running
  <2> QED
    BY <1>3, <1>4, <1>5, <1>6, <2>1, <2>2 DEF FleetTypeOK, EmptyStays, Running
<1>7. CASE /\ Hears(r)
           /\ box' = [box EXCEPT ![r.worker] =
                        [box[r.worker] EXCEPT !.state = "running", !.account = a,
                                              !.epoch = Granted(r, a).epoch]]
  <2>1. box[r.worker] \in Boxes /\ box[r.worker].boot = r.boot /\ box[r.worker] # NULL
        /\ box[r.worker].state = "claiming"
    BY <1>2, <1>7 DEF Hears, Alive, FleetTypeOK
  <2>2. /\ box'[r.worker] \in Boxes /\ box'[r.worker].boot = r.boot
        /\ box'[r.worker].account = a /\ box'[r.worker].epoch \in Nat
    BY <1>1, <1>2, <1>7, <2>1 DEF Boxes, MaybeNat, Slots, FleetTypeOK
  <2>3. box' \in [Workers -> Boxes \cup {NULL}]
    BY <1>7, <2>2, <1>2 DEF FleetTypeOK
  <2>4. RunsOK'
    BY <1>1, <1>2, <1>3, <1>4, <2>2 DEF RunsOK, Running
  <2> QED
    BY <1>2, <1>3, <1>4, <1>5, <2>1, <2>2, <2>3, <2>4 DEF EmptyStays, Running
<1> QED
  BY <1>6, <1>7

LEMMA ClaimSlots ==
  ASSUME FleetInv, NEW r \in Asks, NEW a \in Offers(r),
         slot' = [slot EXCEPT ![a] = Granted(r, a)],
         \A w \in Workers : w # r.worker => box'[w] = box[w],
         Running(r.worker)' =>
              /\ box'[r.worker].boot = r.boot
              /\ \/ Running(r.worker) /\ box'[r.worker] = box[r.worker]
                 \/ ~Running(r.worker) /\ box'[r.worker].account = a
  PROVE  slot' \in [Accounts -> Slots \cup {NULL}] /\ SlotsOK'
<1> USE DEF FleetInv
<1>1. /\ a \in Accounts /\ slot[a] \in Slots /\ slot[a] # NULL /\ ~AlreadyRuns(r)
      /\ \/ Repeats(r, a)
         \/ /\ slot[a].lease \in {"free", "reserved"}
            /\ \A b \in InFleet : ~Repeats(r, b)
            /\ \A b \in LeasedTo(r.worker) : slot[b].lease = "reserved"
  BY OffersAreSlots
<1>2. /\ Granted(r, a) \in Slots
      /\ Granted(r, a).worker = r.worker /\ Granted(r, a).boot = r.boot
      /\ Repeats(r, a) => Granted(r, a) = slot[a]
      /\ ~Repeats(r, a) => Granted(r, a).lease = "live"
  BY GrantedRow
<1>3. r.worker \in Workers /\ r.boot \in Boots /\ r.boot # NULL /\ r.worker # NULL
  BY FleetAssumption DEF Asks, FleetAssumption
<1>4. /\ slot'[a] = Granted(r, a) /\ \A b \in Accounts : b # a => slot'[b] = slot[b]
      /\ slot' \in [Accounts -> Slots \cup {NULL}]
  BY <1>1, <1>2 DEF FleetTypeOK
(* The other slots of the worker carry its claim id, or are only reserved.    *)
<1>5. ASSUME NEW b \in InFleet, slot[b].worker = r.worker, slot[b].lease = "live"
      PROVE  slot[b].boot = r.boot
  BY <1>1, <1>5 DEF AlreadyRuns, LeasedTo, HandedTo, Repeats
<1>6. SlotOK(a)'
  <2>1. slot'[a].lease = "reserved" => slot'[a].boot = NULL
    BY <1>1, <1>2, <1>4 DEF SlotsOK, SlotOK
  <2> QED
    BY <1>2, <1>4, <2>1 DEF SlotOK, Running
<1>7. ASSUME NEW b \in Accounts, b # a PROVE SlotOK(b)'
  <2> SUFFICES ASSUME slot[b] # NULL
      PROVE /\ slot[b].lease = "reserved" => slot[b].boot = NULL
            /\ \A w \in Workers :
                 Running(w)' /\ slot[b].worker = w /\ (box'[w].account = b \/ slot[b].lease = "live")
                   => slot[b].boot = box'[w].boot
    BY <1>4, <1>7 DEF SlotOK, Running
  <2>1. SlotOK(b)
    BY DEF SlotsOK
  <2>2. slot[b].lease = "reserved" => slot[b].boot = NULL
    BY <2>1 DEF SlotOK
  <2>3. ASSUME NEW w \in Workers, Running(w)', slot[b].worker = w,
               box'[w].account = b \/ slot[b].lease = "live"
        PROVE slot[b].boot = box'[w].boot
    <3>1. CASE w # r.worker
      BY <2>1, <2>3, <3>1 DEF SlotOK, Running
    <3>2. CASE w = r.worker /\ slot[b].lease = "live"
      BY <1>5, <2>3, <3>2 DEF InFleet
    <3>3. CASE w = r.worker /\ box'[w].account = b
      BY <1>7, <2>1, <2>3, <3>3 DEF SlotOK
    <3> QED
      BY <2>3, <3>1, <3>2, <3>3
  <2> QED
    BY <2>2, <2>3
<1>8. ASSUME NEW b \in InFleet, NEW c \in InFleet, Same(b, c), slot[b].boot = slot[c].boot, slot[b].boot # NULL
      PROVE b = c
  BY <1>8 DEF SlotsOK
<1>9. InFleet' \subseteq InFleet
  BY <1>1, <1>4 DEF InFleet
<1>10. CASE Repeats(r, a)
  <2>1. slot' = slot
    BY <1>1, <1>2, <1>10 DEF FleetTypeOK
  <2> QED
    BY <1>4, <1>6, <1>7, <2>1 DEF SlotsOK, Same, InFleet
<1>11. CASE ~Repeats(r, a)
  <2>1. ASSUME NEW b \in InFleet', NEW c \in InFleet', Same(b, c)',
               slot'[b].boot = slot'[c].boot, slot'[b].boot # NULL
        PROVE b = c
    <3>1. b = a \/ c = a => b = c
      BY <1>1, <1>2, <1>3, <1>4, <1>9, <1>11, <2>1 DEF InFleet, Same, Repeats
    <3> QED
      BY <1>4, <1>8, <2>1, <3>1 DEF InFleet, Same
  <2>2. ASSUME NEW b \in InFleet', NEW c \in InFleet', Same(b, c)',
               slot'[b].lease = "live", slot'[c].lease = "live"
        PROVE b = c
    <3>1. \A d \in InFleet : slot[d].worker = r.worker => slot[d].lease # "live"
      BY <1>1, <1>11 DEF LeasedTo
    <3>2. b = a \/ c = a => b = c
      BY <1>2, <1>4, <2>2, <3>1 DEF InFleet, Same
    <3> QED
      BY <1>4, <2>2, <3>2 DEF InFleet, Same, SlotsOK
  <2> QED
    BY <1>4, <1>6, <1>7, <2>1, <2>2 DEF SlotsOK
<1> QED
  BY <1>10, <1>11
LEMMA ClaimInv ==
  ASSUME FleetInv, NEW r \in sent, Claim(r)
  PROVE  FleetInv'
<1>1. r \in Asks
  BY DEF FleetInv, FleetTypeOK
<1>2. PICK a \in Offers(r) :
        /\ slot' = [slot EXCEPT ![a] = Granted(r, a)]
        /\ search' = IF slot[a].holder # r.worker THEN Released(a) ELSE search
        /\ ticket' = [ticket EXCEPT ![r.worker].spent = r.boot]
        /\ \/ box' = box
           \/ /\ Hears(r)
              /\ box' = [box EXCEPT ![r.worker] =
                           [box[r.worker] EXCEPT !.state = "running", !.account = a,
                                                 !.epoch = Granted(r, a).epoch]]
        /\ sent' \subseteq sent
  BY DEF Claim, Answer
<1>3. UNCHANGED <<agent, pending>>
  BY DEF Claim, host
<1>4. /\ ticket' \in [Workers -> Tickets \cup {NULL}]
      /\ box' \in [Workers -> Boxes \cup {NULL}]
      /\ RunsOK' /\ EmptyStays
      /\ \A w \in Workers : ticket[w] \in Tickets => ticket'[w] \in Tickets
      /\ \A w \in Workers : w # r.worker => box'[w] = box[w]
      /\ Running(r.worker)' =>
           /\ box'[r.worker].boot = r.boot
           /\ \/ Running(r.worker) /\ box'[r.worker] = box[r.worker]
              \/ ~Running(r.worker) /\ box'[r.worker].account = a
  BY <1>1, <1>2, ClaimRuns
<1>5. slot' \in [Accounts -> Slots \cup {NULL}] /\ SlotsOK'
  BY <1>1, <1>2, <1>4, ClaimSlots
<1>6. a \in Accounts
  BY <1>1, OffersAreSlots DEF FleetInv
<1>7. search' \in [Pairs -> Searches] /\ TasksOK'
  <2>1. /\ search' \in [Pairs -> Searches]
        /\ \A p \in Pairs : Leased(p)' => search'[p] = search[p]
    BY <1>2, <1>6, ReleasedTasks DEF FleetInv, Leased, FleetTypeOK
  <2> QED
    BY <2>1, TasksKept DEF FleetInv
<1>8. StepsOK'
  BY <1>3, <1>4 DEF StepsOK, FleetInv, EmptyStays
<1> QED
  BY <1>2, <1>3, <1>4, <1>5, <1>7, <1>8 DEF FleetInv, FleetTypeOK

(* A container that leaves: its token and its task go with it.                *)
LEMMA EndedBox ==
  ASSUME FleetTypeOK, NEW w \in Workers, box[w] # NULL,
         box' = [box EXCEPT ![w] = Ended(box[w])]
  PROVE  /\ box' \in [Workers -> Boxes \cup {NULL}] /\ EmptyStays
         /\ ~Running(w)' /\ \A v \in Workers : v # w => box'[v] = box[v]
         /\ ticket' = ticket => RunsStay
<1>1. box'[w] \in Boxes /\ box'[w].state = "exited"
  BY DEF FleetTypeOK, Boxes, Ended, MaybeNat
<1>2. \A v \in Workers : v # w => box'[v] = box[v]
  BY DEF FleetTypeOK
<1> QED
  BY <1>1, <1>2 DEF FleetTypeOK, EmptyStays, RunsStay, Running

LEMMA RefuseInv ==
  ASSUME FleetInv, NEW r \in sent, Refuse(r)
  PROVE  FleetInv' /\ Softens
<1>1. r.worker \in Workers /\ sent' \subseteq Asks
  BY DEF FleetInv, FleetTypeOK, Asks, Refuse
<1>2. box[r.worker] # NULL /\ box' = [box EXCEPT ![r.worker] = Ended(box[r.worker])]
  BY DEF Refuse, Hears, Alive, Answer
<1>3. UNCHANGED <<slot, ticket, search, agent, pending>>
  BY DEF Refuse, erp, host
<1>4. box' \in [Workers -> Boxes \cup {NULL}] /\ EmptyStays /\ RunsStay
  BY <1>1, <1>2, <1>3, EndedBox DEF FleetInv
<1>5. StepsOK' /\ RunsOK' /\ SlotsOK' /\ Softens /\ TasksOK'
  BY <1>3, <1>4, StepsKept, RunsKept, SlotsKept, TasksKept DEF FleetInv
<1> QED
  BY <1>1, <1>3, <1>4, <1>5 DEF FleetInv, FleetTypeOK

(* A step that leaves slots, tickets and containers alone.                    *)
LEMMA AllStays ==
  ASSUME FleetInv, UNCHANGED <<slot, ticket, search, box>>,
         agent' \in [Workers -> Ticks], pending' \in [Workers -> Stops \cup {NULL}],
         sent' \subseteq Asks, StepsOK'
  PROVE  FleetInv' /\ Softens
<1>1. RunsStay
  BY DEF RunsStay, Running
<1>2. RunsOK' /\ SlotsOK' /\ Softens /\ TasksOK'
  BY <1>1, RunsKept, SlotsKept, TasksKept DEF FleetInv
<1> QED
  BY <1>2 DEF FleetInv, FleetTypeOK

LEMMA ForgetInv ==
  ASSUME FleetInv, NEW r \in sent, Forget(r)
  PROVE  FleetInv' /\ Softens
<1>1. UNCHANGED <<slot, ticket, search, box, agent, pending>> /\ sent' \subseteq sent
  BY DEF Forget, erp, host
<1>2. StepsOK'
  BY <1>1 DEF FleetInv, StepsOK
<1> QED
  BY <1>1, <1>2, AllStays DEF FleetInv, FleetTypeOK

----------------------------------------------------------------------------
(* The worker, and time.                                                      *)
(* A beat makes the slot its worker drives a live lease: it carries the claim *)
(* id of that worker already.                                                 *)
LEMMA HeartbeatInv ==
  ASSUME FleetInv, NEW w \in Workers, Heartbeat(w)
  PROVE  FleetInv'
<1>1. UNCHANGED <<ticket, search, agent, pending, sent>> /\ Running(w)
  BY DEF Heartbeat, host
<1>2. CASE ~Eligible(w)
  <2>1. slot' = slot /\ box' = [box EXCEPT ![w] = Ended(box[w])] /\ box[w] # NULL
    BY <1>1, <1>2 DEF Heartbeat, Exit, Running
  <2>2. box' \in [Workers -> Boxes \cup {NULL}] /\ EmptyStays /\ RunsStay
    BY <1>1, <2>1, EndedBox DEF FleetInv
  <2>3. StepsOK' /\ RunsOK' /\ SlotsOK' /\ TasksOK'
    BY <1>1, <2>1, <2>2, StepsKept, RunsKept, SlotsKept, TasksKept DEF FleetInv
  <2> QED
    BY <1>1, <2>1, <2>2, <2>3 DEF FleetInv, FleetTypeOK
<1>3. CASE Eligible(w)
  <2> DEFINE a == box[w].account
  <2>1. /\ slot' = [slot EXCEPT ![a].lease = "live"] /\ box' = box
        /\ slot[a] # NULL /\ slot[a].worker = w
    BY <1>1, <1>3 DEF Heartbeat, Eligible
  <2>2. a \in Accounts /\ box[w].boot \in Boots /\ box[w].boot # NULL
    BY <1>1, FleetAssumption DEF FleetInv, RunsOK, FleetAssumption
  <2> HIDE DEF a
  <2>3. slot[a] \in Slots
    BY <2>1, <2>2 DEF FleetInv, FleetTypeOK
  <2>4. /\ slot'[a] \in Slots /\ slot'[a].lease = "live"
        /\ slot'[a].worker = slot[a].worker /\ slot'[a].boot = slot[a].boot
        /\ \A b \in Accounts : b # a => slot'[b] = slot[b]
        /\ slot' \in [Accounts -> Slots \cup {NULL}]
    BY <2>1, <2>2, <2>3 DEF FleetInv, FleetTypeOK, Slots
  <2>5. SlotOK(a)
    BY <2>2 DEF FleetInv, SlotsOK
  <2>6. slot[a].boot = box[w].boot
    BY <1>1, <2>1, <2>5 DEF SlotOK, a
  <2>7. ASSUME NEW b \in InFleet', slot'[b].worker = w, slot'[b].lease = "live" PROVE b = a
    <3> SUFFICES ASSUME b # a PROVE FALSE
      OBVIOUS
    <3>1. b \in Accounts /\ slot[b] # NULL /\ slot[b].worker = w /\ slot[b].lease = "live"
      BY <2>4, <2>7 DEF InFleet
    <3>2. slot[b].boot = box[w].boot
      BY <1>1, <3>1 DEF FleetInv, SlotsOK, SlotOK
    <3>3. w # NULL
      BY FleetAssumption DEF FleetAssumption
    <3> QED
      BY <2>1, <2>2, <2>6, <3>1, <3>2, <3>3 DEF FleetInv, SlotsOK, Same, InFleet
  <2>8. SlotsOK'
    <3>1. ASSUME NEW b \in Accounts PROVE SlotOK(b)'
      <4>1. CASE b = a
        BY <1>1, <2>1, <2>4, <2>6, <4>1 DEF SlotOK
      <4>2. CASE b # a
        BY <2>1, <2>4, <4>2 DEF FleetInv, SlotsOK, SlotOK, Running
      <4> QED
        BY <4>1, <4>2
    <3>2. \A b, c \in InFleet' : Same(b, c)' => b \in InFleet /\ c \in InFleet /\ Same(b, c)
      BY <2>1, <2>2, <2>4 DEF InFleet, Same
    <3>3. \A b \in InFleet' : slot'[b].boot = slot[b].boot
      BY <2>4 DEF InFleet
    <3>4. \A b, c \in InFleet' :
            Same(b, c)' /\ slot'[b].boot = slot'[c].boot /\ slot'[b].boot # NULL => b = c
      BY <3>2, <3>3 DEF FleetInv, SlotsOK
    <3>5. \A b, c \in InFleet' :
            Same(b, c)' /\ slot'[b].lease = "live" /\ slot'[c].lease = "live" => b = c
      <4> SUFFICES ASSUME NEW b \in InFleet', NEW c \in InFleet', Same(b, c)',
                          slot'[b].lease = "live", slot'[c].lease = "live"
          PROVE b = c
        OBVIOUS
      <4>1. CASE b = a \/ c = a
        BY <2>1, <2>4, <2>7, <4>1 DEF Same, InFleet
      <4>2. CASE b # a /\ c # a
        BY <2>4, <3>2, <4>2 DEF FleetInv, SlotsOK, InFleet
      <4> QED
        BY <4>1, <4>2
    <3> QED
      BY <3>1, <3>4, <3>5 DEF SlotsOK
  <2>9. EmptyStays /\ RunsStay
    BY <1>1, <2>1 DEF EmptyStays, RunsStay, Running
  <2>10. StepsOK' /\ RunsOK' /\ TasksOK'
    BY <1>1, <2>9, StepsKept, RunsKept, TasksKept DEF FleetInv
  <2> QED
    BY <1>1, <2>1, <2>4, <2>8, <2>10 DEF FleetInv, FleetTypeOK
<1> QED
  BY <1>2, <1>3

LEMMA CrashInv ==
  ASSUME FleetInv, NEW w \in Workers, Crash(w)
  PROVE  FleetInv' /\ Softens
<1>1. /\ UNCHANGED <<slot, ticket, search, agent, pending, sent>>
      /\ box[w] # NULL /\ box' = [box EXCEPT ![w] = Ended(box[w])]
  BY DEF Crash, Alive, Exit, erp, host
<1>2. box' \in [Workers -> Boxes \cup {NULL}] /\ EmptyStays /\ RunsStay
  BY <1>1, EndedBox DEF FleetInv
<1>3. StepsOK' /\ RunsOK' /\ SlotsOK' /\ Softens /\ TasksOK'
  BY <1>1, <1>2, StepsKept, RunsKept, SlotsKept, TasksKept DEF FleetInv
<1> QED
  BY <1>1, <1>2, <1>3 DEF FleetInv, FleetTypeOK

(* A ticket is never taken from a container that runs.                        *)
LEMMA TicketExpiresInv ==
  ASSUME FleetInv, NEW w \in Workers, TicketExpires(w)
  PROVE  FleetInv' /\ Softens
<1>1. /\ UNCHANGED <<slot, search, box, agent, pending>> /\ sent' \subseteq sent
      /\ ~Running(w) /\ agent[w].step # "run" /\ ticket' = [ticket EXCEPT ![w] = NULL]
  BY DEF TicketExpires, Alive, Running, host, Void
<1>2. /\ ticket' \in [Workers -> Tickets \cup {NULL}]
      /\ \A v \in Workers : v # w => ticket'[v] = ticket[v]
  BY <1>1 DEF FleetInv, FleetTypeOK
<1>3. RunsStay /\ StepsOK'
  BY <1>1, <1>2 DEF RunsStay, Running, StepsOK, FleetInv
<1>4. RunsOK' /\ SlotsOK' /\ Softens /\ TasksOK'
  BY <1>1, <1>3, RunsKept, SlotsKept, TasksKept DEF FleetInv
<1> QED
  BY <1>1, <1>2, <1>3, <1>4 DEF FleetInv, FleetTypeOK

LEMMA Asking ==
  ASSUME FleetTypeOK, NEW w \in Workers, NEW tk \in Boots, NEW h \in MaybeNat, NEW b \in Boots,
         Ask(w, tk, h, b)
  PROVE  /\ box' \in [Workers -> Boxes \cup {NULL}] /\ sent' \subseteq Asks
         /\ ~Running(w)' /\ \A v \in Workers : v # w => box'[v] = box[v]
<1>1. box'[w] \in Boxes /\ box'[w].state = "claiming"
  BY DEF FleetTypeOK, Ask, Boxes, MaybeNat
<1>2. box' \in [Workers -> Boxes \cup {NULL}] /\ \A v \in Workers : v # w => box'[v] = box[v]
  BY <1>1 DEF FleetTypeOK, Ask
<1>3. sent' \subseteq Asks
  BY DEF FleetTypeOK, Ask, Asks
<1> QED
  BY <1>1, <1>2, <1>3 DEF Running

LEMMA StartByHandInv ==
  ASSUME FleetInv, NEW w \in Workers, StartByHand(w)
  PROVE  FleetInv' /\ Softens
<1>1. /\ UNCHANGED <<slot, ticket, search, agent, pending>> /\ box[w] # NULL
      /\ Boots \ Used # {} /\ Ask(w, box[w].ticket, box[w].handoff, NewBoot)
  BY DEF StartByHand, erp, host
<1>2. NewBoot \in Boots
  BY <1>1, NewBootIsBoot
<1>3. box[w].ticket \in Boots /\ box[w].handoff \in MaybeNat
  BY <1>1 DEF FleetInv, FleetTypeOK, Boxes
<1>4. /\ box' \in [Workers -> Boxes \cup {NULL}] /\ sent' \subseteq Asks
      /\ ~Running(w)' /\ \A v \in Workers : v # w => box'[v] = box[v]
  BY <1>1, <1>2, <1>3, Asking DEF FleetInv
<1>5. EmptyStays /\ RunsStay
  BY <1>1, <1>4 DEF EmptyStays, RunsStay, Running
<1>6. StepsOK' /\ RunsOK' /\ SlotsOK' /\ Softens /\ TasksOK'
  BY <1>1, <1>5, StepsKept, RunsKept, SlotsKept, TasksKept DEF FleetInv
<1> QED
  BY <1>1, <1>4, <1>6 DEF FleetInv, FleetTypeOK
(* A step that changes slots or tasks and no container.                       *)
LEMMA RowsChange ==
  ASSUME FleetInv, UNCHANGED <<ticket, box, agent, pending, sent>>,
         slot' \in [Accounts -> Slots \cup {NULL}], \A a \in Accounts : Softer(a),
         search' \in [Pairs -> Searches],
         \A p \in Pairs : Leased(p)' => search'[p] = search[p]
  PROVE  FleetInv' /\ Softens
<1>1. EmptyStays /\ RunsStay
  BY DEF EmptyStays, RunsStay, Running
<1>3. Softens
  BY <1>1 DEF Softens
<1>2. StepsOK' /\ RunsOK' /\ SlotsOK' /\ Softens /\ TasksOK'
  BY <1>1, <1>3, StepsKept, RunsKept, SlotsSoften, TasksKept DEF FleetInv
<1> QED
  BY <1>2 DEF FleetInv, FleetTypeOK

(* One row of the slots.                                                      *)
LEMMA FencedRow ==
  ASSUME NEW s \in Slots
  PROVE  LET n == Fenced(s, "parked") IN
         n \in Slots /\ n.worker = NULL /\ n.boot = NULL /\ n.lease = "parked"
<1> DEFINE k == s.epoch + 1
<1>1. k \in Nat
  BY DEF Slots
<1>2. Fenced(s, "parked") = [s EXCEPT !.epoch = k, !.worker = NULL, !.boot = NULL,
                                      !.handoff = NULL, !.lease = "parked"]
  BY DEF Fenced
<1> HIDE DEF k
<1> QED
  BY <1>1, <1>2 DEF Slots, MaybeNat

HandedOver(s, e, restart) ==
  [s EXCEPT !.epoch = @ + 1, !.boot = NULL, !.handoff = e,
            !.lease = IF restart THEN "reserved" ELSE "free"]
LEMMA StoppedRow ==
  ASSUME NEW s \in Slots, NEW e \in Nat, NEW restart \in BOOLEAN
  PROVE  LET n == HandedOver(s, e, restart) IN
         n \in Slots /\ n.worker = s.worker /\ n.boot = NULL /\ n.lease # "live"
<1> DEFINE k == s.epoch + 1
           n == [s EXCEPT !.epoch = k, !.boot = NULL, !.handoff = e,
                          !.lease = IF restart THEN "reserved" ELSE "free"]
<1>1. k \in Nat
  BY DEF Slots
<1> HIDE DEF k
<1>2. n \in Slots /\ n.worker = s.worker /\ n.boot = NULL /\ n.lease # "live"
  BY <1>1 DEF Slots, MaybeNat
<1> QED
  BY <1>2 DEF k, HandedOver

LEMMA RowChanges ==
  ASSUME FleetInv, NEW a \in Accounts, NEW s \in Slots \cup {NULL},
         slot' = [slot EXCEPT ![a] = s], Softer(a)
  PROVE  slot' \in [Accounts -> Slots \cup {NULL}] /\ \A b \in Accounts : Softer(b)
  BY DEF FleetInv, FleetTypeOK, Softer

LEMMA LapseInv ==
  ASSUME FleetInv, NEW a \in Accounts, Lapse(a)
  PROVE  FleetInv' /\ Softens
<1>1. /\ UNCHANGED <<ticket, box, agent, pending, sent, search>> /\ slot[a] \in Slots
      /\ slot' = [slot EXCEPT ![a] = [slot[a] EXCEPT !.lease = "free"]] /\ slot[a] # NULL
  BY DEF Lapse, host, FleetInv, FleetTypeOK
<1>2. [slot[a] EXCEPT !.lease = "free"] \in Slots /\ Softer(a)
  BY <1>1 DEF FleetInv, FleetTypeOK, Slots, Softer
<1>3. slot' \in [Accounts -> Slots \cup {NULL}] /\ \A b \in Accounts : Softer(b)
  BY <1>1, <1>2, RowChanges
<1> QED
  BY <1>1, <1>3, RowsChange DEF FleetInv, FleetTypeOK

LEMMA UnparkInv ==
  ASSUME FleetInv, NEW a \in Accounts, Unpark(a)
  PROVE  FleetInv' /\ Softens
<1>1. /\ UNCHANGED <<ticket, box, agent, pending, sent, search>> /\ slot[a] \in Slots
      /\ slot' = [slot EXCEPT ![a] = [slot[a] EXCEPT !.lease = "free"]] /\ slot[a] # NULL
  BY DEF Unpark, host, FleetInv, FleetTypeOK
<1>2. [slot[a] EXCEPT !.lease = "free"] \in Slots /\ Softer(a)
  BY <1>1 DEF FleetInv, FleetTypeOK, Slots, Softer
<1>3. slot' \in [Accounts -> Slots \cup {NULL}] /\ \A b \in Accounts : Softer(b)
  BY <1>1, <1>2, RowChanges
<1> QED
  BY <1>1, <1>3, RowsChange DEF FleetInv, FleetTypeOK

LEMMA ParkInv ==
  ASSUME FleetInv, NEW a \in Accounts, Park(a)
  PROVE  FleetInv' /\ Softens
<1>1. /\ UNCHANGED <<ticket, box, agent, pending, sent>> /\ search' = Released(a)
      /\ slot' = [slot EXCEPT ![a] = Fenced(slot[a], "parked")] /\ slot[a] \in Slots
  BY DEF Park, host, FleetInv, FleetTypeOK
<1> DEFINE n == Fenced(slot[a], "parked")
<1>2. n \in Slots /\ n.worker = NULL /\ n.boot = NULL /\ n.lease = "parked"
  BY <1>1, FencedRow
<1> HIDE DEF n
<1>5. slot' = [slot EXCEPT ![a] = n] /\ Softer(a)
  BY <1>1, <1>2 DEF FleetInv, FleetTypeOK, Softer, n
<1>3. slot' \in [Accounts -> Slots \cup {NULL}] /\ \A b \in Accounts : Softer(b)
  BY <1>2, <1>5, RowChanges
<1>4. search' \in [Pairs -> Searches] /\ \A p \in Pairs : Leased(p)' => search'[p] = search[p]
  BY <1>1, ReleasedTasks DEF FleetInv, Leased
<1> QED
  BY <1>1, <1>3, <1>4, RowsChange

LEMMA RemoveInv ==
  ASSUME FleetInv, NEW a \in Accounts, Remove(a)
  PROVE  FleetInv' /\ Softens
<1>1. /\ UNCHANGED <<ticket, box, agent, pending, sent>> /\ search' = Released(a)
      /\ slot' = [slot EXCEPT ![a] = NULL]
  BY DEF Remove, host
<1>2. Softer(a)
  BY <1>1 DEF FleetInv, FleetTypeOK, Softer
<1>3. slot' \in [Accounts -> Slots \cup {NULL}] /\ \A b \in Accounts : Softer(b)
  BY <1>1, <1>2, RowChanges
<1>4. search' \in [Pairs -> Searches] /\ \A p \in Pairs : Leased(p)' => search'[p] = search[p]
  BY <1>1, ReleasedTasks DEF FleetInv, Leased
<1> QED
  BY <1>1, <1>3, <1>4, RowsChange

LEMMA AddToFleetInv ==
  ASSUME FleetInv, NEW a \in Accounts, AddToFleet(a)
  PROVE  FleetInv' /\ Softens
<1>1. /\ UNCHANGED <<ticket, box, agent, pending, sent, search>>
      /\ slot' = [slot EXCEPT ![a] = NewSlot]
  BY DEF AddToFleet, host
<1>2. NewSlot \in Slots /\ Softer(a)
  BY <1>1 DEF FleetInv, FleetTypeOK, Softer, Slots, NewSlot, MaybeNat
<1>3. slot' \in [Accounts -> Slots \cup {NULL}] /\ \A b \in Accounts : Softer(b)
  BY <1>1, <1>2, RowChanges
<1> QED
  BY <1>1, <1>3, RowsChange DEF FleetInv, FleetTypeOK

LEMMA SetAuthoritativeInv ==
  ASSUME FleetInv, NEW w \in Workers, SetAuthoritative(w)
  PROVE  FleetInv' /\ Softens
<1>1. UNCHANGED <<slot, ticket, search, box, agent, pending, sent>>
  BY DEF SetAuthoritative, erp
<1>2. StepsOK'
  BY <1>1 DEF FleetInv, StepsOK
<1> QED
  BY <1>1, <1>2, AllStays DEF FleetInv, FleetTypeOK

----------------------------------------------------------------------------
(* The host agent.                                                            *)
LEMMA NamedLease ==
  ASSUME FleetTypeOK, NEW w \in Workers, NEW lease \in LeaseNamed(w)
  PROVE  lease \in Named
  BY DEF FleetTypeOK, LeaseNamed, InFleet, Named, Slots

LEMMA AgentAt ==
  ASSUME FleetTypeOK, NEW w \in Workers, NEW t \in Ticks, agent' = [agent EXCEPT ![w] = t]
  PROVE  /\ agent' \in [Workers -> Ticks] /\ agent'[w] = t
         /\ \A v \in Workers : v # w => agent'[v] = agent[v]
  BY DEF FleetTypeOK

LEMMA TickInv ==
  ASSUME FleetInv, NEW w \in Workers, Tick(w)
  PROVE  FleetInv' /\ Softens
<1>1. UNCHANGED <<slot, ticket, search, box, sent>> /\ agent[w] = Idle
  BY DEF Tick, erp
<1>2. CASE box[w] # NULL
  <2>1. PICK lease \in LeaseNamed(w) : Replace(w, lease) /\ pending' = pending
    BY <1>2 DEF Tick
  <2> DEFINE t == [step |-> "pull", lease |-> lease]
  <2>2. t \in Ticks /\ t.step = "pull" /\ agent' = [agent EXCEPT ![w] = t]
    BY <2>1, NamedLease DEF Ticks, FleetInv, Replace
  <2> HIDE DEF t
  <2>3. /\ agent' \in [Workers -> Ticks] /\ agent'[w] = t
        /\ \A v \in Workers : v # w => agent'[v] = agent[v]
    BY <2>2, AgentAt DEF FleetInv
  <2>4. StepsOK'
    BY <1>1, <2>1, <2>2, <2>3 DEF FleetInv, StepsOK
  <2> QED
    BY <1>1, <2>1, <2>3, <2>4, AllStays DEF FleetInv, FleetTypeOK
<1>3. CASE box[w] = NULL
  <2>1. /\ pending' = IF pending[w] = NULL THEN pending ELSE [pending EXCEPT ![w].confirmed = TRUE]
        /\ Step(w, IF pending[w] = NULL THEN "ticket" ELSE "confirm")
    BY <1>3 DEF Tick
  <2>2. /\ pending' \in [Workers -> Stops \cup {NULL}]
        /\ pending[w] # NULL => pending'[w] \in Stops
        /\ \A v \in Workers : v # w => pending'[v] = pending[v]
    BY <2>1 DEF FleetInv, FleetTypeOK, Stops
  <2>3. /\ agent' \in [Workers -> Ticks] /\ \A v \in Workers : v # w => agent'[v] = agent[v]
        /\ agent'[w].step = IF pending[w] = NULL THEN "ticket" ELSE "confirm"
    BY <2>1 DEF FleetInv, FleetTypeOK, Ticks, Step
  <2>4. StepsOK'
    BY <1>1, <1>3, <2>2, <2>3 DEF FleetInv, StepsOK
  <2> QED
    BY <1>1, <2>2, <2>3, <2>4, AllStays DEF FleetInv, FleetTypeOK
<1> QED
  BY <1>2, <1>3

LEMMA RollInv ==
  ASSUME FleetInv, NEW w \in Workers, Roll(w)
  PROVE  FleetInv' /\ Softens
<1>1. UNCHANGED <<slot, ticket, search, box, sent, pending>>
  BY DEF Roll, erp
<1>2. PICK lease \in LeaseNamed(w) : Replace(w, lease)
  BY DEF Roll
<1> DEFINE t == [step |-> "pull", lease |-> lease]
<1>3. t \in Ticks /\ t.step = "pull" /\ agent' = [agent EXCEPT ![w] = t]
  BY <1>2, NamedLease DEF Ticks, FleetInv, Replace
<1> HIDE DEF t
<1>4. /\ agent' \in [Workers -> Ticks] /\ agent'[w] = t
      /\ \A v \in Workers : v # w => agent'[v] = agent[v]
  BY <1>3, AgentAt DEF FleetInv
<1>5. StepsOK'
  BY <1>1, <1>3, <1>4 DEF FleetInv, StepsOK
<1> QED
  BY <1>1, <1>4, <1>5, AllStays DEF FleetInv, FleetTypeOK

LEMMA RecordStopInv ==
  ASSUME FleetInv, NEW w \in Workers, RecordStop(w)
  PROVE  FleetInv' /\ Softens
<1>1. /\ UNCHANGED <<slot, ticket, search, box, sent>> /\ agent[w].step = "pull"
      /\ pending' = [pending EXCEPT ![w] = Stopping(w, agent[w].lease)]
      /\ agent' = [agent EXCEPT ![w] = [step |-> "stop", lease |-> NULL]]
  BY DEF RecordStop, erp
<1>2. agent[w].lease \in Named /\ Settled(w) \in Stops \cup {NULL}
  BY DEF FleetInv, FleetTypeOK, Ticks, Settled
<1>3. Stopping(w, agent[w].lease) \in Stops \cup {NULL}
  <2>1. CASE Settled(w) # NULL
    <3>1. Settled(w) \in Stops
      BY <1>2, <2>1
    <3> QED
      BY <2>1, <3>1 DEF Stopping, Stops
  <2>2. CASE Settled(w) = NULL /\ agent[w].lease # NULL
    BY <1>2, <2>2 DEF Stopping, Stops, Named
  <2>3. CASE Settled(w) = NULL /\ agent[w].lease = NULL
    BY <2>3 DEF Stopping
  <2> QED
    BY <2>1, <2>2, <2>3
<1> DEFINE t == [step |-> "stop", lease |-> NULL]
<1>4. t \in Ticks /\ t.step = "stop" /\ agent' = [agent EXCEPT ![w] = t]
  BY <1>1 DEF Ticks, Named
<1> HIDE DEF t
<1>5. /\ agent' \in [Workers -> Ticks] /\ agent'[w] = t
      /\ \A v \in Workers : v # w => agent'[v] = agent[v]
  BY <1>4, AgentAt DEF FleetInv
<1>6. /\ pending' \in [Workers -> Stops \cup {NULL}]
      /\ \A v \in Workers : v # w => pending'[v] = pending[v]
  BY <1>1, <1>3 DEF FleetInv, FleetTypeOK
<1>7. StepsOK'
  BY <1>1, <1>4, <1>5, <1>6 DEF FleetInv, StepsOK
<1> QED
  BY <1>1, <1>5, <1>6, <1>7, AllStays DEF FleetInv, FleetTypeOK

LEMMA SettleInv ==
  ASSUME FleetInv, NEW w \in Workers, Settle(w)
  PROVE  FleetInv' /\ Softens
<1>1. UNCHANGED <<slot, ticket, search, box, sent, agent>> /\ agent[w] = Idle /\ pending[w] \in Stops
  BY DEF Settle, erp, FleetInv, FleetTypeOK
<1>2. [pending[w] EXCEPT !.restart = FALSE] \in Stops
  BY <1>1 DEF Stops
<1>3. \E q \in Stops \cup {NULL} : pending' = [pending EXCEPT ![w] = q]
  BY <1>1, <1>2 DEF Settle
<1>4. pending' \in [Workers -> Stops \cup {NULL}] /\ \A v \in Workers : v # w => pending'[v] = pending[v]
  BY <1>3 DEF FleetInv, FleetTypeOK
<1>5. StepsOK'
  BY <1>1, <1>4 DEF FleetInv, StepsOK, Idle
<1> QED
  BY <1>1, <1>4, <1>5, AllStays DEF FleetInv, FleetTypeOK

LEMMA DockerStopInv ==
  ASSUME FleetInv, NEW w \in Workers, DockerStop(w)
  PROVE  FleetInv' /\ Softens
<1>1. /\ UNCHANGED <<slot, ticket, search, sent>> /\ agent[w].step = "stop"
      /\ box' = [box EXCEPT ![w] = NULL]
      /\ pending' = IF pending[w] = NULL THEN pending ELSE [pending EXCEPT ![w].confirmed = TRUE]
      /\ Step(w, IF pending[w] = NULL THEN "ticket" ELSE "confirm")
  BY DEF DockerStop, erp
<1>2. /\ pending' \in [Workers -> Stops \cup {NULL}]
      /\ pending[w] # NULL => pending'[w] \in Stops
      /\ \A v \in Workers : v # w => pending'[v] = pending[v]
  BY <1>1 DEF FleetInv, FleetTypeOK, Stops
<1>3. /\ agent' \in [Workers -> Ticks] /\ \A v \in Workers : v # w => agent'[v] = agent[v]
      /\ agent'[w].step = IF pending[w] = NULL THEN "ticket" ELSE "confirm"
  BY <1>1 DEF FleetInv, FleetTypeOK, Ticks, Step
<1>4. /\ box' \in [Workers -> Boxes \cup {NULL}] /\ box'[w] = NULL
      /\ \A v \in Workers : v # w => box'[v] = box[v]
  BY <1>1 DEF FleetInv, FleetTypeOK
<1>5. StepsOK' /\ RunsStay
  BY <1>1, <1>2, <1>3, <1>4 DEF FleetInv, StepsOK, RunsStay, Running
<1>6. RunsOK' /\ SlotsOK' /\ Softens /\ TasksOK'
  BY <1>1, <1>5, RunsKept, SlotsKept, TasksKept DEF FleetInv
<1> QED
  BY <1>1, <1>2, <1>3, <1>4, <1>5, <1>6 DEF FleetInv, FleetTypeOK

LEMMA AgentRestartsInv ==
  ASSUME FleetInv, NEW w \in Workers, AgentRestarts(w)
  PROVE  FleetInv' /\ Softens
<1>1. UNCHANGED <<slot, ticket, search, box, sent, pending>> /\ agent' = [agent EXCEPT ![w] = Idle]
  BY DEF AgentRestarts, erp
<1>2. Idle \in Ticks /\ Idle.step = "idle"
  BY DEF Idle, Ticks, Named
<1>3. /\ agent' \in [Workers -> Ticks] /\ agent'[w] = Idle
      /\ \A v \in Workers : v # w => agent'[v] = agent[v]
  BY <1>1, <1>2, AgentAt DEF FleetInv
<1>4. StepsOK'
  BY <1>1, <1>2, <1>3 DEF FleetInv, StepsOK
<1> QED
  BY <1>1, <1>3, <1>4, AllStays DEF FleetInv, FleetTypeOK

LEMMA MintTicketInv ==
  ASSUME FleetInv, NEW w \in Workers, MintTicket(w)
  PROVE  FleetInv' /\ Softens
<1>1. /\ UNCHANGED <<slot, search, box, pending>> /\ sent' \subseteq sent
      /\ agent[w].step = "ticket" /\ Boots \ Used # {}
      /\ ticket' = [ticket EXCEPT ![w] = [id |-> NewBoot, handoff |-> Handoff(w), spent |-> NULL]]
      /\ \E t : agent' = [agent EXCEPT ![w] = t] /\ t \in {Idle, [agent[w] EXCEPT !.step = "run"]}
  BY DEF MintTicket, Void, Step
<1>2. NewBoot \in Boots /\ Handoff(w) \in MaybeNat
  BY <1>1, NewBootIsBoot DEF FleetInv, FleetTypeOK, Handoff, MaybeNat, Stops
<1>3. /\ ticket' \in [Workers -> Tickets \cup {NULL}] /\ ticket'[w] \in Tickets
      /\ \A v \in Workers : v # w => ticket'[v] = ticket[v]
  BY <1>1, <1>2 DEF FleetInv, FleetTypeOK, Tickets
<1>4. /\ agent' \in [Workers -> Ticks] /\ agent'[w].step \in {"idle", "run"}
      /\ \A v \in Workers : v # w => agent'[v] = agent[v]
  BY <1>1 DEF FleetInv, FleetTypeOK, Ticks, Idle, Named
<1>5. box[w] = NULL
  BY <1>1 DEF FleetInv, StepsOK
<1>6. StepsOK' /\ RunsStay
  BY <1>1, <1>3, <1>4, <1>5 DEF FleetInv, StepsOK, RunsStay, Running
<1>7. RunsOK' /\ SlotsOK' /\ Softens /\ TasksOK'
  BY <1>1, <1>6, RunsKept, SlotsKept, TasksKept DEF FleetInv
<1> QED
  BY <1>1, <1>3, <1>4, <1>6, <1>7 DEF FleetInv, FleetTypeOK

LEMMA DockerRunInv ==
  ASSUME FleetInv, NEW w \in Workers, DockerRun(w)
  PROVE  FleetInv' /\ Softens
<1>1. /\ UNCHANGED <<slot, ticket, search>> /\ agent[w].step = "run"
      /\ Ask(w, ticket[w].id, Handoff(w), ticket[w].id)
      /\ pending' \in {pending, [pending EXCEPT ![w] = NULL]}
      /\ agent' = [agent EXCEPT ![w] = Idle]
  BY DEF DockerRun, erp
<1>2. ticket[w].id \in Boots /\ Handoff(w) \in MaybeNat
  BY <1>1 DEF FleetInv, FleetTypeOK, StepsOK, Tickets, Handoff, MaybeNat, Stops
<1>3. /\ box' \in [Workers -> Boxes \cup {NULL}] /\ sent' \subseteq Asks
      /\ ~Running(w)' /\ \A v \in Workers : v # w => box'[v] = box[v]
  BY <1>1, <1>2, Asking DEF FleetInv
<1>4. /\ agent' \in [Workers -> Ticks] /\ agent'[w].step = "idle"
      /\ \A v \in Workers : v # w => agent'[v] = agent[v]
  BY <1>1 DEF FleetInv, FleetTypeOK, Ticks, Idle, Named
<1>5. /\ pending' \in [Workers -> Stops \cup {NULL}]
      /\ \A v \in Workers : v # w => pending'[v] = pending[v]
  BY <1>1 DEF FleetInv, FleetTypeOK
<1>6. StepsOK' /\ RunsStay
  BY <1>1, <1>3, <1>4, <1>5 DEF FleetInv, StepsOK, RunsStay, Running
<1>7. RunsOK' /\ SlotsOK' /\ Softens /\ TasksOK'
  BY <1>1, <1>6, RunsKept, SlotsKept, TasksKept DEF FleetInv
<1> QED
  BY <1>1, <1>3, <1>4, <1>5, <1>6, <1>7 DEF FleetInv, FleetTypeOK

(* A stop is reported for a worker without a container.                       *)
LEMMA StoppedRows ==
  ASSUME FleetInv, NEW w \in Workers, NEW p \in Stops, Stopped(w, p), box'[w] = NULL
  PROVE  /\ slot' \in [Accounts -> Slots \cup {NULL}]
         /\ \A a \in Accounts : Softer(a)
         /\ search' \in [Pairs -> Searches]
         /\ \A q \in Pairs : Leased(q)' => search'[q] = search[q]
<1> DEFINE a == p.account
           s == slot[a]
<1>1. a \in Accounts /\ p.epoch \in Nat /\ p.restart \in BOOLEAN
  BY DEF Stops
<1> HIDE DEF a
<1>2. CASE UNCHANGED <<slot, search>>
  BY <1>2 DEF Softer, FleetInv, FleetTypeOK
<1>3. CASE /\ ~Stale(w, p)
           /\ slot' = [slot EXCEPT ![a] = IF HandedOff(w, p) THEN [s EXCEPT !.lease = "free"]
                         ELSE [s EXCEPT !.epoch = @ + 1, !.boot = NULL, !.handoff = p.epoch,
                                        !.lease = IF p.restart THEN "reserved" ELSE "free"]]
           /\ search' = IF HandedOff(w, p) THEN search ELSE Released(a)
  <2>1. s # NULL /\ s \in Slots /\ s.worker = w
    BY <1>1, <1>3 DEF Stale, FleetInv, FleetTypeOK, a
  <2>2. CASE HandedOff(w, p)
    <3>1. slot' = [slot EXCEPT ![a] = [s EXCEPT !.lease = "free"]] /\ search' = search
      BY <1>3, <2>2
    <3>2. [s EXCEPT !.lease = "free"] \in Slots /\ Softer(a)
      BY <1>1, <2>1, <3>1 DEF Slots, Softer, FleetInv, FleetTypeOK
    <3> QED
      BY <1>1, <3>1, <3>2, RowChanges DEF FleetInv, FleetTypeOK
  <2>3. CASE ~HandedOff(w, p)
    <3> DEFINE n == HandedOver(s, p.epoch, p.restart)
    <3>1. slot' = [slot EXCEPT ![a] = n] /\ search' = Released(a)
      BY <1>3, <2>3 DEF HandedOver
    <3>2. n \in Slots /\ n.boot = NULL /\ n.lease # "live" /\ n.worker = w
      BY <1>1, <2>1, StoppedRow
    <3> HIDE DEF n
    <3>3. Softer(a)
      BY <1>1, <3>1, <3>2 DEF Softer, Running, FleetInv, FleetTypeOK
    <3>4. slot' \in [Accounts -> Slots \cup {NULL}] /\ \A b \in Accounts : Softer(b)
      BY <1>1, <3>1, <3>2, <3>3, RowChanges
    <3>5. /\ search' \in [Pairs -> Searches]
          /\ \A q \in Pairs : Leased(q)' => search'[q] = search[q]
      BY <1>1, <3>1, ReleasedTasks DEF FleetInv, Leased
    <3> QED
      BY <3>4, <3>5
  <2> QED
    BY <2>2, <2>3
<1> QED
  BY <1>2, <1>3 DEF Stopped, a

LEMMA ConfirmInv ==
  ASSUME FleetInv, NEW w \in Workers, Confirm(w)
  PROVE  FleetInv' /\ Softens
<1>1. /\ UNCHANGED <<ticket, box, sent>> /\ Acknowledges(w) /\ Stopped(w, pending[w])
      /\ pending' \in {pending, [pending EXCEPT ![w] = NULL]}
      /\ \/ agent' = agent /\ agent[w] = Idle
         \/ agent' = [agent EXCEPT ![w] = Idle]
         \/ agent' = [agent EXCEPT ![w] = [agent[w] EXCEPT !.step = "ticket"]]
  BY DEF Confirm, Step
<1>2. box[w] = NULL /\ pending[w] \in Stops /\ agent[w].step \in {"idle", "confirm"}
  BY <1>1 DEF Acknowledges, FleetInv, FleetTypeOK, StepsOK, Idle
<1>3. /\ slot' \in [Accounts -> Slots \cup {NULL}] /\ \A a \in Accounts : Softer(a)
      /\ search' \in [Pairs -> Searches]
      /\ \A q \in Pairs : Leased(q)' => search'[q] = search[q]
  BY <1>1, <1>2, StoppedRows
<1>4. /\ pending' \in [Workers -> Stops \cup {NULL}]
      /\ \A v \in Workers : v # w => pending'[v] = pending[v]
  BY <1>1 DEF FleetInv, FleetTypeOK
<1>5. /\ agent' \in [Workers -> Ticks]
      /\ \A v \in Workers : v # w => agent'[v] = agent[v]
      /\ agent'[w].step \in {"idle", "ticket"}
  <2>1. Idle \in Ticks /\ Idle.step = "idle"
    BY DEF Idle, Ticks, Named
  <2> DEFINE t == [agent[w] EXCEPT !.step = "ticket"]
  <2>2. t \in Ticks /\ t.step = "ticket"
    BY DEF FleetInv, FleetTypeOK, Ticks
  <2>3. \/ agent' = agent /\ agent[w] = Idle
        \/ agent' = [agent EXCEPT ![w] = Idle]
        \/ agent' = [agent EXCEPT ![w] = t]
    BY <1>1
  <2> HIDE DEF t
  <2>4. CASE agent' = agent /\ agent[w] = Idle
    BY <2>1, <2>4 DEF FleetInv, FleetTypeOK
  <2>5. CASE agent' = [agent EXCEPT ![w] = Idle]
    BY <2>1, <2>5, AgentAt DEF FleetInv
  <2>6. CASE agent' = [agent EXCEPT ![w] = t]
    BY <2>2, <2>6, AgentAt DEF FleetInv
  <2> QED
    BY <2>3, <2>4, <2>5, <2>6
<1>6. StepsOK' /\ RunsStay
  BY <1>1, <1>2, <1>4, <1>5 DEF FleetInv, StepsOK, RunsStay, Running
<1>8. Softens
  BY <1>3, <1>6 DEF Softens
<1>7. RunsOK' /\ SlotsOK' /\ Softens /\ TasksOK'
  BY <1>3, <1>6, <1>8, RunsKept, SlotsSoften, TasksKept DEF FleetInv
<1> QED
  BY <1>1, <1>3, <1>4, <1>5, <1>6, <1>7 DEF FleetInv, FleetTypeOK
----------------------------------------------------------------------------
(* The search queue.                                                          *)
LEMMA ClosedTasks ==
  ASSUME FleetTypeOK, NEW w \in Workers
  PROVE  /\ Closed(w) \in [Pairs -> Searches]
         /\ \A p \in Pairs : Closed(w)[p].state = "leased" => Closed(w)[p] = search[p]
         /\ \A p \in Pairs : Closed(w)[p] = search[p] \/ Closed(w)[p].state = "closed"
<1>1. \A p \in Pairs : search[p] \in Searches
  BY DEF FleetTypeOK
<1>2. \A p \in Pairs : /\ OffHand(search[p], "closed") \in Searches
                       /\ OffHand(search[p], "closed").state = "closed"
  BY <1>1 DEF OffHand, Searches, MaybeNat
<1> QED
  BY <1>1, <1>2 DEF Closed, FleetTypeOK

(* A task is leased to a worker that holds no other, or leased already.       *)
LEMMA LeasedOnce ==
  ASSUME FleetInv, NEW w \in Workers, Running(w), NEW p \in Choices(w),
         search' = [Closed(w) EXCEPT ![p] = LeaseTo(w, Closed(w)[p])]
  PROVE  search' \in [Pairs -> Searches] /\ TasksOK'
<1>1. /\ Closed(w) \in [Pairs -> Searches]
      /\ \A q \in Pairs : Closed(w)[q].state = "leased" => Closed(w)[q] = search[q]
      /\ \A q \in Pairs : Closed(w)[q] = search[q] \/ Closed(w)[q].state = "closed"
  BY ClosedTasks DEF FleetInv
<1>2. p \in Pairs
  BY DEF Choices, Again, Held
<1>3. box[w].account \in Accounts /\ box[w].epoch \in Nat
  BY DEF FleetInv, RunsOK
<1>4. /\ LeaseTo(w, Closed(w)[p]) \in Searches
      /\ LeaseTo(w, Closed(w)[p]).worker = w /\ LeaseTo(w, Closed(w)[p]).account = box[w].account
      /\ LeaseTo(w, Closed(w)[p]).epoch = box[w].epoch
  BY <1>1, <1>2, <1>3 DEF LeaseTo, Searches, MaybeNat
<1>5. /\ search' \in [Pairs -> Searches]
      /\ search'[p].worker = w /\ search'[p].account = box[w].account
      /\ search'[p].epoch = box[w].epoch
      /\ \A q \in Pairs : q # p => search'[q] = Closed(w)[q]
  BY <1>1, <1>2, <1>4
(* What it still holds is the task it is handed.                              *)
<1>6. ASSUME NEW q \in Pairs, q # p, search'[q].state = "leased", search'[q].worker = w,
             search'[q].account = box[w].account, search'[q].epoch = box[w].epoch
      PROVE  FALSE
  <2>1. q \in Again(w)
    BY <1>1, <1>5, <1>6 DEF Again, Held, HeldBy, Leased
  <2>2. p \in Again(w)
    BY <2>1 DEF Choices
  <2>3. HeldBy(w, p) /\ HeldBy(w, q)
    BY <2>1, <2>2 DEF Again, Held
  <2> QED
    BY <1>2, <1>6, <2>3 DEF FleetInv, TasksOK, HeldBy
<1>7. ASSUME NEW q \in Pairs, NEW k \in Pairs, Leased(q)', Leased(k)',
             search'[q].worker = search'[k].worker, search'[q].account = search'[k].account,
             search'[q].epoch = search'[k].epoch
      PROVE  q = k
  <2>1. CASE q = p \/ k = p
    BY <1>2, <1>5, <1>6, <1>7, <2>1 DEF Leased
  <2>2. CASE q # p /\ k # p
    BY <1>1, <1>5, <1>7, <2>2 DEF Leased, FleetInv, TasksOK
  <2> QED
    BY <2>1, <2>2
<1> QED
  BY <1>5, <1>7 DEF TasksOK

(* A step of the queue.                                                       *)
LEMMA QueueMoves ==
  ASSUME FleetInv, UNCHANGED <<slot, ticket, agent, pending, sent>>,
         box' \in [Workers -> Boxes \cup {NULL}], EmptyStays, RunsStay,
         search' \in [Pairs -> Searches], TasksOK'
  PROVE  FleetInv' /\ Softens
<1>1. StepsOK' /\ RunsOK' /\ SlotsOK' /\ Softens
  BY StepsKept, RunsKept, SlotsKept DEF FleetInv
<1> QED
  BY <1>1 DEF FleetInv, FleetTypeOK

LEMMA SameBoxes ==
  ASSUME FleetInv, UNCHANGED <<box, ticket>>
  PROVE  box' \in [Workers -> Boxes \cup {NULL}] /\ EmptyStays /\ RunsStay
  BY DEF FleetInv, FleetTypeOK, EmptyStays, RunsStay, Running

LEMMA NextTaskInv ==
  ASSUME FleetInv, NEW w \in Workers, NextTask(w)
  PROVE  FleetInv' /\ Softens
<1>1. UNCHANGED <<slot, ticket, agent, pending, sent>> /\ Running(w)
  BY DEF NextTask, host
<1>2. CASE ~Eligible(w)
  <2>1. search' = search /\ box[w] # NULL /\ box' = [box EXCEPT ![w] = Ended(box[w])]
    BY <1>1, <1>2 DEF NextTask, Exit, Running
  <2>2. box' \in [Workers -> Boxes \cup {NULL}] /\ EmptyStays /\ RunsStay
    BY <1>1, <2>1, EndedBox DEF FleetInv
  <2>3. TasksOK'
    BY <2>1, TasksKept DEF FleetInv
  <2> QED
    BY <1>1, <2>1, <2>2, <2>3, QueueMoves DEF FleetInv, FleetTypeOK
<1>3. CASE Eligible(w) /\ Choices(w) = {}
  <2>1. search' = Closed(w) /\ box' = box
    BY <1>3 DEF NextTask
  <2>2. search' \in [Pairs -> Searches] /\ \A p \in Pairs : Leased(p)' => search'[p] = search[p]
    BY <2>1, ClosedTasks DEF FleetInv, Leased
  <2>3. TasksOK'
    BY <2>2, TasksKept DEF FleetInv
  <2> QED
    BY <1>1, <2>1, <2>2, <2>3, SameBoxes, QueueMoves
<1>4. CASE Eligible(w) /\ Choices(w) # {}
  <2>1. PICK p \in Choices(w) : search' = [Closed(w) EXCEPT ![p] = LeaseTo(w, Closed(w)[p])]
    BY <1>4 DEF NextTask
  <2>2. box' = box
    BY <1>4 DEF NextTask
  <2>3. search' \in [Pairs -> Searches] /\ TasksOK'
    BY <1>1, <2>1, LeasedOnce
  <2> QED
    BY <1>1, <2>2, <2>3, SameBoxes, QueueMoves
<1> QED
  BY <1>2, <1>3, <1>4

LEMMA HandBackInv ==
  ASSUME FleetInv, NEW w \in Workers, HandBack(w)
  PROVE  FleetInv' /\ Softens
<1>1. UNCHANGED <<slot, ticket, agent, pending, sent, box>> /\ search' = Closed(w)
  BY DEF HandBack, host
<1>2. search' \in [Pairs -> Searches] /\ \A p \in Pairs : Leased(p)' => search'[p] = search[p]
  BY <1>1, ClosedTasks DEF FleetInv, Leased
<1>3. TasksOK'
  BY <1>2, TasksKept DEF FleetInv
<1> QED
  BY <1>1, <1>2, <1>3, SameBoxes, QueueMoves

LEMMA FinishInv ==
  ASSUME FleetInv, NEW w \in Workers, Finish(w)
  PROVE  FleetInv' /\ Softens
<1>1. UNCHANGED <<slot, ticket, agent, pending, sent, box, search>>
  BY DEF Finish, host, erp
<1>2. TasksOK'
  BY <1>1, TasksKept DEF FleetInv
<1> QED
  BY <1>1, <1>2, SameBoxes, QueueMoves DEF FleetInv, FleetTypeOK

LEMMA ReconcileInv ==
  ASSUME FleetInv, NEW p \in Pairs, WriteSearch(p) \/ Expire(p)
  PROVE  FleetInv' /\ Softens
<1>1. UNCHANGED <<slot, ticket, agent, pending, sent, box>>
  BY DEF WriteSearch, Expire, host
<1>2. PICK t : search' = [search EXCEPT ![p] = t] /\ t \in Searches /\ t.state # "leased"
  <2> DEFINE k == search[p].id + 1
             t == [search[p] EXCEPT !.id = k, !.state = "ready"]
             c == OffHand(search[p], "closed")
  <2>3. search[p] \in Searches /\ k \in Nat
    BY DEF FleetInv, FleetTypeOK, Searches
  <2>1. CASE WriteSearch(p)
    <3>1. search' = [search EXCEPT ![p] = t]
      BY <2>1, <2>3 DEF WriteSearch, FleetInv, FleetTypeOK
    <3> HIDE DEF k
    <3>2. t \in Searches /\ t.state # "leased"
      BY <2>3 DEF Searches
    <3> QED
      BY <3>1, <3>2
  <2>2. CASE Expire(p)
    <3>1. search' = [search EXCEPT ![p] = c]
      BY <2>2 DEF Expire
    <3>2. c \in Searches /\ c.state # "leased"
      BY <2>3 DEF OffHand, Searches, MaybeNat
    <3> QED
      BY <3>1, <3>2
  <2> QED
    BY <2>1, <2>2
<1>3. search' \in [Pairs -> Searches] /\ \A q \in Pairs : Leased(q)' => search'[q] = search[q]
  BY <1>2 DEF FleetInv, FleetTypeOK, Leased
<1>4. TasksOK'
  BY <1>3, TasksKept DEF FleetInv
<1> QED
  BY <1>1, <1>3, <1>4, SameBoxes, QueueMoves

----------------------------------------------------------------------------
LEMMA FleetInit == Init => FleetInv
<1> SUFFICES ASSUME Init PROVE FleetInv
  OBVIOUS
<1>1. NewSlot \in Slots /\ NewSlot.boot = NULL /\ NewSlot.worker = NULL
      /\ NewSlot.lease = "free"
  BY DEF NewSlot, Slots, MaybeNat
<1>2. Idle \in Ticks /\ Idle.step = "idle"
  BY DEF Idle, Ticks, Named
<1>3. /\ OffHand([id |-> 0], "closed") \in Searches
      /\ OffHand([id |-> 0], "closed").state = "closed"
  BY DEF OffHand, Searches, MaybeNat
<1>4. FleetTypeOK
  BY <1>1, <1>2, <1>3 DEF Init, FleetTypeOK
<1>5. StepsOK /\ RunsOK /\ TasksOK
  BY <1>2, <1>3 DEF Init, StepsOK, RunsOK, Running, TasksOK, Leased
<1>6. SlotsOK
  BY <1>1 DEF Init, SlotsOK, SlotOK, InFleet, Same, Running
<1> QED
  BY <1>4, <1>5, <1>6 DEF FleetInv

LEMMA FleetStep == FleetInv /\ [Next]_fleet => FleetInv'
<1> SUFFICES ASSUME FleetInv, [Next]_fleet PROVE FleetInv'
  OBVIOUS
<1>1. CASE UNCHANGED fleet
  BY <1>1 DEF fleet, FleetInv, FleetTypeOK, StepsOK, RunsOK, Running, SlotsOK, SlotOK, InFleet,
     Same, TasksOK, Leased
<1>2. CASE Leases
  <2>1. ASSUME NEW r \in sent, Claim(r) \/ Refuse(r) \/ Forget(r) PROVE FleetInv'
    BY <2>1, ClaimInv, RefuseInv, ForgetInv
  <2>2. ASSUME NEW w \in Workers, AgentStep(w) PROVE FleetInv'
    BY <2>2, TickInv, RecordStopInv, SettleInv, DockerStopInv, ConfirmInv, MintTicketInv,
       DockerRunInv DEF AgentStep
  <2>3. ASSUME NEW w \in Workers,
               \/ Roll(w) \/ AgentRestarts(w) \/ SetAuthoritative(w)
               \/ Heartbeat(w) \/ Crash(w) \/ TicketExpires(w) \/ StartByHand(w)
        PROVE FleetInv'
    BY <2>3, RollInv, AgentRestartsInv, SetAuthoritativeInv, HeartbeatInv, CrashInv,
       TicketExpiresInv, StartByHandInv
  <2>4. ASSUME NEW a \in Accounts, Lapse(a) \/ Park(a) \/ Unpark(a) \/ Remove(a) \/ AddToFleet(a)
        PROVE FleetInv'
    BY <2>4, LapseInv, ParkInv, UnparkInv, RemoveInv, AddToFleetInv
  <2> QED
    BY <1>2, <2>1, <2>2, <2>3, <2>4 DEF Leases
<1>3. CASE Queue
  <2>1. ASSUME NEW w \in Workers, NextTask(w) \/ HandBack(w) \/ Finish(w) PROVE FleetInv'
    BY <2>1, NextTaskInv, HandBackInv, FinishInv
  <2>2. ASSUME NEW p \in Pairs, WriteSearch(p) \/ Expire(p) PROVE FleetInv'
    BY <2>2, ReconcileInv
  <2> QED
    BY <1>3, <2>1, <2>2 DEF Queue
<1> QED
  BY <1>1, <1>2, <1>3 DEF Next

(* Every row of the fleet's tables, of its hosts and of its queue keeps its   *)
(* type, and the slots carry the claim ids the containers spent.              *)
THEOREM FleetRows == Spec => []FleetInv
  BY FleetInit, FleetStep, PTL DEF Spec

----------------------------------------------------------------------------
LEMMA AtMostOne ==
  ASSUME NEW S, \A x, y \in S : x = y
  PROVE  Cardinality(S) <= 1
<1>1. CASE S = {}
  BY <1>1, FS_EmptySet
<1>2. CASE S # {}
  <2>1. PICK x \in S : S = {x}
    BY <1>2
  <2> QED
    BY <2>1, FS_Singleton
<1> QED
  BY <1>1, <1>2

(* POST /worker/claim: no worker holds two live leases, whatever answers were *)
(* lost, leases lapsed and containers were started again.                     *)
THEOREM WorkerHoldsOneLease == Spec => []OneLease
<1>1. FleetInv => OneLease
  <2> SUFFICES ASSUME FleetInv, NEW w \in Workers
      PROVE Cardinality({a \in LeasedTo(w) : slot[a].lease = "live"}) <= 1
    BY DEF OneLease
  <2> DEFINE S == {a \in LeasedTo(w) : slot[a].lease = "live"}
  <2>1. \A a, b \in S : a = b
    BY FleetAssumption DEF FleetInv, SlotsOK, Same, LeasedTo, FleetAssumption
  <2> HIDE DEF S
  <2>2. Cardinality(S) <= 1
    BY <2>1, AtMostOne
  <2> QED
    BY <2>2 DEF S
<1> QED
  BY <1>1, FleetRows, PTL

(* A confirmed stop: while an account is reserved for the successor, the      *)
(* container it was taken from no longer runs on it.                          *)
THEOREM ReservedIsLeft == Spec => []HandoffLeavesNoBrowser
<1>1. FleetInv => HandoffLeavesNoBrowser
  <2> SUFFICES ASSUME FleetInv, NEW a \in InFleet, NEW w \in Workers,
                      slot[a].lease = "reserved", slot[a].worker = w, Running(w), box[w].account = a
      PROVE FALSE
    BY DEF HandoffLeavesNoBrowser
  <2>1. SlotOK(a) /\ slot[a] # NULL
    BY DEF FleetInv, SlotsOK, InFleet
  <2>2. box[w].boot \in Boots
    BY DEF FleetInv, RunsOK
  <2> QED
    BY <2>1, <2>2, FleetAssumption DEF SlotOK, FleetAssumption
<1> QED
  BY <1>1, FleetRows, PTL

(* next-task: a lease covers one task, so a worker that asks again after a    *)
(* lost answer has no second one waiting for it.                              *)
THEOREM LeaseCoversOneTask == Spec => []HandedOnce
<1>1. FleetInv => HandedOnce
  <2> SUFFICES ASSUME FleetInv, NEW w \in Workers, Running(w) PROVE Cardinality(Held(w)) <= 1
    BY DEF HandedOnce
  <2>1. \A p, q \in Held(w) : p = q
    BY DEF FleetInv, TasksOK, Held, HeldBy
  <2> QED
    BY <2>1, AtMostOne
<1> QED
  BY <1>1, FleetRows, PTL
----------------------------------------------------------------------------
(* Only a claim makes a lease, and only a beat renews one.                    *)
LEMMA StepKinds ==
  ASSUME FleetInv, Next
  PROVE  \/ \E r \in sent : Claim(r)
         \/ \E w \in Workers : Heartbeat(w)
         \/ Softens
<1>1. CASE Leases
  <2>1. ASSUME NEW r \in sent, Refuse(r) \/ Forget(r) PROVE Softens
    BY <2>1, RefuseInv, ForgetInv
  <2>2. ASSUME NEW w \in Workers, AgentStep(w) PROVE Softens
    BY <2>2, TickInv, RecordStopInv, SettleInv, DockerStopInv, ConfirmInv, MintTicketInv,
       DockerRunInv DEF AgentStep
  <2>3. ASSUME NEW w \in Workers,
               \/ Roll(w) \/ AgentRestarts(w) \/ SetAuthoritative(w)
               \/ Crash(w) \/ TicketExpires(w) \/ StartByHand(w)
        PROVE Softens
    BY <2>3, RollInv, AgentRestartsInv, SetAuthoritativeInv, CrashInv, TicketExpiresInv,
       StartByHandInv
  <2>4. ASSUME NEW a \in Accounts, Lapse(a) \/ Park(a) \/ Unpark(a) \/ Remove(a) \/ AddToFleet(a)
        PROVE Softens
    BY <2>4, LapseInv, ParkInv, UnparkInv, RemoveInv, AddToFleetInv
  <2> QED
    BY <1>1, <2>1, <2>2, <2>3, <2>4 DEF Leases
<1>2. CASE Queue
  <2>1. ASSUME NEW w \in Workers, NextTask(w) \/ HandBack(w) \/ Finish(w) PROVE Softens
    BY <2>1, NextTaskInv, HandBackInv, FinishInv
  <2>2. ASSUME NEW p \in Pairs, WriteSearch(p) \/ Expire(p) PROVE Softens
    BY <2>2, ReconcileInv
  <2> QED
    BY <1>2, <2>1, <2>2 DEF Queue
<1> QED
  BY <1>1, <1>2 DEF Next

LEMMA ClaimGrants ==
  ASSUME FleetInv, NEW r \in sent, Claim(r)
  PROVE  /\ r \in Asks
         /\ \E a \in Offers(r) : slot' = [slot EXCEPT ![a] = Granted(r, a)]
         /\ \A w \in Workers : Running(w) /\ Running(w)' => box'[w] = box[w]
         /\ \A w \in Workers : Running(w)' /\ r.worker = w => box'[w].boot = r.boot
<1>1. r \in Asks
  BY DEF FleetInv, FleetTypeOK
<1>2. PICK a \in Offers(r) :
        /\ slot' = [slot EXCEPT ![a] = Granted(r, a)]
        /\ ticket' = [ticket EXCEPT ![r.worker].spent = r.boot]
        /\ \/ box' = box
           \/ /\ Hears(r)
              /\ box' = [box EXCEPT ![r.worker] =
                           [box[r.worker] EXCEPT !.state = "running", !.account = a,
                                                 !.epoch = Granted(r, a).epoch]]
  BY DEF Claim, Answer
<1>3. /\ \A w \in Workers : w # r.worker => box'[w] = box[w]
      /\ Running(r.worker)' =>
           /\ box'[r.worker].boot = r.boot
           /\ \/ Running(r.worker) /\ box'[r.worker] = box[r.worker]
              \/ ~Running(r.worker) /\ box'[r.worker].account = a
  BY <1>1, <1>2, ClaimRuns
<1> QED
  BY <1>1, <1>2, <1>3

LEMMA BeatRenews ==
  ASSUME FleetInv, NEW w \in Workers, Heartbeat(w)
  PROVE  /\ \A v \in Workers : Running(v)' => Running(v) /\ box'[v] = box[v]
         /\ \A a \in Accounts : slot'[a] # slot[a] =>
              /\ Eligible(w) /\ a = box[w].account /\ slot[a] # NULL /\ slot[a] \in Slots
              /\ slot' = [slot EXCEPT ![a].lease = "live"] /\ box' = box
              /\ slot'[a].holder = slot[a].holder /\ slot'[a].epoch = slot[a].epoch
              /\ slot'[a].worker = slot[a].worker
<1>1. UNCHANGED <<ticket, search, agent, pending, sent>> /\ Running(w)
  BY DEF Heartbeat, host
<1>2. CASE ~Eligible(w)
  <2>1. slot' = slot /\ box' = [box EXCEPT ![w] = Ended(box[w])] /\ box[w] # NULL
    BY <1>1, <1>2 DEF Heartbeat, Exit, Running
  <2>2. RunsStay
    BY <1>1, <2>1, EndedBox DEF FleetInv
  <2> QED
    BY <2>1, <2>2 DEF RunsStay
<1>3. CASE Eligible(w)
  <2> DEFINE a == box[w].account
  <2>1. /\ slot' = [slot EXCEPT ![a].lease = "live"] /\ box' = box /\ slot[a] # NULL
    BY <1>1, <1>3 DEF Heartbeat, Eligible
  <2>2. a \in Accounts
    BY <1>1 DEF FleetInv, RunsOK
  <2> HIDE DEF a
  <2>3. slot[a] \in Slots
    BY <2>1, <2>2 DEF FleetInv, FleetTypeOK
  <2>4. /\ slot'[a].holder = slot[a].holder /\ slot'[a].epoch = slot[a].epoch
        /\ slot'[a].worker = slot[a].worker
        /\ \A b \in Accounts : b # a => slot'[b] = slot[b]
    BY <2>1, <2>2, <2>3 DEF FleetInv, FleetTypeOK, Slots
  <2> QED
    BY <1>3, <2>1, <2>3, <2>4 DEF Running, a
<1> QED
  BY <1>2, <1>3

(* A reserved account goes to the worker it is reserved for, until the        *)
(* reservation lapses.                                                        *)
THEOREM ReservationHolds == Spec => ReservationKept
<1> DEFINE Kept ==
      \A a \in Accounts :
        slot[a] # NULL /\ slot'[a] # NULL /\ slot[a].lease = "reserved" /\ slot'[a].lease = "live"
          => slot'[a].worker = slot[a].worker
<1>1. FleetInv /\ [Next]_fleet => [Kept]_fleet
  <2> SUFFICES ASSUME FleetInv, Next, NEW a \in Accounts, slot[a] # NULL, slot'[a] # NULL,
                      slot[a].lease = "reserved", slot'[a].lease = "live"
      PROVE slot'[a].worker = slot[a].worker
    OBVIOUS
  <2>1. ASSUME NEW r \in sent, Claim(r) PROVE slot'[a].worker = slot[a].worker
    <3>1. r \in Asks
      BY <2>1, ClaimGrants
    <3>2. PICK b \in Offers(r) : slot' = [slot EXCEPT ![b] = Granted(r, b)]
      BY <2>1, ClaimGrants
    <3>3. b \in Accounts /\ Granted(r, b).worker = r.worker
      BY <3>1, OffersAreSlots, GrantedRow DEF FleetInv
    <3>4. CASE b # a
      BY <3>2, <3>4 DEF FleetInv, FleetTypeOK
    <3>5. CASE b = a
      <4>1. slot[a].worker = r.worker
        BY <3>1, <3>5, OffersAreSlots DEF FleetInv, Repeats
      <4> QED
        BY <3>2, <3>3, <3>5, <4>1 DEF FleetInv, FleetTypeOK
    <3> QED
      BY <3>4, <3>5
  <2>2. ASSUME NEW w \in Workers, Heartbeat(w) PROVE slot'[a].worker = slot[a].worker
    BY <2>2, BeatRenews
  <2>3. ASSUME Softens PROVE slot'[a].worker = slot[a].worker
    BY <2>3 DEF Softens, Softer
  <2> QED
    BY <2>1, <2>2, <2>3, StepKinds
<1> QED
  BY <1>1, FleetRows, PTL DEF Spec, ReservationKept

(* A token the ERP fenced stays fenced for as long as its container runs,     *)
(* unless its account was removed and added again and the container's own     *)
(* claim, repeated, reaches the old epoch.                                    *)
THEOREM FencedTokensStayDead == Spec => DeadTokenStaysDead
<1> DEFINE Dead ==
      \A w \in Workers :
        Running(w) /\ Running(w)' /\ box[w].boot = box'[w].boot /\ ~Eligible(w)
          => ~Eligible(w)' \/ CountsAnew(w)
<1>1. FleetInv /\ [Next]_fleet => [Dead]_fleet
  <2> SUFFICES ASSUME FleetInv, Next, NEW w \in Workers, Running(w), Running(w)',
                      ~Eligible(w), Eligible(w)'
      PROVE CountsAnew(w)
    OBVIOUS
  <2> DEFINE a == box[w].account
  <2>1. a \in Accounts
    BY DEF FleetInv, RunsOK
  <2>2. ASSUME box'[w] = box[w]
        PROVE /\ slot'[a] # NULL /\ slot'[a].holder = w /\ slot'[a].worker = w
              /\ slot'[a].epoch = box[w].epoch
              /\ slot'[a] # slot[a]
    BY <2>2 DEF Eligible
  <2>3. \A v \in Workers : v # NULL
    BY FleetAssumption DEF FleetAssumption
  <2> HIDE DEF a
  <2>4. ASSUME NEW r \in sent, Claim(r) PROVE CountsAnew(w)
    <3>1. r \in Asks /\ box'[w] = box[w]
      BY <2>4, ClaimGrants
    <3>2. PICK b \in Offers(r) : slot' = [slot EXCEPT ![b] = Granted(r, b)]
      BY <2>4, ClaimGrants
    <3>3. b = a
      BY <2>1, <2>2, <3>1, <3>2 DEF FleetInv, FleetTypeOK
    <3>4. /\ slot[a] \in Slots /\ slot[a] # NULL
          /\ Granted(r, a).worker = r.worker /\ Granted(r, a).boot = r.boot
          /\ Repeats(r, a) => Granted(r, a) = slot[a]
      BY <3>1, <3>3, OffersAreSlots, GrantedRow DEF FleetInv
    <3>5. slot'[a] = Granted(r, a)
      BY <2>1, <3>2, <3>3 DEF FleetInv, FleetTypeOK
    <3>6. ~Repeats(r, a) /\ r.worker = w
      BY <2>2, <3>1, <3>4, <3>5
    <3>7. r.boot = box[w].boot
      BY <2>4, <3>1, <3>6, ClaimGrants
    <3>8. slot'[a].epoch = slot[a].epoch + 1
      BY <3>5, <3>6 DEF Granted
    <3>9. slot[a].epoch \in Nat /\ slot[a].epoch < box[w].epoch
      BY <2>2, <3>1, <3>4, <3>8 DEF Slots
    <3> QED
      BY <3>4, <3>5, <3>7, <3>9 DEF CountsAnew, a
  <2>5. ASSUME NEW v \in Workers, Heartbeat(v) PROVE FALSE
    <3>1. box'[w] = box[w]
      BY <2>5, BeatRenews
    <3>2. /\ slot[a] # NULL /\ slot'[a].holder = slot[a].holder
          /\ slot'[a].epoch = slot[a].epoch /\ slot'[a].worker = slot[a].worker
      BY <2>1, <2>2, <2>5, <3>1, BeatRenews
    <3> QED
      BY <2>2, <3>1, <3>2 DEF Eligible, a
  <2>6. ASSUME Softens PROVE FALSE
    <3>1. box'[w] = box[w]
      BY <2>6 DEF Softens, RunsStay
    <3>2. /\ slot[a] # NULL /\ slot'[a].holder = slot[a].holder
          /\ slot'[a].epoch = slot[a].epoch /\ slot'[a].worker = slot[a].worker
      BY <2>1, <2>2, <2>3, <2>6, <3>1 DEF Softens, Softer
    <3> QED
      BY <2>2, <3>1, <3>2 DEF Eligible, a
  <2> QED
    BY <2>4, <2>5, <2>6, StepKinds
<1> QED
  BY <1>1, FleetRows, PTL DEF Spec, DeadTokenStaysDead

=============================================================================
