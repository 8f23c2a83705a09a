---------------------------- MODULE FleetLeases ----------------------------
(***************************************************************************)
(* The scraping fleet: who drives which Facebook account.  The ERP leases  *)
(* an account (fleet_slots) to a worker container that claims it with the  *)
(* single-use ticket its host's agent minted; the lease's epoch fences     *)
(* every earlier holder.  The agent replaces containers that ended, and    *)
(* hands the account of one it stopped to its successor.  Containers die,  *)
(* answers are lost, agents restart with only what they wrote to /state,   *)
(* workers fall silent until their lease runs out, managers edit the pool. *)
(*                                                                         *)
(* Bounds: every host runs one worker, no slot waits for its proxy, and at *)
(* most MaxTroubles things happen that the fleet does not do by itself.     *)
(***************************************************************************)
EXTENDS Naturals, FiniteSets

CONSTANTS
  Workers,      \* worker ids, numbered in the order of their hosts
  Accounts,     \* fb_pool_accounts.no
  Boots,        \* claim ids and ticket hashes, reused once nothing names them
  Pairs,        \* a city and an item to search it for
  MaxTroubles, NULL

ASSUME FleetAssumption ==
  /\ Workers \subseteq Nat /\ Boots \subseteq Nat /\ MaxTroubles \in Nat
  /\ NULL \notin Workers \cup Boots

VARIABLES
  slot,      \* account -> its fleet_slots row and pool holder, NULL off the fleet
  ticket,    \* worker -> its claim ticket: [id, handoff, spent]
  box,       \* worker -> its container: [ticket, handoff, boot, state, account, epoch]
  agent,     \* worker -> its agent's tick: [step, lease]
  pending,   \* worker -> the agent's stop identity under /state
  observing, \* workers whose host is observe-only
  sent,      \* claims that may still reach the ERP: [worker, boot, ticket, handoff]
  search,    \* pair -> its newest search task: [id, state, worker, account, epoch]
  work,      \* worker -> the task its monitor has: [pair, id, finished], or NULL
  troubles

erp   == <<slot, ticket, search>>
host  == <<agent, pending, observing>>
fleet == <<slot, ticket, box, agent, pending, observing, sent, search, work, troubles>>

Trouble == troubles < MaxTroubles /\ troubles' = troubles + 1
Calm == troubles' = troubles

InFleet == {a \in Accounts : slot[a] # NULL}
LeasedTo(w) == {a \in InFleet : slot[a].worker = w /\ slot[a].lease \in {"live", "reserved"}}
(* A fault: a reservation is taken for a free slot.                            *)
FreeOrReserved == {a \in InFleet : slot[a].lease \in {"free", "reserved"}}
Free == {a \in InFleet : slot[a].lease = "free"}

Alive(w) == box[w] # NULL /\ box[w].state \in {"claiming", "running"}
Running(w) == box[w] # NULL /\ box[w].state = "running"
(* What workerAuth and every worker write ask of a token.                     *)
(* A fault: the epoch is not compared.                                        *)
EpochIgnored(w) ==
  LET a == box[w].account IN slot[a] # NULL /\ slot[a].holder = w /\ slot[a].worker = w
Eligible(w) ==
  LET a == box[w].account IN
  /\ slot[a] # NULL /\ slot[a].holder = w
  /\ slot[a].epoch = box[w].epoch /\ slot[a].worker = w
Drives(w, a) == Running(w) /\ box[w].account = a /\ Eligible(w)

Leased(p) == search[p].state = "leased"
OffHand(t, state) == [id |-> t.id, state |-> state, worker |-> NULL, account |-> NULL, epoch |-> NULL]
Released(a) ==
  [p \in Pairs |-> IF Leased(p) /\ search[p].account = a THEN OffHand(search[p], "ready") ELSE search[p]]

Used ==
  {slot[a].boot : a \in InFleet}
    \cup UNION {{ticket[w].id, ticket[w].spent} : w \in {v \in Workers : ticket[v] # NULL}}
    \cup UNION {{box[w].ticket, box[w].boot} : w \in {v \in Workers : box[v] # NULL}}
    \cup UNION {{r.boot, r.ticket} : r \in sent}
NewBoot == CHOOSE b \in Boots \ Used : \A c \in Boots \ Used : b <= c

----------------------------------------------------------------------------
(* POST /worker/claim                                                         *)
TicketHolds(r) ==
  /\ ticket[r.worker] # NULL /\ ticket[r.worker].id = r.ticket
  /\ ticket[r.worker].spent \in {NULL, r.boot}

Repeats(r, a) == slot[a].worker = r.worker /\ slot[a].boot = r.boot
HandedTo(r, a) ==
  /\ slot[a].worker = r.worker /\ slot[a].lease = "reserved"
  /\ slot[a].handoff = r.handoff /\ r.handoff # NULL
AlreadyRuns(r) == \E a \in LeasedTo(r.worker) : ~Repeats(r, a) /\ ~HandedTo(r, a)

(* A fault: a retry that finds its own slot locked skips to another.          *)
SkipsOwn(r) ==
  IF ~TicketHolds(r) \/ AlreadyRuns(r) THEN {}
  ELSE Free \cup {a \in InFleet : Repeats(r, a) \/ HandedTo(r, a)}
(* Its own slot first; else a free one.  SKIP LOCKED passes over those other  *)
(* transactions hold, so any of them may be picked.                           *)
Offers(r) ==
  LET repeated == {a \in InFleet : Repeats(r, a)}
      handed == {a \in InFleet : HandedTo(r, a)} IN
  IF ~TicketHolds(r) \/ AlreadyRuns(r) THEN {}
  ELSE IF repeated # {} THEN repeated ELSE IF handed # {} THEN handed ELSE Free

Granted(r, a) ==
  IF Repeats(r, a) THEN slot[a]
  ELSE [holder |-> r.worker, epoch |-> slot[a].epoch + 1, worker |-> r.worker, boot |-> r.boot,
        handoff |-> IF HandedTo(r, a) THEN r.handoff ELSE NULL, lease |-> "live"]

(* The boot asks again, under the same claim id, until an answer reaches it;  *)
(* an attempt it gave up on may still reach the ERP later.                    *)
Answer(r, content) == box' = [box EXCEPT ![r.worker] = content]
Hears(r) == Alive(r.worker) /\ box[r.worker].boot = r.boot /\ box[r.worker].state = "claiming"

Claim(r) ==
  /\ r \in sent
  /\ \E a \in Offers(r) :
       /\ slot' = [slot EXCEPT ![a] = Granted(r, a)]
       /\ search' = IF slot[a].holder # r.worker THEN Released(a) ELSE search
       /\ ticket' = [ticket EXCEPT ![r.worker].spent = r.boot]
       /\ \/ /\ IF Hears(r) THEN Trouble ELSE Calm
             /\ UNCHANGED <<box, sent>>
          \/ /\ Hears(r)
             /\ Answer(r, [box[r.worker] EXCEPT !.state = "running", !.account = a,
                                                 !.epoch = Granted(r, a).epoch])
             /\ \/ Calm /\ sent' = sent \ {r}
                \/ Trouble /\ UNCHANGED sent
  /\ UNCHANGED <<host, work>>

Ended(b) == [b EXCEPT !.state = "exited", !.boot = NULL, !.account = NULL, !.epoch = NULL]
Refuse(r) ==
  /\ r \in sent /\ Offers(r) = {} /\ Hears(r)
  /\ Answer(r, Ended(box[r.worker])) /\ sent' = sent \ {r}
  /\ UNCHANGED <<erp, host, work, troubles>>

(* A claim of a boot that is gone, cut off on its way.                        *)
Forget(r) ==
  /\ r \in sent /\ ~Hears(r)
  /\ sent' = sent \ {r}
  /\ UNCHANGED <<erp, host, box, work, troubles>>

----------------------------------------------------------------------------
(* The worker, and time.                                                      *)
Exit(w) == /\ box' = [box EXCEPT ![w] = Ended(box[w])]
           /\ work' = [work EXCEPT ![w] = NULL]

(* POST /worker/heartbeat; 409 makes the worker leave.                        *)
Heartbeat(w) ==
  /\ Running(w)
  /\ IF Eligible(w)
     THEN /\ slot' = [slot EXCEPT ![box[w].account].lease = "live"]
          /\ UNCHANGED <<box, work>>
     ELSE Exit(w) /\ UNCHANGED slot
  /\ UNCHANGED <<ticket, search, host, sent, troubles>>

Crash(w) == Alive(w) /\ Trouble /\ Exit(w) /\ UNCHANGED <<erp, host, sent>>

(* A fault: only reservations lapse.                                           *)
LapsesReserved(a) ==
  /\ slot[a] # NULL /\ slot[a].lease = "reserved"
  /\ slot' = [slot EXCEPT ![a].lease = "free"]
  /\ UNCHANGED <<ticket, search, host, box, sent, work, troubles>>
Lapse(a) ==
  /\ slot[a] # NULL /\ slot[a].lease \in {"live", "reserved"}
  /\ IF \E w \in Workers : Drives(w, a) THEN Trouble ELSE Calm
  /\ slot' = [slot EXCEPT ![a].lease = "free"]
  /\ UNCHANGED <<ticket, search, host, box, sent, work>>

(* Tickets outlast the attempts of the boot they are for.  A claim by a void  *)
(* one would be refused to a boot that is gone: it is dropped with it.        *)
Void(w) == sent' = {r \in sent : r.worker # w}
TicketExpires(w) ==
  /\ ticket[w] # NULL /\ ~Alive(w) /\ agent[w].step # "run"
  /\ ticket' = [ticket EXCEPT ![w] = NULL] /\ Void(w)
  /\ UNCHANGED <<slot, search, host, box, work, troubles>>

(* A person starts the ended container again: its ticket is the old one, its  *)
(* claim id is new.                                                           *)
Ask(w, tk, h, b) ==
  /\ box' = [box EXCEPT ![w] = [ticket |-> tk, handoff |-> h, boot |-> b,
                                state |-> "claiming", account |-> NULL, epoch |-> NULL]]
  /\ sent' = sent \cup {[worker |-> w, boot |-> b, ticket |-> tk, handoff |-> h]}
StartByHand(w) ==
  /\ box[w] # NULL /\ box[w].state = "exited" /\ agent[w].step = "idle"
  /\ Boots \ Used # {} /\ Trouble
  /\ Ask(w, box[w].ticket, box[w].handoff, NewBoot)
  /\ UNCHANGED <<erp, host, work>>

----------------------------------------------------------------------------
(* The host agent: a tick asks for the desired state, then acts on it.        *)
Idle == [step |-> "idle", lease |-> NULL]
Step(w, s) == agent' = [agent EXCEPT ![w].step = s]

(* hosts.ts desired: the lease it names, and whether it wants the worker run. *)
LeaseNamed(w) ==
  LET mine == {a \in InFleet : slot[a].worker = w} IN
  IF mine = {} THEN {NULL} ELSE {[account |-> a, epoch |-> slot[a].epoch] : a \in mine}
Spare == {w \in Workers \ observing : LeasedTo(w) = {}}
Wanted(w) ==
  w \notin observing
    /\ (w \in Spare => Cardinality({v \in Spare : v < w}) < Cardinality(Free))

(* A confirmed stop whose worker has a container again was handed over.       *)
Settled(w) ==
  IF pending[w] # NULL /\ pending[w].confirmed /\ box[w] # NULL THEN NULL ELSE pending[w]

(* The image is pulled first; then the stop is written down, with the lease   *)
(* the tick began with, before docker is asked for it.                        *)
Stopping(w, lease) ==
  LET old == Settled(w) IN
  IF old # NULL THEN [old EXCEPT !.restart = TRUE]
  ELSE IF lease = NULL THEN NULL
  ELSE [account |-> lease.account, epoch |-> lease.epoch, restart |-> TRUE, confirmed |-> FALSE]

(* desired reads a worker's slots in no order and keeps the last: one that is  *)
(* not its live lease may be named, which counts as a trouble.                *)
Misnamed(w, lease) == lease # NULL /\ LeasedTo(w) \notin {{}, {lease.account}} /\ slot[lease.account].lease # "live"
Replace(w, lease) == agent' = [agent EXCEPT ![w] = [step |-> "pull", lease |-> lease]]
(* A fault: the stop is reported when it is written down.                     *)
ReportsFirst(w) ==
  /\ agent[w].step = "pull"
  /\ pending' = [pending EXCEPT ![w] = Stopping(w, agent[w].lease)]
  /\ agent' = [agent EXCEPT ![w] = [step |-> IF pending'[w] = NULL THEN "stop" ELSE "confirm", lease |-> NULL]]
  /\ UNCHANGED <<erp, observing, box, sent, work, troubles>>
RecordStop(w) ==
  /\ agent[w].step = "pull"
  /\ pending' = [pending EXCEPT ![w] = Stopping(w, agent[w].lease)]
  /\ agent' = [agent EXCEPT ![w] = [step |-> "stop", lease |-> NULL]]
  /\ UNCHANGED <<erp, observing, box, sent, work, troubles>>

(* A container that ended is replaced, a missing one is run.                  *)
Tick(w) ==
  /\ agent[w] = Idle /\ Wanted(w)
  /\ \/ /\ box[w] # NULL /\ box[w].state = "exited" /\ UNCHANGED pending
        /\ \E lease \in LeaseNamed(w) :
             Replace(w, lease) /\ IF Misnamed(w, lease) THEN Trouble ELSE Calm
     \/ /\ box[w] = NULL /\ Calm
        /\ pending' = IF pending[w] = NULL THEN pending ELSE [pending EXCEPT ![w].confirmed = TRUE]
        /\ Step(w, IF pending[w] = NULL THEN "ticket" ELSE "confirm")
  /\ UNCHANGED <<erp, observing, box, sent, work>>

(* A release names an idle running worker for replacement on its image.       *)
Roll(w) ==
  /\ agent[w] = Idle /\ Running(w) /\ w \notin observing /\ Trouble
  /\ \A p \in Pairs : Leased(p) => search[p].worker # w
  /\ \E lease \in LeaseNamed(w) : Replace(w, lease)
  /\ UNCHANGED <<erp, pending, observing, box, sent, work>>

(* settlePending: a stop that was handed over is forgotten, one on an observe- *)
(* only host is not for a restart any more.                                   *)
Settle(w) ==
  /\ agent[w] = Idle /\ pending[w] # NULL
  /\ LET p == IF w \in observing THEN [pending[w] EXCEPT !.restart = FALSE] ELSE pending[w] IN
     /\ pending' = [pending EXCEPT ![w] = IF p.confirmed /\ box[w] # NULL THEN NULL ELSE p]
     /\ pending' # pending
  /\ UNCHANGED <<erp, agent, observing, box, sent, work, troubles>>

DockerStop(w) ==
  /\ agent[w].step = "stop"
  /\ box' = [box EXCEPT ![w] = NULL] /\ work' = [work EXCEPT ![w] = NULL]
  /\ pending' = IF pending[w] = NULL THEN pending ELSE [pending EXCEPT ![w].confirmed = TRUE]
  /\ Step(w, IF pending[w] = NULL THEN "ticket" ELSE "confirm")
  /\ UNCHANGED <<erp, observing, sent, troubles>>

(* POST /hosts/:id/stopped; "stale" once the slot has moved on.               *)
HandedOff(w, p) == slot[p.account].handoff = p.epoch /\ slot[p.account].worker = w
Stale(w, p) ==
  \/ slot[p.account] = NULL
  \/ slot[p.account].worker # w
  \/ p.epoch \notin {slot[p.account].handoff, slot[p.account].epoch}
Stopped(w, p) ==
  LET s == slot[p.account] IN
  IF Stale(w, p) \/ (HandedOff(w, p) /\ (p.restart \/ s.lease # "reserved")) THEN UNCHANGED <<slot, search>>
  ELSE /\ slot' = [slot EXCEPT ![p.account] =
                     IF HandedOff(w, p) THEN [s EXCEPT !.lease = "free"]
                     ELSE [s EXCEPT !.epoch = @ + 1, !.boot = NULL, !.handoff = p.epoch,
                                    !.lease = IF p.restart THEN "reserved" ELSE "free"]]
       /\ search' = IF HandedOff(w, p) THEN search ELSE Released(p.account)

Acknowledges(w) ==
  \/ agent[w].step = "confirm"
  \/ agent[w] = Idle /\ w \in observing /\ box[w] = NULL /\ pending[w] # NULL /\ ~pending[w].restart
Confirm(w) ==
  /\ Acknowledges(w) /\ Stopped(w, pending[w])
  /\ \/ /\ Calm
        /\ pending' = IF agent[w] = Idle \/ Stale(w, pending[w]) THEN [pending EXCEPT ![w] = NULL] ELSE pending
        /\ IF agent[w] = Idle THEN UNCHANGED agent ELSE Step(w, "ticket")
     \/ Trouble /\ agent' = [agent EXCEPT ![w] = Idle] /\ UNCHANGED pending
  /\ UNCHANGED <<ticket, observing, box, sent, work>>

(* POST /hosts/:id/tickets voids the worker's older ticket.                   *)
Handoff(w) == IF pending[w] # NULL /\ pending[w].restart THEN pending[w].epoch ELSE NULL
MintTicket(w) ==
  /\ agent[w].step = "ticket" /\ Boots \ Used # {}
  /\ ticket' = [ticket EXCEPT ![w] = [id |-> NewBoot, handoff |-> Handoff(w), spent |-> NULL]]
  /\ Void(w)
  /\ \/ Calm /\ Step(w, "run")
     \/ Trouble /\ agent' = [agent EXCEPT ![w] = Idle]
  /\ UNCHANGED <<slot, search, pending, observing, box, work>>

DockerRun(w) ==
  /\ agent[w].step = "run"
  /\ Ask(w, ticket[w].id, Handoff(w), ticket[w].id)
  /\ \/ Calm /\ pending' = [pending EXCEPT ![w] = NULL]
     \/ Trouble /\ pending[w] # NULL /\ UNCHANGED pending
  /\ agent' = [agent EXCEPT ![w] = Idle]
  /\ UNCHANGED <<erp, observing, work>>

AgentRestarts(w) ==
  /\ agent[w] # Idle /\ Trouble
  /\ agent' = [agent EXCEPT ![w] = Idle]
  /\ UNCHANGED <<erp, pending, observing, box, sent, work>>

----------------------------------------------------------------------------
(* The managers.                                                              *)
Fenced(s, lease) ==
  [s EXCEPT !.epoch = @ + 1, !.worker = NULL, !.boot = NULL, !.handoff = NULL, !.lease = lease]

Park(a) ==
  /\ slot[a] # NULL /\ Trouble
  /\ slot' = [slot EXCEPT ![a] = Fenced(@, "parked")]
  /\ search' = Released(a)
  /\ UNCHANGED <<ticket, host, box, sent, work>>
Unpark(a) ==
  /\ slot[a] # NULL /\ slot[a].lease = "parked"
  /\ slot' = [slot EXCEPT ![a].lease = "free"]
  /\ UNCHANGED <<ticket, search, host, box, sent, work, troubles>>
(* Removed from the fleet: only a slot nobody holds.  A parked one may also be  *)
(* retired, which is no different here; retiring a held one, whose account was *)
(* lost, is left out.                                                          *)
Remove(a) ==
  /\ slot[a] # NULL /\ slot[a].lease \in {"free", "parked"} /\ Trouble
  /\ slot' = [slot EXCEPT ![a] = NULL]
  /\ search' = Released(a)
  /\ UNCHANGED <<ticket, host, box, sent, work>>
NewSlot == [holder |-> NULL, epoch |-> 0, worker |-> NULL, boot |-> NULL, handoff |-> NULL, lease |-> "free"]
AddToFleet(a) ==
  /\ slot[a] = NULL /\ Trouble
  /\ slot' = [slot EXCEPT ![a] = NewSlot]
  /\ UNCHANGED <<ticket, search, host, box, sent, work>>
SetAuthoritative(w) ==
  /\ Trouble
  /\ observing' = IF w \in observing THEN observing \ {w} ELSE observing \cup {w}
  /\ UNCHANGED <<erp, agent, pending, box, sent, work>>
=============================================================================
