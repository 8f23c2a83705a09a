---------------------------- MODULE FleetSystem ----------------------------
(***************************************************************************)
(* The fleet control plane, its host agents and its workers together.      *)
(***************************************************************************)
EXTENDS FleetTasks

Init ==
  /\ slot \in [Accounts -> {NewSlot, NULL}]
  /\ ticket = [w \in Workers |-> NULL] /\ box = [w \in Workers |-> NULL]
  /\ agent = [w \in Workers |-> Idle] /\ pending = [w \in Workers |-> NULL]
  /\ observing \in SUBSET Workers /\ sent = {}
  /\ search = [p \in Pairs |-> OffHand([id |-> 0], "closed")] /\ work = [w \in Workers |-> NULL]
  /\ troubles \in 0..MaxTroubles

AgentStep(w) ==
  \/ Tick(w) \/ RecordStop(w) \/ Settle(w) \/ DockerStop(w) \/ Confirm(w) \/ MintTicket(w) \/ DockerRun(w)
Leases ==
  \/ \E r \in sent : Claim(r) \/ Refuse(r) \/ Forget(r)
  \/ \E w \in Workers :
       \/ AgentStep(w) \/ Roll(w) \/ AgentRestarts(w) \/ SetAuthoritative(w)
       \/ Heartbeat(w) \/ Crash(w) \/ TicketExpires(w) \/ StartByHand(w)
  \/ \E a \in Accounts : Lapse(a) \/ Park(a) \/ Unpark(a) \/ Remove(a) \/ AddToFleet(a)
Queue ==
  \/ \E w \in Workers : NextTask(w) \/ HandBack(w) \/ Finish(w)
  \/ \E p \in Pairs : WriteSearch(p) \/ Expire(p)
Next == Leases \/ Queue

(* A live agent ticks, a live worker beats and asks, the scheduler runs every *)
(* 30 s, claims are answered or dropped, and time passes.                     *)
Fairness ==
  /\ \A w \in Workers :
       /\ WF_fleet(AgentStep(w)) /\ WF_fleet(Heartbeat(w)) /\ WF_fleet(NextTask(w)) /\ WF_fleet(Finish(w))
       /\ WF_fleet(\E r \in sent : r.worker = w /\ (Claim(r) \/ Refuse(r) \/ Forget(r)))
  /\ \A a \in Accounts : WF_fleet(Lapse(a))
  /\ \A p \in Pairs : WF_fleet(WriteSearch(p) \/ Expire(p))
Spec == Init /\ [][Next]_fleet /\ Fairness

----------------------------------------------------------------------------
(* POST /worker/claim: "skipping it would hand the same boot a second account *)
(* while the first sits leased".  No worker holds two live leases, whatever   *)
(* answers were lost, leases lapsed and containers were started again.        *)
OneLease == \A w \in Workers : Cardinality({a \in LeasedTo(w) : slot[a].lease = "live"}) <= 1

(* A confirmed stop reserves the account for the successor: while it is       *)
(* reserved the predecessor's browser is not open on it, so that the agent's  *)
(* stop really came before its word.                                          *)
HandoffLeavesNoBrowser ==
  \A a \in InFleet, w \in Workers :
    slot[a].lease = "reserved" /\ slot[a].worker = w => ~(Running(w) /\ box[w].account = a)

(* next-task: a worker asking again after a lost answer is handed the task it *)
(* already leases, so no task waits leased to a worker that works on another. *)
HandedOnce == \A w \in Workers : Running(w) => Cardinality(Held(w)) <= 1

(* Only the worker an account is reserved for claims it, until the            *)
(* reservation lapses: a stop's handoff is never lost to another host.        *)
ReservationKept ==
  [][\A a \in Accounts :
       slot[a] # NULL /\ slot'[a] # NULL /\ slot[a].lease = "reserved" /\ slot'[a].lease = "live"
         => slot'[a].worker = slot[a].worker]_fleet

(* A token fenced once stays fenced for as long as its container runs: no     *)
(* release, removal or later claim makes the ERP take the writes of a worker  *)
(* it has already told to stop.  Only an account that was removed and added   *)
(* again counts its epochs from zero, and then only a repeated claim of the   *)
(* container itself can reach the old one.                                    *)
CountsAnew(w) == LET a == box[w].account IN
  slot[a] # NULL /\ slot[a].epoch < box[w].epoch /\ slot'[a].boot = box[w].boot
DeadTokenStaysDead ==
  [][\A w \in Workers :
       Running(w) /\ Running(w)' /\ box[w].boot = box'[w].boot /\ ~Eligible(w)
         => ~Eligible(w)' \/ CountsAnew(w)]_fleet

(* Once the troubles stop, every account of the fleet that is not parked ends *)
(* up driven by a worker for good, if authoritative hosts have a worker each. *)
Staffed == Cardinality(Workers \ observing) >= Cardinality(InFleet)
Served == <>[](\A a \in InFleet : Staffed /\ slot[a].lease # "parked" => \E w \in Workers : Drives(w, a))

(* Then no search stays queued, or leased to a worker that is gone.           *)
QueueDrains ==
  \A p \in Pairs :
    []<>(search[p].state = "closed" \/ ~Staffed \/ \A a \in InFleet : slot[a].lease = "parked")
=============================================================================
