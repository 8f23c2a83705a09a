----------------------------- MODULE FleetTasks -----------------------------
(***************************************************************************)
(* The search queue: a worker that holds an account asks for the next      *)
(* task with the result of its last; the scheduler writes the tasks and    *)
(* takes back those whose lease ran out.  Quarantine, budgets, slug checks *)
(* and priorities only choose among ready tasks and are left out.          *)
(*                                                                         *)
(* Bound: each pair is searched at most MaxTasks times.                    *)
(***************************************************************************)
EXTENDS FleetLeases

CONSTANTS MaxTasks

HeldBy(w, p) ==
  /\ Leased(p) /\ search[p].worker = w
  /\ search[p].account = box[w].account /\ search[p].epoch = box[w].epoch
Held(w) == {p \in Pairs : HeldBy(w, p)}

(* The result it hands back closes the task it still holds.                   *)
Closed(w) ==
  [p \in Pairs |-> IF /\ work[w] # NULL /\ work[w].pair = p /\ HeldBy(w, p) /\ search[p].id = work[w].id
                   THEN OffHand(search[p], "closed") ELSE search[p]]
LeaseTo(w, t) ==
  [t EXCEPT !.state = "leased", !.worker = w, !.account = box[w].account, !.epoch = box[w].epoch]

(* Faults: the lease of a lost answer is not looked for, or it is before the   *)
(* result is recorded.                                                        *)
Forgotten(w) == {}
LookedForFirst(w) == Held(w)
(* A lease this epoch still holds was handed in an answer it never got.       *)
Again(w) == {p \in Held(w) : Closed(w)[p] = search[p]}
Choices(w) ==
  IF Again(w) # {} THEN Again(w) ELSE {p \in Pairs : search[p].state = "ready"}
Task(p) == [pair |-> p, id |-> search[p].id, finished |-> FALSE]

NextTask(w) ==
  /\ Running(w) /\ (work[w] # NULL => work[w].finished)
  /\ IF ~Eligible(w) THEN Exit(w) /\ UNCHANGED <<search, troubles>>
     ELSE \/ /\ Choices(w) = {} /\ Closed(w) # search
             /\ search' = Closed(w) /\ work' = [work EXCEPT ![w] = NULL]
             /\ UNCHANGED <<box, troubles>>
          \/ /\ \E p \in Choices(w) :
                  /\ search' = [Closed(w) EXCEPT ![p] = LeaseTo(w, @)]
                  /\ \/ Calm /\ work' = [work EXCEPT ![w] = Task(p)]
                     \/ Trouble /\ UNCHANGED work
             /\ UNCHANGED box
  /\ UNCHANGED <<slot, ticket, host, sent>>

(* take: false, on the way out.                                               *)
HandBack(w) ==
  /\ Running(w) /\ Eligible(w) /\ work[w] # NULL /\ work[w].finished
  /\ search' = Closed(w) /\ work' = [work EXCEPT ![w] = NULL]
  /\ UNCHANGED <<slot, ticket, host, box, sent, troubles>>

Finish(w) ==
  /\ Running(w) /\ work[w] # NULL /\ ~work[w].finished
  /\ work' = [work EXCEPT ![w].finished = TRUE]
  /\ UNCHANGED <<erp, host, box, sent, troubles>>

----------------------------------------------------------------------------
(* reconcile, every 30 s.                                                     *)
WriteSearch(p) ==
  /\ search[p].state = "closed" /\ search[p].id < MaxTasks
  /\ search' = [search EXCEPT ![p].id = @ + 1, ![p].state = "ready"]
  /\ UNCHANGED <<slot, ticket, host, box, sent, work, troubles>>

(* Its lease ran out, or it ran too long; a beating worker renews the first.  *)
Expire(p) ==
  /\ Leased(p)
  /\ IF \E w \in Workers : Running(w) /\ HeldBy(w, p) /\ Eligible(w) THEN Trouble ELSE Calm
  /\ search' = [search EXCEPT ![p] = OffHand(@, "closed")]
  /\ UNCHANGED <<slot, ticket, host, box, sent, work>>
=============================================================================
