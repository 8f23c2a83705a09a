----------------------------- MODULE ReviewQueue -----------------------------
(***************************************************************************)
(* The queue of AI reviews of purchase orders: table po_ai_reviews, filled *)
(* by moves and managers, drained by a loop in every backend process.  The *)
(* model calls happen outside any transaction, so a run may be slow, may   *)
(* die with its process, and may end after another process took its review *)
(* over.  What a review reads and finds is left out; a run's findings are  *)
(* named by the attempt that wrote them.                                   *)
(***************************************************************************)
EXTENDS Integers, Sequences

CONSTANTS
  Orders,        \* purchase orders
  Instances,     \* backend processes
  MaxAttempts,   \* MAX_ATTEMPTS
  MaxReviews,    \* reviews queued in a behaviour (bound)
  MaxCrashes,    \* crashes of a behaviour (bound)
  MaxUnlucky     \* times a last attempt goes stale between a claim's two statements (bound)

ASSUME QueueAssumption ==
  /\ MaxAttempts \in Nat \ {0} /\ MaxReviews \in Nat /\ MaxCrashes \in Nat /\ MaxUnlucky \in Nat

VARIABLES
  review,    \* po_ai_reviews, by age: order, status, attempts, and whether started_at is stale
  found,     \* po_ai_findings: the attempts that wrote findings of a review
  loop,      \* each process: idle, claiming, or running an attempt of a review
  crashes, unlucky

queueVars == <<review, found, loop, crashes, unlucky>>

Reviews == DOMAIN review
Idle == [at |-> "idle", review |-> 0, attempt |-> 0]
Claiming == [at |-> "claiming", review |-> 0, attempt |-> 0]
Pending == {k \in Reviews : review[k].status \in {"queued", "running"}}
Waiting(o) == {k \in Pending : review[k].order = o}

QueueInit ==
  /\ review = << >>
  /\ found = << >>
  /\ loop = [i \in Instances |-> Idle]
  /\ crashes = 0 /\ unlucky = 0

----------------------------------------------------------------------------
(* A move into Reviewing, or a manager, queues a review; the unique index on  *)
(* pending reviews makes a second one do nothing.                             *)
QueueReview(o) ==
  /\ Waiting(o) = {}
  /\ Len(review) < MaxReviews
  /\ review' = Append(review, [order |-> o, status |-> "queued", attempts |-> 0, stale |-> FALSE])
  /\ found' = Append(found, {})
  /\ UNCHANGED <<loop, crashes, unlucky>>

(* The order left review backwards, or was archived. *)
Supersede(o) ==
  /\ Waiting(o) # {}
  /\ review' = [k \in Reviews |->
       IF k \in Waiting(o) THEN [review[k] EXCEPT !.status = "superseded"] ELSE review[k]]
  /\ UNCHANGED <<found, loop, crashes, unlucky>>

(* Ten minutes pass since the review was started. *)
Unlucky(k) == review[k].attempts >= MaxAttempts /\ \E i \in Instances : loop[i] = Claiming

GoStale(k) ==
  /\ review[k].status = "running" /\ ~review[k].stale
  /\ Unlucky(k) => unlucky < MaxUnlucky
  /\ unlucky' = IF Unlucky(k) THEN unlucky + 1 ELSE unlucky
  /\ review' = [review EXCEPT ![k].stale = TRUE]
  /\ UNCHANGED <<found, loop, crashes>>

----------------------------------------------------------------------------
(* A review that waits, or whose run went stale.  A tick that finds none       *)
(* changes nothing.                                                           *)
QueuedOnly == {k \in Reviews : review[k].status = "queued"}   \* mutant: dead runs not taken over
Claimable ==
  {k \in Reviews : review[k].status = "queued" \/ (review[k].status = "running" /\ review[k].stale)}

Spent(k) == review[k].status = "running" /\ review[k].stale /\ review[k].attempts >= MaxAttempts

(* claimPoAiReview, first statement: stale reviews out of attempts fail. *)
GiveUp(i) ==
  /\ loop[i] = Idle
  /\ Claimable # {}
  /\ review' = [k \in Reviews |-> IF Spent(k) THEN [review[k] EXCEPT !.status = "failed"] ELSE review[k]]
  /\ loop' = [loop EXCEPT ![i] = Claiming]
  /\ UNCHANGED <<found, crashes, unlucky>>

(* Second statement: the oldest of them is taken, if one is left. *)
Taken(k) == [review[k] EXCEPT !.status = "running", !.stale = FALSE, !.attempts = @ + 1]

Claim(i) ==
  /\ loop[i] = Claiming
  /\ \/ /\ Claimable = {}
        /\ loop' = [loop EXCEPT ![i] = Idle]
        /\ UNCHANGED review
     \/ \E k \in Claimable :
          /\ \A j \in Claimable : k <= j
          /\ review' = [review EXCEPT ![k] = Taken(k)]
          /\ loop' = [loop EXCEPT ![i] =
               [at |-> "running", review |-> k, attempt |-> review[k].attempts + 1]]
  /\ UNCHANGED <<found, crashes, unlucky>>

(* A run may write its result only while the review is still its own. *)
StillRunning(i) == review[loop[i].review].status = "running"   \* mutant: the attempt not compared
StillOwn(i) ==
  /\ review[loop[i].review].status = "running"
  /\ review[loop[i].review].attempts = loop[i].attempt

(* The run ends, with findings or an error. *)
EndRun(i, result) ==
  /\ loop[i].at = "running"
  /\ \/ /\ StillOwn(i)
        /\ review' = [review EXCEPT ![loop[i].review].status = result]
        /\ found' = IF result = "done"
                    THEN [found EXCEPT ![loop[i].review] = @ \cup {loop[i].attempt}] ELSE found
     \/ ~StillOwn(i) /\ UNCHANGED <<review, found>>
  /\ loop' = [loop EXCEPT ![i] = Idle]
  /\ UNCHANGED <<crashes, unlucky>>

(* The process dies between two statements, and is started again. *)
Crash(i) ==
  /\ loop[i] # Idle
  /\ crashes < MaxCrashes
  /\ crashes' = crashes + 1
  /\ loop' = [loop EXCEPT ![i] = Idle]
  /\ UNCHANGED <<review, found, unlucky>>

----------------------------------------------------------------------------
Work(i) == GiveUp(i) \/ Claim(i) \/ \E result \in {"done", "failed"} : EndRun(i, result)

QueueNext ==
  \/ \E o \in Orders : QueueReview(o) \/ Supersede(o)
  \/ \E k \in Reviews : GoStale(k)
  \/ \E i \in Instances : Work(i) \/ Crash(i)

(* The loop ticks every 15 seconds in a live process, a run ends (every call  *)
(* of a model has a time limit), and time passes.                             *)
QueueFairness ==
  /\ \A i \in Instances : WF_queueVars(Work(i))
  /\ \A k \in 1..MaxReviews : WF_queueVars(k \in Reviews /\ GoStale(k))

QueueSpec == QueueInit /\ [][QueueNext]_queueVars /\ QueueFairness

----------------------------------------------------------------------------
(* A review that is done holds the findings of one run, the last to claim it, *)
(* and any other review holds none: not those of a run that was taken over,   *)
(* superseded or given up.                                                    *)
FindingsOfOneRun ==
  \A k \in Reviews :
    found[k] = IF review[k].status = "done" THEN {review[k].attempts} ELSE {}

(* A queued review ends, done, failed or superseded, though processes crash   *)
(* in the middle of it.                                                       *)
ReviewsEnd == \A k \in 1..MaxReviews : k \in Pending ~> k \notin Pending
=============================================================================
