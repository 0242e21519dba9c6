----------------------------- MODULE WorkerPool -----------------------------
(***************************************************************************)
(* The in-process worker pool of a core pod:                               *)
(* apps/core/src/harness/worker-queue.ts.                                  *)
(*                                                                         *)
(* A run takes one of a fixed number of slots or waits in a FIFO queue.  A  *)
(* run near its deadline yields its slot and queues again, a run past it is *)
(* aborted and its slot reclaimed, and a request may hold a place in the    *)
(* queue before its run exists.  The leases of waiting runs are renewed.    *)
(*                                                                         *)
(* The code between two awaits runs alone, so each such stretch is an       *)
(* action: what releases a slot also starts the next run.                   *)
(***************************************************************************)
EXTENDS Integers, FiniteSets, Sequences, SequencesExt

CONSTANTS
  Run,          \* names of runs; a finished run's name is used again
  Leased,       \* the runs dispatched with their conversation's lease
  MaxWorkers,   \* MAX_INPROCESS_WORKERS
  MaxPending,   \* MAX_PENDING_WORKER_RUNS
  MaxSlots,     \* MAX_RUN_SLOTS: slots a run may take over its life
  LeaseRounds,  \* lease TTL in renewal intervals (the interval is a third)
  MaxFailures   \* bound of the model: failed renewals in a row of one run

ASSUME PoolAssumption ==
  /\ IsFiniteSet(Run)
  /\ Leased \subseteq Run
  /\ MaxWorkers \in Nat \ {0}
  /\ MaxPending \in Nat
  /\ MaxSlots \in Nat \ {0}
  /\ LeaseRounds \in Nat
  /\ MaxFailures \in Nat

VARIABLES
  active,     \* activeInProcessWorkers
  pending,    \* pendingWorkerRuns
  slots,      \* runs whose releaseSlot is set
  workers,    \* inProcessWorkers
  overdue,    \* aborted runs that still execute
  used,       \* slotsUsed of each run
  held,       \* heldQueuePlaces
  placed,     \* requests whose place is held
  shed,       \* runs turned away with WORKER_QUEUE_FULL
  timer,      \* queuedLeaseTimer is set
  leased,     \* pending entries that still carry a lease
  lost,       \* waiting runs the coordinator said were stopped or lost
  renewing,   \* renewingQueuedLeases
  round,      \* entries whose renewal this round is not back yet
  age,        \* intervals since a waiting run's lease was extended
  failures    \* failed renewals in a row

poolVars == <<active, pending, slots, workers, overdue, used, held, placed, shed>>
leaseVars == <<timer, leased, lost, renewing, round, age, failures>>
vars == <<poolVars, leaseVars>>

Waiting == ToSet(pending)

\* The name of r is free for another run.
Idle(r) == r \notin Waiting \cup workers \cup overdue \cup placed

\* Mutant: the places held for requests are not counted.
FullOfRuns == active + Len(pending) >= MaxWorkers + MaxPending

\* workerQueueFull.
Full == active + Len(pending) + held >= MaxWorkers + MaxPending

TypeOK ==
  /\ active \in 0 .. MaxWorkers
  /\ pending \in Seq(Run)
  /\ slots \subseteq Run /\ workers \subseteq Run /\ overdue \subseteq Run
  /\ used \in [Run -> 0 .. MaxSlots]
  /\ held \in Nat
  /\ placed \subseteq Run /\ shed \subseteq Run
  /\ timer \in BOOLEAN /\ renewing \in BOOLEAN
  /\ leased \subseteq Run /\ lost \subseteq Run /\ round \subseteq Run
  /\ age \in [Run -> Nat] /\ failures \in [Run -> Nat]

-----------------------------------------------------------------------------
(* The synchronous helpers, on what a stretch of code changes.             *)

Pool == [active |-> active, pending |-> pending, slots |-> slots,
         used |-> used, timer |-> timer]

TakeSlot(p, r) ==
  [active |-> p.active + 1, pending |-> p.pending, slots |-> p.slots \cup {r},
   used |-> [p.used EXCEPT ![r] = @ + 1], timer |-> p.timer]

\* The interval is cleared with the last entry that starts.
StartNextWorker(p) ==
  IF p.pending = <<>> THEN p
  ELSE TakeSlot([p EXCEPT !.pending = Tail(@),
                          !.timer = p.timer /\ Tail(p.pending) # <<>>],
                Head(p.pending))

Freed(p, r) ==
  [active |-> p.active - 1, pending |-> p.pending, slots |-> p.slots \ {r},
   used |-> p.used, timer |-> p.timer]

\* Mutant: a second release of a slot is not told from the first.
ReleaseAgain(p, r) == StartNextWorker(Freed(p, r))

\* Mutant: the slot is freed, and the queue not looked at.
ReleaseOnly(p, r) == IF r \in p.slots THEN Freed(p, r) ELSE p

\* releaseSlot?.(): it unsets itself, so a slot is released once.
ReleaseSlot(p, r) ==
  IF r \in p.slots THEN StartNextWorker(Freed(p, r)) ELSE p

\* Mutant: an entry waits without the interval that renews its lease.
EnqueueUntimed(p, r) ==
  IF p.active < MaxWorkers THEN TakeSlot(p, r)
  ELSE [p EXCEPT !.pending = Append(@, r)]

\* enqueueWorker, where it does not shed.
EnqueueWorker(p, r) ==
  IF p.active < MaxWorkers THEN TakeSlot(p, r)
  ELSE [p EXCEPT !.pending = Append(@, r), !.timer = TRUE]

\* The pool takes state p.  An entry that starts takes its lease out of the
\* queue; a run of `entry` is queued anew with the lease it just held.
TakePool(p, entry) ==
  LET waits == ToSet(p.pending)
  IN  /\ active' = p.active
      /\ pending' = p.pending
      /\ slots' = p.slots
      /\ used' = p.used
      /\ timer' = p.timer
      /\ leased' = (leased \cup entry) \cap waits
      /\ lost' = (lost \ entry) \cap waits
      /\ round' = (round \ entry) \cap waits
      /\ age' = [r \in Run |-> IF r \in entry THEN 1
                               ELSE IF r \in waits THEN age[r] ELSE 0]
      /\ failures' = [r \in Run |-> IF r \in waits \ entry THEN failures[r]
                                    ELSE 0]
      /\ UNCHANGED renewing

-----------------------------------------------------------------------------
(* Requests and runs.                                                      *)

\* withQueuePlace, before admit: a full queue turns the request away.
HoldPlace(r) ==
  /\ Idle(r)
  /\ ~Full
  /\ held' = held + 1
  /\ placed' = placed \cup {r}
  /\ UNCHANGED <<active, pending, slots, workers, overdue, used, shed>>
  /\ UNCHANGED leaseVars

\* withQueuePlace, after admit: nothing was dispatched.
DropPlace(r) ==
  /\ r \in placed
  /\ held' = held - 1
  /\ placed' = placed \ {r}
  /\ UNCHANGED <<active, pending, slots, workers, overdue, used, shed>>
  /\ UNCHANGED leaseVars

\* Mutant: a place does not exempt its run from shedding.
MayShedAny(r) == active >= MaxWorkers /\ Full

\* A run that held no place is shed by a full queue, never while a slot is free.
MayShed(r) == r \notin placed /\ active >= MaxWorkers /\ Full

Dispatched(r) == [Pool EXCEPT !.used[r] = 0]

\* dispatchInProcessWorker: starts at once, or waits.
Dispatch(r) ==
  LET p == EnqueueWorker(Dispatched(r), r)
  IN  /\ Idle(r) \/ r \in placed
      /\ ~MayShed(r)
      /\ held' = IF r \in placed THEN held - 1 ELSE held
      /\ placed' = placed \ {r}
      /\ shed' = shed \ {r}
      /\ workers' = workers \cup p.slots
      /\ TakePool(p, Leased \cap {r})
      /\ UNCHANGED overdue

Shed(r) ==
  /\ Idle(r) \/ r \in placed
  /\ MayShed(r)
  /\ held' = IF r \in placed THEN held - 1 ELSE held
  /\ placed' = placed \ {r}
  /\ shed' = shed \cup {r}
  /\ UNCHANGED <<active, pending, slots, workers, overdue, used>>
  /\ UNCHANGED leaseVars

\* run(context) settles, in its slot or long after the slot was reclaimed.
Finish(r) ==
  LET p == ReleaseSlot(Pool, r)
  IN  /\ r \in slots \cup overdue
      /\ workers' = (workers \ {r}) \cup p.slots
      /\ overdue' = overdue \ {r}
      /\ TakePool(p, {})
      /\ UNCHANGED <<held, placed, shed>>

\* slotTimer: the run is aborted and its worker abandoned, so that neither the
\* slots nor the drain wait for it.
Overrun(r) ==
  LET p == ReleaseSlot(Pool, r)
  IN  /\ r \in slots
      /\ workers' = (workers \ {r}) \cup p.slots
      /\ overdue' = overdue \cup {r}
      /\ TakePool(p, {})
      /\ UNCHANGED <<held, placed, shed>>

\* Mutant: an aborted run queues for a slot again.
MayYieldAborted(r) == r \in slots \cup overdue /\ used[r] < MaxSlots

\* context.yieldSlot is there while the run has slots left to take.
MayYield(r) == r \in slots /\ used[r] < MaxSlots

\* The slot passes to the head of the queue and the run queues last, unshed.
YieldSlot(r) ==
  LET p == EnqueueWorker(ReleaseSlot(Pool, r), r)
  IN  /\ MayYield(r)
      /\ workers' = workers \cup p.slots
      /\ TakePool(p, Leased \cap {r})
      /\ UNCHANGED <<overdue, held, placed, shed>>

-----------------------------------------------------------------------------
(* renewQueuedLeases.                                                      *)

\* An interval passes and its timer fires: every lease that waits is asked to
\* be extended.  A round is taken to be over before the next firing: 1000 calls,
\* 16 at a time, have five minutes.
RenewQueuedLeases ==
  /\ ~renewing
  /\ renewing' = timer
  /\ round' = IF timer THEN leased ELSE round
  /\ age' = [r \in Run |-> IF r \in (Leased \cap Waiting) \ lost
                           THEN age[r] + 1 ELSE age[r]]
  /\ UNCHANGED <<timer, leased, lost, failures>>
  /\ UNCHANGED poolVars

\* The coordinator extended it.
Renewed(r) ==
  /\ r \in round
  /\ round' = round \ {r}
  /\ age' = [age EXCEPT ![r] = 0]
  /\ failures' = [failures EXCEPT ![r] = 0]
  /\ UNCHANGED <<timer, leased, lost, renewing>>
  /\ UNCHANGED poolVars

\* The run was stopped or lost the conversation: its entry drops the lease.
NotRenewed(r) ==
  /\ r \in round
  /\ round' = round \ {r}
  /\ leased' = leased \ {r}
  /\ lost' = lost \cup {r}
  /\ UNCHANGED <<timer, renewing, age, failures>>
  /\ UNCHANGED poolVars

\* Mutant: whatever is not "renewed" drops the lease.
DropsFailed(r) == leased \ {r}

\* A call that threw leaves the entry's lease.
KeepsFailed(r) == leased

\* The call threw: the next round tries again.
RenewalFailed(r) ==
  /\ r \in round
  /\ failures[r] < MaxFailures
  /\ round' = round \ {r}
  /\ failures' = [failures EXCEPT ![r] = @ + 1]
  /\ leased' = KeepsFailed(r)
  /\ UNCHANGED <<timer, lost, renewing, age>>
  /\ UNCHANGED poolVars

RoundOver ==
  /\ renewing
  /\ round = {}
  /\ renewing' = FALSE
  /\ UNCHANGED <<timer, leased, lost, round, age, failures>>
  /\ UNCHANGED poolVars

-----------------------------------------------------------------------------

Init ==
  /\ active = 0
  /\ pending = <<>>
  /\ slots = {} /\ workers = {} /\ overdue = {}
  /\ used = [r \in Run |-> 0]
  /\ held = 0
  /\ placed = {} /\ shed = {}
  /\ timer = FALSE /\ renewing = FALSE
  /\ leased = {} /\ lost = {} /\ round = {}
  /\ age = [r \in Run |-> 0]
  /\ failures = [r \in Run |-> 0]

Runs(r) ==
  \/ HoldPlace(r)
  \/ DropPlace(r)
  \/ Dispatch(r)
  \/ Shed(r)
  \/ Finish(r)
  \/ Overrun(r)
  \/ YieldSlot(r)

Leases(r) ==
  \/ Renewed(r)
  \/ NotRenewed(r)
  \/ RenewalFailed(r)

Next ==
  \/ \E r \in Run : Runs(r) \/ Leases(r)
  \/ RenewQueuedLeases
  \/ RoundOver

\* Every slot has a timer that fires.  Nothing else is sure to happen.
Spec == Init /\ [][Next]_vars
FairSpec == Spec /\ \A r \in Run : WF_vars(Overrun(r))

-----------------------------------------------------------------------------
(* What the pool promises.                                                 *)

\* The counter of busy slots is the number of runs in one, however often a slot
\* is yielded, reclaimed by its timer and released again by the late end of its
\* run, and never above the cap.  (releaseSlot unsets itself.)
SlotsCounted == active = Cardinality(slots) /\ active <= MaxWorkers

\* Nobody waits beside a free slot, and the leases of those who wait have a
\* running interval.  (releaseSlot starts the next run, enqueueWorker the timer.)
WorkConserving == pending # <<>> => active = MaxWorkers /\ timer

\* The shutdown drain returns once no worker is tracked: then no run waits or
\* executes in a slot, though a stuck one may.  (drainInProcessWorkers.)
DrainIsComplete == workers = {} => pending = <<>> /\ slots = {}

\* A run is one place at a time: it does not execute and wait, nor wait twice.
\* A second entry would run it in two slots.  (yieldSlot after an overrun.)
OnePlace ==
  /\ IsInjective(pending)
  /\ (slots \cup overdue) \cap Waiting = {}
  /\ slots \cap overdue = {}

\* The run of a request that held a place is not shed once it is recorded.
\* (dispatchInProcessWorker hands !placed to enqueueWorker.)
PlacedNotShed == [][\A r \in placed : r \notin shed' \/ r \in shed]_vars

\* What the queue may hold: a run that held no place and finds a free slot is
\* not counted against the places, so up to MaxWorkers runs more than its limit.
\* (workerQueueFull answers a request; enqueueWorker looks at the slots first.)
OverfillBounded == Len(pending) <= MaxPending + MaxWorkers

\* A run that waits keeps its conversation although one renewal in a row may
\* fail: its lease is never older than its TTL.  (QUEUED_LEASE_RENEW_INTERVAL_MS
\* is a third of it, and a failed call keeps the entry's lease.)
WaiterKeepsLease ==
  \A r \in (Leased \cap Waiting) \ lost : age[r] <= LeaseRounds

\* A run that waits with a lease gets a slot, though no run ever finishes by
\* itself.  (slotTimer, and the queue is first in, first out.)
WaiterStarts == \A r \in Leased : r \in Waiting ~> r \in slots

=============================================================================
