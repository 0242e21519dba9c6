------------------------------ MODULE Ingress ------------------------------
(***************************************************************************)
(* The ingress coordinator of one conversation:                            *)
(* packages/convex/runtimeIngress.ts with its callers in apps/core.        *)
(*                                                                         *)
(* A message that reaches a conversation becomes an envelope row.  It owns *)
(* the conversation when nobody does, and waits in a FIFO queue otherwise. *)
(* The owner is named by an event and a generation and holds a lease; every *)
(* write of a core worker carries the pair and is refused once it moved on. *)
(*                                                                         *)
(* Every mutation is one Convex transaction, hence one action.  A helper    *)
(* the mutations share is an operator from a database state to a database  *)
(* state, and an action commits the composition its handler runs.          *)
(*                                                                         *)
(* Timestamps are modelled by the time left until them, so that Tick is the *)
(* only clock: a lease is live while its time left is not negative, a row   *)
(* is due once its time left is zero.                                      *)
(***************************************************************************)
EXTENDS Integers, FiniteSets, Sequences, FiniteSetsExt

CONSTANTS
  Event,          \* event ids a message may carry
  Result,         \* late results (subagent and async tool rows) it may resume
  Task,           \* subagent task ids an owner may run
  Sender,         \* channel users
  Identity,       \* idempotency identities
  Requests,       \* the admissions callers may send, retries included
  NoEvent, NoResult, NoTask, NoRequest, ClearEvent,
  LeaseTtl,       \* leaseTtlMs
  EnvelopeTtl,    \* envelopeTtlMs: how long a row may wait
  StatusTtl,      \* statusTtlMs: how long a row's status and identity are kept
  MaxQueuedCount, \* maxQueuedCount
  MaxQueuedBytes, \* maxQueuedBytes
  MaxGeneration,  \* bound of the model: owner generations
  MaxSequence     \* bound of the model: admitted rows

Modes == {"reject", "followup", "collect", "steer"}

\* What accept reads of its arguments.  The payload digest is left out: it
\* tells a duplicate from a conflict, and neither writes anything.
Request ==
  [event : Event, identity : Identity, mode : Modes, sender : Sender,
   size : Nat, plain : BOOLEAN, result : Result \cup {NoResult},
   task : Task \cup {NoTask}, activeOwnerOnly : BOOLEAN,
   expectedTask : Task \cup {NoTask}]

ASSUME RequestsAssumption ==
  /\ Requests \subseteq Request
  /\ IsFiniteSet(Event)

ASSUME NamesAssumption ==
  /\ NoEvent \notin Event \cup {ClearEvent}
  /\ ClearEvent \notin Event
  /\ NoResult \notin Result
  /\ NoTask \notin Task

\* A row outlives its wait: seven days against fifteen minutes.
ASSUME BoundsAssumption ==
  /\ LeaseTtl \in Nat \ {0}
  /\ EnvelopeTtl \in Nat \ {0}
  /\ StatusTtl \in Nat
  /\ StatusTtl > EnvelopeTtl
  /\ MaxQueuedCount \in Nat
  /\ MaxQueuedBytes \in Nat
  /\ MaxGeneration \in Nat
  /\ MaxSequence \in Nat

VARIABLES
  coord,        \* the runtimeConversationCoordinators row
  queuedBytes,  \* its queuedBytes field
  rows,         \* the runtimeIngressEnvelopes rows by event id
  storedBy,     \* late result -> generation whose write marked it stored, or 0
  turns,        \* the owner event of every generation, the tokens core holds
  unsaved,      \* late results in the current turn's input not yet in history
  phase         \* how far the current turn's worker is

vars == <<coord, queuedBytes, rows, storedBy, turns, unsaved, phase>>

Statuses == {"none", "queued", "processing", "completed", "failed", "expired"}
Terminal == {"completed", "failed", "expired"}

NoRow == [status |-> "none", req |-> NoRequest, sequence |-> 0,
          generation |-> 0, appliedTo |-> NoEvent, ttl |-> 0, retain |-> 0,
          stoppedByUser |-> FALSE]

Coordinator ==
  [ownerEventId : Event \cup {ClearEvent, NoEvent}, ownerGeneration : Nat,
   ownerTaskId : Task \cup {NoTask}, lease : Int, stopRequestedGeneration : Nat,
   stopRequestedByParent : BOOLEAN, queuedCount : Nat, nextSequence : Nat]

Admitted ==
  [status : Statuses \ {"none"}, req : Requests, sequence : Nat,
   generation : Nat, appliedTo : Event \cup {ClearEvent, NoEvent}, ttl : Nat,
   retain : Nat, stoppedByUser : BOOLEAN]

Row == Admitted \cup {NoRow}

\* The type of the state.  queuedBytes is typed by CountExact.
TypeOK ==
  /\ coord \in Coordinator
  /\ coord.lease \in -1 .. LeaseTtl
  /\ rows \in [Event -> Row]
  /\ storedBy \in [Result -> Nat]
  /\ turns \in Seq(Event \cup {ClearEvent})
  /\ unsaved \subseteq Result
  /\ phase \in {"running", "settled", "interrupted"}

-----------------------------------------------------------------------------
(* Database states, and what a transaction reads of one.                   *)

Db == [coord |-> coord, bytes |-> queuedBytes, rows |-> rows]

HasActiveOwner(c) == c.ownerEventId # NoEvent /\ c.lease >= 0

Queued(d) == {e \in Event : d.rows[e].status = "queued"}

\* queuedPage: the count is trusted, 0 is empty.
QueuedPage(d) == IF d.coord.queuedCount = 0 THEN {} ELSE Queued(d)

Due(d, S) == {e \in S : d.rows[e].ttl <= 0}

SizeOf(d, S) == MapThenSumSet(LAMBDA e : d.rows[e].req.size, S)

Floor(n) == IF n > 0 THEN n ELSE 0

\* Rows S leave the queue for what `moved` makes of them, and the counters
\* follow them.
Dequeue(d, S, moved) ==
  [coord |-> [d.coord EXCEPT !.queuedCount = Floor(@ - Cardinality(S))],
   bytes |-> Floor(d.bytes - SizeOf(d, S)),
   rows  |-> [e \in Event |-> IF e \in S THEN moved[e] ELSE d.rows[e]]]

Expired(row) == [row EXCEPT !.status = "expired"]

\* The rows of d, each with this status.
Marked(d, status) == [e \in Event |-> [d.rows[e] EXCEPT !.status = status]]

ExpireQueuedEnvelopes(d, page) ==
  Dequeue(d, Due(d, page), Marked(d, "expired"))

\* Mutant: the owner's row ends whether or not its lease lapsed.
ExpireAnyOwner(d) ==
  IF d.coord.ownerEventId \in Event
     /\ d.rows[d.coord.ownerEventId].status = "processing"
  THEN [d EXCEPT !.rows[d.coord.ownerEventId] = Expired(@)]
  ELSE d

\* The owner's own row only: the rows merged into its turn wait for maintain.
ExpireStaleOwner(d) ==
  LET owner == d.coord.ownerEventId
  IN  IF /\ owner \in Event
         /\ ~HasActiveOwner(d.coord)
         /\ d.rows[owner].status \in {"queued", "processing"}
      THEN [d EXCEPT !.rows[owner] = Expired(@)]
      ELSE d

-----------------------------------------------------------------------------
(* Which rows run next.                                                    *)

Oldest(d, S) ==
  CHOOSE e \in S : \A f \in S : d.rows[e].sequence <= d.rows[f].sequence

UpTo(d, S, e) == {f \in S : d.rows[f].sequence <= d.rows[e].sequence}

\* Mutant: the prefix is cut by the sender alone.
SenderPrefix(d, S, sender) ==
  {e \in S : \A f \in UpTo(d, S, e) : d.rows[f].req.sender = sender}

\* The rows at the head of S of the head's mode, all from `sender`.
ContiguousModePrefix(d, S, sender) ==
  {e \in S : \A f \in UpTo(d, S, e) :
               /\ d.rows[f].req.mode = d.rows[Oldest(d, S)].req.mode
               /\ d.rows[f].req.sender = sender}

\* A collect or steer head runs with the rows behind it, another head alone.
NextGroup(d, active) ==
  LET first == Oldest(d, active)
  IN  IF d.rows[first].req.mode \in {"collect", "steer"}
      THEN ContiguousModePrefix(d, active, d.rows[first].req.sender)
      ELSE {first}

\* Rows S of the queue start processing in turn `gen` of `owner`.
Apply(d, S, owner, gen) ==
  Dequeue(d, S, [e \in Event |-> [d.rows[e] EXCEPT !.status = "processing",
                                                   !.appliedTo = owner,
                                                   !.generation = gen]])

\* Every acquisition is a generation of its own, without a stop request.
Acquire(c, owner, task, gen) ==
  [c EXCEPT !.ownerEventId = owner, !.ownerTaskId = task,
            !.ownerGeneration = gen, !.stopRequestedGeneration = 0,
            !.lease = LeaseTtl]

PromoteQueuedGroup(d, active, gen) ==
  IF active = {} THEN d
  ELSE LET first == Oldest(d, active)
           moved == Apply(d, NextGroup(d, active), first, gen)
       IN  [moved EXCEPT !.coord = Acquire(@, first, d.rows[first].req.task,
                                           gen)]

RenewHeldLease(d) ==
  IF d.coord.lease * 10 > LeaseTtl * 9 THEN d
  ELSE [d EXCEPT !.coord.lease = LeaseTtl]

\* Mutant: a history write leaves the queued resumes of its results alone.
InsertEventsOnly(d, told) == d

\* A history write telling results `told` ends a queued resume of one unrun.
InsertOwnedEvents(d, told) ==
  Dequeue(d, {e \in QueuedPage(d) : d.rows[e].req.result \in told},
          Marked(d, "completed"))

\* The owner's row and every row applied to it that still runs take `outcome`.
SettleAppliedEnvelopes(d, outcome) ==
  LET owner == d.coord.ownerEventId
      stopped == /\ outcome = "failed"
                 /\ d.coord.stopRequestedGeneration = d.coord.ownerGeneration
                 /\ ~d.coord.stopRequestedByParent
      mine == {e \in Event : /\ d.rows[e].status = "processing"
                             /\ e = owner \/ d.rows[e].appliedTo = owner}
  IN  [d EXCEPT !.rows =
        [e \in Event |->
          IF e \in mine
          THEN [d.rows[e] EXCEPT !.status = outcome,
                                 !.stoppedByUser = @ \/ stopped]
          ELSE d.rows[e]]]

\* The steers at the head of the queue the running turn may take.
SteerPrefix(d, active, owner, textOnly) ==
  LET first  == Oldest(d, active)
      sender == IF owner \in Event /\ d.rows[owner].status # "none"
                THEN d.rows[owner].req.sender
                ELSE d.rows[first].req.sender
      prefix == IF active # {} /\ d.rows[first].req.mode = "steer"
                THEN ContiguousModePrefix(d, active, sender)
                ELSE {}
  IN  IF textOnly
      THEN {e \in prefix : \A f \in UpTo(d, prefix, e) : d.rows[f].req.plain}
      ELSE prefix

-----------------------------------------------------------------------------
(* Commit.                                                                 *)

Live(row) == row.status \in {"queued", "processing"}

ResultsOf(d, S) == {d.rows[e].req.result : e \in S} \ {NoResult}

Members(d, gen) ==
  {e \in Event : d.rows[e].generation = gen /\ d.rows[e].status = "processing"}

\* The database takes state d.  A new generation hands its owner a token and
\* starts a turn, whose input is not in the history yet.
Commit(d) ==
  /\ coord' = d.coord
  /\ queuedBytes' = d.bytes
  /\ rows' = d.rows
  /\ IF d.coord.ownerGeneration = coord.ownerGeneration
     THEN UNCHANGED <<turns, unsaved, phase>>
     ELSE /\ turns' = Append(turns, d.coord.ownerEventId)
          /\ unsaved' = ResultsOf(d, Members(d, d.coord.ownerGeneration))
          /\ phase' = "running"

Bounded(d) == d.coord.ownerGeneration <= MaxGeneration

-----------------------------------------------------------------------------
(* Admission.                                                              *)

SameIdentity(q) ==
  {e \in Event : rows[e].status # "none" /\ rows[e].req.identity = q.identity}

\* A resume that ended before any write stored its result.
UndeliveredResume(e) ==
  /\ rows[e].status \in Terminal
  /\ rows[e].req.result # NoResult
  /\ storedBy[rows[e].req.result] = 0

\* Such a row gives its identity back, so the sweep's retry is admitted again.
Forgotten(q) == {e \in SameIdentity(q) : UndeliveredResume(e)}

Forget(q) ==
  [Db EXCEPT !.rows = [e \in Event |-> IF e \in Forgotten(q) THEN NoRow
                                       ELSE rows[e]]]

\* Mutant: a resume that already runs is overlooked.
QueuedResumeOf(d, r) ==
  \E e \in Event : d.rows[e].status = "queued" /\ d.rows[e].req.result = r

LiveResumeOf(d, r) == \E e \in Event : Live(d.rows[e]) /\ d.rows[e].req.result = r

\* checkDuplicateAdmission answers a duplicate or a conflict.
Answered(q) ==
  LET d == Forget(q)
  IN  \/ SameIdentity(q) \ Forgotten(q) # {}
      \/ d.rows[q.event].status # "none"
      \/ /\ q.result # NoResult
         /\ storedBy[q.result] # 0 \/ LiveResumeOf(d, q.result)

\* prepareAdmissionCoordinator.
Prepared(q) ==
  LET d == Forget(q)
  IN  ExpireStaleOwner(ExpireQueuedEnvelopes(d, QueuedPage(d)))

\* Mutant: the arrival is served first.
RecoverNothing(q) == Prepared(q)

\* Work queued behind a lapsed or released owner runs before this arrival.
Recovered(q) ==
  LET d == Forget(q)
      page == QueuedPage(d)
      prepared == Prepared(q)
  IN  IF ~HasActiveOwner(prepared.coord) /\ prepared.coord.queuedCount > 0
      THEN PromoteQueuedGroup(prepared, page \ Due(d, page),
                              prepared.coord.ownerGeneration + 1)
      ELSE prepared

IsLateControl(q, c) ==
  /\ q.activeOwnerOnly
  /\ \/ ~HasActiveOwner(c)
     \/ q.expectedTask # NoTask /\ c.ownerTaskId # q.expectedTask

Capacity(q, d) ==
  \/ d.coord.queuedCount >= MaxQueuedCount
  \/ d.bytes + q.size > MaxQueuedBytes

\* Mutant: a row that ended is not kept, so its event id may come again at once.
UnkeptRow(d, q) ==
  [NoRow EXCEPT !.req = q, !.sequence = d.coord.nextSequence, !.ttl = EnvelopeTtl]

NewRow(d, q) ==
  [NoRow EXCEPT !.req = q, !.sequence = d.coord.nextSequence,
                !.ttl = EnvelopeTtl, !.retain = StatusTtl]

\* Mutant: the row is stored and the counter forgotten.
EnqueueUncounted(d, q) ==
  [coord |-> [d.coord EXCEPT !.nextSequence = @ + 1],
   bytes |-> d.bytes + q.size,
   rows  |-> [d.rows EXCEPT ![q.event] =
                [NewRow(d, q) EXCEPT !.status = "queued"]]]

Enqueue(d, q) ==
  [coord |-> [d.coord EXCEPT !.nextSequence = @ + 1, !.queuedCount = @ + 1],
   bytes |-> d.bytes + q.size,
   rows  |-> [d.rows EXCEPT ![q.event] =
                [NewRow(d, q) EXCEPT !.status = "queued"]]]

Own(d, q) ==
  LET gen == d.coord.ownerGeneration + 1
  IN  [coord |-> Acquire([d.coord EXCEPT !.nextSequence = @ + 1],
                         q.event, q.task, gen),
       bytes |-> d.bytes,
       rows  |-> [d.rows EXCEPT ![q.event] =
                    [NewRow(d, q) EXCEPT !.status = "processing",
                                         !.appliedTo = q.event,
                                         !.generation = gen]]]

\* Duplicate or conflict: at most an undelivered resume's row is dropped.
AcceptAnswered(q) ==
  /\ Answered(q)
  /\ Commit(Forget(q))
  /\ UNCHANGED storedBy

\* Mutant: the late control is looked for after the recovery.
RefusedLate(q) ==
  LET d == Recovered(q)
  IN  \/ IsLateControl(q, d.coord)
      \/ HasActiveOwner(d.coord) /\ (q.mode = "reject" \/ Capacity(q, d))

Refused(q) ==
  LET d == Recovered(q)
  IN  \/ IsLateControl(q, Prepared(q).coord)
      \/ HasActiveOwner(d.coord) /\ (q.mode = "reject" \/ Capacity(q, d))

\* not_running, rejected or capacity: no row, but recovery still commits.
AcceptRefused(q) ==
  /\ ~Answered(q)
  /\ Refused(q)
  /\ Bounded(Recovered(q))
  /\ Commit(Recovered(q))
  /\ UNCHANGED storedBy

AcceptQueued(q) ==
  LET d == Recovered(q)
  IN  /\ ~Answered(q)
      /\ ~Refused(q)
      /\ HasActiveOwner(d.coord)
      /\ d.coord.nextSequence <= MaxSequence
      /\ Bounded(d)
      /\ Commit(Enqueue(d, q))
      /\ UNCHANGED storedBy

AcceptOwner(q) ==
  LET d == Recovered(q)
  IN  /\ ~Answered(q)
      /\ ~Refused(q)
      /\ ~HasActiveOwner(d.coord)
      /\ d.coord.nextSequence <= MaxSequence
      /\ Bounded(Own(d, q))
      /\ Commit(Own(d, q))
      /\ UNCHANGED storedBy

\* /new and /clear take the conversation without a row, only when it is idle.
AcquireClear ==
  LET page == QueuedPage(Db)
      d    == ExpireQueuedEnvelopes(Db, page)
  IN  /\ IF HasActiveOwner(coord) \/ d.coord.queuedCount > 0
         THEN Commit(d)
         ELSE /\ coord.ownerGeneration < MaxGeneration
              /\ Commit([d EXCEPT !.coord = Acquire(@, ClearEvent, @.ownerTaskId,
                                                    @.ownerGeneration + 1)])
      /\ UNCHANGED storedBy

-----------------------------------------------------------------------------
(* The calls of the worker that was handed generation g.  It may be stale.  *)

\* Mutant: the fence forgets the lease.
RequireNamedOwner(g) ==
  coord.ownerEventId = turns[g] /\ coord.ownerGeneration = g

RequireOwner(g) ==
  /\ coord.ownerEventId = turns[g]
  /\ coord.ownerGeneration = g
  /\ HasActiveOwner(coord)

\* A clear holds the lease but runs no turn.
RunsTurn(g) == turns[g] \in Event /\ RequireOwner(g)

MarkStored(g, told) ==
  storedBy' = [r \in Result |-> IF r \in told /\ storedBy[r] = 0 THEN g
                                ELSE storedBy[r]]


Write(d) == coord' = d.coord /\ queuedBytes' = d.bytes /\ rows' = d.rows

\* A call of the running turn g: it may tell results, and takes state d.
InTurn(g, d, told) ==
  /\ Write(d)
  /\ MarkStored(g, told)
  /\ UNCHANGED turns

\* Writes history rows, the turn's own input among them once it is stored.
AppendConversationEvent(g, told) ==
  /\ RunsTurn(g)
  /\ InTurn(g, InsertOwnedEvents(Db, told), told)
  /\ unsaved' = unsaved \ told
  /\ UNCHANGED phase

\* Mutant: a boundary does not look for a stop.
NeverStopped(d, g) == FALSE

Stopped(d, g) == d.coord.stopRequestedGeneration = g

\* claimSteering before it picks rows: the due ones leave the queue.
Swept(d) == ExpireQueuedEnvelopes(d, QueuedPage(d))

Steers(d, textOnly) ==
  LET page == QueuedPage(d)
  IN  SteerPrefix(d, page \ Due(d, page), d.coord.ownerEventId, textOnly)

\* Mutant: rows expire, and the counters are not patched.
UnclaimedUncounted(d) == [d EXCEPT !.rows = Swept(d).rows]

\* No steer to take: the lease moves only when the counters are written.
Unclaimed(d) ==
  IF Due(d, QueuedPage(d)) = {} THEN d
  ELSE [Swept(d) EXCEPT !.coord.lease = LeaseTtl]

Claimed(d, S) ==
  [Apply(Swept(d), S, d.coord.ownerEventId, d.coord.ownerGeneration)
     EXCEPT !.coord.lease = LeaseTtl]

ClaimSteering(d, textOnly) ==
  IF Steers(d, textOnly) = {} THEN Unclaimed(d)
  ELSE Claimed(d, Steers(d, textOnly))

\* prepareStep: one mutation stores the step, with any input still unsaved,
\* renews the lease and takes the steers, unless the run winds down.
StepBoundary(g, told, claim) ==
  LET d      == InsertOwnedEvents(Db, told)
      steers == IF claim /\ ~Stopped(d, g) THEN Steers(d, FALSE) ELSE {}
  IN  /\ RunsTurn(g)
      /\ phase # "settled"
      /\ unsaved \subseteq told
      /\ InTurn(g, CASE Stopped(d, g) -> d
                     [] steers # {}   -> Claimed(d, steers)
                     [] OTHER -> RenewHeldLease(IF claim THEN Unclaimed(d)
                                                ELSE d), told)
      /\ unsaved' = ResultsOf(d, steers)
      /\ UNCHANGED phase

\* A harness turn takes plain text only; its input is flushed before.
ApplySteering(g, textOnly) ==
  LET steers == IF Stopped(Db, g) THEN {} ELSE Steers(Db, textOnly)
  IN  /\ RunsTurn(g)
      /\ phase # "settled"
      /\ unsaved = {}
      /\ InTurn(g, IF Stopped(Db, g) THEN Db
                   ELSE ClaimSteering(Db, textOnly), {})
      /\ unsaved' = ResultsOf(Db, steers)
      /\ UNCHANGED phase

\* A run holds its lease between steps, and while it waits for a worker slot.
RenewOwner(g) ==
  /\ RunsTurn(g)
  /\ ~Stopped(Db, g)
  /\ Write(RenewHeldLease(Db))
  /\ UNCHANGED <<storedBy, turns, unsaved, phase>>

\* The history rows go with the outcome, or are dropped so that it lands.
Settle(g, outcome, told) ==
  /\ RunsTurn(g)
  /\ InTurn(g, SettleAppliedEnvelopes(InsertOwnedEvents(Db, told), outcome),
            told)
  /\ unsaved' = unsaved \ told
  /\ phase' = "settled"

\* A pod past its drain deadline fails the runs it still holds; their workers
\* keep going until the process exits.  It releases the lease next.
Interrupt(g) ==
  /\ RunsTurn(g)
  /\ InTurn(g, SettleAppliedEnvelopes(Db, "failed"), {})
  /\ phase' = IF phase = "settled" THEN phase ELSE "interrupted"
  /\ UNCHANGED unsaved

Cleared(c) == [c EXCEPT !.ownerEventId = NoEvent,
                        !.stopRequestedGeneration = 0, !.lease = -1]

\* The worker ends its turn and is handed the next group, or frees the
\* conversation.  Failed settles are swallowed, so rows may still process.
TakeNext(g, outcome, told) ==
  LET written == InsertOwnedEvents(Db, told)
      settled == IF outcome \in Terminal
                 THEN SettleAppliedEnvelopes(written, outcome) ELSE written
      page    == QueuedPage(settled)
      swept   == Swept(settled)
      next    == PromoteQueuedGroup(swept, page \ Due(settled, page), g + 1)
  IN  /\ RunsTurn(g)
      /\ Bounded(next)
      /\ IF page \ Due(settled, page) # {} THEN Commit(next)
         ELSE Commit([swept EXCEPT
                       !.coord = [Cleared(@) EXCEPT !.ownerTaskId = NoTask]])
      /\ MarkStored(g, told)

\* Not fenced by the lease: it only names the owner it gives up.
ReleaseOwner(g) ==
  /\ coord.ownerEventId = turns[g]
  /\ coord.ownerGeneration = g
  /\ coord' = Cleared(coord)
  /\ UNCHANGED <<queuedBytes, rows, storedBy, turns, unsaved, phase>>

-----------------------------------------------------------------------------
(* Everybody else.                                                         *)

\* /stop names no task, a parent's stop_subagent the one it stops.
StopOwner(expected) ==
  /\ HasActiveOwner(coord)
  /\ expected \in {NoTask, coord.ownerTaskId}
  /\ coord' = [coord EXCEPT !.stopRequestedGeneration = coord.ownerGeneration,
                            !.stopRequestedByParent = expected # NoTask]
  /\ UNCHANGED <<queuedBytes, rows, storedBy, turns, unsaved, phase>>

OfLiveTurn(d, e) ==
  HasActiveOwner(d.coord) /\ d.rows[e].generation = d.coord.ownerGeneration

\* The five minute cron.  One batch holds every due row of the model.
Maintained(d) ==
  LET due     == Due(d, {e \in Event : d.rows[e].status = "processing"})
      kept    == {e \in due : OfLiveTurn(d, e)}
      swept   == ExpireQueuedEnvelopes(d, Queued(d))
      freed   == /\ ~HasActiveOwner(d.coord)
                 /\ \E e \in due : d.rows[e].generation = d.coord.ownerGeneration
      Due1(e) == CASE e \in kept -> [swept.rows[e] EXCEPT !.ttl = d.coord.lease]
                   [] e \in due \ kept -> Expired(swept.rows[e])
                   [] OTHER -> swept.rows[e]
  IN  [coord |-> IF freed THEN [swept.coord EXCEPT !.ownerEventId = NoEvent,
                                                  !.lease = -1]
                 ELSE swept.coord,
       bytes |-> swept.bytes,
       rows  |-> [e \in Event |->
                   IF Due1(e).status \in Terminal /\ Due1(e).retain <= 0
                   THEN NoRow ELSE Due1(e)]]

Maintain == Commit(Maintained(Db)) /\ UNCHANGED storedBy

\* The recovery sweep of a core pod.  It reads past the counter and resets it.
SweepRecovered ==
  LET d     == ExpireStaleOwner(Db)
      page  == Queued(d)
      live  == page \ Due(d, page)
      swept == ExpireQueuedEnvelopes(d, page)
  IN  PromoteQueuedGroup(
        [coord |-> [swept.coord EXCEPT !.queuedCount = Cardinality(live)],
         bytes |-> SizeOf(d, live),
         rows  |-> swept.rows],
        live, d.coord.ownerGeneration + 1)

\* Mutant: it takes a queue only from an owner that lapsed, not one let go.
RecoverLapsed ==
  /\ Queued(Db) # {}
  /\ coord.ownerEventId # NoEvent /\ ~HasActiveOwner(coord)
  /\ Bounded(SweepRecovered)
  /\ Commit(SweepRecovered)
  /\ UNCHANGED storedBy

RecoverQueued ==
  /\ Queued(Db) # {}
  /\ ~HasActiveOwner(coord)
  /\ Bounded(SweepRecovered)
  /\ Commit(SweepRecovered)
  /\ UNCHANGED storedBy

Less(n) == IF n > 0 THEN n - 1 ELSE n

\* Retention is seven days and a run at most hours: a row of the live turn
\* does not come near its end.  The wait of a row that ended is never read.
Aged(e) ==
  [rows[e] EXCEPT !.ttl = IF Live(rows[e]) THEN Less(@) ELSE @,
                  !.retain = IF OfLiveTurn(Db, e) THEN @ ELSE Less(@)]

Tick ==
  /\ coord' = [coord EXCEPT !.lease = IF @ >= 0 THEN @ - 1 ELSE @]
  /\ rows' = [e \in Event |-> Aged(e)]
  /\ UNCHANGED <<queuedBytes, storedBy, turns, unsaved, phase>>

-----------------------------------------------------------------------------

Init ==
  /\ coord = [ownerEventId |-> NoEvent, ownerGeneration |-> 0,
              ownerTaskId |-> NoTask, lease |-> -1,
              stopRequestedGeneration |-> 0, stopRequestedByParent |-> FALSE,
              queuedCount |-> 0, nextSequence |-> 1]
  /\ queuedBytes = 0
  /\ rows = [e \in Event |-> NoRow]
  /\ storedBy = [r \in Result |-> 0]
  /\ turns = <<>>
  /\ unsaved = {}
  /\ phase = "running"

Admission ==
  \/ \E q \in Requests : \/ AcceptAnswered(q)
                         \/ AcceptRefused(q)
                         \/ AcceptQueued(q)
                         \/ AcceptOwner(q)
  \/ AcquireClear

Worker ==
  \E g \in 1 .. Len(turns) :
    \/ \E told \in SUBSET Result :
         \/ AppendConversationEvent(g, told)
         \/ \E claim \in BOOLEAN : StepBoundary(g, told, claim)
         \/ \E outcome \in {"completed", "failed"} : Settle(g, outcome, told)
         \/ \E outcome \in {"none", "completed", "failed"} :
              TakeNext(g, outcome, told)
    \/ \E textOnly \in BOOLEAN : ApplySteering(g, textOnly)
    \/ RenewOwner(g)
    \/ Interrupt(g)
    \/ ReleaseOwner(g)

Next ==
  \/ Admission
  \/ Worker
  \/ \E expected \in Task \cup {NoTask} : StopOwner(expected)
  \/ Maintain
  \/ RecoverQueued
  \/ Tick

\* Time passes, and the sweep runs on a timer of its own; where the cron is
\* needed too, a property says so.  No worker is fair: any of them may die
\* between two calls.
Spec == Init /\ [][Next]_vars
FairSpec == Spec /\ WF_vars(Tick) /\ WF_vars(RecoverQueued)

-----------------------------------------------------------------------------
(* What the coordinator promises.                                          *)

\* The counters of the coordinator row, which the capacity test reads, are the
\* number and the bytes of the queued rows: "Every move into or out of queued
\* adjusts queuedCount in its transaction".  Holds while no event id is admitted
\* again.  (patchQueueCounters.)
CountExact ==
  /\ coord.queuedCount = Cardinality(Queued(Db))
  /\ queuedBytes = SizeOf(Db, Queued(Db))

\* The half of it the code relies on: a counter at zero means an empty queue,
\* so a page read skipped at zero skips nothing.  (queuedPage.)
CountCovers == Cardinality(Queued(Db)) <= coord.queuedCount

\* A result is told by one resume at a time: the sweep, a status read and the
\* run that finishes race to admit it.  (liveResumeOf, undeliveredResume.)
NoDoubleResume ==
  \A e, f \in Event :
    /\ Live(rows[e]) /\ Live(rows[f])
    /\ rows[e].req.result = rows[f].req.result
    /\ rows[e].req.result # NoResult
    => e = f

\* A turn never starts on a result another turn stored before it, whatever
\* status reads, dropped history writes and lapsed leases came between.
\* (insertOwnedEvents ends the queued resume, storedResultAdmission the late.)
ResumeToldOnce ==
  /\ \A r \in unsaved : storedBy[r] \in {0, coord.ownerGeneration}
  /\ \A e \in Queued(Db) : rows[e].req.result # NoResult
                            => storedBy[rows[e].req.result] = 0

\* While a worker runs under a live lease, all it was handed still processes:
\* neither the cron nor an arrival ends a row under it.  (maintain's test of
\* the generation, expireStaleOwner's of the lease.)
LiveTurnKept ==
  HasActiveOwner(coord) /\ coord.ownerEventId \in Event /\ phase = "running"
  => /\ rows[coord.ownerEventId].generation = coord.ownerGeneration
     /\ \A e \in Event : rows[e].generation = coord.ownerGeneration
                         => rows[e].status = "processing"

\* One turn never runs two people's messages, and what it merges asked for it:
\* a follow-up or a refused-if-busy message runs alone, a collect joins only
\* a turn a collect began.  (contiguousModePrefix, claimSteering.)
TurnsAreOneSenders ==
  \A e, f \in Event :
    /\ rows[e].status = "processing" /\ rows[f].status = "processing"
    /\ rows[e].generation = rows[f].generation
    => /\ rows[e].req.sender = rows[f].req.sender
       /\ rows[f].appliedTo = e /\ e # f
          => \/ rows[f].req.mode = "steer"
             \/ rows[e].req.mode = "collect" /\ rows[f].req.mode = "collect"

\* Nothing overtakes: a row starts only if no older one that could still run
\* stays in the queue, on every path that starts rows.  (promoteQueuedGroup in
\* accept, takeNext and recoverQueued; claimSteering; accept's owner branch.)
Overtakes(e, f) ==
  /\ rows[e].generation = 0 /\ rows'[e].status = "processing"
  /\ rows[f].status = "queued" /\ rows[f].ttl > 0
  /\ rows'[f].status = "queued"
  /\ rows[f].sequence < rows'[e].sequence

Fifo == [][\A e, f \in Event : ~Overtakes(e, f)]_vars

\* Once a stop is asked of a turn nothing more joins it, and the request is
\* not forgotten while the turn holds the conversation.  (claimSteering's
\* first test: a steer that raced the stop waits for the next turn.)
StopHonoured ==
  [][/\ HasActiveOwner(coord)
     /\ coord.stopRequestedGeneration = coord.ownerGeneration
     /\ coord'.ownerGeneration = coord.ownerGeneration
     => /\ \A e \in Event : rows'[e].generation = coord.ownerGeneration
                             => rows[e].generation = coord.ownerGeneration
        /\ HasActiveOwner(coord')
           => coord'.stopRequestedGeneration = coord.ownerGeneration]_vars

\* A row gets an outcome only from the turn it was handed to, never from a
\* later one.  (settleAppliedEnvelopes goes by the owner event alone.  An event id
\* owns again once its row was deleted, or as a resume that was lost.)
SettledByOwnTurn ==
  [][\A e \in Event :
       /\ rows[e].status = "processing"
       /\ rows'[e].status \in {"completed", "failed"}
       => rows[e].generation = coord.ownerGeneration]_vars

\* A message to a running task is not stored once that task is over, and does
\* not start what waits behind it for itself.  (isLateControl is read before
\* accept recovers the queue.)
LateControlsMiss ==
  [][\A e \in Event :
       rows[e].status = "none" /\ rows'[e].status # "none"
       /\ rows'[e].req.activeOwnerOnly
       => /\ HasActiveOwner(coord)
          /\ coord'.ownerGeneration = coord.ownerGeneration
          /\ rows'[e].req.expectedTask \in {NoTask, coord.ownerTaskId}]_vars

\* The coordinator implements the promise of numbered turns.
Turns == INSTANCE ConversationTurns WITH
  stage <- [e \in Event |->
              CASE rows[e].status = "none" -> "absent"
                [] rows[e].status = "queued" -> "waiting"
                [] rows[e].status = "processing" -> "running"
                [] OTHER -> "ended"],
  turnOf <- [e \in Event |-> rows[e].generation],
  turn <- coord.ownerGeneration,
  held <- HasActiveOwner(coord)

\* A message runs in one turn, the one that holds the conversation, and a
\* lapsed turn never holds it again.  (requireOwner and the generation.)
ImplementsTurns == Turns!Spec

\* A row left behind by a turn that lost the conversation.
Orphan(e) ==
  /\ rows[e].status = "processing"
  /\ ~HasActiveOwner(coord) \/ rows[e].generation # coord.ownerGeneration

\* A conversation whose owner is gone does not keep a queue, though no worker or
\* caller ever comes back: the sweep alone starts its head or ends it, whether
\* the owner died or was let go.  With the cron, what waits behind an owner that
\* lives leaves the queue too, and what a dead turn left behind ends.
\* (recoverQueued, maintain.)
NothingIsStuck ==
  /\ \A e \in Event :
       rows[e].status = "queued" /\ ~HasActiveOwner(coord)
         ~> rows[e].status # "queued" \/ HasActiveOwner(coord)
  /\ WF_vars(Maintain) =>
       \A e \in Event : /\ rows[e].status = "queued" ~> rows[e].status # "queued"
                        /\ Orphan(e) ~> ~Orphan(e)

=============================================================================
