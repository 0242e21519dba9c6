# Verification of broods in TLA+

broods runs agents behind HTTP, chat channels, schedules and parent agents. A message is admitted into a
conversation, a core pod runs it as a turn, and everything durable lives in Convex, whose mutations are
serializable transactions. This directory holds TLA+ modules translated from that code, TLC configurations that
check them on small instances, and theorems TLAPS proves for every value of the constants.

Paths below are relative to the repository root. `PROJECT.json` maps every definition that models code to its
lines, lists the hazards the properties are for, and names a mutation of the code that breaks each property.

## Inventory

| Component | State it keeps | Operations | What is hard | What makes it correct |
| --- | --- | --- | --- | --- |
| Ingress coordinator, `packages/convex/runtimeIngress.ts` | one coordinator row per conversation (owner event, generation, lease, stop request, queue counters) and one envelope row per message | admit, recover, steer, step boundary, settle, hand over, release, stop, clear, the five minute cron, the recovery sweep | stale workers, lapsed leases, retries, messages that race a stop or a hand-over | one turn at a time, FIFO, exact counters, nothing lost, nothing told twice |
| Session and run loop, `apps/core/src/harness/{session,harness,handler,continuation,ingress}.ts` | the token of the turn, pending history rows, live owners of the pod | boundary, flush, settle, hand over, interrupt at shutdown | calls after the turn was lost; a settle that fails half-way | it only acts through fenced mutations |
| In-process worker pool, `apps/core/src/harness/worker-queue.ts` | slots, FIFO queue, held places, queued leases | dispatch, yield, overrun, finish, hold a place, renew leases, drain | four ways to leave a slot, places held over awaits, renewals that fail | slots counted once, nobody waits in vain, nobody loses a lease by waiting |
| Recovery sweep, `apps/core/src/harness/ingress-recovery.ts` | cursor over conversations | one sweep: pages of `recoverQueued`, dispatch, lost late results | stops at 100 runs or 50 pages and goes on later | every conversation is reached |
| Late results, `packages/convex/runtime.ts`, `apps/core/src/harness/async-{tool,agent}-result.ts` | status and handback of every subagent and async tool result | finish, wait, detach, stop, status read, mark stored, resume the parent | the finisher, the waiter, the status read and the sweep race | told once, never lost |
| Subagents and async tools, `apps/core/src/harness/{subagents,async-tools}.ts` | child runs of a turn | dispatch, message, wait, stop | a child outlives its parent's turn | every child is waited for, detached or stopped |
| Sandbox reservations, `packages/convex/runtime.ts`, `apps/core/src/shared/sandbox-{sweeper,cleanup}.ts`, `apps/core/src/harness/sandbox/*` | one reservation and one mirror row per key: machine, deadline; a sweep lease | read, connect, retire, create, claim, refresh, sweep, hand back, defer, clean up | two runs create one sandbox; the sweeper takes one in use; provider and Convex are written apart | one sandbox per key, none leaked, none killed in use |
| Cron jobs, `packages/convex/agent/crons.ts`, `packages/convex/model/cronSchedules.ts` | jobs, their registrations, run rows | create, update, pause, fire, settle, prune, remove | fires overlap; the job changes or goes between two calls of one | what fires is what the row says, the latest fire is what it shows, history drains |
| Stage sync, `packages/convex/cli/{httpRoutes,sync}.ts`, `packages/convex/model/cliSync.ts`, `packages/broods/src/cli/index.ts` | resources of a stage, which rows it manages, the claim of its revision | GET, PUT, prune, release; `dev` and `deploy` | one PUT is many mutations; sessions and stages overlap; a sync stops half-way | nothing refers to what is gone, a sync that got through is applied, only what was read is deleted |
| Usage meter, `packages/convex/model/usageMeter.ts`, `packages/convex/sandbox/instances.ts` | a row per sandbox with its last use and what it is billed to; counters of the owner | bill at a use, a report, a removal, every hour; admit, add usage, warn | refreshes that wait, pages with an older time, clocks of idle, stored and dead machines | every tick billed once and as what it was |
| Harness sessions, `packages/convex/model/harnessSessionEntries.ts` | append-only entries with a sequence | append after a sequence, read | retried appends | no gap, no duplicate |
| Gateway, NATS, channels, policies, MCP and providers | connections, caches | proxying, publishing, parsing | I/O | stateless per call, or a counter a unit test covers |
| Accounts, billing, CLI, SDK, dashboard, workers, docs | records, user interface | single transactions | none between steps | not modelled |

How they interact: a channel, the HTTP server, a cron job or a parent agent sends an admission to the coordinator
(`accept`). The outcome `owner` hands the caller a lease (event and generation), and it dispatches a run to the
pool of its pod. The run calls back at every step (`stepBoundary`), and at its end settles its rows and asks for
the next group (`takeNext`). Cron and sweep act on the same rows from timers. A result that comes late is admitted
again as a resume, whose row names the result it tells. A run's tools reserve a sandbox under the conversation's key
and every use of it is metered. A cron's fire is an admission too. What agents, hooks and servers a run finds is
what the last manifest sync wrote.

## Modules

| Module | What it is |
| --- | --- |
| `Ingress` | the coordinator of one conversation and everybody who calls it |
| `ConversationTurns` | what a conversation promises, without leases, generations or queues; `Ingress` implements it |
| `WorkerPool` | the worker pool of one pod |
| `LateResults` | the results of a run's subagents on their way to the parent's conversation |
| `Sandboxes` | the sandbox of one reservation key: runs, sweepers, the cleanup of its conversation |
| `Crons` | one scheduled job, its registrations, fires and history |
| `StageSync` | the manifest syncs of an account's stages and the command lines that send them |
| `SandboxMeter` | what the time of one sandbox costs |

`<module>MC` instantiates a module for TLC; `<module>Proofs` holds its theorems (all but `ConversationTurns`,
whose implementation is a theorem of `IngressProofs`), and `IngressOwnerProofs` goes on from
`IngressProofs`. A Convex mutation is one transaction, so it is one action everywhere. Between two calls of an
HTTP handler, a Convex action, a run or a sweep every other actor may act, so each call is an action of its own and
what was read before it is carried along as the caller's state.

### Ingress

The helpers of `runtimeIngress.ts` are operators from a database state `[coord, bytes, rows]` to a database state
under their source names (`ExpireQueuedEnvelopes`, `PromoteQueuedGroup`, `SettleAppliedEnvelopes`, ...), and an
action commits the composition its handler runs; a handler that recovers a queue before it answers therefore does so
in the same action.

* `coord` is the coordinator row and `queuedBytes` one field of it. `rows` holds an envelope per event id;
  `NoRow` is a deleted or never written one.
* Timestamps are the time left until them, and `Tick` is the clock: a lease is live while its time left is not
  negative (`leaseExpiresAt >= now`), a row is due at zero (`expiresAt <= now`). `-1` is a lease that lapsed or is
  not set: no code tells the two apart.
* `turns[g]` is the owner event of generation `g`, the token handed to a worker. Every action of a worker takes
  `g` from all tokens ever handed out, so a worker may call long after its turn was lost.
* `unsaved` holds the late results in the running turn's input that no write stored yet, `storedBy` the generation
  whose write first marked a result stored, and `phase` how far the turn's worker is: after a settle it takes no
  further step, after an interruption at shutdown it goes on.

Left out, because no decision of the queue reads it: payloads, digests (they only choose between the answers
`duplicate` and `conflict`, neither of which writes), `appliedMode` and the applications table, the channel target,
account status, harness entries, the history rows themselves, the page limit of 100 (the instances never reach
it) and `asyncResult` of a settle.

### WorkerPool

JavaScript runs the code between two awaits alone, so such a stretch is one action: `Finish` releases the slot and
starts the head of the queue. `active` and `held` are the counters of the module, `slots` the runs whose
`releaseSlot` is set, `workers` the promises the shutdown drain waits for, `overdue` the runs that were aborted and
still execute. A lease in the queue is `age` renewal intervals old; it counts as one interval old when it is
queued, which covers a renewal that happened just before.

### LateResults

`row` is the child's row in `runtimeAsyncAgentResults` with its status and handback, `age` the time since its last
write. `child` is how far the child's turn got in the parent's process, `outbox`, `pending`, `detached` and `handled`
are the coordinator's fields in `subagents.ts`, and `run` is where the parent's run stands between two awaits and
what it holds there. A message reaches the parent in four ways: the next write of a pass (`TakeParentMessages`,
`Persist`), the last one (`DrainCompletions`), the hand-over (`HandOver`), or a resume started by the child itself
or by a sweep. `Ingress` has the conversation in full; here `turn`, `resume` and `told` keep who holds it, the one
admission of each resume and what the history tells, because these decide duplicates.

The status a sweep lists is kept per child (`listed`), which lets the sweeps of several pods overlap. One turn of
each child is modelled. Left out: follow-ups, messages and wakes of persistent children, the charge of a message, the
wake of a parent that asked, the rows of async tools, a parent conversation that is gone, and the 24 hours after
which a sweep gives up.

### Sandboxes

`reservation` and `mirror` are the two rows of the key, `run[r]` where a run is between two calls, with the machine
it saw and the one it holds, `sweep[s]` a replica's sweep with the entries it listed, `clear` the cleanup of a
deleted conversation. `alive` is the provider's truth; `how` remembers how a run came by its machine, for the
properties. `Caught` is a call whose failure the code logs: done, failed before its commit, or after. The executors
are those of Vercel and E2B, which differ in `Outlived`, `WithoutWinner` and the order of an undone claim.

Time is whether a row is past its deadline. The clock moves only while runs and sweeps are idle: a reservation lives
for days, a command for minutes. A lifetime does not end during an acquire. Left out: the other executors, snapshots,
page limits, accounts that are inactive.

### Crons

`job` is the row, `registered` the entry of the crons component, `pending` the scheduled functions (`Id` names the
one of the job's creation and of each update). A fire goes from Convex's action through core's handler: `Dispatch`,
`Read`, `Admit`, `Open`, `Start`, `Work`, `Settle`, `RemoveOneShot`, with the branches that refuse or fail it. `Init`
is the job's creation. `FireAt` and `FireRecurring` are the scheduler's: it may run fires of one job side by side,
more than the component promises. Rows of fires that are over may be pruned in any set. Parsing of schedule
expressions and the queries are left out.

### StageSync

A PUT of `handleManifestSync` is a session's walk through `pc`, one action for each query or mutation: the claim,
the fence of a key of one stage, the list of hooks, the writes of hooks and MCP servers, the record of the rows the
stage manages, the agents with their prune, the re-read of what the stage owns, the removals, the record of those,
the release. `rows` are `accountHooks` and `mcp` (a row's id is its place), `records` is `cliExternalResources`,
`claim` is `stageSyncs`. `deploy` is one PUT without a revision; `dev` is `Get`, `Put`, the prompt (`Confirm`,
`Decline`) and the second `Put` with prune; `declined` is its memory of what was declined, `torn` that somebody wrote
the stage when it read it. `Fail` is a call that throws, `Die` an action cut off before its `finally`, `Lapse` the
end of a claim nobody works under: `MANIFEST_SYNC_TIMEOUT_MS` exceeds what an action may run.

Every agent of a manifest refers to every hook and server of it, which is a bound. Skills go the way of hooks.
Left out: the other resources of a manifest (policies, workspaces, sandboxes, channel records, crons), stored source,
keys, renamed agents, and what the dashboard writes except deleted agents.

### SandboxMeter

`row` is the `sandboxInstances` row, `lastUse` when the machine was really used, and `owed[t]` what the machine did
in tick `t` and no bill had. A bill (`Accrue`) settles the ticks it covers; a bill of anything that is not owed
leaves `"overbilled"`. So billing twice, billing at the wrong size and billing a dead machine are one condition. The
hourly accrual is a page (`AccruePage`) and a sweep of ephemeral rows, both at the time the accrual started.

A machine runs until its idle timeout (`RunsFor`), which may exceed a MicroVM's life: then it is gone before it is
suspended, and the next use launches another (`Lives`). Its life counts from the last use, as the comment at
`usageMeter.ts:39` has it. A write of the mirror stands for the machine's use: lost mirror writes are not modelled.
Rows of a user's own provider account cost nothing (`own`). Left out: burst totals, the sums on the owners' meters,
more rows than one. A row written again after a terminate bills as it says; a key of an ephemeral sandbox is never
used again.

## Runs

| Run | Instance | Shows |
| --- | --- | --- |
| `IngressModes` | three steers of two people, one with an attachment, or two collects and a follow-up | counters exact, turns of one person and mode, FIFO, stops honoured, a live turn keeps its rows, a turn settles its own |
| `IngressResumes` | a message, two resumes of one result | told once, `ConversationTurns` implemented |
| `IngressFair` | a task, a steer, a message to the task, no fair worker | late controls are stored nowhere; the sweep alone starts or ends what has no owner, the cron ends the rest |
| `Pool` | four runs, one with a lease, one slot, a queue of one | slots, places, drain, leases of waiters, slot timers end every wait |
| `LateResults` | one child, every outcome, three failures | told once, never lost, in the end |
| `Sandboxes` | two runs, a sweep, a cleanup, three machines, two failures | no machine leaked or taken in use, rows go |
| `Crons` | two fires, three updates, two failures | schedule and row agree, the latest fire is shown, history drains |
| `StageSync` | two sessions, two stages that share a hook, four PUTs, one fault | references resolve, syncs are applied, deletes were read |
| `Meter` | one row, four ticks, two sizes, idle timeouts around a life of two | each tick billed once and right, ephemeral rows go |
| `IngressRetry`, `LateNotice`, `StageAsks` | | the findings below |

**Bounds.** Two or three events suffice for an owner, a queued row and an arrival, the shape of every branch of the
coordinator; four events leave TLC's reach. `LeaseTtl` is 1 tick, so a lease is fresh, due for renewal, or lapsed.
`EnvelopeTtl` is 1, where a message is fresh or due; it outlives several leases only in `IngressRetry` (3), which
needs it. `StatusTtl` is one more. `MaxGeneration` and `MaxSequence` bound the number of turns and rows: two turns are
one that is lost and the one that takes over, and the fourth row in `IngressResumes` is a resume that is admitted
again after everything else was. (Its properties hold over three turns and three rows too.) `MaxQueuedCount` and
`MaxQueuedBytes` are the limits of the code, small enough to be met. `IngressModes` asks one of its two questions at a
time (`OneQuestion`): requests of the two sets do not mix.

In the pool a name is used again once its run ended, so the runs are unbounded in number; four names fill the slot,
the queue, the place beyond its limit and one arrival. `LeaseRounds` is 3 because the renewal interval is a third of
the lease, `MaxFailures` bounds the renewals that fail in a row. A renewal round is taken to end before the next
firing: a thousand calls, sixteen at a time, have five minutes.

`LateResults` has one child: children share the outbox and the conversation but no row. (An instance of two children
and one failure keeps its safety properties too.) `Faults` counts failed calls, lost replies, crashes, lapsed turns
and lost resumes together; three is a crash, a resume lost on top of it and one failed call of the sweep. A child's
budget is below the windows of the sweep, as in the code, where a child loop is aborted in time. In `Sandboxes`
three machines are a create race and a replacement; in `Crons` two fires are an older and a newer one, and a batch of
one makes the cascade take several. In `StageSync` four PUTs are a `dev` session with its prune and two syncs that
come between, and the second stage declares only the shared hook, since servers and agents are a stage's own. In
`Meter` four ticks exceed a lifetime of two and a bill interval of two, and the idle timeouts, one and three, are on
either side of the lifetime: `sandboxRules.ts` allows seven days, a MicroVM lives eight hours.

`CountExact` is an invariant where no late result comes back, as in `IngressModes`; the finding `IngressRetry` is what
happens otherwise, and the theorems say exactly when it cannot. `CountCovers`, the half the code relies on, holds
always. In the same way `SettledByOwnTurn` is checked in `IngressModes`, where messages are merged into turns that get
lost and an event id owns again once its row was deleted; the observations below say how a resume breaks it.

**Fairness.** `Ingress`: `Tick` and `RecoverQueued`: time and the sweep every core pod runs on a timer. The Convex
cron is assumed only where it is needed, in the second half of `NothingIsStuck`: its expiry empties a queue too, and
would cover for a sweep that does not work. A worker is never fair; it may die between two calls, and its reply may be
lost. `WorkerPool`: only `Overrun`: every slot has a timer, nothing makes a run end. `LateResults`: the parent's run,
the child's turn, admitted resumes, the end of turns (budgets and leases end them), time and the sweep every thirty
seconds. `Sandboxes`: a run that started ends, the sweep and time. `Crons`: the calls of a fire and the cascade Convex
scheduled; nothing makes a schedule fire. `SandboxMeter`: time and the hourly cron. `StageSync` states none: no
liveness is claimed of a command line.

## What is proved

For every value of the constants, from the `ASSUME`s of the modules alone (finite sets of events, runs and children,
names of absent things distinct from present ones and no row, positive lifetimes, a child's budget below the sweep's
window). TLC evaluates them in every run.

`IngressProofs`. `TypeCorrect`, and `CounterCovers`: the queue counter is never below the number of queued rows, so
`queuedPage`, which reads nothing at zero, hides nothing. The inductive invariant is `TypeOK /\ CountCovers`. Since
every mutation is a composition, so is the argument: a lemma per operator says what database state it returns and
which rows it takes from the queue (`DequeueCovers`: the counter goes down by no more than the rows that leave), an
action cites the lemmas of what it composes.

The properties over two steps or several rows rest on `NumberedInv`, which adds that a live row has a number below
the next one and no two live rows share one, and on one shape that every step of the coordinator has (`Taken`): rows
fade (end, or leave the queue), at most one row arrives, at the end of the queue, and at most one group starts, which
is then the owner's. Each action is shown to have that shape once. `OneResume`, `ToldOnce`, `KeptWhileLive`,
`StopsAreHonoured`, `NothingOvertakes`, `LateControlsAreRefused` and the refinement of `ConversationTurns`,
`CoordinatorImplementsTurns`, then follow from the shape and what the group that starts is (the head of the queue,
live, not told of).

`OneSenderPerTurn` states `TurnsAreOneSenders` of the behaviours in which an interrupted turn keeps its own row
(`[]InterruptedKept`). The sender a boundary compares steers with is read from that row, so `SendersInv` adds that
whatever processes for the turn in charge was applied to its owner and has its owner's sender; `KeptWhileLive` gives
the row while the worker runs. The condition cannot be dropped, see the
observations on Ingress below.

`IngressOwnerProofs` holds what depends on the owner's own row, each theorem with the condition it needs and, where
no late result comes back, without.

* `CountersAreExact`: `CountExact` while no owner whose lease lapsed waits in the queue itself (`OwnerDoesNotWait`):
  `expireStaleOwner` ends such a row without patching the counters, which is the finding `IngressRetry`. The bytes
  are a fold over the queue. Its sum is characterised first: the rules "nothing adds nothing" and "one more adds its
  size" are functions on the finite subsets, shown by the least set that has none (well-founded subsets, so no
  induction operator is needed), and from there what a queue loses by a set of rows is what the bytes go down by.
  `Exact` is then followed through every operator, as `CountCovers` was.
* `ExactUnlessUndelivered`, `OneSenderUnlessUndelivered`: the condition traced to its cause. `OwnersTell` says the
  conversation is not owned by a resume that ended without telling its result, the one case in which
  `undeliveredResume` gives the row of an owner back. `LastingInv` is inductive under it: the owner's row is out of
  the queue, of the owner's generation while the lease lasts, and has `Spare` time left, because a row that waits is
  kept that much longer than it waits. It gives `OwnerDoesNotWait` and `InterruptedKept`.
* `PlainConversation`: without late results (`NoLateResults`, the requests of `IngressModes`) no row is given back,
  so both hold of every behaviour, event ids that come back after their rows were deleted included.
* `PlainTurnsSettleTheirOwn`: without late results a turn settles its own rows and no others (`SettledByOwnTurn`),
  if a row is kept, past its wait, at least as long as another may wait and as a lease lasts (`LongKept`; the code
  keeps seven days against minutes). A lemma for every operator says that only a settle decides what runs, and only
  the owner's row and those applied to it; `OwnersTurn` is the invariant that an owner's row is of no earlier turn.
  What is left is that a running row has the generation of the row it is applied to: `OutlastInv` compares clocks, a
  running row's time is below that of the row it is applied to, and the cron gives more time only to rows of the
  live turn, whose owner has `Spare`. For it every operator is shown to move no row's times (`KeepsTime`).

`WorkerPoolProofs`. `PoolTypeCorrect`, `SlotsAreCounted`, `NobodyWaitsInVain`, `RunsAreInOnePlace`,
`DrainLeavesNothing`, `OverfillIsBounded` from one invariant, `PoolInv`: the pool is `Steady` (a run is in a slot or
waits once, the counter is the number of slots, nobody waits beside a free one), what executes is tracked, places
held belong to requests whose run is not in the pool, and queue plus held places stay within the limit plus the
slots. The last part is what makes the excess bounded: a start in a free slot is the one step that is not counted.
`PlacedRunsStay` is an action property. `WaitersKeepLeases`: if `MaxFailures + 2 <= LeaseRounds` a waiting run never
outlives its lease. `LeaseInv` counts an entry's intervals: one for waiting, one per failure, one while this round's
call is out. With the code's three intervals one failed call in a row is survived, two are not.

`LateResultsProofs`. `TypeCorrect` and `LostSafe` rest on `StageInv`: what a child's row may
be at each stage of its turn, that every message in the outbox or in the run's hands says what its child answered,
and that the age of a running child's row is within its budget, which is why no sweep finds it. `ToldAtMostOnce` and
`StoredSafe` add `HeardInv`: once a result is in the history its row is stored and its resume has nothing left to
do, while the run writes itself only the child's answer is told, and a stored row is accounted for.

`CronsProofs`. `TypeCorrect`; `ScheduleSafe` with the strengthening that a row names a scheduled function exactly
while it is an active one-time job (without it an update would not know what to cancel); `LatestShown` with the
strengthening that a fire before its `createRun` has no row and is not what the job names.

`StageSyncProofs`. `StageInv` says of each session what it may rely on between two of its steps: it holds the claim
of its revision, what it found are rows of its names, what it means to remove is the stage's and not declared, and
what is recorded so far stays. It is shown step by step, the steps of one session as a frame for the others. From it
`TypeCorrect`, `OneWriter` (no stage is written by two syncs), `ServersAreThere`, `SyncIsApplied` and the action
property `OnlyWhatWasRead`. The last needs that the claim's revision has not moved since the stage was read
(`HasRead`), which is where the `dev` session's revision matters. That a found row is one of those listed needs the
greatest element of a finite set to be in it (`GreatestIsIn`, from the well-foundedness of `<` on `Nat`).

`SandboxMeterProofs`. `TypeCorrect`, and `BilledExactly` from `Exact`: a tick up to `meteredUntil` is billed, one
from there to now is owed as the machine ran, one after now is not owed. A bill settles exactly the stretch it moves
`meteredUntil` over. It is of behaviours where the row knows the last use (`[]UsedAsTheRowSays`), which a suspend
that fails breaks, see below. `NothingIsLost` is of all behaviours. After a failed suspend the row and the machine
differ in the last use, but the machine's is never the later one (`UseKnown`), so every tick that is owed is one the
row would bill something for too and lies behind its `meteredUntil` (`Backed`).

`SandboxesProofs`. `SandboxInv` says of every stale caller what it may still hold: a run that forgets saw a dead
machine, a sweep gives back only the row of a machine whose teardown it tried, what is on a list was past its
deadline when no run was at work (`Aged`), and the row of a run that settled is fresh (`Kept`) unless its claim was
undone. `TypeCorrect`, `InUseIsReserved` and `RefreshedIsSpared` follow. For `LossesAreFailures` the bound itself is
not inductive, since what a failure costs shows only later. `Owed` therefore holds the lost machines and those in the
hands of somebody who will not dispose of them, and `Debt` is the failures so far and one once the cleanup deleted
the row: a step makes at most one machine owed, and where it does the debt grows (`OwedInv`).

Only model-checked: liveness, the properties with `~>` or `<>`, since fairness is beyond the prover. Every invariant
and every action property of a passing run is stated by a theorem. Of the conditional ones the condition cannot be
dropped: TLC breaks `CountExact` in `IngressRetry`, and the observations below say how `TurnsAreOneSenders`,
`SettledByOwnTurn` and, for the ticks after a suspend that failed, `BilledAsDue` fail without theirs.

## Findings

Each has a run that shows it.

* `IngressRetry`: a lost resume that is admitted again can wait in the queue while the coordinator still names its
  event. The next arrival expires it as the stale owner, without the counters. The phantom count refuses `/clear`
  and takes capacity until the sweep recounts.
* `LateNotice`: a result that a step boundary wrote has left the outbox, but its child stays in `pendingMetadata`
  until its event went out. A wait that times out in between writes a running notice after the result.
* `StageAsks`: `dev` does not show a delete that was declined earlier, but the prune a later yes sends carries it
  out.

Observations met while modelling, in the modules as the code has them, without a run of their own:

* Ingress. A settle goes by owner event and not by generation. The answer to a question resumes as a steer
  (`handler.ts:603`), and promotion makes it and the steers behind it one turn. If that turn is lost and the cron
  expires the resume's row before theirs, the sweep has the resume admitted again under its event id, and its settle
  marks the steers of the lost turn `completed` with an answer to a turn that never read them, where
  `internals/architecture.md:250` has them expired. (TLC finds `SettledByOwnTurn` violated in twelve states when
  `Requests` are a steer and a resume that is a steer, with the bounds of `IngressRetry`, an `EnvelopeTtl` of 2 and
  a `StatusTtl` of 5.) A resume that is a follow-up is safe: steers join its turn only once its input, and with it
  the result, is stored, and a stored result is not resumed again. A turn its parent stopped is failed without
  `stoppedByUser`, against `guides/conversations.md:70`. A pod that shuts down fails the resume it still runs, and
  releases it in a call of its own. In between, a retry of the resume takes the failed row back, meets a full queue
  and leaves none; the boundaries of the worker that is still up then compare steers with the first one waiting
  instead of the owner (`runtimeIngress.ts:1371`), and two people's messages join one turn, against
  `runtimeIngress.ts:1517`. (TLC finds `TurnsAreOneSenders` violated in eight states when `Requests` are a resume
  and the steers of two people behind it.)
* Pool. A run without a place starts in a free slot although the places held already fill the limit, and placed runs
  then overfill the queue (`OverfillBounded` says by how much); the comment at `worker-queue.ts:133` says never.
* Sandboxes. `releaseReservedSandboxes` deletes the row and the mirror whatever machine they name by then, where
  `sandboxes.md` says every write is conditional on the expected id. A retirement may delete a machine that another
  run of the key still uses.
* Crons. A one-time job that was made recurring, or rescheduled, while its run executes is removed when that run
  settles. A run that ends waiting for an approval or an answer settles neither its row nor its one-time job.
* Stage sync. A GET during another session's PUT reads the revision that PUT will have and half of its rows; once it
  is done the reader's prune is accepted and deletes what it never read (`~torn` in `DeletesWereRead`). A stage that
  records a hook between another stage's re-read of what it owns and its removal loses the hook. Two stages that
  create one hook at once make two rows, and rows made by a sync that dies before it records them are never pruned.
* Meter. The mark a failed suspend takes back counts as a use, though the comment at `sandbox/instances.ts:204` says
  only a use moves it. A resume of a MicroVM its idle timeout suspended bills no snapshot load, because the row did
  not say suspended.

## Not modelled

Model streaming, tools and providers are I/O. The gateway, channels, policies and the clients keep no state a
property could relate to another's. The dashboard, docs, demos, workers and record keeping of accounts and billing are
single transactions or user interface; they are most of the repository's lines. Of the modelled components: the
recovery sweep's cursor over many conversations, a `/stop` that reaches a run that waits for a slot (pool and
coordinator have no common clock), persistent children beyond their first turn, async tools, executors other than
Vercel's and E2B's, the monthly and daily counters and the budget warning, harness sessions, MCP tasks.

## Plan

In this order:

1. `PooledTurns`: pool and lease under one clock; `/stop` of a waiting run.
2. `RecoverySweep`: the cursor over conversations; liveness of every conversation under a sweep that stops early.
3. `ChildTurns`: follow-ups, messages and wakes of persistent children, and the rows of async tools.
4. `UsagePools`: the owner's counters and the budget warning; one warning per threshold.
5. Proofs: `SettledByOwnTurn` where every resume is a follow-up (a resume that is a steer breaks it), and the
   invariants of the modules above.

Instances stay at two or three actors and one contested key each, one run per module where its questions allow.
