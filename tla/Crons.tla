-------------------------------- MODULE Crons --------------------------------
(***************************************************************************)
(* One scheduled job: its row and registration in Convex (agent/crons.ts,   *)
(* model/cronSchedules.ts), the fires its schedule makes, and core's        *)
(* handling of each (apps/core/src/harness/handler.ts).  A fire is an action *)
(* that asks Convex whether the job is live and posts to core, which reads  *)
(* the job, opens a run row, starts a worker and settles the row when the   *)
(* worker ends.  Fires overlap, and the job may be changed or removed       *)
(* between any two calls of one.                                            *)
(***************************************************************************)
EXTENDS Integers, FiniteSets

CONSTANTS
  MaxFires,     \* bound on the fires of the job
  Changes,      \* bound on the updates of the job
  Batch,        \* PRUNE_BATCH_SIZE
  Faults,       \* bound on failed calls, lost replies and crashes
  None          \* the job once removed

Fire == 1 .. MaxFires
Settled == {"completed", "failed"}
Statuses == {"none", "started"} \cup Settled
Kinds == {"at", "rate"}      \* a `rate` stands for every recurring schedule
Modes == {"active", "paused"}

\* The function scheduled by the job's creation, and by its n-th update.
Id == 1 .. Changes + 1

\* 0 is an unset scheduledRunId, lastRunId or lastInvokedAt.
Jobs == [kind : Kinds, status : Modes,
         scheduled : Id \cup {0}, lastRun : Fire \cup {0},
         lastStatus : Statuses, lastFired : Nat]

ASSUME CronsAssumption ==
  /\ MaxFires \in Nat /\ Changes \in Nat /\ Faults \in Nat
  /\ Batch \in Nat \ {0}
  /\ None \notin Jobs

VARIABLES
  job,          \* the crons row
  registered,   \* whether the crons component has an entry named by the job
  pending,      \* scheduled functions that wait for their time
  changes,      \* updates so far
  fires,        \* per fire: where it is, when it fired, what core read
  clock,        \* the time of the last post
  runs,         \* per fire: the status of its cronRuns row
  cascade,      \* whether removeRunsCascade is scheduled
  faults        \* failures so far

vars == <<job, registered, pending, changes, fires, clock, runs, cascade, faults>>
schedule == <<registered, pending>>

\* Before its run row is opened, and after: `parked` is a run that ended to wait
\* for an approval or an answer.
Opening == {"waiting", "live", "reading", "admitting", "refused", "opening"}
Opened == {"unopened", "starting", "unstarted", "running", "settling",
           "retrying", "removing", "parked", "over"}

\* `shot` is the oneShot flag, of the job core read.
Fires == [at : Opening \cup Opened, firedAt : Nat, shot : BOOLEAN,
          outcome : Settled]

TypeOK ==
  /\ job \in Jobs \cup {None}
  /\ job # None => (job.lastRun # 0 => job.lastStatus # "none")
  /\ registered \in BOOLEAN
  /\ pending \subseteq Id
  /\ changes \in 0 .. Changes
  /\ fires \in [Fire -> Fires]
  /\ clock \in Nat
  /\ runs \in [Fire -> Statuses]
  /\ cascade \in BOOLEAN
  /\ faults \in 0 .. Faults

Fault == faults < Faults /\ faults' = faults + 1
NoFault == UNCHANGED faults

-----------------------------------------------------------------------------
(* The schedule.                                                             *)

Once(kind, status) == kind = "at" /\ status = "active"
Recurs(kind, status) == kind = "rate" /\ status = "active"

\* registerSchedule: a one-time job is scheduled, a recurring one registered.
ScheduledRun(kind, status, id) == IF Once(kind, status) THEN {id} ELSE {}
ScheduledId(kind, status, id) == IF Once(kind, status) THEN id ELSE 0

\* Mutant: an update that schedules nothing leaves the old id on the row.
ScheduledIdKept(kind, status, id) ==
  IF Once(kind, status) THEN id ELSE job.scheduled

\* What the update writes to scheduledRunId.
UpdatedId(kind, status, id) == ScheduledId(kind, status, id)

\* unregisterSchedule: the scheduled run is cancelled, which a run that already
\* started does not notice; else an active job's entry is deleted.
Unregistered ==
  registered /\ ~(job.scheduled = 0 /\ job.status = "active")
Cancelled == pending \ {job.scheduled}

\* create, the start of this history.
Init ==
  \E kind \in Kinds, status \in Modes :
    /\ job = [kind |-> kind, status |-> status,
              scheduled |-> ScheduledId(kind, status, 1),
              lastRun |-> 0, lastStatus |-> "none", lastFired |-> 0]
    /\ registered = Recurs(kind, status)
    /\ pending = ScheduledRun(kind, status, 1)
    /\ changes = 0
    /\ fires = [f \in Fire |-> [at |-> "waiting", firedAt |-> 0,
                                shot |-> FALSE, outcome |-> "failed"]]
    /\ clock = 0
    /\ runs = [f \in Fire |-> "none"]
    /\ cascade = FALSE /\ faults = 0

\* update of a schedule, a timezone or a status.  A patch that changes none of
\* them, or that names a time in the past, leaves all of this as it is.
Update(kind, status) ==
  /\ job # None /\ changes < Changes
  /\ LET id == changes + 2 IN
     /\ job' = [job EXCEPT !.kind = kind, !.status = status,
                           !.scheduled = UpdatedId(kind, status, id)]
     /\ registered' = (Unregistered \/ Recurs(kind, status))
     /\ pending' = Cancelled \cup ScheduledRun(kind, status, id)
  /\ changes' = changes + 1
  /\ UNCHANGED <<fires, clock, runs, cascade, faults>>

\* deleteCron
DeleteCron ==
  /\ registered' = Unregistered
  /\ pending' = Cancelled
  /\ cascade' = TRUE
  /\ job' = None

\* remove, by a user or with the job's agent.
Remove ==
  /\ job # None /\ DeleteCron
  /\ UNCHANGED <<changes, fires, clock, runs, faults>>

-----------------------------------------------------------------------------
(* The run rows.                                                             *)

\* Mutant: the write that lands last is taken for the latest fire.
LastWrite(f) == TRUE

\* isLatestFire
IsLatestFire(f) == fires[f].firedAt >= job.lastFired

\* What createRun writes to the job of a latest fire.
OpenedBy(f) ==
  [job EXCEPT !.lastRun = f, !.lastStatus = "started",
              !.lastFired = fires[f].firedAt]

CreateRun(f) ==
  /\ runs' = [runs EXCEPT ![f] = "started"]
  /\ job' = IF IsLatestFire(f) THEN OpenedBy(f) ELSE job

RecordFailedFire(f) ==
  job' = IF ~IsLatestFire(f) THEN job
         ELSE [job EXCEPT !.lastRun = 0, !.lastStatus = "failed",
                          !.lastFired = fires[f].firedAt]

\* A run settles once, and the job follows the run it names.
SettleRun(f, status) ==
  IF runs[f] # "started" THEN UNCHANGED <<runs, job>>
  ELSE /\ runs' = [runs EXCEPT ![f] = status]
       /\ job' = IF job # None /\ job.lastRun = f
                 THEN [job EXCEPT !.lastStatus = status] ELSE job

Rows == {f \in Fire : runs[f] # "none"}
Without(rows) == [f \in Fire |-> IF f \in rows THEN "none" ELSE runs[f]]

\* Mutant: one batch is all there is.
OneBatch(rows) == FALSE

\* A full batch schedules the next.
MoreRows(rows) == Cardinality(rows) = Batch

RemoveRunsCascade ==
  /\ cascade
  /\ \E rows \in SUBSET Rows :
       /\ Cardinality(rows) = Batch \/ (rows = Rows /\ Cardinality(rows) < Batch)
       /\ runs' = Without(rows)
       /\ cascade' = MoreRows(rows)
  /\ UNCHANGED <<job, schedule, changes, fires, clock, faults>>

\* A month on, rows of fires long over go.
PruneExpiredRuns ==
  /\ \E rows \in SUBSET {f \in Rows : fires[f].at \in {"parked", "over"}} :
       rows # {} /\ runs' = Without(rows)
  /\ UNCHANGED <<job, schedule, changes, fires, clock, cascade, faults>>

-----------------------------------------------------------------------------
(* A fire.                                                                   *)

Goes(f, at) == fires' = [fires EXCEPT ![f].at = at]
Ends(f) == Goes(f, "over")

\* Fires are alike until they start.
Starts ==
  \E f \in Fire :
    /\ fires[f].at = "waiting" /\ \A g \in 1 .. f - 1 : fires[g].at # "waiting"
    /\ Goes(f, "live")

\* The time of an at(...) job has come.
FireAt ==
  /\ \E id \in pending : pending' = pending \ {id}
  /\ Starts
  /\ UNCHANGED <<job, registered, changes, clock, runs, cascade, faults>>

FireRecurring ==
  /\ registered /\ Starts
  /\ UNCHANGED <<job, schedule, changes, clock, runs, cascade, faults>>

\* A job that is gone takes its entry with it; else the fire is posted.
Dispatch(f) ==
  /\ fires[f].at = "live"
  /\ \/ /\ job = None /\ Ends(f)
        /\ registered' = FALSE /\ UNCHANGED clock
     \/ /\ job # None
        /\ clock' = clock + 1
        /\ fires' = [fires EXCEPT ![f].at = "reading", ![f].firedAt = clock + 1]
        /\ UNCHANGED registered
  /\ UNCHANGED <<job, pending, changes, runs, cascade, faults>>

\* handleScheduledCron: a job that is gone or paused is skipped.
Read(f) ==
  /\ fires[f].at = "reading"
  /\ IF job = None \/ (job # None /\ job.status # "active") THEN Ends(f)
     ELSE fires' = [fires EXCEPT ![f].at = "admitting",
                                 ![f].shot = (job.kind = "at")]
  /\ UNCHANGED <<job, schedule, changes, clock, runs, cascade, faults>>

\* admitRun: within the account's allowance, or refused.
Admit(f) ==
  /\ fires[f].at = "admitting"
  /\ Goes(f, "opening") \/ Goes(f, "refused")
  /\ UNCHANGED <<job, schedule, changes, clock, runs, cascade, faults>>

\* Mutant: a fire that started nothing leaves its one-time job behind.
LeavesJob(f) == "over"

\* A one-time job's only fire is spent, however it ended.
Spends(f) == IF fires[f].shot THEN "removing" ELSE "over"

\* markFailed throws for a job that is gone, or fails: then nothing is removed.
Refuse(f) ==
  /\ fires[f].at = "refused"
  /\ \/ job = None /\ Ends(f) /\ NoFault /\ UNCHANGED job
     \/ job # None /\ RecordFailedFire(f) /\ Goes(f, Spends(f)) /\ NoFault
     \/ Fault /\ Ends(f) /\ UNCHANGED job
     \/ job # None /\ Fault /\ Ends(f) /\ RecordFailedFire(f)
  /\ UNCHANGED <<schedule, changes, clock, runs, cascade>>

\* openCronRun: no row for a job that is gone; a call may fail, or only seem to.
Open(f) ==
  /\ fires[f].at = "opening"
  /\ \/ job = None /\ Goes(f, "unopened") /\ NoFault /\ UNCHANGED <<job, runs>>
     \/ job # None /\ CreateRun(f) /\ Goes(f, "starting") /\ NoFault
     \/ Fault /\ Goes(f, "unopened") /\ UNCHANGED <<job, runs>>
     \/ job # None /\ Fault /\ Goes(f, "unopened") /\ CreateRun(f)
  /\ UNCHANGED <<schedule, changes, clock, cascade>>

\* A fire that opened no run is marked on the job.
MarkUnopened(f) ==
  /\ fires[f].at = "unopened"
  /\ \/ job = None /\ NoFault /\ UNCHANGED job
     \/ job # None /\ RecordFailedFire(f) /\ (NoFault \/ Fault)
     \/ Fault /\ UNCHANGED job
  /\ Goes(f, Spends(f))
  /\ UNCHANGED <<schedule, changes, clock, runs, cascade>>

\* startScheduledAgentRun: the worker starts, or the conversation is busy, the
\* queue full.
Start(f) ==
  /\ fires[f].at = "starting"
  /\ Goes(f, "running") \/ Goes(f, "unstarted")
  /\ UNCHANGED <<job, schedule, changes, clock, runs, cascade, faults>>

FailStart(f) ==
  /\ fires[f].at = "unstarted"
  /\ \/ SettleRun(f, "failed") /\ (NoFault \/ Fault)
     \/ Fault /\ UNCHANGED <<job, runs>>
  /\ Goes(f, Spends(f))
  /\ UNCHANGED <<schedule, changes, clock, cascade>>

\* handleAsyncWorkerRequest: a run that waits for somebody settles nothing.
Work(f) ==
  /\ fires[f].at = "running"
  /\ \/ Goes(f, "parked")
     \/ \E outcome \in Settled :
          fires' = [fires EXCEPT ![f].at = "settling", ![f].outcome = outcome]
  /\ UNCHANGED <<job, schedule, changes, clock, runs, cascade, faults>>

\* settleCronRun, tried again once; only a settle that returned removes.
Settle(f) ==
  /\ fires[f].at \in {"settling", "retrying"}
  /\ \/ SettleRun(f, fires[f].outcome) /\ Goes(f, Spends(f)) /\ NoFault
     \/ /\ Fault
        /\ SettleRun(f, fires[f].outcome) \/ UNCHANGED <<job, runs>>
        /\ Goes(f, IF fires[f].at = "settling" THEN "retrying" ELSE "over")
  /\ UNCHANGED <<schedule, changes, clock, cascade>>

\* removeOneShotCron removes the job there is by now, and logs what fails.
RemoveOneShot(f) ==
  /\ fires[f].at = "removing" /\ Ends(f)
  /\ \/ job = None /\ NoFault /\ UNCHANGED <<job, schedule, cascade>>
     \/ job # None /\ DeleteCron /\ (NoFault \/ Fault)
     \/ Fault /\ UNCHANGED <<job, schedule, cascade>>
  /\ UNCHANGED <<changes, clock, runs>>

\* The post is lost, a read throws, or the pod dies.
Dies(f) ==
  /\ fires[f].at \notin {"waiting", "parked", "over"}
  /\ Fault /\ Ends(f)
  /\ UNCHANGED <<job, schedule, changes, clock, runs, cascade>>

-----------------------------------------------------------------------------

FireStep(f) ==
  \/ Dispatch(f) \/ Read(f) \/ Admit(f) \/ Refuse(f) \/ Open(f)
  \/ MarkUnopened(f) \/ Start(f) \/ FailStart(f) \/ Work(f) \/ Settle(f)
  \/ RemoveOneShot(f)

Next ==
  \/ \E kind \in Kinds, status \in Modes : Update(kind, status)
  \/ Remove \/ RemoveRunsCascade \/ PruneExpiredRuns
  \/ FireAt \/ FireRecurring
  \/ \E f \in Fire : FireStep(f) \/ Dies(f)

Spec == Init /\ [][Next]_vars

\* Calls return or throw, workers end (slot timers), Convex runs what it
\* scheduled.  No schedule need fire and nobody need change the job.
FairSpec ==
  /\ Spec
  /\ WF_vars(RemoveRunsCascade)
  /\ \A f \in Fire : WF_vars(FireStep(f))

-----------------------------------------------------------------------------
(* Properties.                                                               *)

\* After any run of updates, fires and failures, what will fire is what the row
\* says: an entry for an active recurring job alone, and at most the one run an
\* active one-time job names.  Nothing fires for a paused or removed job, and
\* registering never finds a name taken, which throws.
FiresAsTheRowSays ==
  /\ registered <=> job # None /\ Recurs(job.kind, job.status)
  /\ pending \subseteq
       IF job = None THEN {} ELSE ScheduledRun(job.kind, job.status, job.scheduled)

\* The job shows the latest fire by its scheduled time, whatever the order the
\* writes of overlapping fires land in: the status of its run, or the failure
\* that kept it from opening one.
LastStatusIsLatest ==
  job # None =>
    /\ \A f \in Rows : fires[f].firedAt <= job.lastFired
    /\ job.lastRun # 0 =>
         /\ fires[job.lastRun].firedAt = job.lastFired
         /\ runs[job.lastRun] \in {job.lastStatus, "none"}
    /\ job.lastRun = 0 /\ job.lastFired # 0 => job.lastStatus = "failed"

\* The history of a removed job drains for good: no late fire opens a row that
\* nothing would ever delete.
HistoryDrains == job = None ~> [](Rows = {})

\* A one-time job whose run was started is removed, unless a call failed, its
\* run waits for an answer, or somebody changes the job.
Spent ==
  /\ job # None /\ Once(job.kind, job.status) /\ job.scheduled \notin pending

OneShotGoes ==
  Spent ~> \/ ~Spent \/ faults > 0
           \/ \E f \in Fire : fires[f].at = "parked" /\ fires[f].shot

=============================================================================
