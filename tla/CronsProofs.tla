----------------------------- MODULE CronsProofs -----------------------------
(***************************************************************************)
(* Theorems about Crons, for every number of fires, updates and failures.   *)
(*                                                                         *)
(* The writes to the run rows and to the job (CreateRun, RecordFailedFire,   *)
(* SettleRun, Without, DeleteCron) each have a lemma; the actions cite them. *)
(***************************************************************************)
EXTENDS Crons, TLAPS

\* A job names a scheduled function when it is an active one-time job.
IdIsNamed == job # None => (job.scheduled # 0 <=> Once(job.kind, job.status))

ScheduleInv == TypeOK /\ FiresAsTheRowSays /\ IdIsNamed

\* A fire that opened no run yet has no row, and the job does not name it.
Unopened ==
  \A f \in Fire :
    fires[f].at \in Opening => runs[f] = "none" /\ (job # None => job.lastRun # f)

StatusInv == TypeOK /\ LastStatusIsLatest /\ Unopened

-----------------------------------------------------------------------------
(* Types.                                                                  *)

\* What a fire does to its own record keeps the records of all.
LEMMA GoesType ==
  ASSUME TypeOK, NEW f \in Fire, NEW at \in Opening \cup Opened, Goes(f, at)
  PROVE  /\ fires' \in [Fire -> Fires]
         /\ fires' = [fires EXCEPT ![f] = [fires[f] EXCEPT !.at = at]]
BY DEF TypeOK, Goes, Fires

LEMMA SpendsType ==
  ASSUME NEW f \in Fire
  PROVE  Spends(f) \in Opened /\ Spends(f) \in Opening \cup Opened
BY DEF Spends, Opened

\* The row of a job, with the run it names.
JobType == job \in Jobs /\ (job.lastRun # 0 => job.lastStatus # "none")

LEMMA FireNumbers == Fire \subseteq Nat \ {0}
BY CronsAssumption DEF Fire

LEMMA CreateRunType ==
  ASSUME TypeOK, NEW f \in Fire, job # None, CreateRun(f)
  PROVE  JobType' /\ job' # None /\ runs' \in [Fire -> Statuses]
<1>1. job \in Jobs /\ fires[f] \in Fires
  BY DEF TypeOK
<1>2. runs' \in [Fire -> Statuses]
  BY DEF TypeOK, CreateRun, Statuses
<1>3. OpenedBy(f) \in Jobs /\ OpenedBy(f).lastStatus = "started"
  BY <1>1 DEF OpenedBy, Jobs, Fires, Statuses
<1>4. JobType'
  BY <1>1, <1>3 DEF CreateRun, JobType, TypeOK
<1>5. QED
  BY <1>2, <1>4, CronsAssumption DEF JobType

LEMMA RecordFailedFireType ==
  ASSUME TypeOK, NEW f \in Fire, job # None, RecordFailedFire(f)
  PROVE  JobType' /\ job' # None
<1>1. job \in Jobs /\ fires[f] \in Fires
  BY DEF TypeOK
<1>2. [job EXCEPT !.lastRun = 0, !.lastStatus = "failed",
                  !.lastFired = fires[f].firedAt] \in Jobs
  BY <1>1 DEF Jobs, Fires, Statuses, Settled
<1>3. JobType'
  BY <1>1, <1>2 DEF RecordFailedFire, JobType, TypeOK, Jobs
<1>4. QED
  BY <1>3, CronsAssumption DEF JobType

LEMMA SettleRunType ==
  ASSUME TypeOK, NEW f \in Fire, NEW status \in Settled, SettleRun(f, status)
  PROVE  /\ job' \in Jobs \cup {None} /\ (job' # None => JobType')
         /\ job' = None <=> job = None
         /\ runs' \in [Fire -> Statuses]
<1>1. CASE runs[f] # "started"
  BY <1>1 DEF SettleRun, TypeOK, JobType
<1>2. CASE runs[f] = "started"
  <2>1. runs' \in [Fire -> Statuses]
    BY <1>2 DEF SettleRun, TypeOK, Statuses
  <2>2. CASE job # None /\ job.lastRun = f
    <3>1. job \in Jobs /\ job' = [job EXCEPT !.lastStatus = status]
      BY <1>2, <2>2 DEF SettleRun, TypeOK
    <3>2. job' \in Jobs /\ job'.lastStatus = status /\ status # "none"
      BY <3>1 DEF Jobs, Statuses, Settled
    <3>3. QED
      BY <2>1, <2>2, <3>2, CronsAssumption DEF JobType
  <2>3. CASE ~(job # None /\ job.lastRun = f)
    BY <1>2, <2>1, <2>3 DEF SettleRun, TypeOK, JobType
  <2>4. QED
    BY <2>2, <2>3
<1>3. QED
  BY <1>1, <1>2

LEMMA WithoutType ==
  ASSUME TypeOK, NEW rows
  PROVE  Without(rows) \in [Fire -> Statuses]
BY DEF TypeOK, Without, Statuses

\* What deleting the job leaves, of whatever job there was.
LEMMA DeleteType ==
  ASSUME TypeOK, job # None, DeleteCron
  PROVE  /\ job' = None /\ registered' \in BOOLEAN
         /\ pending' \subseteq Id /\ cascade' \in BOOLEAN
BY DEF TypeOK, DeleteCron, Unregistered, Cancelled

LEMMA UpdateType ==
  ASSUME TypeOK, NEW kind \in Kinds, NEW status \in Modes, Update(kind, status)
  PROVE  /\ JobType' /\ job' # None /\ registered' \in BOOLEAN
         /\ pending' \subseteq Id /\ changes' \in 0 .. Changes
<1> DEFINE id == changes + 2
<1>1. job \in Jobs /\ id \in Id /\ changes' = changes + 1 /\ changes' \in 0 .. Changes
  BY CronsAssumption DEF TypeOK, Update, Id
<1>2. ScheduledId(kind, status, id) \in Id \cup {0}
      /\ ScheduledRun(kind, status, id) \subseteq Id
  BY <1>1 DEF ScheduledId, ScheduledRun
<1>3. job' = [job EXCEPT !.kind = kind, !.status = status,
                         !.scheduled = ScheduledId(kind, status, id)]
  BY DEF Update, UpdatedId
<1>4. job' \in Jobs
  BY <1>1, <1>2, <1>3 DEF Jobs
<1>5. job'.lastRun = job.lastRun /\ job'.lastStatus = job.lastStatus
  BY <1>1, <1>3 DEF Jobs
<1>6. JobType'
  BY <1>4, <1>5 DEF JobType, TypeOK, Update
<1>7. registered' \in BOOLEAN
  BY DEF Update
<1>8. pending' \subseteq Id
  BY <1>2 DEF Update, Cancelled, TypeOK
<1>9. QED
  BY <1>1, <1>4, <1>6, <1>7, <1>8, CronsAssumption

\* A fire starts, or its record moves on: the records of all stay records.
LEMMA StartsType ==
  ASSUME TypeOK, Starts
  PROVE  fires' \in [Fire -> Fires]
BY GoesType DEF Starts, Opening

LEMMA EndsType ==
  ASSUME TypeOK, NEW f \in Fire, Ends(f)
  PROVE  fires' \in [Fire -> Fires]
BY GoesType DEF Ends, Opened

LEMMA SpentType ==
  ASSUME TypeOK, NEW f \in Fire, Goes(f, Spends(f))
  PROVE  fires' \in [Fire -> Fires]
BY GoesType, SpendsType

LEMMA FaultType ==
  ASSUME TypeOK, Fault \/ NoFault
  PROVE  faults' \in 0 .. Faults
BY CronsAssumption DEF TypeOK, Fault, NoFault

\* The job row keeps its type while it stays, is failed, or is settled.
LEMMA FailureType ==
  ASSUME TypeOK, NEW f \in Fire,
         UNCHANGED job \/ (job # None /\ RecordFailedFire(f))
  PROVE  job' \in Jobs \cup {None} /\ (job' # None => JobType')
BY RecordFailedFireType DEF TypeOK, JobType

LEMMA InitType == Init => TypeOK /\ job \in Jobs
<1> SUFFICES ASSUME Init PROVE TypeOK /\ job \in Jobs
  OBVIOUS
<1>1. PICK kind \in Kinds, status \in Modes :
        /\ job = [kind |-> kind, status |-> status,
                  scheduled |-> ScheduledId(kind, status, 1),
                  lastRun |-> 0, lastStatus |-> "none", lastFired |-> 0]
        /\ registered = Recurs(kind, status)
        /\ pending = ScheduledRun(kind, status, 1)
  BY DEF Init
<1>2. 1 \in Id
  BY CronsAssumption DEF Id
<1>3. ScheduledId(kind, status, 1) \in Id \cup {0}
      /\ ScheduledRun(kind, status, 1) \subseteq Id
  BY <1>2 DEF ScheduledId, ScheduledRun
<1>4. job \in Jobs /\ job.lastRun = 0
  BY <1>1, <1>3 DEF Jobs, Statuses
<1>5. fires \in [Fire -> Fires] /\ runs \in [Fire -> Statuses]
  BY DEF Init, Fires, Opening, Settled, Statuses
<1>6. clock \in Nat /\ faults \in 0 .. Faults /\ changes \in 0 .. Changes
  BY CronsAssumption DEF Init
<1>7. registered \in BOOLEAN /\ cascade \in BOOLEAN
  BY <1>1 DEF Recurs, Init
<1>8. pending \subseteq Id
  BY <1>1, <1>3
<1>9. QED
  BY <1>4, <1>5, <1>6, <1>7, <1>8 DEF TypeOK

LEMMA NextType == TypeOK /\ [Next]_vars => TypeOK'
<1> SUFFICES ASSUME TypeOK, [Next]_vars PROVE TypeOK'
  OBVIOUS
<1>1. ASSUME NEW kind \in Kinds, NEW status \in Modes, Update(kind, status)
      PROVE  TypeOK'
  BY <1>1, UpdateType DEF TypeOK, Update, JobType
<1>2. CASE Remove
  BY <1>2, DeleteType DEF Remove, TypeOK
<1>3. CASE RemoveRunsCascade
  BY <1>3, WithoutType DEF RemoveRunsCascade, TypeOK, schedule, MoreRows
<1>4. CASE PruneExpiredRuns
  BY <1>4, WithoutType DEF PruneExpiredRuns, TypeOK, schedule
<1>5. CASE FireAt
  BY <1>5, StartsType DEF FireAt, TypeOK
<1>6. CASE FireRecurring
  BY <1>6, StartsType DEF FireRecurring, TypeOK, schedule
<1>7. ASSUME NEW f \in Fire, FireStep(f)
      PROVE  TypeOK'
  <2>1. CASE Dispatch(f)
    <3>1. CASE job = None /\ Ends(f) /\ registered' = FALSE /\ UNCHANGED clock
      BY <2>1, <3>1, EndsType DEF Dispatch, TypeOK
    <3>2. CASE /\ clock' = clock + 1 /\ UNCHANGED registered
               /\ fires' = [fires EXCEPT ![f].at = "reading", ![f].firedAt = clock + 1]
      <4>1. clock + 1 \in Nat /\ fires \in [Fire -> Fires]
        BY DEF TypeOK
      <4>2. [fires[f] EXCEPT !.at = "reading", !.firedAt = clock + 1] \in Fires
        BY <4>1 DEF Fires, Opening
      <4>3. fires' = [fires EXCEPT ![f] = [fires[f] EXCEPT !.at = "reading",
                                                           !.firedAt = clock + 1]]
        BY <3>2, <4>1
      <4>4. fires' \in [Fire -> Fires] /\ clock' \in Nat
        BY <3>2, <4>1, <4>2, <4>3
      <4>5. QED
        BY <2>1, <3>2, <4>4 DEF Dispatch, TypeOK
    <3>3. QED
      BY <2>1, <3>1, <3>2 DEF Dispatch
  <2>2. CASE Read(f)
    <3>1. CASE Ends(f)
      BY <2>2, <3>1, EndsType DEF Read, TypeOK, schedule
    <3>2. CASE fires' = [fires EXCEPT ![f].at = "admitting",
                                      ![f].shot = (job.kind = "at")]
      <4>1. fires \in [Fire -> Fires] /\ (job.kind = "at") \in BOOLEAN
        BY DEF TypeOK
      <4>2. [fires[f] EXCEPT !.at = "admitting", !.shot = (job.kind = "at")] \in Fires
        BY <4>1 DEF Fires, Opening
      <4>3. fires' = [fires EXCEPT ![f] = [fires[f] EXCEPT !.at = "admitting",
                                                           !.shot = (job.kind = "at")]]
        BY <3>2, <4>1
      <4>4. fires' \in [Fire -> Fires]
        BY <4>1, <4>2, <4>3
      <4>5. QED
        BY <2>2, <4>4 DEF Read, TypeOK, schedule
    <3>3. QED
      BY <2>2, <3>1, <3>2 DEF Read
  <2>3. CASE Admit(f)
    <3>1. fires' \in [Fire -> Fires]
      BY <2>3, GoesType DEF Admit, Opening
    <3>2. QED
      BY <2>3, <3>1 DEF Admit, TypeOK, schedule
  <2>4. CASE Refuse(f)
    <3>1. fires' \in [Fire -> Fires]
      BY <2>4, EndsType, SpentType DEF Refuse
    <3>2. UNCHANGED job \/ (job # None /\ RecordFailedFire(f))
      BY <2>4 DEF Refuse
    <3>3. faults' \in 0 .. Faults
      BY <2>4, FaultType DEF Refuse
    <3>4. QED
      BY <2>4, <3>1, <3>2, <3>3, FailureType DEF Refuse, TypeOK, schedule, JobType
  <2>5. CASE Open(f)
    <3>1. fires' \in [Fire -> Fires]
      BY <2>5, GoesType DEF Open, Opened
    <3>2. UNCHANGED <<job, runs>> \/ (job # None /\ CreateRun(f))
      BY <2>5 DEF Open
    <3>3. faults' \in 0 .. Faults
      BY <2>5, FaultType DEF Open
    <3>4. QED
      BY <2>5, <3>1, <3>2, <3>3, CreateRunType DEF Open, TypeOK, schedule, JobType
  <2>6. CASE MarkUnopened(f)
    <3>1. fires' \in [Fire -> Fires]
      BY <2>6, SpentType DEF MarkUnopened
    <3>2. UNCHANGED job \/ (job # None /\ RecordFailedFire(f))
      BY <2>6 DEF MarkUnopened
    <3>3. faults' \in 0 .. Faults
      BY <2>6, FaultType DEF MarkUnopened
    <3>4. QED
      BY <2>6, <3>1, <3>2, <3>3, FailureType DEF MarkUnopened, TypeOK, schedule, JobType
  <2>7. CASE Start(f)
    <3>1. fires' \in [Fire -> Fires]
      BY <2>7, GoesType DEF Start, Opened
    <3>2. QED
      BY <2>7, <3>1 DEF Start, TypeOK, schedule
  <2>8. CASE FailStart(f)
    <3>1. fires' \in [Fire -> Fires] /\ faults' \in 0 .. Faults
      BY <2>8, SpentType, FaultType DEF FailStart
    <3>2. UNCHANGED <<job, runs>> \/ SettleRun(f, "failed")
      BY <2>8 DEF FailStart
    <3>3. QED
      BY <2>8, <3>1, <3>2, SettleRunType DEF FailStart, TypeOK, schedule, JobType, Settled
  <2>9. CASE Work(f)
    <3>1. CASE Goes(f, "parked")
      <4>1. fires' \in [Fire -> Fires]
        BY <3>1, GoesType DEF Opened
      <4>2. QED
        BY <2>9, <4>1 DEF Work, TypeOK, schedule
    <3>2. ASSUME NEW outcome \in Settled,
                 fires' = [fires EXCEPT ![f].at = "settling", ![f].outcome = outcome]
          PROVE  TypeOK'
      <4>1. fires \in [Fire -> Fires]
        BY DEF TypeOK
      <4>2. [fires[f] EXCEPT !.at = "settling", !.outcome = outcome] \in Fires
        BY <3>2, <4>1 DEF Fires, Opened
      <4>3. fires' = [fires EXCEPT ![f] = [fires[f] EXCEPT !.at = "settling",
                                                           !.outcome = outcome]]
        BY <3>2, <4>1
      <4>4. fires' \in [Fire -> Fires]
        BY <4>1, <4>2, <4>3
      <4>5. QED
        BY <2>9, <4>4 DEF Work, TypeOK, schedule
    <3>3. QED
      BY <2>9, <3>1, <3>2 DEF Work
  <2>10. CASE Settle(f)
    <3>1. fires' \in [Fire -> Fires]
      BY <2>10, GoesType, SpentType DEF Settle, Opened
    <3>2. fires[f].outcome \in Settled
      BY DEF TypeOK, Fires
    <3>3. UNCHANGED <<job, runs>> \/ SettleRun(f, fires[f].outcome)
      BY <2>10 DEF Settle
    <3>4. faults' \in 0 .. Faults
      BY <2>10, FaultType DEF Settle
    <3>5. QED
      BY <2>10, <3>1, <3>2, <3>3, <3>4, SettleRunType
      DEF Settle, TypeOK, schedule, JobType
  <2>11. CASE RemoveOneShot(f)
    <3>1. fires' \in [Fire -> Fires] /\ faults' \in 0 .. Faults
      BY <2>11, EndsType, FaultType DEF RemoveOneShot
    <3>2. UNCHANGED <<job, schedule, cascade>> \/ (job # None /\ DeleteCron)
      BY <2>11 DEF RemoveOneShot
    <3>3. QED
      BY <2>11, <3>1, <3>2, DeleteType DEF RemoveOneShot, TypeOK, schedule
  <2>12. QED
    BY <1>7, <2>1, <2>2, <2>3, <2>4, <2>5, <2>6, <2>7, <2>8, <2>9, <2>10, <2>11
    DEF FireStep
<1>8. ASSUME NEW f \in Fire, Dies(f)
      PROVE  TypeOK'
  <2>1. fires' \in [Fire -> Fires] /\ faults' \in 0 .. Faults
    BY <1>8, EndsType, FaultType DEF Dies
  <2>2. QED
    BY <1>8, <2>1 DEF Dies, TypeOK, schedule
<1>9. CASE UNCHANGED vars
  BY <1>9 DEF vars, TypeOK
<1>10. QED
  BY <1>1, <1>2, <1>3, <1>4, <1>5, <1>6, <1>7, <1>8, <1>9 DEF Next

\* Every record keeps its type, for any number of fires, updates and failures.
THEOREM TypeCorrect == Spec => []TypeOK
<1>1. QED
  BY InitType, NextType, PTL DEF Spec

-----------------------------------------------------------------------------
(* The schedule follows the row.                                            *)

\* With the schedule as the row says, a job's removal leaves nothing to fire.
LEMMA NothingLeft ==
  ASSUME ScheduleInv, job # None
  PROVE  Unregistered = FALSE /\ Cancelled = {}
<1>1. job.scheduled = 0 /\ job.status = "active" <=> Recurs(job.kind, job.status)
  BY DEF ScheduleInv, IdIsNamed, TypeOK, Jobs, Kinds, Modes, Once, Recurs
<1>2. Unregistered = FALSE
  BY <1>1 DEF ScheduleInv, FiresAsTheRowSays, Unregistered
<1>3. pending \subseteq {job.scheduled}
  BY DEF ScheduleInv, FiresAsTheRowSays, ScheduledRun
<1>4. QED
  BY <1>2, <1>3 DEF Cancelled

\* A write to the job that leaves its kind, mode and scheduled run alone, or
\* that finds the job gone, disturbs nothing here.
SameSchedule ==
  /\ job' = None <=> job = None
  /\ job # None => /\ job'.kind = job.kind /\ job'.status = job.status
                   /\ job'.scheduled = job.scheduled

LEMMA SameScheduleKeeps ==
  ASSUME ScheduleInv, TypeOK', SameSchedule,
         registered' = registered \/ (job = None /\ registered' = FALSE),
         pending' \subseteq pending
  PROVE  ScheduleInv'
BY DEF ScheduleInv, SameSchedule, FiresAsTheRowSays, IdIsNamed, Once, Recurs,
       ScheduledRun

LEMMA DeleteKeeps ==
  ASSUME ScheduleInv, TypeOK', job # None, DeleteCron
  PROVE  ScheduleInv'
BY NothingLeft DEF ScheduleInv, DeleteCron, FiresAsTheRowSays, IdIsNamed

LEMMA CreateRunSchedule ==
  ASSUME TypeOK, NEW f \in Fire, job # None, CreateRun(f)
  PROVE  SameSchedule
<1>1. job \in Jobs /\ job' # None
  BY CreateRunType DEF TypeOK
<1>2. CASE job' = job
  BY <1>2 DEF SameSchedule
<1>3. CASE job' = OpenedBy(f)
  BY <1>1, <1>3 DEF OpenedBy, SameSchedule, Jobs
<1>4. QED
  BY <1>2, <1>3 DEF CreateRun

LEMMA FailureSchedule ==
  ASSUME TypeOK, NEW f \in Fire,
         UNCHANGED job \/ (job # None /\ RecordFailedFire(f))
  PROVE  SameSchedule
<1>1. CASE UNCHANGED job
  BY <1>1 DEF SameSchedule
<1>2. CASE /\ job # None /\ RecordFailedFire(f)
           /\ job' = [job EXCEPT !.lastRun = 0, !.lastStatus = "failed",
                                 !.lastFired = fires[f].firedAt]
  <2>1. job \in Jobs /\ job' # None
    BY <1>2, RecordFailedFireType DEF TypeOK
  <2>2. QED
    BY <1>2, <2>1 DEF SameSchedule, Jobs
<1>3. QED
  BY <1>1, <1>2 DEF RecordFailedFire

LEMMA SettleRunSchedule ==
  ASSUME TypeOK, NEW f \in Fire, NEW status \in Settled,
         UNCHANGED <<job, runs>> \/ SettleRun(f, status)
  PROVE  SameSchedule
<1>1. CASE UNCHANGED job
  BY <1>1 DEF SameSchedule
<1>2. CASE job # None /\ job' = [job EXCEPT !.lastStatus = status]
  <2>1. job \in Jobs /\ job' \in Jobs
    BY <1>2 DEF TypeOK, Jobs, Statuses, Settled
  <2>2. QED
    BY <1>2, <2>1, CronsAssumption DEF SameSchedule, Jobs
<1>3. QED
  BY <1>1, <1>2 DEF SettleRun

LEMMA UpdateSchedule ==
  ASSUME ScheduleInv, TypeOK',
         NEW kind \in Kinds, NEW status \in Modes, Update(kind, status)
  PROVE  ScheduleInv'
<1> DEFINE id == changes + 2
<1>0. TypeOK
  BY DEF ScheduleInv
<1>1. job # None /\ job \in Jobs /\ id # 0 /\ job' # None
  <2>1. job # None /\ job \in Jobs
    BY <1>0 DEF TypeOK, Update
  <2>2. id # 0
    BY <1>0, CronsAssumption DEF TypeOK
  <2>3. job' # None
    BY <1>0, UpdateType
  <2>4. QED
    BY <2>1, <2>2, <2>3
<1>2. /\ job'.kind = kind /\ job'.status = status
      /\ job'.scheduled = ScheduledId(kind, status, id)
  BY <1>1 DEF Update, UpdatedId, Jobs
<1>3. /\ registered' = Recurs(kind, status)
      /\ pending' = ScheduledRun(kind, status, id)
  BY <1>1, NothingLeft DEF Update, Recurs
<1>4. QED
  BY <1>1, <1>2, <1>3
  DEF ScheduleInv, FiresAsTheRowSays, IdIsNamed, ScheduledId, ScheduledRun

LEMMA InitSchedule == Init => ScheduleInv
<1> SUFFICES ASSUME Init PROVE ScheduleInv
  OBVIOUS
<1>1. TypeOK /\ job # None
  BY InitType, CronsAssumption
<1>2. PICK kind \in Kinds, status \in Modes :
        /\ job = [kind |-> kind, status |-> status,
                  scheduled |-> ScheduledId(kind, status, 1),
                  lastRun |-> 0, lastStatus |-> "none", lastFired |-> 0]
        /\ registered = Recurs(kind, status)
        /\ pending = ScheduledRun(kind, status, 1)
  BY DEF Init
<1>3. job.kind = kind /\ job.status = status
      /\ job.scheduled = ScheduledId(kind, status, 1)
  BY <1>2
<1>4. QED
  BY <1>1, <1>2, <1>3
  DEF ScheduleInv, FiresAsTheRowSays, IdIsNamed, ScheduledId, ScheduledRun

LEMMA NextSchedule == ScheduleInv /\ [Next]_vars => ScheduleInv'
<1> SUFFICES ASSUME ScheduleInv, [Next]_vars PROVE ScheduleInv'
  OBVIOUS
<1>0. TypeOK /\ TypeOK'
  BY NextType DEF ScheduleInv
<1>1. ASSUME NEW kind \in Kinds, NEW status \in Modes, Update(kind, status)
      PROVE  ScheduleInv'
  BY <1>0, <1>1, UpdateSchedule
<1>2. CASE Remove
  BY <1>0, <1>2, DeleteKeeps DEF Remove
<1>3. CASE RemoveRunsCascade \/ PruneExpiredRuns
  BY <1>0, <1>3, SameScheduleKeeps
  DEF RemoveRunsCascade, PruneExpiredRuns, schedule, SameSchedule
<1>4. CASE FireAt \/ FireRecurring
  BY <1>0, <1>4, SameScheduleKeeps
  DEF FireAt, FireRecurring, schedule, SameSchedule
<1>5. ASSUME NEW f \in Fire, FireStep(f)
      PROVE  ScheduleInv'
  <2>1. CASE Dispatch(f)
    BY <1>0, <2>1, SameScheduleKeeps DEF Dispatch, SameSchedule
  <2>2. CASE Read(f) \/ Admit(f) \/ Start(f) \/ Work(f)
    BY <1>0, <2>2, SameScheduleKeeps
    DEF Read, Admit, Start, Work, schedule, SameSchedule
  <2>3. CASE Refuse(f) \/ MarkUnopened(f)
    <3>1. UNCHANGED job \/ (job # None /\ RecordFailedFire(f))
      BY <2>3 DEF Refuse, MarkUnopened
    <3>2. SameSchedule
      BY <1>0, <3>1, FailureSchedule
    <3>3. QED
      BY <1>0, <2>3, <3>2, SameScheduleKeeps DEF Refuse, MarkUnopened, schedule
  <2>4. CASE Open(f)
    <3>1. UNCHANGED job \/ (job # None /\ CreateRun(f))
      BY <2>4 DEF Open
    <3>2. SameSchedule
      BY <1>0, <3>1, CreateRunSchedule DEF SameSchedule
    <3>3. QED
      BY <1>0, <2>4, <3>2, SameScheduleKeeps DEF Open, schedule
  <2>5. CASE FailStart(f) \/ Settle(f)
    <3>1. fires[f].outcome \in Settled /\ "failed" \in Settled
      BY <1>0 DEF TypeOK, Fires, Settled
    <3>2. \/ UNCHANGED <<job, runs>> \/ SettleRun(f, "failed")
          \/ SettleRun(f, fires[f].outcome)
      BY <2>5 DEF FailStart, Settle
    <3>3. SameSchedule
      BY <1>0, <3>1, <3>2, SettleRunSchedule
    <3>4. QED
      BY <1>0, <2>5, <3>3, SameScheduleKeeps DEF FailStart, Settle, schedule
  <2>6. CASE RemoveOneShot(f)
    <3>1. CASE job # None /\ DeleteCron
      BY <1>0, <3>1, DeleteKeeps
    <3>2. CASE UNCHANGED <<job, schedule, cascade>>
      BY <1>0, <3>2, SameScheduleKeeps DEF schedule, SameSchedule
    <3>3. QED
      BY <2>6, <3>1, <3>2 DEF RemoveOneShot
  <2>7. QED
    BY <1>5, <2>1, <2>2, <2>3, <2>4, <2>5, <2>6 DEF FireStep
<1>6. ASSUME NEW f \in Fire, Dies(f)
      PROVE  ScheduleInv'
  BY <1>0, <1>6, SameScheduleKeeps DEF Dies, schedule, SameSchedule
<1>7. CASE UNCHANGED vars
  BY <1>0, <1>7, SameScheduleKeeps DEF vars, SameSchedule
<1>8. QED
  BY <1>1, <1>2, <1>3, <1>4, <1>5, <1>6, <1>7 DEF Next

\* What will fire is what the job's row says, for any number of updates, fires
\* and failures: the schedule and the row never drift apart.
THEOREM ScheduleSafe == Spec => []FiresAsTheRowSays
<1>1. ScheduleInv => FiresAsTheRowSays
  BY DEF ScheduleInv
<1>2. QED
  BY <1>1, InitSchedule, NextSchedule, PTL DEF Spec

-----------------------------------------------------------------------------
(* The job shows its latest fire.                                           *)

\* Fires keep their time, and none goes back to before its row.
Moves ==
  \A g \in Fire :
    /\ fires'[g].firedAt = fires[g].firedAt
    /\ fires'[g].at \in Opening => fires[g].at \in Opening

\* A write that leaves what the job shows alone, or removes it.
SameShown ==
  job' # None => /\ job # None /\ job'.lastRun = job.lastRun
                 /\ job'.lastStatus = job.lastStatus
                 /\ job'.lastFired = job.lastFired

Shrinks == \A g \in Fire : runs'[g] \in {runs[g], "none"}

LEMMA SetsApart == \A at \in Opened : at \notin Opening
BY DEF Opened, Opening

LEMMA StaysMoves ==
  ASSUME UNCHANGED fires
  PROVE  Moves
BY DEF Moves

LEMMA GoesMoves ==
  ASSUME TypeOK, NEW f \in Fire, NEW at \in Opening \cup Opened, Goes(f, at),
         at \in Opened \/ fires[f].at \in Opening
  PROVE  Moves /\ fires'[f].at = at
<1>1. fires \in [Fire -> Fires]
  BY DEF TypeOK
<1>2. fires'[f].at = at /\ fires'[f].firedAt = fires[f].firedAt
  BY <1>1 DEF Goes, Fires
<1>3. \A g \in Fire \ {f} : fires'[g] = fires[g]
  BY <1>1 DEF Goes
<1>4. QED
  BY <1>2, <1>3, SetsApart DEF Moves

LEMMA EndsMoves ==
  ASSUME TypeOK, NEW f \in Fire, Ends(f) \/ Goes(f, Spends(f))
  PROVE  Moves
BY GoesMoves, SpendsType DEF Ends, Opened

LEMMA QuietKeeps ==
  ASSUME StatusInv, TypeOK', Moves, SameShown, Shrinks
  PROVE  StatusInv'
<1>1. LastStatusIsLatest'
  <2> SUFFICES ASSUME job' # None PROVE LastStatusIsLatest'
    BY DEF LastStatusIsLatest
  <2>1. /\ job # None /\ job'.lastRun = job.lastRun
        /\ job'.lastStatus = job.lastStatus /\ job'.lastFired = job.lastFired
    BY DEF SameShown
  <2>2. job.lastRun # 0 => job.lastRun \in Fire
    BY <2>1 DEF StatusInv, TypeOK, Jobs
  <2>3. Rows' \subseteq Rows
    BY DEF Rows, Shrinks
  <2>4. QED
    BY <2>1, <2>2, <2>3 DEF StatusInv, LastStatusIsLatest, Moves, Shrinks, Rows
<1>2. Unopened'
  BY DEF StatusInv, Unopened, Moves, SameShown, Shrinks
<1>3. QED
  BY <1>1, <1>2 DEF StatusInv

LEMMA CreateRunKeeps ==
  ASSUME StatusInv, TypeOK', NEW f \in Fire, fires[f].at = "opening",
         job # None, CreateRun(f), Moves, fires'[f].at \in Opened
  PROVE  StatusInv'
<1>1. /\ job \in Jobs /\ fires \in [Fire -> Fires] /\ runs \in [Fire -> Statuses]
  BY DEF StatusInv, TypeOK
<1>2. job.lastRun # f /\ runs[f] = "none"
  BY DEF StatusInv, Unopened, Opening
<1>3. runs'[f] = "started" /\ \A g \in Fire \ {f} : runs'[g] = runs[g]
  BY <1>1 DEF CreateRun
<1>4. Rows' = Rows \cup {f}
  BY <1>2, <1>3 DEF Rows
<1>5. /\ \A g \in Fire : fires[g].firedAt \in Nat
      /\ job.lastFired \in Nat /\ job.lastRun \in Fire \cup {0}
  BY <1>1 DEF Fires, Jobs
<1>6. CASE IsLatestFire(f)
  <2>1. job' = OpenedBy(f)
    BY <1>6 DEF CreateRun
  <2>2. /\ job'.lastRun = f /\ job'.lastStatus = "started"
        /\ job'.lastFired = fires[f].firedAt
    BY <1>1, <2>1 DEF OpenedBy, Jobs
  <2>3. \A g \in Rows' : fires'[g].firedAt <= job'.lastFired
    BY <1>4, <1>5, <1>6, <2>2
    DEF StatusInv, LastStatusIsLatest, Rows, Moves, IsLatestFire
  <2>4. f # 0
    BY FireNumbers
  <2>5. LastStatusIsLatest'
    BY <1>3, <2>2, <2>3, <2>4 DEF LastStatusIsLatest, Moves
  <2>6. Unopened'
    BY <1>3, <2>2, SetsApart DEF StatusInv, Unopened, Moves
  <2>7. QED
    BY <2>5, <2>6 DEF StatusInv
<1>7. CASE ~IsLatestFire(f)
  <2>1. job' = job
    BY <1>7 DEF CreateRun
  <2>2. fires[f].firedAt <= job.lastFired
    BY <1>5, <1>7 DEF IsLatestFire
  <2>3. \A g \in Rows' : fires'[g].firedAt <= job'.lastFired
    BY <1>4, <2>1, <2>2 DEF StatusInv, LastStatusIsLatest, Rows, Moves
  <2>4. LastStatusIsLatest'
    BY <1>2, <1>3, <1>5, <2>1, <2>3 DEF StatusInv, LastStatusIsLatest, Moves
  <2>5. Unopened'
    BY <1>3, <2>1, SetsApart DEF StatusInv, Unopened, Moves
  <2>6. QED
    BY <2>4, <2>5 DEF StatusInv
<1>8. QED
  BY <1>6, <1>7

LEMMA FailureKeeps ==
  ASSUME StatusInv, TypeOK', NEW f \in Fire, job # None, RecordFailedFire(f),
         Moves, UNCHANGED runs
  PROVE  StatusInv'
<1>1. CASE ~IsLatestFire(f)
  BY <1>1, QuietKeeps DEF RecordFailedFire, SameShown, Shrinks
<1>2. CASE IsLatestFire(f)
  <2>1. /\ job \in Jobs /\ fires[f].firedAt \in Nat /\ job.lastFired \in Nat
        /\ \A g \in Fire : fires[g].firedAt \in Nat
    BY DEF StatusInv, TypeOK, Jobs, Fires
  <2>2. job'.lastRun = 0 /\ job'.lastStatus = "failed"
        /\ job'.lastFired = fires[f].firedAt
    BY <1>2, <2>1 DEF RecordFailedFire, Jobs
  <2>3. \A g \in Rows' : fires'[g].firedAt <= job'.lastFired
    BY <1>2, <2>1, <2>2
    DEF StatusInv, LastStatusIsLatest, Rows, Moves, IsLatestFire
  <2>4. LastStatusIsLatest'
    BY <2>2, <2>3 DEF LastStatusIsLatest
  <2>5. Unopened'
    BY <2>2, FireNumbers DEF StatusInv, Unopened, Moves
  <2>6. QED
    BY <2>4, <2>5 DEF StatusInv
<1>3. QED
  BY <1>1, <1>2

LEMMA SettleRunKeeps ==
  ASSUME StatusInv, TypeOK', NEW f \in Fire, NEW status \in Settled,
         SettleRun(f, status), Moves
  PROVE  StatusInv'
<1>1. CASE runs[f] # "started"
  BY <1>1, QuietKeeps DEF SettleRun, SameShown, Shrinks
<1>2. CASE runs[f] = "started"
  <2>1. /\ runs \in [Fire -> Statuses] /\ status # "none"
        /\ runs' = [runs EXCEPT ![f] = status]
    BY <1>2 DEF StatusInv, TypeOK, SettleRun, Settled
  <2>2. runs'[f] = status /\ \A g \in Fire \ {f} : runs'[g] = runs[g]
    BY <2>1
  <2>3. Rows' = Rows
    BY <1>2, <2>1, <2>2 DEF Rows
  <2>4. fires'[f].at \notin Opening
    BY <1>2 DEF StatusInv, Unopened, Moves
  <2>5. CASE job # None /\ job.lastRun = f
    <3>1. job \in Jobs /\ job' = [job EXCEPT !.lastStatus = status]
      BY <1>2, <2>5 DEF StatusInv, TypeOK, SettleRun
    <3>2. /\ job'.lastRun = job.lastRun /\ job'.lastFired = job.lastFired
          /\ job'.lastStatus = status /\ f # 0
      BY <3>1, FireNumbers DEF Jobs
    <3>3. LastStatusIsLatest'
      BY <2>2, <2>3, <2>5, <3>2
      DEF StatusInv, LastStatusIsLatest, Rows, Moves
    <3>4. Unopened'
      BY <2>2, <2>4, <2>5, <3>2 DEF StatusInv, Unopened, Moves
    <3>5. QED
      BY <3>3, <3>4 DEF StatusInv
  <2>6. CASE ~(job # None /\ job.lastRun = f)
    <3>1. job' = job /\ (job # None => job.lastRun \in Fire \cup {0})
      BY <1>2, <2>6 DEF StatusInv, TypeOK, Jobs, SettleRun
    <3>2. LastStatusIsLatest'
      BY <2>2, <2>3, <2>6, <3>1
      DEF StatusInv, LastStatusIsLatest, Rows, Moves
    <3>3. Unopened'
      BY <2>2, <2>4, <3>1 DEF StatusInv, Unopened, Moves
    <3>4. QED
      BY <3>2, <3>3 DEF StatusInv
  <2>7. QED
    BY <2>5, <2>6
<1>3. QED
  BY <1>1, <1>2

LEMMA DispatchKeeps ==
  ASSUME StatusInv, TypeOK', NEW f \in Fire, Dispatch(f)
  PROVE  StatusInv'
<1>1. fires \in [Fire -> Fires] /\ UNCHANGED <<job, runs>>
  BY DEF StatusInv, TypeOK, Dispatch
<1>2. CASE Ends(f)
  BY <1>1, <1>2, EndsMoves, QuietKeeps DEF StatusInv, SameShown, Shrinks
<1>3. CASE fires' = [fires EXCEPT ![f].at = "reading", ![f].firedAt = clock + 1]
  <2>1. fires[f].at \in Opening
    BY DEF Dispatch, Opening
  <2>2. \A g \in Fire \ {f} : fires'[g] = fires[g]
    BY <1>1, <1>3
  <2>3. runs[f] = "none" /\ (job # None => job.lastRun # f)
    BY <2>1 DEF StatusInv, Unopened
  <2>4. job # None => job.lastRun \in Fire \cup {0}
    BY DEF StatusInv, TypeOK, Jobs
  <2>5. LastStatusIsLatest'
    BY <1>1, <2>2, <2>3, <2>4 DEF StatusInv, LastStatusIsLatest, Rows
  <2>6. Unopened'
    BY <1>1, <2>2, <2>3 DEF StatusInv, Unopened
  <2>7. QED
    BY <2>5, <2>6 DEF StatusInv
<1>4. QED
  BY <1>2, <1>3 DEF Dispatch

LEMMA InitStatus == Init => StatusInv
<1> SUFFICES ASSUME Init PROVE StatusInv
  OBVIOUS
<1>1. TypeOK /\ job \in Jobs
  BY InitType
<1>2. job.lastRun = 0 /\ job.lastFired = 0
  BY DEF Init
<1>3. \A f \in Fire : runs[f] = "none"
  BY DEF Init
<1>4. QED
  BY <1>1, <1>2, <1>3, FireNumbers
  DEF StatusInv, LastStatusIsLatest, Unopened, Rows

LEMMA NextStatus == StatusInv /\ [Next]_vars => StatusInv'
<1> SUFFICES ASSUME StatusInv, [Next]_vars PROVE StatusInv'
  OBVIOUS
<1>0. TypeOK /\ TypeOK'
  BY NextType DEF StatusInv
<1>1. ASSUME NEW kind \in Kinds, NEW status \in Modes, Update(kind, status)
      PROVE  StatusInv'
  <2>1. job # None /\ job \in Jobs
    BY <1>0, <1>1 DEF Update, TypeOK
  <2>2. SameShown
    BY <1>1, <2>1 DEF Update, SameShown, Jobs
  <2>3. QED
    BY <1>0, <1>1, <2>2, StaysMoves, QuietKeeps DEF Update, Shrinks
<1>2. CASE Remove
  BY <1>0, <1>2, StaysMoves, QuietKeeps
  DEF Remove, DeleteCron, SameShown, Shrinks
<1>3. CASE RemoveRunsCascade \/ PruneExpiredRuns
  <2>1. Shrinks
    BY <1>3 DEF RemoveRunsCascade, PruneExpiredRuns, Shrinks, Without
  <2>2. QED
    BY <1>0, <1>3, <2>1, StaysMoves, QuietKeeps
    DEF RemoveRunsCascade, PruneExpiredRuns, SameShown
<1>4. CASE FireAt \/ FireRecurring
  <2>1. PICK f \in Fire : fires[f].at = "waiting" /\ Goes(f, "live")
    BY <1>4 DEF FireAt, FireRecurring, Starts
  <2>2. Moves
    BY <1>0, <2>1, GoesMoves DEF Opening
  <2>3. QED
    BY <1>0, <1>4, <2>2, QuietKeeps
    DEF FireAt, FireRecurring, SameShown, Shrinks
<1>5. ASSUME NEW f \in Fire, FireStep(f)
      PROVE  StatusInv'
  <2>1. CASE Dispatch(f)
    BY <1>0, <2>1, DispatchKeeps
  <2>2. CASE Read(f)
    <3>1. CASE Ends(f)
      BY <1>0, <2>2, <3>1, EndsMoves, QuietKeeps DEF Read, SameShown, Shrinks
    <3>2. CASE fires' = [fires EXCEPT ![f].at = "admitting",
                                      ![f].shot = (job.kind = "at")]
      <4>1. Moves
        BY <1>0, <2>2, <3>2 DEF Read, Moves, TypeOK, Fires, Opening
      <4>2. QED
        BY <1>0, <2>2, <4>1, QuietKeeps DEF Read, SameShown, Shrinks
    <3>3. QED
      BY <2>2, <3>1, <3>2 DEF Read
  <2>3. CASE Admit(f)
    <3>1. Moves
      BY <1>0, <2>3, GoesMoves DEF Admit, Opening
    <3>2. QED
      BY <1>0, <2>3, <3>1, QuietKeeps DEF Admit, SameShown, Shrinks
  <2>4. CASE Refuse(f) \/ MarkUnopened(f)
    <3>1. Moves
      BY <1>0, <2>4, EndsMoves DEF Refuse, MarkUnopened
    <3>2. UNCHANGED job \/ (job # None /\ RecordFailedFire(f))
      BY <2>4 DEF Refuse, MarkUnopened
    <3>3. UNCHANGED runs
      BY <2>4 DEF Refuse, MarkUnopened
    <3>4. QED
      BY <1>0, <3>1, <3>2, <3>3, QuietKeeps, FailureKeeps DEF SameShown, Shrinks
  <2>5. CASE Open(f)
    <3>1. Goes(f, "unopened") \/ Goes(f, "starting")
      BY <2>5 DEF Open
    <3>2. Moves /\ fires'[f].at \in Opened
      BY <1>0, <3>1, GoesMoves DEF Opened
    <3>3. UNCHANGED <<job, runs>> \/ (job # None /\ CreateRun(f))
      BY <2>5 DEF Open
    <3>4. fires[f].at = "opening"
      BY <2>5 DEF Open
    <3>5. QED
      BY <1>0, <3>2, <3>3, <3>4, QuietKeeps, CreateRunKeeps DEF SameShown, Shrinks
  <2>6. CASE Start(f)
    <3>1. Moves
      BY <1>0, <2>6, GoesMoves DEF Start, Opened
    <3>2. QED
      BY <1>0, <2>6, <3>1, QuietKeeps DEF Start, SameShown, Shrinks
  <2>7. CASE FailStart(f)
    <3>1. Moves /\ "failed" \in Settled
      BY <1>0, <2>7, EndsMoves DEF FailStart, Settled
    <3>2. UNCHANGED <<job, runs>> \/ SettleRun(f, "failed")
      BY <2>7 DEF FailStart
    <3>3. QED
      BY <1>0, <3>1, <3>2, QuietKeeps, SettleRunKeeps DEF SameShown, Shrinks
  <2>8. CASE Work(f)
    <3>1. CASE Goes(f, "parked")
      <4>1. Moves
        BY <1>0, <3>1, GoesMoves DEF Opened
      <4>2. QED
        BY <1>0, <2>8, <4>1, QuietKeeps DEF Work, SameShown, Shrinks
    <3>2. ASSUME NEW outcome \in Settled,
                 fires' = [fires EXCEPT ![f].at = "settling", ![f].outcome = outcome]
          PROVE  StatusInv'
      <4>1. Moves
        BY <1>0, <3>2 DEF Moves, TypeOK, Fires, Opening
      <4>2. QED
        BY <1>0, <2>8, <4>1, QuietKeeps DEF Work, SameShown, Shrinks
    <3>3. QED
      BY <2>8, <3>1, <3>2 DEF Work
  <2>9. CASE Settle(f)
    <3>1. Moves
      BY <1>0, <2>9, GoesMoves, EndsMoves DEF Settle, Opened
    <3>2. fires[f].outcome \in Settled
      BY <1>0 DEF TypeOK, Fires
    <3>3. UNCHANGED <<job, runs>> \/ SettleRun(f, fires[f].outcome)
      BY <2>9 DEF Settle
    <3>4. QED
      BY <1>0, <3>1, <3>2, <3>3, QuietKeeps, SettleRunKeeps DEF SameShown, Shrinks
  <2>10. CASE RemoveOneShot(f)
    <3>1. Moves
      BY <1>0, <2>10, EndsMoves DEF RemoveOneShot
    <3>2. SameShown
      BY <2>10 DEF RemoveOneShot, DeleteCron, SameShown
    <3>3. QED
      BY <1>0, <2>10, <3>1, <3>2, QuietKeeps DEF RemoveOneShot, Shrinks
  <2>11. QED
    BY <1>5, <2>1, <2>2, <2>3, <2>4, <2>5, <2>6, <2>7, <2>8, <2>9, <2>10
    DEF FireStep
<1>6. ASSUME NEW f \in Fire, Dies(f)
      PROVE  StatusInv'
  BY <1>0, <1>6, EndsMoves, QuietKeeps DEF Dies, SameShown, Shrinks
<1>7. CASE UNCHANGED vars
  BY <1>0, <1>7, StaysMoves, QuietKeeps DEF vars, SameShown, Shrinks
<1>8. QED
  BY <1>1, <1>2, <1>3, <1>4, <1>5, <1>6, <1>7 DEF Next

\* Whatever the order the writes of overlapping fires land in, the job shows the
\* latest fire: for any number of fires, updates and failures.
THEOREM LatestShown == Spec => []LastStatusIsLatest
<1>1. StatusInv => LastStatusIsLatest
  BY DEF StatusInv
<1>2. QED
  BY <1>1, InitStatus, NextStatus, PTL DEF Spec

=============================================================================
