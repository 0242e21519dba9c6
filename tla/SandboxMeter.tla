---------------------------- MODULE SandboxMeter ----------------------------
(***************************************************************************)
(* What a sandbox costs.  Its row (sandbox/instances.ts) says since when it  *)
(* is unbilled; a use, a status change, a size report, the hourly cron and    *)
(* the removal each bill the stretch up to their time by the interval         *)
(* arithmetic of model/usageMeter.ts, and a use soon after the last bill      *)
(* leaves its stretch to a later one.  The reference is the machine, tick by  *)
(* tick: what it did in a tick is due once, at the size it had then.          *)
(***************************************************************************)
EXTENDS Integers

CONSTANTS
  Sizes,       \* sizes a row may say; a MicroVM is billed at its own
  Idles,       \* idle timeouts a sandbox may be given
  Life,        \* MICROVM_MAX_LIFETIME_MS
  CallMax,     \* ephemeralSandboxMaxMs
  BillEvery,   \* REFRESH_BILL_EVERY_MS
  Lookback,    \* ACCRUE_LOOKBACK_MS
  Horizon      \* bound on the clock

ASSUME SandboxMeterAssumption ==
  /\ Sizes \cap {"nothing", "stored", "overbilled"} = {} /\ "baseline" \in Sizes
  /\ Idles \subseteq Nat /\ Life \in Nat /\ CallMax \in Nat
  /\ BillEvery \in Nat /\ Lookback \in Nat /\ Horizon \in Nat

VARIABLES
  now,      \* the clock
  row,      \* the row of the reservation key, or NoRow
  lastUse,  \* when the machine was last used
  owed,     \* per tick: what the machine did in it and no bill had
  page,     \* the time a running hourly accrual bills up to, or -1
  stale     \* the time of its pending sweep of ephemeral rows, or -1

vars == <<now, row, lastUse, owed, page, stale>>

Billed == {"running", "suspending"}
Status == Billed \cup {"suspended", "error"}
Rows == [lambda : BOOLEAN, ephemeral : BOOLEAN, own : BOOLEAN,
         status : Status, used : 0 .. Horizon, metered : 0 .. Horizon,
         size : Sizes, verified : BOOLEAN, idle : Idles]
NoRow == [status |-> "none"]
Charges == Sizes \cup {"nothing", "stored"}

TypeOK ==
  /\ now \in 0 .. Horizon
  /\ row \in Rows \cup {NoRow}
  /\ row # NoRow => row.metered <= now
  /\ lastUse \in 0 .. Horizon
  /\ owed \in [1 .. Horizon -> Charges \cup {"overbilled"}]
  /\ page \in -1 .. now /\ stale \in -1 .. now

Init ==
  /\ now = 0 /\ row = NoRow /\ lastUse = 0 /\ page = -1 /\ stale = -1
  /\ owed = [t \in 1 .. Horizon |-> "nothing"]

-----------------------------------------------------------------------------
(* The machine.  It runs until its idle timeout, which may be longer than a   *)
(* MicroVM lives; a MicroVM that is suspended is stored until it dies, and an  *)
(* ephemeral one lives for its call.                                           *)

Least(a, b) == IF a < b THEN a ELSE b
Most(a, b) == IF a < b THEN b ELSE a

BilledSize(r) == IF r.lambda THEN "baseline" ELSE r.size

\* For how long after a use it runs.
RunsFor(r) ==
  CASE r.ephemeral -> CallMax
    [] r.lambda /\ ~r.ephemeral -> Least(r.idle, Life)
    [] OTHER -> r.idle

\* What the tick that ends at t is due of a machine last used then.
DueIn(r, used, t) ==
  IF r = NoRow \/ r.own \/ r.status = "error" THEN "nothing"
  ELSE IF r.status \in Billed /\ t <= used + RunsFor(r) THEN BilledSize(r)
  ELSE IF r.lambda /\ ~r.ephemeral /\ t <= used + Life THEN "stored"
  ELSE "nothing"

\* A MicroVM past its life is gone: another is launched in its place.
Lives(r) == r.lambda => now <= lastUse + Life

Tick ==
  /\ now < Horizon
  /\ now' = now + 1
  /\ owed' = [owed EXCEPT ![now + 1] = DueIn(row, lastUse, now + 1)]
  /\ UNCHANGED <<row, lastUse, page, stale>>

-----------------------------------------------------------------------------
(* Bills.                                                                    *)

\* sandboxAccrual: until when the machine lived, ran and was stored.
AliveUntil(r, at) ==
  IF r.ephemeral THEN Least(at, r.used + CallMax)
  ELSE IF r.lambda THEN Least(at, r.used + Life) ELSE at
IdleUntil(r, at) == IF r.ephemeral THEN AliveUntil(r, at) ELSE r.used + r.idle
Free(r) == r.own \/ r.status = "error"

RunningUntil(r, at) ==
  IF Free(r) \/ r.status \notin Billed THEN r.metered
  ELSE Most(r.metered, Least(AliveUntil(r, at), IdleUntil(r, at)))

StoredUntil(r, at) ==
  IF r.lambda /\ ~r.ephemeral /\ ~Free(r)
  THEN Most(RunningUntil(r, at), AliveUntil(r, at))
  ELSE RunningUntil(r, at)

\* A bill settles what is owed; any other is one too many.
Charge(t, what) == IF owed[t] = what THEN "nothing" ELSE "overbilled"

\* accrue: both stretches land on the meter.
Accrue(r, at) ==
  owed' = [t \in 1 .. Horizon |->
    CASE r.metered < t /\ t <= RunningUntil(r, at) -> Charge(t, BilledSize(r))
      [] RunningUntil(r, at) < t /\ t <= StoredUntil(r, at) -> Charge(t, "stored")
      [] OTHER -> owed[t]]

-----------------------------------------------------------------------------
(* Writes of the row.                                                        *)

\* upsert of a key without a row.  Bound: an ephemeral call ends in time.
Launch(lambda, ephemeral, own, size, verified, idle) ==
  /\ row = NoRow
  /\ ephemeral => now + CallMax < Horizon
  /\ row' = [lambda |-> lambda, ephemeral |-> ephemeral, own |-> own,
             status |-> "running", used |-> now, metered |-> now,
             size |-> size, verified |-> verified, idle |-> idle]
  /\ lastUse' = now
  /\ UNCHANGED <<now, owed, page, stale>>

\* keptVerifiedSize: a write without a size keeps the one that was reported.
Refreshed(r, own, size, verified, idle, replaced) ==
  LET kept == ~replaced /\ r.verified /\ ~verified IN
  [r EXCEPT !.status = "running", !.used = now, !.own = own, !.idle = idle,
            !.size = IF kept THEN r.size ELSE size,
            !.verified = kept \/ verified]

Relaunched(r, replaced) ==
  replaced \/ r.status = "suspended" \/ now > r.used + r.idle

\* Mutant: any refresh within the minute waits.
DeferredAnySize(r, next, replaced) ==
  /\ ~Relaunched(r, replaced) /\ r.status = "running"
  /\ now - r.metered < BillEvery

\* billRefresh: a machine that went on as it was last billed may wait.
Deferred(r, next, replaced) ==
  /\ ~Relaunched(r, replaced) /\ r.status = "running"
  /\ now - r.metered < BillEvery
  /\ next.size = r.size /\ next.own = r.own

\* Mutant: the stretch that waits is forgotten.
BillOrForget(r, next, replaced) ==
  IF Deferred(r, next, replaced)
  THEN row' = [next EXCEPT !.metered = now] /\ UNCHANGED owed
  ELSE row' = [next EXCEPT !.metered = now] /\ Accrue(r, now)

BillRefresh(r, next, replaced) ==
  IF Deferred(r, next, replaced) THEN row' = next /\ UNCHANGED owed
  ELSE row' = [next EXCEPT !.metered = now] /\ Accrue(r, now)

\* An ephemeral row has a key of its own, which no later call names.

\* upsert: every command, and a machine put in the place of one that is gone.
Upsert(own, size, verified, idle, replaced) ==
  /\ row # NoRow /\ ~row.ephemeral /\ (replaced \/ Lives(row))
  /\ BillRefresh(row, Refreshed(row, own, size, verified, idle, replaced),
                 replaced)
  /\ lastUse' = now
  /\ UNCHANGED <<now, page, stale>>

\* setStatus: only a use moves lastUsedAt.
WriteStatus(status, observed) ==
  /\ row # NoRow /\ ~row.ephemeral
  /\ Accrue(row, now)
  /\ row' = [row EXCEPT !.metered = now, !.status = status,
               !.used = IF status = "running" /\ ~observed THEN now ELSE @]
  /\ UNCHANGED <<now, page, stale>>

\* A refresh writes what the provider says.
Refresh(status) ==
  /\ status # "suspending" /\ WriteStatus(status, TRUE)
  /\ UNCHANGED lastUse

\* markInstance, then suspendOrResumeSandbox once the provider suspended it.
Suspend(status) ==
  /\ status \in {"suspending", "suspended"} /\ WriteStatus(status, FALSE)
  /\ UNCHANGED lastUse

\* suspendSandbox: the call failed, the mark is taken back.
SuspendFailed ==
  /\ row.status = "suspending" /\ WriteStatus("running", FALSE)
  /\ UNCHANGED lastUse

\* suspendOrResumeSandbox, openSandboxTerminal.
Resume ==
  /\ WriteStatus("running", FALSE) /\ Lives(row)
  /\ lastUse' = now

\* setSpecs: a late size report.
SetSpecs(size) ==
  /\ row # NoRow
  /\ Accrue(row, now)
  /\ row' = [row EXCEPT !.size = size, !.verified = TRUE, !.metered = now]
  /\ UNCHANGED <<now, lastUse, page, stale>>

Remove ==
  /\ row # NoRow
  /\ Accrue(row, now)
  /\ row' = NoRow
  /\ UNCHANGED <<now, lastUse, page, stale>>

-----------------------------------------------------------------------------
(* The hourly cron.  Its pages and the sweep it schedules all use the time of *)
(* the first, while the rows go on being written.                            *)

AccrueRecent ==
  /\ page = -1 /\ stale = -1
  /\ page' = now /\ stale' = now
  /\ UNCHANGED <<now, row, lastUse, owed>>

AccruePage ==
  /\ page # -1
  /\ page' = -1
  /\ IF row # NoRow /\ row.used >= page - Lookback
     THEN Accrue(row, page) /\ row' = [row EXCEPT !.metered = StoredUntil(row, page)]
     ELSE UNCHANGED <<row, owed>>
  /\ UNCHANGED <<now, lastUse, stale>>

\* Mutant: the sweep looks at rows of reserved sandboxes only.
LeavesEphemeral(r, at) == FALSE

IsStale(r, at) == r # NoRow /\ r.ephemeral /\ r.used < at - CallMax

SweepStaleEphemeral ==
  /\ stale # -1
  /\ stale' = -1
  /\ IF IsStale(row, stale) THEN Accrue(row, stale) /\ row' = NoRow
     ELSE UNCHANGED <<row, owed>>
  /\ UNCHANGED <<now, lastUse, page>>

-----------------------------------------------------------------------------

Next ==
  \/ Tick \/ Remove \/ AccrueRecent \/ AccruePage \/ SweepStaleEphemeral
  \/ \E own, verified, flag \in BOOLEAN, size \in Sizes, idle \in Idles :
       \/ Upsert(own, size, verified, idle, flag)
       \/ \E lambda \in BOOLEAN :
            Launch(lambda, flag, own, size, verified, idle)
  \/ \E status \in Status : Refresh(status) \/ Suspend(status)
  \/ SuspendFailed \/ Resume
  \/ \E size \in Sizes : SetSpecs(size)

Spec == Init /\ [][Next]_vars

\* Time and the cron; nobody need use, read or remove a sandbox.
FairSpec ==
  /\ Spec /\ WF_vars(Tick) /\ WF_vars(AccrueRecent) /\ WF_vars(AccruePage)
  /\ WF_vars(SweepStaleEphemeral)

-----------------------------------------------------------------------------
(* Properties.                                                               *)

\* Only a use moves `lastUsedAt`, by which a machine is billed.
UsedAsTheRowSays == row # NoRow => row.used = lastUse

\* No tick is billed twice, nor as what the machine did not do in it.
BilledOnce == \A t \in 1 .. Horizon : owed[t] # "overbilled"

\* As long as the row knows the last use, what is billed for a tick is what the
\* machine did in it, at the size it had then, and once: whichever of a use, a
\* refresh, a late size, an hourly page with an older time and the removal bills
\* it.  (A suspend that fails counts as a use.)
BilledAsDue == []UsedAsTheRowSays => []BilledOnce

\* What is not billed yet lies behind `meteredUntil` of a row that is there: a
\* refresh that waits and a page that skips lose nothing.
NothingLost ==
  \A t \in 1 .. Horizon :
    owed[t] \in Sizes \cup {"stored"} => row # NoRow /\ t > row.metered

\* A lost teardown leaves no ephemeral row behind.
EphemeralGoes == row # NoRow /\ row.ephemeral ~> row = NoRow

=============================================================================
