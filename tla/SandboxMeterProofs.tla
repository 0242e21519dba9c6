------------------------- MODULE SandboxMeterProofs -------------------------
(***************************************************************************)
(* Theorems about SandboxMeter, for all sizes, timeouts and bill intervals.  *)
(*                                                                         *)
(* The invariant says of every tick where it stands: up to `meteredUntil` it *)
(* is billed, from there to now it is owed as the machine ran, and after now *)
(* nothing is.  A bill moves `meteredUntil` over ticks it settles exactly    *)
(* (AccrueSettles), and after a bill up to now nothing is left behind        *)
(* (NothingBehind).  That holds as long as the row knows the last use; that  *)
(* nothing is lost needs a weaker invariant, which every step keeps.         *)
(***************************************************************************)
EXTENDS SandboxMeter, TLAPS

Unbilled(t) == row # NoRow /\ row.metered < t /\ t <= now

Exact ==
  \A t \in 1 .. Horizon :
    owed[t] = IF Unbilled(t) THEN DueIn(row, lastUse, t) ELSE "nothing"

ExactInv == TypeOK /\ UsedAsTheRowSays /\ Exact

LEMMA NoRowIsNone == ASSUME NEW r \in Rows PROVE r # NoRow
BY DEF NoRow, Rows, Status, Billed

LEMMA RowNumbers ==
  ASSUME NEW r \in Rows
  PROVE  /\ r.metered \in 0 .. Horizon /\ r.used \in 0 .. Horizon
         /\ r.idle \in Nat /\ RunsFor(r) \in Nat
         /\ Life \in Nat /\ CallMax \in Nat /\ Horizon \in Nat
BY SandboxMeterAssumption DEF Rows, RunsFor, Least

-----------------------------------------------------------------------------
(* The arithmetic of a bill.                                               *)

\* What a row bills reaches from `meteredUntil` no further than the bill.
LEMMA StretchesBound ==
  ASSUME NEW r \in Rows, NEW at \in 0 .. Horizon
  PROVE  /\ RunningUntil(r, at) \in 0 .. Horizon
         /\ StoredUntil(r, at) \in 0 .. Horizon
         /\ r.metered <= RunningUntil(r, at)
         /\ RunningUntil(r, at) <= StoredUntil(r, at)
         /\ StoredUntil(r, at) <= at \/ StoredUntil(r, at) = r.metered
<1>1. /\ r.metered \in 0 .. Horizon /\ r.used \in 0 .. Horizon
      /\ r.idle \in Nat /\ r.used + r.idle \in Nat
      /\ Life \in Nat /\ CallMax \in Nat /\ Horizon \in Nat
  BY RowNumbers
<1>2. AliveUntil(r, at) \in 0 .. at
  BY <1>1 DEF AliveUntil, Least
<1>3. IdleUntil(r, at) \in Nat
  BY <1>1, <1>2 DEF IdleUntil
<1>4. /\ RunningUntil(r, at) \in 0 .. Horizon
      /\ r.metered <= RunningUntil(r, at)
      /\ RunningUntil(r, at) <= at \/ RunningUntil(r, at) = r.metered
  BY <1>1, <1>2, <1>3 DEF RunningUntil, Least, Most
<1>5. QED
  BY <1>1, <1>2, <1>4 DEF StoredUntil, Most

LEMMA DueType ==
  ASSUME NEW r \in Rows, NEW used, NEW t
  PROVE  DueIn(r, used, t) \in Charges
<1>1. BilledSize(r) \in Sizes
  BY SandboxMeterAssumption DEF BilledSize, Rows
<1>2. QED
  BY <1>1 DEF DueIn, Charges

\* The run stretch of a bill ends with the bill or when the machine stopped,
\* whichever of its idle timeout, its call and its life stopped it.
LEMMA RunsUntil ==
  ASSUME NEW r \in Rows, NEW at \in 0 .. Horizon, NEW t \in 1 .. Horizon
  PROVE  /\ Least(AliveUntil(r, at), IdleUntil(r, at)) \in Int
         /\ t <= Least(AliveUntil(r, at), IdleUntil(r, at))
              <=> t <= at /\ t <= r.used + RunsFor(r)
<1>1. /\ r.used \in Nat /\ r.idle \in Nat /\ Life \in Nat /\ CallMax \in Nat
      /\ at \in Nat /\ t \in Nat
  BY RowNumbers
<1>2. CASE r.ephemeral
  BY <1>1, <1>2 DEF AliveUntil, IdleUntil, RunsFor, Least
<1>3. CASE ~r.ephemeral /\ r.lambda
  BY <1>1, <1>3 DEF AliveUntil, IdleUntil, RunsFor, Least
<1>4. CASE ~r.ephemeral /\ ~r.lambda
  BY <1>1, <1>4 DEF AliveUntil, IdleUntil, RunsFor, Least
<1>5. QED
  BY <1>2, <1>3, <1>4

\* A tick of the run stretch is due as running, one of the stored as stored.
LEMMA DueRunning ==
  ASSUME NEW r \in Rows, NEW at \in 0 .. Horizon,
         NEW t \in 1 .. Horizon, r.metered < t, t <= RunningUntil(r, at)
  PROVE  DueIn(r, r.used, t) = BilledSize(r)
<1>1. r.metered \in Nat /\ Horizon \in Nat /\ r # NoRow
  BY RowNumbers, NoRowIsNone
<1>2. ~Free(r) /\ r.status \in Billed
  BY <1>1 DEF RunningUntil
<1>3. t <= Least(AliveUntil(r, at), IdleUntil(r, at))
  BY <1>1, <1>2 DEF RunningUntil, Most
<1>4. t <= r.used + RunsFor(r)
  BY <1>3, RunsUntil
<1>5. QED
  BY <1>1, <1>2, <1>4 DEF DueIn, Free

LEMMA DueStored ==
  ASSUME NEW r \in Rows, NEW at \in 0 .. Horizon,
         NEW t \in 1 .. Horizon,
         RunningUntil(r, at) < t, t <= StoredUntil(r, at)
  PROVE  DueIn(r, r.used, t) = "stored"
<1>1. /\ r.metered \in Nat /\ r.used \in Nat /\ Life \in Nat /\ Horizon \in Nat
      /\ r # NoRow /\ RunningUntil(r, at) \in Int
  BY RowNumbers, NoRowIsNone, StretchesBound
<1>2. r.lambda /\ ~r.ephemeral /\ ~Free(r)
  BY <1>1 DEF StoredUntil
<1>3. t <= AliveUntil(r, at)
  BY <1>1, <1>2 DEF StoredUntil, Most
<1>4. t <= r.used + Life /\ t <= at
  BY <1>1, <1>2, <1>3 DEF AliveUntil, Least
<1>5. ~(r.status \in Billed /\ t <= r.used + RunsFor(r))
  <2>1. SUFFICES ASSUME r.status \in Billed, t <= r.used + RunsFor(r)
                 PROVE  FALSE
    OBVIOUS
  <2>2. /\ t <= Least(AliveUntil(r, at), IdleUntil(r, at))
        /\ Least(AliveUntil(r, at), IdleUntil(r, at)) \in Int
    BY <1>4, <2>1, RunsUntil
  <2>3. RunningUntil(r, at) = Most(r.metered, Least(AliveUntil(r, at), IdleUntil(r, at)))
    BY <1>2, <2>1 DEF RunningUntil
  <2>4. QED
    BY <1>1, <2>2, <2>3 DEF Most
<1>6. QED
  BY <1>1, <1>2, <1>4, <1>5 DEF DueIn, Free

\* A bill up to now leaves no tick behind that is due something.
LEMMA NothingBehind ==
  ASSUME NEW r \in Rows, NEW at \in 0 .. Horizon,
         NEW t \in 1 .. Horizon, StoredUntil(r, at) < t,
         t <= at \/ (r.ephemeral /\ r.used + CallMax < at)
  PROVE  DueIn(r, r.used, t) = "nothing"
<1>1. /\ r.metered \in Nat /\ r.used \in Nat /\ RunsFor(r) \in Nat
      /\ Life \in Nat /\ CallMax \in Nat /\ Horizon \in Nat
      /\ r # NoRow /\ RunningUntil(r, at) \in Int
      /\ RunningUntil(r, at) <= StoredUntil(r, at)
      /\ StoredUntil(r, at) \in Int
  BY RowNumbers, NoRowIsNone, StretchesBound
<1>2. CASE Free(r)
  BY <1>2 DEF DueIn, Free
<1>3. ASSUME ~Free(r) PROVE ~(r.status \in Billed /\ t <= r.used + RunsFor(r))
  <2>1. SUFFICES ASSUME r.status \in Billed, t <= r.used + RunsFor(r)
                 PROVE  FALSE
    OBVIOUS
  <2>2. t <= at
    BY <1>1, <2>1 DEF RunsFor
  <2>3. /\ t <= Least(AliveUntil(r, at), IdleUntil(r, at))
        /\ Least(AliveUntil(r, at), IdleUntil(r, at)) \in Int
    BY <2>1, <2>2, RunsUntil
  <2>4. RunningUntil(r, at) = Most(r.metered, Least(AliveUntil(r, at), IdleUntil(r, at)))
    BY <1>3, <2>1 DEF RunningUntil
  <2>5. QED
    BY <1>1, <2>3, <2>4 DEF Most
<1>4. ASSUME ~Free(r), r.lambda, ~r.ephemeral PROVE ~(t <= r.used + Life)
  BY <1>1, <1>4 DEF StoredUntil, AliveUntil, Least, Most
<1>5. CASE ~Free(r)
  BY <1>1, <1>3, <1>4, <1>5 DEF DueIn
<1>6. QED
  BY <1>2, <1>5

-----------------------------------------------------------------------------
(* What a bill does to the ticks.                                          *)

LEMMA AccrueType ==
  ASSUME TypeOK, row # NoRow, NEW at \in 0 .. Horizon, Accrue(row, at)
  PROVE  owed' \in [1 .. Horizon -> Charges \cup {"overbilled"}]
<1>1. \A t \in 1 .. Horizon : \A what : Charge(t, what) \in Charges \cup {"overbilled"}
  BY DEF Charge, Charges
<1>2. owed \in [1 .. Horizon -> Charges \cup {"overbilled"}]
  BY DEF TypeOK
<1>3. \A t \in 1 .. Horizon :
        (CASE row.metered < t /\ t <= RunningUntil(row, at)
                -> Charge(t, BilledSize(row))
           [] RunningUntil(row, at) < t /\ t <= StoredUntil(row, at)
                -> Charge(t, "stored")
           [] OTHER -> owed[t]) \in Charges \cup {"overbilled"}
  <2>1. row \in Rows
    BY DEF TypeOK
  <2>2. /\ row.metered \in Int /\ RunningUntil(row, at) \in Int
        /\ StoredUntil(row, at) \in Int
    BY <2>1, StretchesBound, RowNumbers
  <2>3. QED
    BY <1>1, <1>2, <2>2
<1>4. QED
  BY <1>3 DEF Accrue

\* Ticks up to the new `meteredUntil` are settled, the others are as they were.
LEMMA AccrueSettles ==
  ASSUME ExactInv, row # NoRow, NEW at \in 0 .. now, Accrue(row, at)
  PROVE  \A t \in 1 .. Horizon :
           owed'[t] = IF StoredUntil(row, at) < t /\ t <= now
                      THEN DueIn(row, lastUse, t) ELSE "nothing"
<1>1. /\ row \in Rows /\ row.used = lastUse /\ now \in 0 .. Horizon
      /\ at \in 0 .. Horizon /\ row.metered <= now
  BY SandboxMeterAssumption DEF ExactInv, TypeOK, UsedAsTheRowSays
<1>2. /\ row.metered \in Int /\ RunningUntil(row, at) \in Int
      /\ StoredUntil(row, at) \in Int
      /\ row.metered <= RunningUntil(row, at)
      /\ RunningUntil(row, at) <= StoredUntil(row, at)
      /\ StoredUntil(row, at) <= now
  BY <1>1, StretchesBound, RowNumbers
<1>3. SUFFICES ASSUME NEW t \in 1 .. Horizon
      PROVE owed'[t] = IF StoredUntil(row, at) < t /\ t <= now
                       THEN DueIn(row, lastUse, t) ELSE "nothing"
  OBVIOUS
<1>4. owed[t] = IF row.metered < t /\ t <= now THEN DueIn(row, lastUse, t) ELSE "nothing"
  BY <1>3 DEF ExactInv, Exact, Unbilled
<1>5. CASE row.metered < t /\ t <= RunningUntil(row, at)
  <2>1. owed'[t] = Charge(t, BilledSize(row))
    BY <1>2, <1>3, <1>5 DEF Accrue
  <2>2. DueIn(row, lastUse, t) = BilledSize(row)
    BY <1>1, <1>3, <1>5, DueRunning
  <2>3. owed'[t] = "nothing"
    BY <1>1, <1>2, <1>4, <1>5, <2>1, <2>2 DEF Charge
  <2>4. QED
    BY <1>2, <1>5, <2>3
<1>6. CASE RunningUntil(row, at) < t /\ t <= StoredUntil(row, at)
  <2>1. owed'[t] = Charge(t, "stored")
    BY <1>2, <1>3, <1>6 DEF Accrue
  <2>2. DueIn(row, lastUse, t) = "stored"
    BY <1>1, <1>3, <1>6, DueStored
  <2>3. owed'[t] = "nothing"
    BY <1>1, <1>2, <1>4, <1>6, <2>1, <2>2 DEF Charge
  <2>4. QED
    BY <1>2, <1>6, <2>3
<1>7. CASE t <= row.metered \/ StoredUntil(row, at) < t
  <2>1. owed'[t] = owed[t]
    BY <1>2, <1>3, <1>7 DEF Accrue
  <2>2. QED
    BY <1>1, <1>2, <1>4, <1>7, <2>1
<1>8. QED
  BY <1>1, <1>2, <1>3, <1>5, <1>6, <1>7

\* A bill up to now settles all there is.
LEMMA AccrueAll ==
  ASSUME ExactInv, row # NoRow, Accrue(row, now)
  PROVE  \A t \in 1 .. Horizon : owed'[t] = "nothing"
<1>1. row \in Rows /\ row.used = lastUse /\ now \in 0 .. Horizon /\ now \in 0 .. now
  BY SandboxMeterAssumption DEF ExactInv, TypeOK, UsedAsTheRowSays
<1>2. \A t \in 1 .. Horizon :
        StoredUntil(row, now) < t /\ t <= now => DueIn(row, lastUse, t) = "nothing"
  BY <1>1, NothingBehind
<1>3. QED
  BY <1>1, <1>2, AccrueSettles

\* After a bill up to now the row starts afresh, or goes.
LEMMA ExactFromNow ==
  ASSUME now \in Nat, now' = now, \A t \in 1 .. Horizon : owed'[t] = "nothing",
         row' = NoRow \/ row'.metered = now
  PROVE  Exact'
BY SandboxMeterAssumption DEF Exact, Unbilled

-----------------------------------------------------------------------------
(* The steps.                                                              *)

LEMMA RefreshedType ==
  ASSUME TypeOK, row # NoRow, NEW own \in BOOLEAN, NEW size \in Sizes,
         NEW verified \in BOOLEAN, NEW idle \in Idles, NEW replaced \in BOOLEAN
  PROVE  LET next == Refreshed(row, own, size, verified, idle, replaced) IN
         /\ next \in Rows /\ next.used = now /\ next.status = "running"
         /\ next.metered = row.metered /\ next.idle = idle
         /\ next.lambda = row.lambda /\ next.ephemeral = row.ephemeral
<1>1. row \in Rows /\ now \in 0 .. Horizon
  BY DEF TypeOK
<1>2. QED
  BY <1>1 DEF Refreshed, Rows, Status, Billed

LEMMA InitInv == Init => ExactInv
<1>1. 0 \in 0 .. Horizon /\ -1 \in -1 .. 0 /\ Horizon \in Nat
  BY SandboxMeterAssumption
<1>2. QED
  BY <1>1 DEF Init, ExactInv, TypeOK, UsedAsTheRowSays, Exact, Unbilled, Charges

\* Each write of the row bills, and leaves a row of its type.
LEMMA BilledType ==
  ASSUME TypeOK, row # NoRow, NEW at \in 0 .. now, Accrue(row, at),
         row' \in Rows \cup {NoRow}, row' # NoRow => row'.metered <= now,
         now' = now, lastUse' \in 0 .. Horizon,
         page' \in -1 .. now, stale' \in -1 .. now
  PROVE  TypeOK'
<1>1. at \in 0 .. Horizon
  BY SandboxMeterAssumption DEF TypeOK
<1>2. owed' \in [1 .. Horizon -> Charges \cup {"overbilled"}]
  BY <1>1, AccrueType
<1>3. QED
  BY <1>2 DEF TypeOK

LEMMA UpsertType ==
  ASSUME TypeOK, NEW own \in BOOLEAN, NEW size \in Sizes, NEW verified \in BOOLEAN,
         NEW idle \in Idles, NEW replaced \in BOOLEAN,
         Upsert(own, size, verified, idle, replaced)
  PROVE  TypeOK'
<1> DEFINE next == Refreshed(row, own, size, verified, idle, replaced)
<1>1. /\ row # NoRow /\ now' = now /\ lastUse' = now
      /\ page' = page /\ stale' = stale
      /\ BillRefresh(row, next, replaced)
  BY DEF Upsert
<1>2. next \in Rows /\ next.metered = row.metered
  BY <1>1, RefreshedType
<1>3. now \in 0 .. Horizon /\ now \in 0 .. now /\ row.metered <= now
  BY <1>1, SandboxMeterAssumption DEF TypeOK
<1> HIDE DEF next
<1>4. CASE Deferred(row, next, replaced)
  <2>1. row' = next /\ owed' = owed
    BY <1>1, <1>4 DEF BillRefresh
  <2>2. QED
    BY <1>1, <1>2, <1>3, <2>1 DEF TypeOK
<1>5. CASE ~Deferred(row, next, replaced)
  <2>1. row' = [next EXCEPT !.metered = now] /\ Accrue(row, now)
    BY <1>1, <1>5 DEF BillRefresh
  <2>2. row' \in Rows /\ row'.metered = now
    BY <1>2, <1>3, <2>1 DEF Rows
  <2>3. QED
    BY <1>1, <1>3, <2>1, <2>2, BilledType DEF TypeOK
<1>6. QED
  BY <1>4, <1>5

LEMMA WriteStatusType ==
  ASSUME TypeOK, NEW status \in Status, NEW observed \in BOOLEAN,
         WriteStatus(status, observed),
         lastUse' \in 0 .. Horizon
  PROVE  TypeOK'
<1>1. /\ row \in Rows /\ row # NoRow /\ now' = now /\ page' = page
      /\ stale' = stale /\ Accrue(row, now)
      /\ now \in 0 .. Horizon /\ now \in 0 .. now
  BY SandboxMeterAssumption DEF WriteStatus, TypeOK
<1>2. row' \in Rows /\ row'.metered = now
  BY <1>1 DEF WriteStatus, Rows
<1>3. QED
  BY <1>1, <1>2, BilledType DEF TypeOK

LEMMA AccruePageType ==
  ASSUME TypeOK, AccruePage
  PROVE  TypeOK'
<1>1. /\ page \in 0 .. now /\ page' = -1 /\ page' \in -1 .. now
      /\ now' = now /\ lastUse' = lastUse
      /\ stale' = stale /\ now \in 0 .. Horizon /\ page \in 0 .. Horizon
  BY SandboxMeterAssumption DEF AccruePage, TypeOK
<1>2. CASE row # NoRow /\ row.used >= page - Lookback
  <2>1. /\ row' = [row EXCEPT !.metered = StoredUntil(row, page)]
        /\ Accrue(row, page) /\ row \in Rows /\ row.metered <= now
    BY <1>2 DEF AccruePage, TypeOK
  <2>2. StoredUntil(row, page) \in 0 .. Horizon /\ StoredUntil(row, page) <= now
    BY <1>1, <2>1, StretchesBound
  <2>3. row' \in Rows /\ row'.metered <= now
    BY <2>1, <2>2 DEF Rows
  <2>4. QED
    BY <1>1, <1>2, <2>1, <2>3, BilledType DEF TypeOK
<1>3. CASE ~(row # NoRow /\ row.used >= page - Lookback)
  <2>1. row' = row /\ owed' = owed
    BY <1>3 DEF AccruePage
  <2>2. QED
    BY <1>1, <2>1 DEF TypeOK
<1>4. QED
  BY <1>2, <1>3

LEMMA SweepStaleEphemeralType ==
  ASSUME TypeOK, SweepStaleEphemeral
  PROVE  TypeOK'
<1>1. /\ stale \in 0 .. now /\ stale' = -1 /\ stale' \in -1 .. now
      /\ now' = now /\ lastUse' = lastUse
      /\ page' = page /\ now \in 0 .. Horizon
  BY SandboxMeterAssumption DEF SweepStaleEphemeral, TypeOK
<1>2. CASE IsStale(row, stale)
  <2>1. row' = NoRow /\ Accrue(row, stale) /\ row # NoRow
    BY <1>2 DEF SweepStaleEphemeral, IsStale
  <2>2. QED
    BY <1>1, <2>1, BilledType DEF TypeOK
<1>3. CASE ~IsStale(row, stale)
  <2>1. row' = row /\ owed' = owed
    BY <1>3 DEF SweepStaleEphemeral
  <2>2. QED
    BY <1>1, <2>1 DEF TypeOK
<1>4. QED
  BY <1>2, <1>3

LEMMA TypeStep == TypeOK /\ [Next]_vars => TypeOK'
<1>1. SUFFICES ASSUME TypeOK, [Next]_vars PROVE TypeOK'
  OBVIOUS
<1>2. /\ Horizon \in Nat /\ now \in 0 .. Horizon /\ now \in 0 .. now
      /\ row # NoRow => row \in Rows /\ row.metered \in Nat
  BY <1>1, SandboxMeterAssumption, RowNumbers DEF TypeOK
<1>3. CASE Tick
  <2>1. DueIn(row, lastUse, now + 1) \in Charges
    BY <1>1, <1>2, DueType DEF TypeOK, DueIn, Charges
  <2>2. now' \in 0 .. Horizon /\ now < now' /\ -1 .. now \subseteq -1 .. now'
    BY <1>2, <1>3 DEF Tick
  <2>3. row # NoRow => row.metered <= now'
    BY <1>1, <1>2, <2>2 DEF TypeOK
  <2>4. owed' \in [1 .. Horizon -> Charges \cup {"overbilled"}]
    BY <1>1, <1>3, <2>1 DEF TypeOK, Tick
  <2>5. QED
    BY <1>1, <1>3, <2>2, <2>3, <2>4 DEF TypeOK, Tick
<1>4. CASE Remove
  <2>1. /\ row # NoRow /\ row' = NoRow /\ Accrue(row, now)
        /\ UNCHANGED <<now, lastUse, page, stale>>
    BY <1>4 DEF Remove
  <2>2. QED
    BY <1>1, <1>2, <2>1, BilledType DEF TypeOK
<1>5. CASE AccrueRecent
  BY <1>1, <1>2, <1>5 DEF TypeOK, AccrueRecent
<1>6. CASE AccruePage
  BY <1>1, <1>6, AccruePageType
<1>7. CASE SweepStaleEphemeral
  BY <1>1, <1>7, SweepStaleEphemeralType
<1>8. ASSUME NEW own \in BOOLEAN, NEW verified \in BOOLEAN, NEW flag \in BOOLEAN,
             NEW size \in Sizes, NEW idle \in Idles,
             Upsert(own, size, verified, idle, flag)
      PROVE TypeOK'
  BY <1>1, <1>8, UpsertType
<1>9. ASSUME NEW own \in BOOLEAN, NEW verified \in BOOLEAN, NEW flag \in BOOLEAN,
             NEW size \in Sizes, NEW idle \in Idles, NEW lambda \in BOOLEAN,
             Launch(lambda, flag, own, size, verified, idle)
      PROVE TypeOK'
  <2>1. row' \in Rows /\ row'.metered = now
    BY <1>2, <1>9 DEF Launch, Rows, Status, Billed
  <2>2. QED
    BY <1>1, <1>2, <1>9, <2>1 DEF TypeOK, Launch
<1>10. ASSUME NEW status \in Status, Refresh(status) \/ Suspend(status)
       PROVE TypeOK'
  BY <1>1, <1>10, WriteStatusType DEF Refresh, Suspend, TypeOK
<1>11. CASE SuspendFailed
  BY <1>1, <1>11, WriteStatusType DEF SuspendFailed, TypeOK, Status, Billed
<1>12. CASE Resume
  <2>1. WriteStatus("running", FALSE) /\ lastUse' = now
    BY <1>12 DEF Resume
  <2>2. QED
    BY <1>1, <1>2, <2>1, WriteStatusType DEF Status, Billed
<1>13. ASSUME NEW size \in Sizes, SetSpecs(size)
       PROVE TypeOK'
  <2>1. /\ row # NoRow /\ Accrue(row, now) /\ row \in Rows
        /\ UNCHANGED <<now, lastUse, page, stale>>
    BY <1>2, <1>13 DEF SetSpecs
  <2>2. row' \in Rows /\ row'.metered = now
    BY <1>2, <1>13, <2>1 DEF SetSpecs, Rows
  <2>3. QED
    BY <1>1, <1>2, <2>1, <2>2, BilledType DEF TypeOK
<1>14. CASE UNCHANGED vars
  BY <1>1, <1>14 DEF TypeOK, vars
<1>15. QED
  BY <1>1, <1>3, <1>4, <1>5, <1>6, <1>7, <1>8, <1>9, <1>10, <1>11, <1>12,
     <1>13, <1>14 DEF Next

\* The row and the ticks stay in their types, and a row is never billed past
\* now, whatever bills it.
THEOREM TypeCorrect == Spec => []TypeOK
<1>1. Init => TypeOK
  BY InitInv DEF ExactInv
<1>2. QED
  BY <1>1, TypeStep, PTL DEF Spec

-----------------------------------------------------------------------------
(* Exactness.                                                              *)

LEMMA TickExact ==
  ASSUME ExactInv, Tick
  PROVE  UsedAsTheRowSays' /\ Exact'
<1>1. /\ now \in 0 .. Horizon /\ Horizon \in Nat /\ now' = now + 1
      /\ row' = row /\ lastUse' = lastUse
      /\ row # NoRow => row.metered \in Nat /\ row.metered <= now
      /\ owed \in [1 .. Horizon -> Charges \cup {"overbilled"}]
      /\ owed' = [owed EXCEPT ![now + 1] = DueIn(row, lastUse, now + 1)]
  BY SandboxMeterAssumption, RowNumbers DEF ExactInv, TypeOK, Tick
<1>2. SUFFICES ASSUME NEW t \in 1 .. Horizon
      PROVE owed'[t] = IF Unbilled(t)' THEN DueIn(row, lastUse, t)' ELSE "nothing"
  BY <1>1 DEF Exact, ExactInv, UsedAsTheRowSays
<1>3. DueIn(row, lastUse, t)' = DueIn(row, lastUse, t)
  BY <1>1 DEF DueIn
<1>4. CASE t = now + 1
  <2>1. owed'[t] = DueIn(row, lastUse, t)
    BY <1>1, <1>4
  <2>2. Unbilled(t)' \/ row = NoRow
    BY <1>1, <1>4 DEF Unbilled
  <2>3. row = NoRow => DueIn(row, lastUse, t) = "nothing"
    BY DEF DueIn
  <2>4. QED
    BY <1>1, <1>3, <2>1, <2>2, <2>3 DEF Unbilled
<1>5. CASE t # now + 1
  <2>1. owed'[t] = owed[t]
    BY <1>1, <1>5
  <2>2. Unbilled(t)' <=> Unbilled(t)
    BY <1>1, <1>5 DEF Unbilled
  <2>3. QED
    BY <1>3, <2>1, <2>2 DEF ExactInv, Exact
<1>6. QED
  BY <1>4, <1>5

\* A refresh that waits goes on as the row was: what is owed stays owed.
LEMMA UpsertExact ==
  ASSUME ExactInv, NEW own \in BOOLEAN, NEW size \in Sizes, NEW verified \in BOOLEAN,
         NEW idle \in Idles, NEW replaced \in BOOLEAN,
         Upsert(own, size, verified, idle, replaced)
  PROVE  UsedAsTheRowSays' /\ Exact'
<1> DEFINE next == Refreshed(row, own, size, verified, idle, replaced)
<1>1. /\ row # NoRow /\ now' = now /\ lastUse' = now /\ ~row.ephemeral
      /\ BillRefresh(row, next, replaced) /\ (replaced \/ Lives(row))
      /\ TypeOK /\ row \in Rows /\ now \in 0 .. Horizon
  BY DEF Upsert, ExactInv, TypeOK
<1>2. /\ next \in Rows /\ next.used = now /\ next.status = "running"
      /\ next.metered = row.metered /\ next.lambda = row.lambda
      /\ next.ephemeral = row.ephemeral /\ next # NoRow
  BY <1>1, RefreshedType, NoRowIsNone
<1> HIDE DEF next
<1>3. CASE Deferred(row, next, replaced)
  <2>1. row' = next /\ owed' = owed
    BY <1>1, <1>3 DEF BillRefresh
  <2>2. /\ row.status = "running" /\ now <= row.used + row.idle
        /\ next.size = row.size /\ next.own = row.own /\ row.used = lastUse
        /\ row.lambda => now <= lastUse + Life
    <3>1. row.used \in Nat /\ row.idle \in Nat /\ now \in Nat
      BY <1>1, RowNumbers
    <3>2. QED
      BY <1>1, <1>3, <3>1
         DEF Deferred, Relaunched, Lives, ExactInv, UsedAsTheRowSays
  <2>3. ASSUME NEW t \in 1 .. Horizon, t <= now
        PROVE DueIn(row, lastUse, t)' = DueIn(row, lastUse, t)
    <3>1. t <= lastUse + RunsFor(row) /\ t <= now + RunsFor(next)
      <4>1. /\ lastUse \in Nat /\ now \in Nat /\ t \in Nat /\ Life \in Nat
            /\ row.idle \in Nat /\ RunsFor(next) \in Nat
        BY <1>1, <1>2, RowNumbers DEF TypeOK
      <4>2. t <= lastUse + row.idle /\ (row.lambda => t <= lastUse + Life)
        BY <1>1, <2>2, <2>3, <4>1
      <4>3. QED
        BY <1>1, <2>3, <4>1, <4>2 DEF RunsFor, Least
    <3>2. BilledSize(next) = BilledSize(row)
      BY <1>2, <2>2 DEF BilledSize
    <3>3. DueIn(row, lastUse, t) = IF row.own THEN "nothing" ELSE BilledSize(row)
      BY <1>1, <2>2, <3>1 DEF DueIn, Billed
    <3>4. DueIn(row, lastUse, t)' = IF next.own THEN "nothing" ELSE BilledSize(next)
      BY <1>1, <1>2, <2>1, <3>1 DEF DueIn, Billed, BilledSize
    <3>5. QED
      BY <2>2, <3>2, <3>3, <3>4
  <2>4. \A t \in 1 .. Horizon : Unbilled(t)' <=> Unbilled(t)
    BY <1>1, <1>2, <2>1 DEF Unbilled
  <2>5. Exact'
    BY <2>1, <2>3, <2>4 DEF Exact, ExactInv, Unbilled
  <2>6. QED
    BY <1>1, <1>2, <2>1, <2>5 DEF UsedAsTheRowSays
<1>4. CASE ~Deferred(row, next, replaced)
  <2>1. row' = [next EXCEPT !.metered = now] /\ Accrue(row, now)
    BY <1>1, <1>4 DEF BillRefresh
  <2>2. row'.metered = now /\ row'.used = now
    BY <1>2, <2>1 DEF Rows
  <2>3. \A t \in 1 .. Horizon : owed'[t] = "nothing"
    BY <1>1, <2>1, AccrueAll
  <2>4. QED
    BY <1>1, <2>2, <2>3, ExactFromNow DEF UsedAsTheRowSays
<1>5. QED
  BY <1>3, <1>4

LEMMA WriteStatusExact ==
  ASSUME ExactInv, NEW status \in Status, NEW observed \in BOOLEAN,
         WriteStatus(status, observed),
         lastUse' = IF status = "running" /\ ~observed THEN now ELSE lastUse
  PROVE  UsedAsTheRowSays' /\ Exact'
<1>1. /\ row \in Rows /\ row # NoRow /\ now' = now /\ Accrue(row, now)
      /\ row.used = lastUse /\ now \in Nat
  BY SandboxMeterAssumption DEF WriteStatus, ExactInv, TypeOK, UsedAsTheRowSays
<1>2. /\ row'.metered = now
      /\ row'.used = IF status = "running" /\ ~observed THEN now ELSE row.used
  BY <1>1 DEF WriteStatus, Rows
<1>3. Exact'
  BY <1>1, <1>2, AccrueAll, ExactFromNow
<1>4. QED
  BY <1>1, <1>2, <1>3 DEF UsedAsTheRowSays

\* A page bills up to its own time; what is after it stays owed.
LEMMA AccruePageExact ==
  ASSUME ExactInv, AccruePage
  PROVE  UsedAsTheRowSays' /\ Exact'
<1>1. /\ page \in 0 .. now /\ now' = now /\ lastUse' = lastUse /\ now \in 0 .. Horizon
      /\ page \in 0 .. Horizon
  BY SandboxMeterAssumption DEF AccruePage, ExactInv, TypeOK
<1>2. CASE row # NoRow /\ row.used >= page - Lookback
  <2>1. /\ row' = [row EXCEPT !.metered = StoredUntil(row, page)]
        /\ Accrue(row, page) /\ row \in Rows
    BY <1>2 DEF AccruePage, ExactInv, TypeOK
  <2>2. /\ row'.metered = StoredUntil(row, page) /\ row'.used = row.used
        /\ row' \in Rows /\ row' # NoRow
    <3>1. StoredUntil(row, page) \in 0 .. Horizon
      BY <1>1, <2>1, StretchesBound
    <3>2. row' \in Rows /\ row'.metered = StoredUntil(row, page) /\ row'.used = row.used
      BY <2>1, <3>1 DEF Rows
    <3>3. QED
      BY <3>2, NoRowIsNone
  <2>3. ASSUME NEW t \in 1 .. Horizon PROVE DueIn(row, lastUse, t)' = DueIn(row, lastUse, t)
    <3>1. /\ row'.own = row.own /\ row'.status = row.status /\ row'.idle = row.idle
          /\ row'.ephemeral = row.ephemeral /\ row'.lambda = row.lambda
          /\ row'.size = row.size
      BY <2>1 DEF Rows
    <3>2. QED
      BY <1>1, <1>2, <2>2, <3>1 DEF DueIn, BilledSize, RunsFor
  <2>4. \A t \in 1 .. Horizon :
          owed'[t] = IF StoredUntil(row, page) < t /\ t <= now
                     THEN DueIn(row, lastUse, t) ELSE "nothing"
    BY <1>1, <1>2, <2>1, AccrueSettles
  <2>5. \A t \in 1 .. Horizon :
          Unbilled(t)' <=> StoredUntil(row, page) < t /\ t <= now
    BY <1>1, <2>2 DEF Unbilled
  <2>6. Exact'
    BY <2>3, <2>4, <2>5 DEF Exact
  <2>7. QED
    BY <1>1, <1>2, <2>2, <2>6 DEF ExactInv, UsedAsTheRowSays
<1>3. CASE ~(row # NoRow /\ row.used >= page - Lookback)
  <2>1. row' = row /\ owed' = owed
    BY <1>3 DEF AccruePage
  <2>2. QED
    BY <1>1, <2>1 DEF ExactInv, UsedAsTheRowSays, Exact, Unbilled, DueIn
<1>4. QED
  BY <1>2, <1>3

\* The sweep bills up to a time in the past, when the call was over already.
LEMMA SweepStaleEphemeralExact ==
  ASSUME ExactInv, SweepStaleEphemeral
  PROVE  UsedAsTheRowSays' /\ Exact'
<1>1. /\ stale \in 0 .. now /\ now' = now /\ lastUse' = lastUse /\ now \in 0 .. Horizon
      /\ stale \in 0 .. Horizon /\ now \in Nat
  BY SandboxMeterAssumption DEF SweepStaleEphemeral, ExactInv, TypeOK
<1>2. CASE IsStale(row, stale)
  <2>1. /\ row' = NoRow /\ Accrue(row, stale) /\ row # NoRow /\ row \in Rows
        /\ row.ephemeral /\ row.used < stale - CallMax /\ row.used = lastUse
    BY <1>2 DEF SweepStaleEphemeral, IsStale, ExactInv, TypeOK, UsedAsTheRowSays
  <2>2. row.used + CallMax < stale
    BY <1>1, <2>1, RowNumbers
  <2>3. \A t \in 1 .. Horizon :
          StoredUntil(row, stale) < t => DueIn(row, lastUse, t) = "nothing"
    BY <1>1, <2>1, <2>2, NothingBehind
  <2>4. \A t \in 1 .. Horizon : owed'[t] = "nothing"
    BY <1>1, <2>1, <2>3, AccrueSettles
  <2>5. QED
    BY <1>1, <2>1, <2>4, ExactFromNow DEF UsedAsTheRowSays
<1>3. CASE ~IsStale(row, stale)
  <2>1. row' = row /\ owed' = owed
    BY <1>3 DEF SweepStaleEphemeral
  <2>2. QED
    BY <1>1, <2>1 DEF ExactInv, UsedAsTheRowSays, Exact, Unbilled, DueIn
<1>4. QED
  BY <1>2, <1>3

\* The mark is taken back by a bill as any other; that the row knows the last
\* use is what the step may break.
LEMMA SuspendFailedExact ==
  ASSUME ExactInv, SuspendFailed
  PROVE  Exact'
<1>1. /\ row \in Rows /\ row # NoRow /\ now' = now /\ Accrue(row, now) /\ now \in Nat
  BY SandboxMeterAssumption DEF SuspendFailed, WriteStatus, ExactInv, TypeOK
<1>2. row'.metered = now
  BY <1>1 DEF SuspendFailed, WriteStatus, Rows
<1>3. QED
  BY <1>1, <1>2, AccrueAll, ExactFromNow

\* The step keeps the ticks exact as long as the row knows the last use.
LEMMA ExactStep == ExactInv /\ [Next]_vars /\ UsedAsTheRowSays' => ExactInv'
<1>1. SUFFICES ASSUME ExactInv, [Next]_vars, UsedAsTheRowSays' PROVE Exact'
  BY TypeStep DEF ExactInv
<1>2. now \in 0 .. Horizon /\ now \in Nat /\ (row # NoRow => row \in Rows)
  BY <1>1, SandboxMeterAssumption DEF ExactInv, TypeOK
<1>3. CASE Tick
  BY <1>1, <1>3, TickExact
<1>4. CASE Remove
  <2>1. row # NoRow /\ row' = NoRow /\ Accrue(row, now) /\ now' = now
    BY <1>4 DEF Remove
  <2>2. QED
    BY <1>1, <1>2, <2>1, AccrueAll, ExactFromNow DEF UsedAsTheRowSays
<1>5. CASE AccrueRecent
  BY <1>1, <1>5 DEF AccrueRecent, ExactInv, UsedAsTheRowSays, Exact, Unbilled, DueIn
<1>6. CASE AccruePage
  BY <1>1, <1>6, AccruePageExact
<1>7. CASE SweepStaleEphemeral
  BY <1>1, <1>7, SweepStaleEphemeralExact
<1>8. ASSUME NEW own \in BOOLEAN, NEW verified \in BOOLEAN, NEW flag \in BOOLEAN,
             NEW size \in Sizes, NEW idle \in Idles,
             Upsert(own, size, verified, idle, flag)
      PROVE Exact'
  BY <1>1, <1>8, UpsertExact
<1>9. ASSUME NEW own \in BOOLEAN, NEW verified \in BOOLEAN, NEW flag \in BOOLEAN,
             NEW size \in Sizes, NEW idle \in Idles, NEW lambda \in BOOLEAN,
             Launch(lambda, flag, own, size, verified, idle)
      PROVE Exact'
  <2>1. /\ row = NoRow /\ row'.metered = now /\ row'.used = now /\ lastUse' = now
        /\ owed' = owed /\ now' = now
    BY <1>9 DEF Launch
  <2>2. \A t \in 1 .. Horizon : owed'[t] = "nothing"
    BY <1>1, <2>1 DEF ExactInv, Exact, Unbilled
  <2>3. QED
    BY <1>2, <2>1, <2>2, ExactFromNow DEF UsedAsTheRowSays
<1>10. ASSUME NEW status \in Status, Refresh(status) \/ Suspend(status)
       PROVE Exact'
  BY <1>1, <1>10, WriteStatusExact DEF Refresh, Suspend
<1>11. CASE SuspendFailed
  BY <1>1, <1>11, SuspendFailedExact
<1>12. CASE Resume
  BY <1>1, <1>12, WriteStatusExact DEF Resume, Status, Billed
<1>13. ASSUME NEW size \in Sizes, SetSpecs(size)
       PROVE Exact'
  <2>1. /\ row # NoRow /\ Accrue(row, now) /\ row \in Rows
        /\ now' = now /\ lastUse' = lastUse
    BY <1>2, <1>13 DEF SetSpecs
  <2>2. row'.used = row.used /\ row'.metered = now
    BY <1>13, <2>1 DEF SetSpecs, Rows
  <2>3. Exact'
    BY <1>1, <1>2, <2>1, <2>2, AccrueAll, ExactFromNow
  <2>4. QED
    BY <1>1, <2>1, <2>2, <2>3 DEF ExactInv, UsedAsTheRowSays
<1>14. CASE UNCHANGED vars
  BY <1>1, <1>14 DEF vars, ExactInv, UsedAsTheRowSays, Exact, Unbilled, DueIn
<1>15. QED
  BY <1>1, <1>3, <1>4, <1>5, <1>6, <1>7, <1>8, <1>9, <1>10, <1>11, <1>12,
     <1>13, <1>14 DEF Next

\* Whatever bills, and in whatever order: as long as the row knows the last use,
\* no tick is billed twice or as what it was not.
THEOREM BilledExactly == Spec => BilledAsDue
<1>1. ExactInv => BilledOnce
  <2>1. ASSUME ExactInv, NEW t \in 1 .. Horizon PROVE owed[t] # "overbilled"
    <3>1. owed[t] = "nothing" \/ (row \in Rows /\ owed[t] = DueIn(row, lastUse, t))
      BY <2>1 DEF ExactInv, Exact, Unbilled, TypeOK
    <3>2. row \in Rows => DueIn(row, lastUse, t) \in Charges
      BY DueType
    <3>3. "overbilled" \notin Charges
      BY SandboxMeterAssumption DEF Charges
    <3>4. QED
      BY <3>1, <3>2, <3>3
  <2>2. QED
    BY <2>1 DEF BilledOnce
<1>2. QED
  BY <1>1, InitInv, ExactStep, PTL DEF Spec, BilledAsDue

-----------------------------------------------------------------------------
(* Nothing is lost, whatever the row knows of the last use.  A suspend that   *)
(* fails makes the row say too late a use, so a bill reaches at least as far   *)
(* as the machine ran: a tick that is owed is one the row still bills.         *)

Owing(t) == owed[t] \in Sizes \cup {"stored"}

Backed(t) ==
  /\ row # NoRow /\ row.metered < t /\ t <= now
  /\ DueIn(row, row.used, t) # "nothing"

UseKnown == lastUse <= now /\ (row # NoRow => lastUse <= row.used)

Kept == \A t \in 1 .. Horizon : Owing(t) => Backed(t)

KeptInv == TypeOK /\ UseKnown /\ Kept

LEMMA KeptNumbers ==
  ASSUME TypeOK
  PROVE  /\ now \in Nat /\ lastUse \in Nat /\ Horizon \in Nat
         /\ now \in 0 .. Horizon /\ now \in 0 .. now
         /\ row # NoRow => /\ row \in Rows /\ row.used \in Nat
                           /\ row.metered \in Nat /\ row.metered <= now
BY SandboxMeterAssumption, RowNumbers DEF TypeOK

\* A machine used later is due something for at least as long.
LEMMA LaterUse ==
  ASSUME NEW r \in Rows, NEW used \in Nat, used <= r.used, NEW t \in 1 .. Horizon,
         DueIn(r, used, t) # "nothing"
  PROVE  DueIn(r, r.used, t) # "nothing"
<1>1. /\ r.used \in Nat /\ RunsFor(r) \in Nat /\ Life \in Nat /\ Horizon \in Nat
      /\ r # NoRow
  BY RowNumbers, NoRowIsNone
<1>2. BilledSize(r) # "nothing"
  BY SandboxMeterAssumption DEF BilledSize, Rows
<1>3. /\ t <= used + RunsFor(r) => t <= r.used + RunsFor(r)
      /\ t <= used + Life => t <= r.used + Life
  BY <1>1
<1>4. QED
  BY <1>1, <1>2, <1>3 DEF DueIn

\* What is owed after a bill was owed before, and lies after what it billed.
LEMMA BillSettles ==
  ASSUME KeptInv, row # NoRow, NEW at \in 0 .. Horizon, Accrue(row, at),
         NEW t \in 1 .. Horizon, Owing(t)'
  PROVE  Owing(t) /\ StoredUntil(row, at) < t
<1>1. \A what : Charge(t, what) \notin Sizes \cup {"stored"}
  BY SandboxMeterAssumption DEF Charge
<1>2. /\ row \in Rows /\ row.metered \in Int
      /\ RunningUntil(row, at) \in Int /\ StoredUntil(row, at) \in Int
      /\ row.metered <= RunningUntil(row, at)
      /\ RunningUntil(row, at) <= StoredUntil(row, at)
  BY KeptNumbers, StretchesBound DEF KeptInv
<1>3. /\ owed'[t] = CASE row.metered < t /\ t <= RunningUntil(row, at)
                           -> Charge(t, BilledSize(row))
                      [] RunningUntil(row, at) < t /\ t <= StoredUntil(row, at)
                           -> Charge(t, "stored")
                      [] OTHER -> owed[t]
      /\ owed'[t] \in Sizes \cup {"stored"}
  BY DEF Accrue, Owing
<1>4. /\ ~(row.metered < t /\ t <= RunningUntil(row, at))
      /\ ~(RunningUntil(row, at) < t /\ t <= StoredUntil(row, at))
  BY <1>1, <1>3
<1>5. owed'[t] = owed[t]
  BY <1>3, <1>4
<1>6. Owing(t) /\ row.metered < t
  BY <1>3, <1>5 DEF Owing, KeptInv, Kept, Backed
<1>7. QED
  BY <1>2, <1>4, <1>6

\* A bill up to now, or after the end of the call, leaves nothing owed.
LEMMA BillAll ==
  ASSUME KeptInv, row # NoRow, NEW at \in 0 .. Horizon, Accrue(row, at),
         at = now \/ (row.ephemeral /\ row.used + CallMax < at)
  PROVE  \A t \in 1 .. Horizon : ~Owing(t)'
<1>1. SUFFICES ASSUME NEW t \in 1 .. Horizon, Owing(t)' PROVE FALSE
  OBVIOUS
<1>2. Owing(t) /\ StoredUntil(row, at) < t
  BY <1>1, BillSettles
<1>3. t <= now /\ DueIn(row, row.used, t) # "nothing" /\ row \in Rows
  BY <1>2, KeptNumbers DEF KeptInv, Kept, Backed
<1>4. QED
  BY <1>2, <1>3, NothingBehind

LEMMA UpsertKept ==
  ASSUME KeptInv, NEW own \in BOOLEAN, NEW size \in Sizes, NEW verified \in BOOLEAN,
         NEW idle \in Idles, NEW replaced \in BOOLEAN,
         Upsert(own, size, verified, idle, replaced)
  PROVE  UseKnown' /\ Kept'
<1> DEFINE next == Refreshed(row, own, size, verified, idle, replaced)
<1>1. /\ row # NoRow /\ now' = now /\ lastUse' = now /\ ~row.ephemeral
      /\ BillRefresh(row, next, replaced) /\ TypeOK
      /\ row \in Rows /\ now \in Nat /\ now \in 0 .. Horizon
  BY KeptNumbers DEF Upsert, KeptInv
<1>2. /\ next \in Rows /\ next.used = now /\ next.status = "running"
      /\ next.metered = row.metered /\ next # NoRow
  BY <1>1, RefreshedType, NoRowIsNone
<1> HIDE DEF next
<1>3. CASE Deferred(row, next, replaced)
  <2>1. row' = next /\ owed' = owed /\ next.own = row.own
    BY <1>1, <1>3 DEF BillRefresh, Deferred
  <2>2. ASSUME NEW t \in 1 .. Horizon, Owing(t)' PROVE Backed(t)'
    <3>1. Owing(t)
      BY <2>1, <2>2 DEF Owing
    <3>2. row.metered < t /\ t <= now /\ DueIn(row, row.used, t) # "nothing"
      BY <3>1 DEF KeptInv, Kept, Backed
    <3>3. ~next.own /\ t <= now + RunsFor(next)
      <4>1. ~row.own
        BY <3>2 DEF DueIn
      <4>2. RunsFor(next) \in Nat
        BY <1>2, RowNumbers
      <4>3. QED
        BY <1>1, <2>1, <3>2, <4>1, <4>2
    <3>4. BilledSize(next) # "nothing"
      BY <1>2, SandboxMeterAssumption DEF BilledSize, Rows
    <3>5. DueIn(next, now, t) # "nothing"
      BY <1>2, <3>3, <3>4 DEF DueIn, Billed
    <3>6. DueIn(row, row.used, t)' = DueIn(next, now, t)
      BY <1>2, <2>1 DEF DueIn, RunsFor, BilledSize
    <3>7. QED
      BY <1>1, <1>2, <2>1, <3>2, <3>5, <3>6 DEF Backed
  <2>3. QED
    BY <1>1, <1>2, <2>1, <2>2 DEF Kept, UseKnown
<1>4. CASE ~Deferred(row, next, replaced)
  <2>1. row' = [next EXCEPT !.metered = now] /\ Accrue(row, now)
    BY <1>1, <1>4 DEF BillRefresh
  <2>2. row'.used = now
    BY <1>2, <2>1 DEF Rows
  <2>3. \A t \in 1 .. Horizon : ~Owing(t)'
    BY <1>1, <2>1, BillAll
  <2>4. QED
    BY <1>1, <2>2, <2>3 DEF Kept, UseKnown
<1>5. QED
  BY <1>3, <1>4

LEMMA WriteStatusKept ==
  ASSUME KeptInv, NEW status \in Status, NEW observed \in BOOLEAN,
         WriteStatus(status, observed),
         lastUse' = lastUse \/ (lastUse' = now /\ status = "running" /\ ~observed)
  PROVE  UseKnown' /\ Kept'
<1>1. /\ row \in Rows /\ row # NoRow /\ now' = now /\ Accrue(row, now)
      /\ now \in Nat /\ now \in 0 .. Horizon /\ row.used \in Nat /\ lastUse \in Nat
      /\ lastUse <= now /\ lastUse <= row.used
  BY KeptNumbers DEF WriteStatus, KeptInv, UseKnown
<1>2. row'.used = IF status = "running" /\ ~observed THEN now ELSE row.used
  BY <1>1 DEF WriteStatus, Rows
<1>3. \A t \in 1 .. Horizon : ~Owing(t)'
  BY <1>1, BillAll
<1>4. QED
  BY <1>1, <1>2, <1>3 DEF Kept, UseKnown

\* A page bills up to its own time; what is after it stays owed.
LEMMA AccruePageKept ==
  ASSUME KeptInv, AccruePage
  PROVE  UseKnown' /\ Kept'
<1>1. page \in 0 .. Horizon /\ now' = now /\ lastUse' = lastUse
  BY SandboxMeterAssumption DEF AccruePage, KeptInv, TypeOK
<1>2. CASE row # NoRow /\ row.used >= page - Lookback
  <2>1. /\ row' = [row EXCEPT !.metered = StoredUntil(row, page)]
        /\ Accrue(row, page) /\ row \in Rows
    BY <1>2, KeptNumbers DEF AccruePage, KeptInv
  <2>2. StoredUntil(row, page) \in 0 .. Horizon
    BY <1>1, <2>1, StretchesBound
  <2>3. /\ row' \in Rows /\ row'.metered = StoredUntil(row, page)
        /\ row'.used = row.used /\ row'.own = row.own /\ row'.status = row.status
        /\ row'.idle = row.idle /\ row'.ephemeral = row.ephemeral
        /\ row'.lambda = row.lambda /\ row'.size = row.size
    BY <2>1, <2>2 DEF Rows
  <2>4. row' # NoRow
    BY <2>3, NoRowIsNone
  <2>5. ASSUME NEW t \in 1 .. Horizon, Owing(t)' PROVE Backed(t)'
    <3>1. Owing(t) /\ StoredUntil(row, page) < t
      BY <1>1, <1>2, <2>1, <2>5, BillSettles
    <3>2. t <= now /\ DueIn(row, row.used, t) # "nothing"
      BY <3>1 DEF KeptInv, Kept, Backed
    <3>3. DueIn(row, row.used, t)' = DueIn(row, row.used, t)
      BY <1>2, <2>3, <2>4 DEF DueIn, BilledSize, RunsFor
    <3>4. QED
      BY <1>1, <2>3, <2>4, <3>1, <3>2, <3>3 DEF Backed
  <2>6. QED
    BY <1>1, <1>2, <2>3, <2>5 DEF Kept, KeptInv, UseKnown
<1>3. CASE ~(row # NoRow /\ row.used >= page - Lookback)
  <2>1. row' = row /\ owed' = owed
    BY <1>3 DEF AccruePage
  <2>2. QED
    BY <1>1, <2>1 DEF KeptInv, UseKnown, Kept, Owing, Backed, DueIn, RunsFor
<1>4. QED
  BY <1>2, <1>3

LEMMA TickKept ==
  ASSUME KeptInv, Tick
  PROVE  UseKnown' /\ Kept'
<1>1. /\ now' = now + 1 /\ row' = row /\ lastUse' = lastUse
      /\ owed' = [owed EXCEPT ![now + 1] = DueIn(row, lastUse, now + 1)]
      /\ owed \in [1 .. Horizon -> Charges \cup {"overbilled"}]
  BY DEF Tick, KeptInv, TypeOK
<1>2. /\ now \in Nat /\ lastUse \in Nat /\ lastUse <= now
      /\ row # NoRow => /\ row \in Rows /\ row.used \in Nat /\ lastUse <= row.used
                        /\ row.metered \in Nat /\ row.metered <= now
  BY KeptNumbers DEF KeptInv, UseKnown
<1>3. UseKnown'
  BY <1>1, <1>2 DEF UseKnown
<1>4. ASSUME NEW t \in 1 .. Horizon, Owing(t)' PROVE Backed(t)'
  <2>1. DueIn(row, row.used, t)' = DueIn(row, row.used, t)
    BY <1>1 DEF DueIn
  <2>2. CASE t = now + 1
    <3>1. DueIn(row, lastUse, t) # "nothing"
      BY <1>1, <1>4, <2>2, SandboxMeterAssumption DEF Owing
    <3>2. row # NoRow
      BY <3>1 DEF DueIn
    <3>3. DueIn(row, row.used, t) # "nothing"
      BY <1>2, <3>1, <3>2, LaterUse
    <3>4. QED
      BY <1>1, <1>2, <2>1, <2>2, <3>2, <3>3 DEF Backed
  <2>3. CASE t # now + 1
    <3>1. Owing(t)
      BY <1>1, <1>4, <2>3 DEF Owing
    <3>2. Backed(t)
      BY <3>1 DEF KeptInv, Kept
    <3>3. QED
      BY <1>1, <1>2, <2>1, <3>2 DEF Backed
  <2>4. QED
    BY <2>2, <2>3
<1>5. QED
  BY <1>3, <1>4 DEF Kept

LEMMA KeptStep == KeptInv /\ [Next]_vars => KeptInv'
<1>1. SUFFICES ASSUME KeptInv, [Next]_vars PROVE UseKnown' /\ Kept'
  BY TypeStep DEF KeptInv
<1>2. /\ now \in Nat /\ now \in 0 .. Horizon /\ lastUse \in Nat /\ lastUse <= now
      /\ row # NoRow => row \in Rows /\ row.used \in Nat /\ lastUse <= row.used
  BY <1>1, KeptNumbers DEF KeptInv, UseKnown
<1>3. CASE Tick
  BY <1>1, <1>3, TickKept
<1>4. CASE Remove
  <2>1. /\ row # NoRow /\ row' = NoRow /\ Accrue(row, now)
        /\ now' = now /\ lastUse' = lastUse
    BY <1>4 DEF Remove
  <2>2. \A t \in 1 .. Horizon : ~Owing(t)'
    BY <1>1, <1>2, <2>1, BillAll
  <2>3. QED
    BY <1>2, <2>1, <2>2 DEF Kept, UseKnown
<1>5. CASE AccrueRecent
  BY <1>1, <1>5 DEF AccrueRecent, KeptInv, UseKnown, Kept, Owing, Backed, DueIn,
                    RunsFor
<1>6. CASE AccruePage
  BY <1>1, <1>6, AccruePageKept
<1>7. CASE SweepStaleEphemeral
  <2>1. /\ stale \in 0 .. Horizon /\ now' = now /\ lastUse' = lastUse
    BY <1>1, <1>2, <1>7, SandboxMeterAssumption DEF SweepStaleEphemeral, KeptInv, TypeOK
  <2>2. CASE IsStale(row, stale)
    <3>1. /\ row' = NoRow /\ Accrue(row, stale) /\ row # NoRow
          /\ row.ephemeral /\ row.used < stale - CallMax
      BY <1>7, <2>2 DEF SweepStaleEphemeral, IsStale
    <3>2. row.used + CallMax < stale
      BY <1>2, <2>1, <3>1, SandboxMeterAssumption
    <3>3. \A t \in 1 .. Horizon : ~Owing(t)'
      BY <1>1, <2>1, <3>1, <3>2, BillAll
    <3>4. QED
      BY <1>2, <2>1, <3>1, <3>3 DEF Kept, UseKnown
  <2>3. CASE ~IsStale(row, stale)
    <3>1. row' = row /\ owed' = owed
      BY <1>7, <2>3 DEF SweepStaleEphemeral
    <3>2. QED
      BY <1>1, <2>1, <3>1 DEF KeptInv, UseKnown, Kept, Owing, Backed, DueIn, RunsFor
  <2>4. QED
    BY <2>2, <2>3
<1>8. ASSUME NEW own \in BOOLEAN, NEW verified \in BOOLEAN, NEW flag \in BOOLEAN,
             NEW size \in Sizes, NEW idle \in Idles,
             Upsert(own, size, verified, idle, flag)
      PROVE UseKnown' /\ Kept'
  BY <1>1, <1>8, UpsertKept
<1>9. ASSUME NEW own \in BOOLEAN, NEW verified \in BOOLEAN, NEW flag \in BOOLEAN,
             NEW size \in Sizes, NEW idle \in Idles, NEW lambda \in BOOLEAN,
             Launch(lambda, flag, own, size, verified, idle)
      PROVE UseKnown' /\ Kept'
  <2>1. /\ row = NoRow /\ row'.used = now /\ lastUse' = now
        /\ owed' = owed /\ now' = now
    BY <1>9 DEF Launch
  <2>2. \A t \in 1 .. Horizon : ~Owing(t)'
    BY <1>1, <2>1 DEF KeptInv, Kept, Owing, Backed
  <2>3. QED
    BY <1>2, <2>1, <2>2 DEF Kept, UseKnown
<1>10. ASSUME NEW status \in Status, Refresh(status) \/ Suspend(status)
       PROVE UseKnown' /\ Kept'
  BY <1>1, <1>10, WriteStatusKept DEF Refresh, Suspend
<1>11. CASE SuspendFailed
  BY <1>1, <1>11, WriteStatusKept DEF SuspendFailed, Status, Billed
<1>12. CASE Resume
  BY <1>1, <1>12, WriteStatusKept DEF Resume, Status, Billed
<1>13. ASSUME NEW size \in Sizes, SetSpecs(size)
       PROVE UseKnown' /\ Kept'
  <2>1. /\ row # NoRow /\ Accrue(row, now) /\ row \in Rows
        /\ now' = now /\ lastUse' = lastUse
    BY <1>2, <1>13 DEF SetSpecs
  <2>2. row'.used = row.used
    BY <1>13, <2>1 DEF SetSpecs, Rows
  <2>3. \A t \in 1 .. Horizon : ~Owing(t)'
    BY <1>1, <1>2, <2>1, BillAll
  <2>4. QED
    BY <1>2, <2>1, <2>2, <2>3 DEF Kept, UseKnown
<1>14. CASE UNCHANGED vars
  BY <1>1, <1>14 DEF vars, KeptInv, UseKnown, Kept, Owing, Backed, DueIn, RunsFor
<1>15. QED
  BY <1>1, <1>3, <1>4, <1>5, <1>6, <1>7, <1>8, <1>9, <1>10, <1>11, <1>12,
     <1>13, <1>14 DEF Next

\* What is not billed lies behind `meteredUntil` of a row that is there, also
\* when a suspend that failed left the row with too late a use.
THEOREM NothingIsLost == Spec => []NothingLost
<1>1. Init => KeptInv
  <2>1. 0 \in Nat /\ "nothing" \notin Sizes \cup {"stored"}
    BY SandboxMeterAssumption
  <2>2. ASSUME Init PROVE UseKnown /\ Kept
    BY <2>1, <2>2 DEF Init, UseKnown, Kept, Owing
  <2>3. QED
    BY <2>2, InitInv DEF KeptInv, ExactInv
<1>2. KeptInv => NothingLost
  <2>1. ASSUME KeptInv, NEW t \in 1 .. Horizon, owed[t] \in Sizes \cup {"stored"}
        PROVE  row # NoRow /\ t > row.metered
    <3>1. row # NoRow /\ row.metered < t
      BY <2>1 DEF KeptInv, Kept, Owing, Backed
    <3>2. row.metered \in Nat /\ t \in Nat
      BY <2>1, <3>1, KeptNumbers DEF KeptInv
    <3>3. QED
      BY <3>1, <3>2
  <2>2. QED
    BY <2>1 DEF NothingLost
<1>3. QED
  BY <1>1, <1>2, KeptStep, PTL DEF Spec

=============================================================================
