-------------------------- MODULE WorkerPoolProofs --------------------------
(***************************************************************************)
(* Theorems about WorkerPool, for every set of runs and every limit.       *)
(*                                                                         *)
(* The synchronous helpers take a pool to a pool, so each has a lemma that  *)
(* it keeps a pool steady and says which runs it has in a slot or waiting;  *)
(* the actions cite them.                                                  *)
(***************************************************************************)
EXTENDS WorkerPool, FiniteSetTheorems, SequenceTheorems, TLAPS

PoolType ==
  [active : 0 .. MaxWorkers, pending : Seq(Run), slots : SUBSET Run,
   used : [Run -> 0 .. MaxSlots], timer : BOOLEAN]

\* Nobody is in the pool twice, and nobody waits beside a free slot.
Steady(p) ==
  /\ p \in PoolType
  /\ p.active = Cardinality(p.slots)
  /\ p.pending # <<>> => p.active = MaxWorkers /\ p.timer
  /\ IsInjective(p.pending)
  /\ p.slots \cap ToSet(p.pending) = {}
  /\ \A r \in ToSet(p.pending) : p.used[r] < MaxSlots

\* The runs a pool knows.
Known(p) == p.slots \cup ToSet(p.pending)

-----------------------------------------------------------------------------
(* Sequences without repetition.                                           *)

LEMMA ToSetType ==
  ASSUME NEW s \in Seq(Run)
  PROVE  ToSet(s) \subseteq Run /\ (s = <<>> <=> ToSet(s) = {})
<1>1. Len(s) \in Nat /\ DOMAIN s = 1 .. Len(s) /\ s \in [1 .. Len(s) -> Run]
  BY LenProperties
<1>2. s # <<>> => Len(s) \in Nat \ {0}
  BY EmptySeq
<1>3. s # <<>> => s[1] \in ToSet(s)
  BY <1>1, <1>2 DEF ToSet
<1>4. ToSet(<<>>) = {}
  BY DEF ToSet
<1>5. QED
  BY <1>1, <1>3, <1>4 DEF ToSet

LEMMA TailWaits ==
  ASSUME NEW s \in Seq(Run), s # <<>>, IsInjective(s)
  PROVE  /\ Head(s) \in ToSet(s)
         /\ Tail(s) \in Seq(Run)
         /\ Len(Tail(s)) = Len(s) - 1
         /\ ToSet(Tail(s)) = ToSet(s) \ {Head(s)}
         /\ IsInjective(Tail(s))
<1>1. /\ Len(s) \in Nat \ {0} /\ DOMAIN s = 1 .. Len(s)
      /\ Head(s) = s[1]
      /\ Tail(s) \in Seq(Run) /\ Len(Tail(s)) = Len(s) - 1
      /\ \A i \in 1 .. Len(Tail(s)) : Tail(s)[i] = s[i + 1]
  BY HeadTailProperties, LenProperties, EmptySeq
<1>2. DOMAIN Tail(s) = 1 .. Len(s) - 1
  BY <1>1, LenProperties
<1>3. Head(s) \in ToSet(s)
  BY <1>1 DEF ToSet
<1>4. ToSet(Tail(s)) \subseteq ToSet(s) \ {Head(s)}
  BY <1>1, <1>2 DEF ToSet, IsInjective
<1>5. ASSUME NEW r \in ToSet(s) \ {Head(s)}
      PROVE  r \in ToSet(Tail(s))
  <2>1. PICK i \in 1 .. Len(s) : s[i] = r
    BY <1>1 DEF ToSet
  <2>2. i - 1 \in 1 .. Len(s) - 1 /\ Tail(s)[i - 1] = r
    BY <1>1, <2>1
  <2>3. QED
    BY <1>2, <2>2 DEF ToSet
<1>6. IsInjective(Tail(s))
  BY <1>1, <1>2 DEF IsInjective
<1>7. QED
  BY <1>1, <1>3, <1>4, <1>5, <1>6

LEMMA AppendWaits ==
  ASSUME NEW s \in Seq(Run), IsInjective(s), NEW r \in Run, r \notin ToSet(s)
  PROVE  /\ Append(s, r) \in Seq(Run)
         /\ Append(s, r) # <<>>
         /\ Len(Append(s, r)) = Len(s) + 1
         /\ ToSet(Append(s, r)) = ToSet(s) \cup {r}
         /\ IsInjective(Append(s, r))
<1> DEFINE t == Append(s, r)
<1>1. /\ t \in Seq(Run) /\ t # <<>> /\ Len(t) = Len(s) + 1
      /\ \A i \in 1 .. Len(s) : t[i] = s[i]
      /\ t[Len(s) + 1] = r
  BY AppendProperties
<1>2. /\ Len(s) \in Nat /\ DOMAIN s = 1 .. Len(s)
      /\ DOMAIN t = 1 .. Len(s) + 1
  BY <1>1, LenProperties
<1> HIDE DEF t
<1>3. ToSet(t) = ToSet(s) \cup {r}
  <2>1. ToSet(t) \subseteq ToSet(s) \cup {r}
    BY <1>1, <1>2 DEF ToSet
  <2>2. ToSet(s) \subseteq ToSet(t)
    BY <1>1, <1>2 DEF ToSet
  <2>3. r \in ToSet(t)
    BY <1>1, <1>2 DEF ToSet
  <2>4. QED
    BY <2>1, <2>2, <2>3
<1>4. IsInjective(t)
  <2>1. \A i \in 1 .. Len(s) : s[i] # r
    BY <1>2 DEF ToSet
  <2>2. QED
    BY <1>1, <1>2, <2>1 DEF IsInjective
<1>5. QED
  BY <1>1, <1>3, <1>4 DEF t

-----------------------------------------------------------------------------
(* The helpers.                                                            *)

LEMMA SlotsFinite ==
  ASSUME NEW S \in SUBSET Run
  PROVE  IsFiniteSet(S) /\ Cardinality(S) \in Nat
BY FS_Subset, FS_CardinalityType, PoolAssumption

\* A run that is not in the pool takes a free slot.
LEMMA TakeSlotSteady ==
  ASSUME NEW p, Steady(p), p.pending = <<>>, p.active < MaxWorkers,
         NEW r \in Run, r \notin p.slots, p.used[r] < MaxSlots
  PROVE  /\ Steady(TakeSlot(p, r))
         /\ TakeSlot(p, r).slots = p.slots \cup {r}
         /\ TakeSlot(p, r).pending = p.pending
<1> DEFINE h == TakeSlot(p, r)
<1>1. /\ h.active = p.active + 1 /\ h.pending = p.pending
      /\ h.slots = p.slots \cup {r} /\ h.timer = p.timer
      /\ h.used = [p.used EXCEPT ![r] = p.used[r] + 1]
  BY DEF TakeSlot, Steady, PoolType
<1>2. h = [active |-> h.active, pending |-> h.pending, slots |-> h.slots,
           used |-> h.used, timer |-> h.timer]
  BY DEF TakeSlot, Steady, PoolType
<1>3. Cardinality(h.slots) = h.active
  BY <1>1, SlotsFinite, FS_AddElement DEF Steady, PoolType
<1>4. h.active \in 0 .. MaxWorkers
  BY <1>1, PoolAssumption DEF Steady, PoolType
<1>5. h.used \in [Run -> 0 .. MaxSlots]
  BY <1>1, PoolAssumption DEF Steady, PoolType
<1>6. h \in PoolType
  BY <1>1, <1>2, <1>4, <1>5 DEF Steady, PoolType
<1>7. QED
  BY <1>1, <1>3, <1>6, ToSetType DEF Steady, PoolType

\* A slot given back goes to the head of the queue, or is free.
LEMMA ReleaseSteady ==
  ASSUME NEW p, Steady(p), NEW r \in p.slots
  PROVE  /\ Steady(ReleaseSlot(p, r))
         /\ Known(ReleaseSlot(p, r)) = Known(p) \ {r}
         /\ p.slots \ {r} \subseteq ReleaseSlot(p, r).slots
         /\ ToSet(ReleaseSlot(p, r).pending) \subseteq ToSet(p.pending)
         /\ ReleaseSlot(p, r).used[r] = p.used[r]
         /\ IF p.pending = <<>>
            THEN /\ ReleaseSlot(p, r).pending = <<>>
                 /\ ReleaseSlot(p, r).active < MaxWorkers
            ELSE Len(ReleaseSlot(p, r).pending) = Len(p.pending) - 1
<1> DEFINE f == Freed(p, r)
           h == ReleaseSlot(p, r)
<1>1. /\ f.active = p.active - 1 /\ f.pending = p.pending
      /\ f.slots = p.slots \ {r} /\ f.used = p.used /\ f.timer = p.timer
  BY DEF Freed, Steady, PoolType
<1>2. f = [active |-> p.active - 1, pending |-> p.pending,
           slots |-> p.slots \ {r}, used |-> p.used, timer |-> p.timer]
  BY DEF Freed, Steady, PoolType
<1>3. Cardinality(p.slots \ {r}) = p.active - 1 /\ p.active - 1 \in 0 .. MaxWorkers
  <2>1. p.slots \in SUBSET Run /\ p.slots \ {r} \in SUBSET Run
    BY DEF Steady, PoolType
  <2>2. /\ IsFiniteSet(p.slots) /\ Cardinality(p.slots) = p.active
        /\ Cardinality(p.slots \ {r}) \in Nat
    BY <2>1, SlotsFinite DEF Steady
  <2>3. Cardinality(p.slots \ {r}) = p.active - 1
    BY <2>2, FS_RemoveElement
  <2>4. p.active \in 0 .. MaxWorkers
    BY DEF Steady, PoolType
  <2>5. QED
    BY <2>2, <2>3, <2>4, PoolAssumption
<1>4. h = StartNextWorker(f)
  <2> HIDE DEF f
  <2>1. f = Freed(p, r)
    BY DEF f
  <2>2. QED
    BY <2>1, Zenon DEF ReleaseSlot
<1>5. r \in Run /\ r \notin ToSet(p.pending)
  BY DEF Steady, PoolType
<1>6. CASE p.pending = <<>>
  <2>1. h = f
    BY <1>1, <1>4, <1>6 DEF StartNextWorker
  <2>2. Steady(f)
    <3>1. f \in PoolType
      BY <1>1, <1>2, <1>3 DEF Steady, PoolType
    <3>2. QED
      BY <3>1, <1>1, <1>3, <1>6, ToSetType DEF Steady, PoolType
  <2>3. Known(f) = Known(p) \ {r}
    BY <1>1, <1>5 DEF Known
  <2>4. f.active < MaxWorkers
    BY <1>1, PoolAssumption DEF Steady, PoolType
  <2>5. QED
    BY <1>1, <1>6, <2>1, <2>2, <2>3, <2>4
<1>7. CASE p.pending # <<>>
  <2> DEFINE n == Head(p.pending)
             rest == Tail(p.pending)
  <2>1. /\ n \in ToSet(p.pending) /\ n \in Run /\ rest \in Seq(Run)
        /\ Len(rest) = Len(p.pending) - 1
        /\ ToSet(rest) = ToSet(p.pending) \ {n} /\ IsInjective(rest)
    BY <1>7, TailWaits, ToSetType DEF Steady, PoolType
  <2> DEFINE g == [f EXCEPT !.pending = Tail(f.pending),
                            !.timer = f.timer /\ Tail(f.pending) # <<>>]
  <2>2. /\ h.active = p.active /\ h.pending = rest
        /\ h.slots = (p.slots \ {r}) \cup {n}
        /\ h.used = [p.used EXCEPT ![n] = p.used[n] + 1]
        /\ h.timer = (p.timer /\ rest # <<>>)
        /\ h = [active |-> h.active, pending |-> h.pending, slots |-> h.slots,
                used |-> h.used, timer |-> h.timer]
    <3>1. h = TakeSlot(g, n)
      BY <1>1, <1>4, <1>7 DEF StartNextWorker
    <3>2. /\ g.active = p.active - 1 /\ g.pending = rest /\ g.used = p.used
          /\ g.slots = p.slots \ {r} /\ g.timer = (p.timer /\ rest # <<>>)
      BY <1>1, <1>2
    <3> HIDE DEF g, n, rest, h, f
    <3>3. h = [active |-> g.active + 1, pending |-> rest,
               slots |-> (p.slots \ {r}) \cup {n},
               used |-> [p.used EXCEPT ![n] = p.used[n] + 1],
               timer |-> g.timer]
      BY <3>1, <3>2 DEF TakeSlot
    <3>4. g.active + 1 = p.active
      BY <3>2, PoolAssumption DEF Steady, PoolType
    <3>5. QED
      BY <3>2, <3>3, <3>4
  <2> HIDE DEF n, rest, h, f
  <2>3. n \notin p.slots /\ p.used[n] < MaxSlots /\ n # r
    BY <2>1, <1>5 DEF Steady
  <2>4. Cardinality(h.slots) = h.active
    <3>1. IsFiniteSet(p.slots \ {r})
      BY SlotsFinite DEF Steady, PoolType
    <3>2. n \notin p.slots \ {r}
      BY <2>3
    <3>3. Cardinality((p.slots \ {r}) \cup {n}) = Cardinality(p.slots \ {r}) + 1
      BY <3>1, <3>2, FS_AddElement
    <3>4. p.active \in Int
      BY DEF Steady, PoolType
    <3>5. QED
      BY <1>3, <2>2, <3>3, <3>4
  <2>5. h.used \in [Run -> 0 .. MaxSlots] /\ h.used[r] = p.used[r]
    BY <2>1, <2>2, <2>3, <1>5, PoolAssumption DEF Steady, PoolType
  <2>6. h \in PoolType
    BY <2>1, <2>2, <2>5 DEF Steady, PoolType
  <2>7. h.slots \cap ToSet(h.pending) = {}
    BY <2>1, <2>2 DEF Steady
  <2>8. \A q \in ToSet(h.pending) : h.used[q] < MaxSlots
    BY <2>1, <2>2, ToSetType DEF Steady, PoolType
  <2>9. h.pending # <<>> => h.active = MaxWorkers /\ h.timer
    BY <2>2, <1>7 DEF Steady
  <2>10. Steady(h)
    BY <2>1, <2>2, <2>4, <2>6, <2>7, <2>8, <2>9 DEF Steady
  <2>11. Known(h) = Known(p) \ {r}
    BY <1>5, <2>1, <2>2, <2>3 DEF Known
  <2>12. QED
    BY <1>7, <2>1, <2>2, <2>5, <2>10, <2>11 DEF h
<1>8. QED
  BY <1>6, <1>7

\* A run that is not in the pool starts, or waits at the end of the queue.
LEMMA EnqueueSteady ==
  ASSUME NEW p, Steady(p), NEW r \in Run, r \notin Known(p),
         p.used[r] < MaxSlots
  PROVE  /\ Steady(EnqueueWorker(p, r))
         /\ Known(EnqueueWorker(p, r)) = Known(p) \cup {r}
         /\ p.slots \subseteq EnqueueWorker(p, r).slots
         /\ IF p.active < MaxWorkers
            THEN EnqueueWorker(p, r).pending = p.pending
            ELSE Len(EnqueueWorker(p, r).pending) = Len(p.pending) + 1
<1> DEFINE h == EnqueueWorker(p, r)
<1>1. r \notin p.slots /\ r \notin ToSet(p.pending)
  BY DEF Known
<1>2. CASE p.active < MaxWorkers
  <2>1. h = TakeSlot(p, r)
    BY <1>2 DEF EnqueueWorker
  <2>2. p.pending = <<>>
    BY <1>2, PoolAssumption DEF Steady, PoolType
  <2>3. Steady(h) /\ h.slots = p.slots \cup {r} /\ h.pending = p.pending
    BY <1>1, <1>2, <2>1, <2>2, TakeSlotSteady
  <2>4. QED
    BY <1>2, <2>3 DEF Known
<1>3. CASE ~(p.active < MaxWorkers)
  <2>1. /\ h.active = p.active /\ h.pending = Append(p.pending, r)
        /\ h.slots = p.slots /\ h.used = p.used /\ h.timer = TRUE
        /\ h = [active |-> h.active, pending |-> h.pending, slots |-> h.slots,
                used |-> h.used, timer |-> h.timer]
    BY <1>3 DEF EnqueueWorker, Steady, PoolType
  <2>2. /\ h.pending \in Seq(Run) /\ IsInjective(h.pending)
        /\ ToSet(h.pending) = ToSet(p.pending) \cup {r}
        /\ Len(h.pending) = Len(p.pending) + 1
    BY <1>1, <2>1, AppendWaits DEF Steady, PoolType
  <2> HIDE DEF h
  <2>3. h \in PoolType
    BY <2>1, <2>2 DEF Steady, PoolType
  <2>4. h.active = MaxWorkers
    BY <1>3, <2>1, PoolAssumption DEF Steady, PoolType
  <2>5. Steady(h)
    BY <1>1, <2>1, <2>2, <2>3, <2>4 DEF Steady
  <2>6. Known(h) = Known(p) \cup {r}
    BY <2>1, <2>2 DEF Known
  <2>7. QED
    BY <1>3, <2>1, <2>2, <2>5, <2>6 DEF h
<1>4. QED
  BY <1>2, <1>3

-----------------------------------------------------------------------------
(* The invariant.                                                          *)

\* A run is in one of three places, a request that holds one in none of them,
\* and the queue with the places held does not outgrow its limit by more than
\* the slots: only a start in a free slot goes uncounted.
PoolInv ==
  /\ TypeOK
  /\ Steady(Pool)
  /\ slots \subseteq workers
  /\ overdue \cap Known(Pool) = {}
  /\ placed \cap (overdue \cup Known(Pool)) = {}
  /\ held = Cardinality(placed)
  /\ Len(pending) + held <= MaxPending + MaxWorkers

LEMMA InitPoolInv == Init => PoolInv
<1> SUFFICES ASSUME Init PROVE PoolInv
  OBVIOUS
<1>1. pending \in Seq(Run) /\ Len(pending) = 0 /\ ToSet(pending) = {}
  BY EmptySeq, ToSetType DEF Init
<1>2. TypeOK
  <2>1. /\ active \in 0 .. MaxWorkers /\ used \in [Run -> 0 .. MaxSlots]
        /\ held \in Nat
        /\ age \in [Run -> Nat] /\ failures \in [Run -> Nat]
    BY PoolAssumption DEF Init
  <2>2. timer \in BOOLEAN /\ renewing \in BOOLEAN
    BY Zenon DEF Init
  <2>3. QED
    BY <1>1, <2>1, <2>2 DEF Init, TypeOK
<1>3. Cardinality({}) = 0
  BY FS_EmptySet
<1>4. IsInjective(pending)
  BY DEF Init, IsInjective
<1>5. Pool \in PoolType
  BY <1>2 DEF Pool, PoolType, TypeOK
<1>6. Steady(Pool)
  BY <1>1, <1>3, <1>4, <1>5 DEF Steady, Pool, Init
<1>7. QED
  BY <1>1, <1>2, <1>3, <1>6, PoolAssumption DEF PoolInv, Init, Known, Pool

\* What the places of requests add to the number held.
LEMMA PlacedType ==
  ASSUME PoolInv
  PROVE  /\ IsFiniteSet(placed) /\ placed \subseteq Run /\ held \in Nat
         /\ held = Cardinality(placed)
BY SlotsFinite DEF PoolInv, TypeOK

\* A pool taken is the pool there is next, and the leases keep their types.
LEMMA PoolTaken ==
  ASSUME PoolInv, NEW p, Steady(p), NEW entry \in SUBSET Run,
         TakePool(p, entry)
  PROVE  /\ Pool' = p
         /\ /\ active' \in 0 .. MaxWorkers /\ pending' \in Seq(Run)
            /\ slots' \subseteq Run /\ used' \in [Run -> 0 .. MaxSlots]
            /\ timer' \in BOOLEAN /\ renewing' \in BOOLEAN
            /\ leased' \subseteq Run /\ lost' \subseteq Run /\ round' \subseteq Run
            /\ age' \in [Run -> Nat] /\ failures' \in [Run -> Nat]
<1>1. p = [active |-> p.active, pending |-> p.pending, slots |-> p.slots,
           used |-> p.used, timer |-> p.timer]
  BY DEF Steady, PoolType
<1>2. Pool' = p
  BY <1>1 DEF TakePool, Pool
<1>3. /\ active' \in 0 .. MaxWorkers /\ pending' \in Seq(Run)
      /\ slots' \subseteq Run /\ used' \in [Run -> 0 .. MaxSlots]
      /\ timer' \in BOOLEAN
  BY DEF TakePool, Steady, PoolType
<1>4. /\ renewing' \in BOOLEAN
      /\ leased' \subseteq Run /\ lost' \subseteq Run /\ round' \subseteq Run
  BY ToSetType DEF TakePool, PoolInv, TypeOK, Steady, PoolType
<1>5. age' \in [Run -> Nat] /\ failures' \in [Run -> Nat]
  BY DEF TakePool, PoolInv, TypeOK
<1>6. QED
  BY <1>2, <1>3, <1>4, <1>5

\* The pool is as it was: what a step does to places and leases remains.
LEMMA PoolKept ==
  ASSUME PoolInv, TypeOK',
         UNCHANGED <<active, pending, slots, used, timer, workers, overdue>>,
         placed' \cap (overdue \cup Known(Pool)) = {},
         held' = Cardinality(placed'),
         Len(pending) + held' <= MaxPending + MaxWorkers
  PROVE  PoolInv'
<1>1. Pool' = Pool
  BY DEF Pool
<1>2. Known(Pool)' = Known(Pool)
  BY <1>1
<1>3. Steady(Pool)'
  BY <1>1 DEF PoolInv
<1>4. QED
  BY <1>2, <1>3 DEF PoolInv

LEMMA PlacesInv ==
  ASSUME PoolInv, NEW r \in Run, HoldPlace(r) \/ DropPlace(r) \/ Shed(r)
  PROVE  PoolInv'
<1>1. /\ IsFiniteSet(placed) /\ placed \subseteq Run /\ held \in Nat
      /\ held = Cardinality(placed)
  BY PlacedType
<1>2. /\ pending \in Seq(Run) /\ Len(pending) \in Nat /\ active \in Nat
      /\ Len(pending) + held <= MaxPending + MaxWorkers
  BY LenProperties DEF PoolInv, TypeOK
<1>3. CASE HoldPlace(r)
  <2>1. r \notin placed /\ r \notin overdue \cup Known(Pool)
    BY <1>3 DEF HoldPlace, Idle, Known, Pool, Waiting, PoolInv
  <2>2. Cardinality(placed \cup {r}) = held + 1
    BY <1>1, <2>1, FS_AddElement
  <2>3. Len(pending) + (held + 1) <= MaxPending + MaxWorkers
    BY <1>1, <1>2, <1>3, PoolAssumption DEF HoldPlace, Full
  <2>4. TypeOK'
    BY <1>1, <1>3 DEF HoldPlace, leaseVars, TypeOK, PoolInv
  <2>5. placed' \cap (overdue \cup Known(Pool)) = {}
    BY <1>3, <2>1 DEF HoldPlace, PoolInv
  <2>6. QED
    BY <1>3, <2>2, <2>3, <2>4, <2>5, PoolKept DEF HoldPlace, leaseVars
<1>4. CASE DropPlace(r)
  <2>1. Cardinality(placed \ {r}) = held - 1 /\ held - 1 \in Nat
    <3>1. r \in placed
      BY <1>4 DEF DropPlace
    <3>2. Cardinality(placed \ {r}) = held - 1
      BY <1>1, <3>1, FS_RemoveElement
    <3>3. Cardinality(placed \ {r}) \in Nat
      BY <1>1, SlotsFinite
    <3>4. QED
      BY <3>2, <3>3
  <2>2. TypeOK'
    BY <1>1, <1>4, <2>1 DEF DropPlace, leaseVars, TypeOK, PoolInv
  <2>3. placed' \cap (overdue \cup Known(Pool)) = {}
    BY <1>4 DEF DropPlace, PoolInv
  <2>4. Len(pending) + (held - 1) <= MaxPending + MaxWorkers
    BY <1>1, <1>2, PoolAssumption
  <2>5. QED
    BY <1>4, <2>1, <2>2, <2>3, <2>4, PoolKept DEF DropPlace, leaseVars
<1>5. CASE Shed(r)
  <2>1. r \notin placed
    BY <1>5 DEF Shed, MayShed
  <2>2. placed' = placed /\ held' = held
    BY <1>5, <2>1 DEF Shed
  <2>3. TypeOK'
    BY <1>1, <1>5, <2>2 DEF Shed, leaseVars, TypeOK, PoolInv
  <2>4. placed' \cap (overdue \cup Known(Pool)) = {}
    BY <2>2 DEF PoolInv
  <2>5. QED
    BY <1>1, <1>2, <1>5, <2>2, <2>3, <2>4, PoolKept DEF Shed, leaseVars
<1>6. QED
  BY <1>3, <1>4, <1>5

\* A run that was nowhere is in the pool.
LEMMA DispatchInv ==
  ASSUME PoolInv, NEW r \in Run, Dispatch(r)
  PROVE  PoolInv'
<1> DEFINE q == Dispatched(r)
           p == EnqueueWorker(q, r)
<1>1. /\ IsFiniteSet(placed) /\ placed \subseteq Run /\ held \in Nat
      /\ held = Cardinality(placed)
  BY PlacedType
<1>2. /\ pending \in Seq(Run) /\ Len(pending) \in Nat /\ active \in Nat
      /\ Len(pending) + held <= MaxPending + MaxWorkers
  BY LenProperties DEF PoolInv, TypeOK
<1>3. r \notin Known(Pool) /\ r \notin overdue
  BY DEF Dispatch, Idle, PoolInv, Known, Pool, Waiting
<1>4. /\ q.active = active /\ q.pending = pending /\ q.slots = slots
      /\ q.timer = timer /\ q.used = [used EXCEPT ![r] = 0]
      /\ q = [active |-> active, pending |-> pending, slots |-> slots,
              used |-> q.used, timer |-> timer]
  BY DEF Dispatched, Pool
<1>5. q \in PoolType
  <2> HIDE DEF q
  <2>1. q.used \in [Run -> 0 .. MaxSlots]
    BY <1>4, PoolAssumption DEF PoolInv, TypeOK
  <2>2. QED
    BY <1>4, <2>1 DEF PoolType, PoolInv, TypeOK
<1>6. Steady(q)
  <2>1. \A t \in ToSet(pending) : q.used[t] < MaxSlots
    BY <1>4, PoolAssumption, ToSetType DEF PoolInv, Steady, Pool, TypeOK
  <2>2. QED
    BY <1>4, <1>5, <2>1 DEF PoolInv, Steady, Pool
<1>7. r \notin Known(q) /\ Known(q) = Known(Pool) /\ q.used[r] < MaxSlots
  BY <1>3, <1>4, PoolAssumption DEF Known, Pool, PoolInv, TypeOK
<1> HIDE DEF q
<1>8. /\ Steady(p) /\ Known(p) = Known(Pool) \cup {r} /\ slots \subseteq p.slots
      /\ IF active < MaxWorkers THEN p.pending = pending
         ELSE Len(p.pending) = Len(pending) + 1
  BY <1>4, <1>6, <1>7, EnqueueSteady
<1>9. /\ TakePool(p, Leased \cap {r})
      /\ held' = IF r \in placed THEN held - 1 ELSE held
      /\ placed' = placed \ {r} /\ shed' = shed \ {r}
      /\ workers' = workers \cup p.slots /\ overdue' = overdue
      /\ ~MayShed(r)
  BY DEF Dispatch, q
<1> HIDE DEF p
<1>10. Pool' = p
  BY <1>8, <1>9, PoolTaken
<1>11. held' = Cardinality(placed') /\ held' \in Nat
  <2>1. Cardinality(placed \ {r}) = IF r \in placed THEN held - 1 ELSE held
    BY <1>1, FS_RemoveElement
  <2>2. Cardinality(placed \ {r}) \in Nat
    BY <1>1, SlotsFinite
  <2>3. QED
    BY <1>9, <2>1, <2>2
<1>12. Len(p.pending) + held' <= MaxPending + MaxWorkers
  <2>1. CASE active < MaxWorkers
    BY <1>1, <1>2, <1>8, <1>9, <2>1, PoolAssumption
  <2>2. CASE ~(active < MaxWorkers) /\ r \in placed
    BY <1>1, <1>2, <1>8, <1>9, <2>2, PoolAssumption
  <2>3. CASE ~(active < MaxWorkers) /\ r \notin placed
    <3>1. ~Full
      BY <1>2, <1>9, <2>3, PoolAssumption DEF MayShed
    <3>2. QED
      BY <1>1, <1>2, <1>8, <1>9, <2>3, <3>1, PoolAssumption DEF Full
  <2>4. QED
    BY <2>1, <2>2, <2>3
<1>13. TypeOK'
  <2>1. Leased \cap {r} \in SUBSET Run
    OBVIOUS
  <2>2. /\ active' \in 0 .. MaxWorkers /\ pending' \in Seq(Run)
        /\ slots' \subseteq Run /\ used' \in [Run -> 0 .. MaxSlots]
        /\ timer' \in BOOLEAN /\ renewing' \in BOOLEAN
        /\ leased' \subseteq Run /\ lost' \subseteq Run /\ round' \subseteq Run
        /\ age' \in [Run -> Nat] /\ failures' \in [Run -> Nat]
    BY <1>8, <1>9, <2>1, PoolTaken
  <2>3. p.slots \subseteq Run
    BY <1>8 DEF Steady, PoolType
  <2>4. QED
    BY <1>1, <1>9, <1>11, <2>2, <2>3 DEF TypeOK, PoolInv
<1>14. Steady(Pool)' /\ Known(Pool)' = Known(Pool) \cup {r}
  BY <1>8, <1>10
<1>15. pending' = p.pending /\ slots' = p.slots
  BY <1>9 DEF TakePool
<1>16. slots' \subseteq workers'
  BY <1>9, <1>15
<1>17. overdue' \cap Known(Pool)' = {}
  BY <1>3, <1>9, <1>14 DEF PoolInv
<1>18. placed' \cap (overdue' \cup Known(Pool)') = {}
  BY <1>9, <1>14 DEF PoolInv
<1>19. QED
  BY <1>11, <1>12, <1>13, <1>14, <1>15, <1>16, <1>17, <1>18 DEF PoolInv

\* A slot goes back: the run of it ended, or was given up.
LEMMA SlotInv ==
  ASSUME PoolInv, NEW r \in Run, Finish(r) \/ Overrun(r)
  PROVE  PoolInv'
<1> DEFINE p == ReleaseSlot(Pool, r)
<1>1. /\ Steady(p) /\ Known(p) \subseteq Known(Pool)
      /\ slots \ {r} \subseteq p.slots
      /\ Len(p.pending) <= Len(pending)
      /\ r \in slots => r \notin Known(p)
  <2>1. Pool.slots = slots /\ Pool.pending = pending
    BY DEF Pool
  <2>2. Len(pending) \in Nat
    BY LenProperties DEF PoolInv, TypeOK
  <2>3. CASE r \in slots
    BY <2>1, <2>2, <2>3, ReleaseSteady DEF PoolInv
  <2>4. CASE r \notin slots
    <3>1. p = Pool
      BY <2>1, <2>4 DEF ReleaseSlot
    <3>2. QED
      BY <2>1, <2>2, <2>4, <3>1 DEF PoolInv
  <2>5. QED
    BY <2>3, <2>4
<1> HIDE DEF p
<1>2. /\ TakePool(p, {}) /\ workers' = (workers \ {r}) \cup p.slots
      /\ held' = held /\ placed' = placed /\ shed' = shed
      /\ r \in slots \cup overdue
      /\ \/ overdue' = overdue \ {r}
         \/ r \in slots /\ overdue' = overdue \cup {r}
  BY DEF Finish, Overrun, p
<1>3. Pool' = p /\ pending' = p.pending /\ slots' = p.slots
  <2>1. Pool' = p
    BY <1>1, <1>2, PoolTaken
  <2>2. QED
    BY <1>2, <2>1 DEF TakePool
<1>4. TypeOK'
  <2>1. /\ active' \in 0 .. MaxWorkers /\ pending' \in Seq(Run)
        /\ slots' \subseteq Run /\ used' \in [Run -> 0 .. MaxSlots]
        /\ timer' \in BOOLEAN /\ renewing' \in BOOLEAN
        /\ leased' \subseteq Run /\ lost' \subseteq Run /\ round' \subseteq Run
        /\ age' \in [Run -> Nat] /\ failures' \in [Run -> Nat]
    BY <1>1, <1>2, PoolTaken
  <2>2. p.slots \subseteq Run
    BY <1>1 DEF Steady, PoolType
  <2>3. QED
    BY <1>2, <2>1, <2>2 DEF TypeOK, PoolInv
<1>5. Steady(Pool)' /\ Known(Pool)' = Known(p)
  BY <1>1, <1>3
<1>6. slots' \subseteq workers'
  BY <1>2, <1>3
<1>7. overdue' \cap Known(Pool)' = {}
  BY <1>1, <1>2, <1>5 DEF PoolInv
<1>8. placed' \cap (overdue' \cup Known(Pool)') = {}
  <2>1. r \in overdue \cup Known(Pool)
    BY <1>2 DEF Known, Pool
  <2>2. QED
    BY <1>1, <1>2, <1>5, <2>1 DEF PoolInv
<1>9. Len(pending') + held' <= MaxPending + MaxWorkers
  <2>1. Len(p.pending) \in Nat /\ Len(pending) \in Nat
    BY <1>1, LenProperties DEF Steady, PoolType, PoolInv, TypeOK
  <2>2. QED
    BY <1>1, <1>2, <1>3, <2>1, PoolAssumption DEF PoolInv, TypeOK
<1>10. QED
  BY <1>2, <1>4, <1>5, <1>6, <1>7, <1>8, <1>9 DEF PoolInv

\* A yield gives the slot to the head of the queue before its run waits: the
\* queue is no longer than it was.
LEMMA YieldInv ==
  ASSUME PoolInv, NEW r \in Run, YieldSlot(r)
  PROVE  PoolInv'
<1> DEFINE f == ReleaseSlot(Pool, r)
           p == EnqueueWorker(f, r)
<1>1. /\ r \in slots /\ used[r] < MaxSlots
      /\ TakePool(p, Leased \cap {r}) /\ workers' = workers \cup p.slots
      /\ overdue' = overdue /\ held' = held /\ placed' = placed /\ shed' = shed
  BY DEF YieldSlot, MayYield
<1>2. /\ Pool.slots = slots /\ Pool.pending = pending /\ Pool.used = used
      /\ Steady(Pool)
  BY DEF Pool, PoolInv
<1>3. /\ Steady(f) /\ Known(f) = Known(Pool) \ {r} /\ f.used[r] = used[r]
      /\ IF pending = <<>> THEN f.pending = <<>> /\ f.active < MaxWorkers
         ELSE Len(f.pending) = Len(pending) - 1
  BY <1>1, <1>2, ReleaseSteady
<1> HIDE DEF f
<1>4. Len(pending) \in Nat /\ Len(f.pending) \in Nat
  BY <1>3, LenProperties DEF PoolInv, TypeOK, Steady, PoolType
<1>5. /\ Steady(p) /\ Known(p) = Known(f) \cup {r}
      /\ IF f.active < MaxWorkers THEN p.pending = f.pending
         ELSE Len(p.pending) = Len(f.pending) + 1
  BY <1>1, <1>3, EnqueueSteady
<1> HIDE DEF p
<1>6. Known(p) = Known(Pool) /\ Len(p.pending) <= Len(pending)
  <2>1. r \in Known(Pool)
    BY <1>1, <1>2 DEF Known
  <2>2. Known(p) = Known(Pool)
    BY <1>3, <1>5, <2>1
  <2>3. Len(p.pending) <= Len(pending)
    BY <1>3, <1>4, <1>5
  <2>4. QED
    BY <2>2, <2>3
<1>7. Pool' = p /\ pending' = p.pending /\ slots' = p.slots
  <2>1. Leased \cap {r} \in SUBSET Run
    OBVIOUS
  <2>2. Pool' = p
    BY <1>1, <1>5, <2>1, PoolTaken
  <2>3. QED
    BY <1>1, <2>2 DEF TakePool
<1>8. TypeOK'
  <2>1. Leased \cap {r} \in SUBSET Run
    OBVIOUS
  <2>2. /\ active' \in 0 .. MaxWorkers /\ pending' \in Seq(Run)
        /\ slots' \subseteq Run /\ used' \in [Run -> 0 .. MaxSlots]
        /\ timer' \in BOOLEAN /\ renewing' \in BOOLEAN
        /\ leased' \subseteq Run /\ lost' \subseteq Run /\ round' \subseteq Run
        /\ age' \in [Run -> Nat] /\ failures' \in [Run -> Nat]
    BY <1>1, <1>5, <2>1, PoolTaken
  <2>3. p.slots \subseteq Run
    BY <1>5 DEF Steady, PoolType
  <2>4. QED
    BY <1>1, <2>2, <2>3 DEF TypeOK, PoolInv
<1>9. Steady(Pool)' /\ Known(Pool)' = Known(Pool)
  BY <1>5, <1>6, <1>7
<1>10. slots' \subseteq workers'
  BY <1>1, <1>7
<1>11. /\ overdue' \cap Known(Pool)' = {}
       /\ placed' \cap (overdue' \cup Known(Pool)') = {}
  BY <1>1, <1>9 DEF PoolInv
<1>12. Len(pending') + held' <= MaxPending + MaxWorkers
  <2>1. Len(p.pending) \in Nat
    BY <1>5, LenProperties DEF Steady, PoolType
  <2>2. QED
    BY <1>1, <1>4, <1>6, <1>7, <2>1, PoolAssumption DEF PoolInv, TypeOK
<1>13. QED
  BY <1>1, <1>8, <1>9, <1>10, <1>11, <1>12 DEF PoolInv

\* A renewal moves nothing in the pool.
LEMMA LeasesInv ==
  ASSUME PoolInv,
         (\E r \in Run : Leases(r)) \/ RenewQueuedLeases \/ RoundOver
  PROVE  PoolInv'
<1>1. /\ UNCHANGED <<active, pending, slots, used, timer, workers, overdue>>
      /\ UNCHANGED <<held, placed, shed>>
  BY DEF Leases, Renewed, NotRenewed, RenewalFailed, RenewQueuedLeases,
         RoundOver, poolVars
<1>2. /\ renewing' \in BOOLEAN
      /\ leased' \subseteq Run /\ lost' \subseteq Run /\ round' \subseteq Run
      /\ age' \in [Run -> Nat] /\ failures' \in [Run -> Nat]
  <2> /\ renewing \in BOOLEAN /\ timer \in BOOLEAN
      /\ leased \subseteq Run /\ lost \subseteq Run /\ round \subseteq Run
      /\ age \in [Run -> Nat] /\ failures \in [Run -> Nat]
    BY DEF PoolInv, TypeOK
  <2>1. ASSUME NEW r \in Run, Leases(r)
        PROVE  /\ renewing' = renewing
               /\ leased' \subseteq Run /\ lost' \subseteq Run /\ round' \subseteq Run
               /\ age' \in [Run -> Nat] /\ failures' \in [Run -> Nat]
    BY <2>1 DEF Leases, Renewed, NotRenewed, RenewalFailed, KeepsFailed
  <2>2. CASE RenewQueuedLeases
    <3>1. renewing' \in BOOLEAN
      BY <2>2, Zenon DEF RenewQueuedLeases
    <3>2. QED
      BY <2>2, <3>1 DEF RenewQueuedLeases
  <2>3. CASE RoundOver
    <3>1. renewing' \in BOOLEAN
      BY <2>3, Zenon DEF RoundOver
    <3>2. QED
      BY <2>3, <3>1 DEF RoundOver
  <2>4. QED
    BY <2>1, <2>2, <2>3
<1>3. TypeOK'
  BY <1>1, <1>2 DEF TypeOK, PoolInv
<1>4. QED
  BY <1>1, <1>3, PoolKept DEF PoolInv

LEMMA PoolStep == PoolInv /\ [Next]_vars => PoolInv'
<1> SUFFICES ASSUME PoolInv, [Next]_vars PROVE PoolInv'
  OBVIOUS
<1>1. CASE UNCHANGED vars
  <2>1. TypeOK' /\ Pool' = Pool /\ Known(Pool)' = Known(Pool)
    BY <1>1 DEF vars, poolVars, leaseVars, TypeOK, PoolInv, Pool
  <2>2. QED
    BY <1>1, <2>1 DEF vars, poolVars, leaseVars, PoolInv
<1>2. ASSUME NEW r \in Run, Runs(r) PROVE PoolInv'
  BY <1>2, PlacesInv, DispatchInv, SlotInv, YieldInv DEF Runs
<1>3. CASE (\E r \in Run : Leases(r)) \/ RenewQueuedLeases \/ RoundOver
  BY <1>3, LeasesInv
<1>4. QED
  BY <1>1, <1>2, <1>3 DEF Next

LEMMA PoolInvHolds == Spec => []PoolInv
BY InitPoolInv, PoolStep, PTL DEF Spec

-----------------------------------------------------------------------------
(* What the pool promises, for every number of runs, slots and places.     *)

\* The state keeps its types: no run takes more slots than it may.
THEOREM PoolTypeCorrect == Spec => []TypeOK
<1>1. PoolInv => TypeOK
  BY DEF PoolInv
<1>2. QED
  BY <1>1, PoolInvHolds, PTL

\* The busy counter is the number of runs in a slot, never above the cap:
\* yields, slot timers and late ends release each slot once.
THEOREM SlotsAreCounted == Spec => []SlotsCounted
<1>1. PoolInv => SlotsCounted
  BY DEF PoolInv, SlotsCounted, Steady, Pool, TypeOK
<1>2. QED
  BY <1>1, PoolInvHolds, PTL

\* No run waits beside a free slot, and the lease timer runs while one waits.
THEOREM NobodyWaitsInVain == Spec => []WorkConserving
<1>1. PoolInv => WorkConserving
  BY DEF PoolInv, WorkConserving, Steady, Pool
<1>2. QED
  BY <1>1, PoolInvHolds, PTL

\* A run is in one place: it neither executes and waits, nor waits twice.
THEOREM RunsAreInOnePlace == Spec => []OnePlace
<1>1. PoolInv => OnePlace
  BY DEF PoolInv, OnePlace, Steady, Pool, Known, Waiting
<1>2. QED
  BY <1>1, PoolInvHolds, PTL

\* When the drain finds no worker to wait for, nobody waits or holds a slot.
THEOREM DrainLeavesNothing == Spec => []DrainIsComplete
<1>1. PoolInv => DrainIsComplete
  <2> SUFFICES ASSUME PoolInv, workers = {}
               PROVE  pending = <<>> /\ slots = {}
    BY DEF DrainIsComplete
  <2>1. slots = {}
    BY DEF PoolInv
  <2>2. active = 0
    BY <2>1, FS_EmptySet DEF PoolInv, Steady, Pool
  <2>3. QED
    BY <2>1, <2>2, PoolAssumption DEF PoolInv, Steady, Pool
<1>2. QED
  BY <1>1, PoolInvHolds, PTL

\* The queue outgrows its limit by at most the number of slots.
THEOREM OverfillIsBounded == Spec => []OverfillBounded
<1>1. PoolInv => OverfillBounded
  <2> SUFFICES ASSUME PoolInv PROVE OverfillBounded
    OBVIOUS
  <2>1. Len(pending) \in Nat /\ held \in Nat
    BY LenProperties DEF PoolInv, TypeOK
  <2>2. QED
    BY <2>1, PoolAssumption DEF PoolInv, OverfillBounded
<1>2. QED
  BY <1>1, PoolInvHolds, PTL

\* No step sheds the run of a request that holds a place.
THEOREM PlacedRunsStay == Spec => PlacedNotShed
<1>1. [Next]_vars => [\A r \in placed : r \notin shed' \/ r \in shed]_vars
  <2> SUFFICES ASSUME Next, NEW r \in placed, r \in shed'
               PROVE  r \in shed
    BY DEF vars
  <2>1. ASSUME NEW q \in Run, Runs(q) PROVE r \in shed
    BY <2>1 DEF Runs, HoldPlace, DropPlace, Dispatch, Shed, MayShed, Finish,
                Overrun, YieldSlot
  <2>2. CASE (\E q \in Run : Leases(q)) \/ RenewQueuedLeases \/ RoundOver
    BY <2>2 DEF Leases, Renewed, NotRenewed, RenewalFailed, RenewQueuedLeases,
                RoundOver, poolVars
  <2>3. QED
    BY <2>1, <2>2 DEF Next
<1>2. QED
  BY <1>1, PTL DEF Spec, PlacedNotShed

-----------------------------------------------------------------------------
(* The leases of those who wait.                                           *)

\* An entry with a lease counts its intervals: one for waiting, one for every
\* failed call, one more while this round's call is out.
LeaseInv ==
  /\ ~renewing => round = {}
  /\ \A r \in (Leased \cap Waiting) \ lost :
       /\ r \in leased
       /\ failures[r] <= MaxFailures
       /\ age[r] <= failures[r] + (IF r \in round THEN 2 ELSE 1)

\* Entries that leave the queue take their lease along, one that joins it
\* starts to count.
LEMMA LeaseTaken ==
  ASSUME PoolInv, LeaseInv, NEW p, Steady(p), NEW entry \in SUBSET Leased,
         TakePool(p, entry),
         Leased \cap ToSet(p.pending) \subseteq Waiting \cup entry
  PROVE  LeaseInv'
<1> DEFINE waits == ToSet(p.pending)
<1>1. waits \subseteq Run
  BY ToSetType DEF Steady, PoolType
<1>2. Waiting' = waits
  BY DEF TakePool, Waiting
<1>3. /\ leased' = (leased \cup entry) \cap waits
      /\ lost' = (lost \ entry) \cap waits
      /\ round' = (round \ entry) \cap waits
      /\ age' = [r \in Run |-> IF r \in entry THEN 1
                               ELSE IF r \in waits THEN age[r] ELSE 0]
      /\ failures' = [r \in Run |-> IF r \in waits \ entry THEN failures[r]
                                    ELSE 0]
      /\ renewing' = renewing
  BY DEF TakePool
<1> HIDE DEF waits
<1>4. ~renewing' => round' = {}
  BY <1>3 DEF LeaseInv
<1>5. ASSUME NEW r \in (Leased \cap Waiting') \ lost'
      PROVE  /\ r \in leased'
             /\ failures'[r] <= MaxFailures
             /\ age'[r] <= failures'[r] + (IF r \in round' THEN 2 ELSE 1)
  <2>1. r \in Run /\ r \in Leased /\ r \in waits
    BY <1>1, <1>2, <1>5
  <2>2. CASE r \in entry
    BY <1>3, <2>1, <2>2, PoolAssumption
  <2>3. CASE r \notin entry
    <3>1. r \in (Leased \cap Waiting) \ lost
      BY <1>3, <1>5, <2>1, <2>3 DEF waits
    <3>2. /\ r \in leased /\ failures[r] <= MaxFailures
          /\ age[r] <= failures[r] + (IF r \in round THEN 2 ELSE 1)
      BY <3>1 DEF LeaseInv
    <3>3. age'[r] = age[r] /\ failures'[r] = failures[r]
          /\ (r \in round' <=> r \in round) /\ r \in leased'
      BY <1>3, <2>1, <2>3, <3>2
    <3>4. QED
      BY <3>2, <3>3
  <2>4. QED
    BY <2>2, <2>3
<1>6. QED
  BY <1>4, <1>5 DEF LeaseInv

\* Whatever moves a run in the pool keeps the count of its lease.
LEMMA LeaseRuns ==
  ASSUME PoolInv, LeaseInv, NEW r \in Run, Runs(r)
  PROVE  LeaseInv'
<1>1. /\ Pool.slots = slots /\ Pool.pending = pending /\ Pool.used = used
      /\ Steady(Pool) /\ Waiting = ToSet(pending)
  BY DEF Pool, PoolInv, Waiting
<1>2. CASE HoldPlace(r) \/ DropPlace(r) \/ Shed(r)
  <2>1. UNCHANGED <<leased, lost, renewing, round, age, failures, Waiting>>
    BY <1>2 DEF HoldPlace, DropPlace, Shed, leaseVars, Waiting
  <2>2. QED
    BY <2>1 DEF LeaseInv
<1>3. CASE Dispatch(r)
  <2> DEFINE q == Dispatched(r)
             p == EnqueueWorker(q, r)
  <2>1. /\ q.active = active /\ q.pending = pending /\ q.slots = slots
        /\ q.timer = timer /\ q.used = [used EXCEPT ![r] = 0]
        /\ q = [active |-> active, pending |-> pending, slots |-> slots,
                used |-> q.used, timer |-> timer]
    BY DEF Dispatched, Pool
  <2>2. TakePool(p, Leased \cap {r})
    BY <1>3 DEF Dispatch
  <2> HIDE DEF q
  <2>3. q.used \in [Run -> 0 .. MaxSlots] /\ q.used[r] < MaxSlots
    BY <2>1, PoolAssumption DEF PoolInv, TypeOK
  <2>4. q \in PoolType
    BY <2>1, <2>3 DEF PoolType, PoolInv, TypeOK
  <2>5. \A t \in ToSet(pending) : q.used[t] < MaxSlots
    BY <2>1, PoolAssumption, ToSetType DEF PoolInv, Steady, Pool, TypeOK
  <2>6. Steady(q)
    BY <2>1, <2>4, <2>5 DEF PoolInv, Steady, Pool
  <2>7. r \notin Known(q)
    BY <1>3, <2>1 DEF Dispatch, Idle, PoolInv, Known, Pool, Waiting
  <2>8. /\ Steady(p) /\ Known(p) = Known(q) \cup {r} /\ q.slots \subseteq p.slots
    BY <2>3, <2>6, <2>7, EnqueueSteady
  <2> HIDE DEF p
  <2>9. ToSet(p.pending) \subseteq Waiting \cup {r}
    BY <1>1, <2>1, <2>8 DEF Known, Steady
  <2>10. /\ Leased \cap {r} \in SUBSET Leased
         /\ Leased \cap ToSet(p.pending) \subseteq Waiting \cup (Leased \cap {r})
    BY <2>9
  <2>11. QED
    BY <2>2, <2>8, <2>10, LeaseTaken
<1>4. CASE Finish(r) \/ Overrun(r)
  <2> DEFINE p == ReleaseSlot(Pool, r)
  <2>1. Steady(p) /\ ToSet(p.pending) \subseteq Waiting
    <3>1. CASE r \in slots
      BY <1>1, <3>1, ReleaseSteady
    <3>2. CASE r \notin slots
      <4>1. p = Pool
        BY <1>1, <3>2 DEF ReleaseSlot
      <4>2. QED
        BY <1>1, <4>1
    <3>3. QED
      BY <3>1, <3>2
  <2>2. TakePool(p, {})
    BY <1>4 DEF Finish, Overrun
  <2> HIDE DEF p
  <2>3. /\ {} \in SUBSET Leased
        /\ Leased \cap ToSet(p.pending) \subseteq Waiting \cup {}
    BY <2>1
  <2>4. QED
    BY <2>1, <2>2, <2>3, LeaseTaken
<1>5. CASE YieldSlot(r)
  <2> DEFINE f == ReleaseSlot(Pool, r)
             p == EnqueueWorker(f, r)
  <2>1. r \in slots /\ used[r] < MaxSlots /\ TakePool(p, Leased \cap {r})
    BY <1>5 DEF YieldSlot, MayYield
  <2>2. /\ Steady(f) /\ Known(f) = Known(Pool) \ {r} /\ f.used[r] = used[r]
        /\ ToSet(f.pending) \subseteq Waiting
    BY <1>1, <2>1, ReleaseSteady
  <2> HIDE DEF f
  <2>3. /\ Steady(p) /\ Known(p) = Known(f) \cup {r} /\ f.slots \subseteq p.slots
    BY <2>1, <2>2, EnqueueSteady
  <2> HIDE DEF p
  <2>4. ToSet(p.pending) \subseteq Waiting \cup {r}
    BY <2>2, <2>3 DEF Known, Steady
  <2>5. /\ Leased \cap {r} \in SUBSET Leased
        /\ Leased \cap ToSet(p.pending) \subseteq Waiting \cup (Leased \cap {r})
    BY <2>4
  <2>6. QED
    BY <2>1, <2>3, <2>5, LeaseTaken
<1>6. QED
  BY <1>2, <1>3, <1>4, <1>5 DEF Runs

LEMMA LeaseStep == PoolInv /\ LeaseInv /\ [Next]_vars => LeaseInv'
<1> SUFFICES ASSUME PoolInv, LeaseInv, [Next]_vars PROVE LeaseInv'
  OBVIOUS
<1>1. /\ age \in [Run -> Nat] /\ failures \in [Run -> Nat]
      /\ round \subseteq Run /\ leased \subseteq Run
      /\ Waiting \subseteq Run /\ (Waiting # {} => timer)
  BY ToSetType DEF PoolInv, TypeOK, Waiting, Steady, Pool
<1>2. CASE UNCHANGED vars
  BY <1>2 DEF vars, poolVars, leaseVars, LeaseInv, Waiting
<1>3. ASSUME NEW r \in Run, Runs(r) PROVE LeaseInv'
  BY <1>3, LeaseRuns
<1>4. ASSUME NEW q \in Run, Leases(q) PROVE LeaseInv'
  <2>1. Waiting' = Waiting /\ renewing' = renewing /\ round' = round \ {q}
    BY <1>4 DEF Leases, Renewed, NotRenewed, RenewalFailed, poolVars, Waiting
  <2>2. q \in round
    BY <1>4 DEF Leases, Renewed, NotRenewed, RenewalFailed
  <2>3. ASSUME NEW r \in (Leased \cap Waiting) \ lost'
        PROVE  /\ r \in leased'
               /\ failures'[r] <= MaxFailures
               /\ age'[r] <= failures'[r] + (IF r \in round' THEN 2 ELSE 1)
    <3>1. r \in Run /\ age[r] \in Nat /\ failures[r] \in Nat
      BY <1>1, <2>3
    <3>2. r \in (Leased \cap Waiting) \ lost
      BY <1>4, <2>3 DEF Leases, Renewed, NotRenewed, RenewalFailed
    <3>3. /\ r \in leased /\ failures[r] <= MaxFailures
          /\ age[r] <= failures[r] + (IF r \in round THEN 2 ELSE 1)
      BY <3>2 DEF LeaseInv
    <3>4. CASE r # q
      <4>1. age'[r] = age[r] /\ failures'[r] = failures[r] /\ r \in leased'
        BY <1>1, <1>4, <3>1, <3>3, <3>4
           DEF Leases, Renewed, NotRenewed, RenewalFailed, KeepsFailed
      <4>2. r \in round' <=> r \in round
        BY <2>1, <3>4
      <4>3. QED
        BY <3>3, <4>1, <4>2
    <3>5. CASE r = q
      <4>1. r \notin round' /\ r \in round
        BY <2>1, <2>2, <3>5
      <4>2. CASE Renewed(q)
        <5>1. age'[r] = 0 /\ failures'[r] = 0 /\ leased' = leased
          BY <1>1, <3>1, <3>5, <4>2 DEF Renewed
        <5>2. QED
          BY <3>3, <4>1, <5>1, PoolAssumption
      <4>3. CASE NotRenewed(q)
        BY <2>3, <3>5, <4>3 DEF NotRenewed
      <4>4. CASE RenewalFailed(q)
        <5>1. /\ age'[r] = age[r] /\ failures'[r] = failures[r] + 1
              /\ leased' = leased /\ failures[r] < MaxFailures
          BY <1>1, <3>1, <3>5, <4>4 DEF RenewalFailed, KeepsFailed
        <5>2. QED
          BY <3>1, <3>3, <4>1, <5>1, PoolAssumption
      <4>5. QED
        BY <1>4, <4>2, <4>3, <4>4 DEF Leases
    <3>6. QED
      BY <3>4, <3>5
  <2>4. ~renewing' => round' = {}
    BY <2>1 DEF LeaseInv
  <2>5. QED
    BY <2>1, <2>3, <2>4 DEF LeaseInv
<1>5. CASE RenewQueuedLeases
  <2>1. /\ Waiting' = Waiting /\ round = {} /\ lost' = lost /\ leased' = leased
        /\ failures' = failures /\ renewing' = timer
        /\ round' = IF timer THEN leased ELSE round
    BY <1>5 DEF RenewQueuedLeases, LeaseInv, poolVars, Waiting
  <2>2. ASSUME NEW r \in (Leased \cap Waiting) \ lost
        PROVE  /\ r \in leased
               /\ failures[r] <= MaxFailures
               /\ age'[r] <= failures[r] + (IF r \in round' THEN 2 ELSE 1)
    <3>1. r \in Run /\ age[r] \in Nat /\ failures[r] \in Nat
      BY <1>1, <2>2
    <3>2. /\ r \in leased /\ failures[r] <= MaxFailures
          /\ age[r] <= failures[r] + 1
      BY <2>1, <2>2 DEF LeaseInv
    <3>3. r \in round'
      BY <1>1, <2>1, <2>2, <3>2
    <3>4. age'[r] = age[r] + 1
      BY <1>5, <2>2, <3>1 DEF RenewQueuedLeases
    <3>5. QED
      BY <3>1, <3>2, <3>3, <3>4
  <2>3. ~renewing' => round' = {}
    BY <2>1
  <2>4. QED
    BY <2>1, <2>2, <2>3 DEF LeaseInv
<1>6. CASE RoundOver
  BY <1>6 DEF RoundOver, LeaseInv, poolVars, Waiting
<1>7. QED
  BY <1>2, <1>3, <1>4, <1>5, <1>6 DEF Next

\* A run that waits keeps its conversation: with a lease of n renewal intervals,
\* n - 2 calls in a row may fail.  (A lease has three.)
THEOREM WaitersKeepLeases ==
  ASSUME MaxFailures + 2 <= LeaseRounds
  PROVE  Spec => []WaiterKeepsLease
<1>1. Init => LeaseInv
  <2> SUFFICES ASSUME Init PROVE LeaseInv
    OBVIOUS
  <2>1. Waiting = {} /\ round = {}
    BY DEF Init, Waiting, ToSet
  <2>2. QED
    BY <2>1 DEF LeaseInv
<1>2. PoolInv /\ LeaseInv => WaiterKeepsLease
  <2> SUFFICES ASSUME PoolInv, LeaseInv,
                      NEW r \in (Leased \cap Waiting) \ lost
               PROVE  age[r] <= LeaseRounds
    BY DEF WaiterKeepsLease
  <2>1. r \in Run /\ age[r] \in Nat /\ failures[r] \in Nat
    BY PoolAssumption DEF PoolInv, TypeOK
  <2>2. /\ failures[r] <= MaxFailures
        /\ age[r] <= failures[r] + (IF r \in round THEN 2 ELSE 1)
    BY DEF LeaseInv
  <2>3. QED
    BY <2>1, <2>2, PoolAssumption
<1>3. QED
  BY <1>1, <1>2, LeaseStep, PoolInvHolds, PTL DEF Spec

=============================================================================
