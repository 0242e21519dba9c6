--------------------------- MODULE IngressProofs ---------------------------
(***************************************************************************)
(* Theorems about Ingress, for every set of requests and every bound.       *)
(*                                                                         *)
(* The mutations are compositions of operators on database states, so the   *)
(* proof is too: each operator gets a lemma, an action cites the lemmas of  *)
(* the operators it composes.                                              *)
(***************************************************************************)
EXTENDS Ingress, FiniteSetTheorems, WellFoundedInduction,
        TLAPS

\* The type of a database state.  bytes stays untyped: it is a fold.
DbOK(d) ==
  /\ d = [coord |-> d.coord, bytes |-> d.bytes, rows |-> d.rows]
  /\ d.coord \in Coordinator
  /\ d.coord.lease \in -1 .. LeaseTtl
  /\ d.rows \in [Event -> Row]

\* The counter covers the rows of S.
Covers(d, S) == Cardinality(S) <= d.coord.queuedCount

-----------------------------------------------------------------------------
(* The helpers.                                                            *)

\* Rows may leave the queue only for rows of the type.
LEMMA DequeueType ==
  ASSUME NEW d, DbOK(d), NEW S \in SUBSET Event, NEW moved,
         \A e \in S : moved[e] \in Row
  PROVE  DbOK(Dequeue(d, S, moved))
<1> DEFINE h == Dequeue(d, S, moved)
<1>1. Cardinality(S) \in Nat
  BY FS_Subset, FS_CardinalityType, RequestsAssumption
<1>2. h = [coord |-> h.coord, bytes |-> h.bytes, rows |-> h.rows]
  BY DEF Dequeue
<1>3. h.rows \in [Event -> Row]
  BY DEF Dequeue, DbOK
<1>4. h.coord = [d.coord EXCEPT !.queuedCount =
                   Floor(d.coord.queuedCount - Cardinality(S))]
  BY DEF Dequeue
<1>5. Floor(d.coord.queuedCount - Cardinality(S)) \in Nat
  BY <1>1 DEF Floor, DbOK, Coordinator
<1>6. h.coord \in Coordinator /\ h.coord.lease \in -1 .. LeaseTtl
  BY <1>4, <1>5 DEF DbOK, Coordinator
<1>7. QED
  BY <1>2, <1>3, <1>6 DEF DbOK

\* The counter goes down by no more than the rows that leave.
LEMMA DequeueCovers ==
  ASSUME NEW d, DbOK(d), NEW S \in SUBSET Event, NEW Q \in SUBSET Event,
         S \subseteq Q, Covers(d, Q), NEW moved
  PROVE  Covers(Dequeue(d, S, moved), Q \ S)
<1>1. IsFiniteSet(Q) /\ IsFiniteSet(S)
  BY FS_Subset, RequestsAssumption
<1>2. Cardinality(Q \ S) = Cardinality(Q) - Cardinality(Q \cap S)
  BY <1>1, FS_Difference
<1>3. Cardinality(Q \cap S) = Cardinality(S)
  <2>1. Q \cap S = S
    OBVIOUS
  <2>2. QED
    BY <2>1
<1>4. Cardinality(Q) \in Nat /\ Cardinality(S) \in Nat /\ Cardinality(Q \ S) \in Nat
  BY <1>1, FS_CardinalityType, FS_Subset
<1>5. Dequeue(d, S, moved).coord.queuedCount
        = Floor(d.coord.queuedCount - Cardinality(S))
  BY DEF Dequeue, DbOK, Coordinator
<1>6. d.coord.queuedCount \in Nat /\ Cardinality(Q) <= d.coord.queuedCount
  BY DEF Covers, DbOK, Coordinator
<1>7. Cardinality(Q \ S) <= Floor(d.coord.queuedCount - Cardinality(S))
  BY <1>2, <1>3, <1>4, <1>6 DEF Floor
<1>8. QED
  BY <1>5, <1>7 DEF Covers


LEMMA RowsWritten ==
  ASSUME NEW d, DbOK(d), NEW R, NEW h, h = [d EXCEPT !.rows = R]
  PROVE  h = [coord |-> d.coord, bytes |-> d.bytes, rows |-> R]
BY DEF DbOK

LEMMA CountType ==
  ASSUME NEW d, DbOK(d)
  PROVE  d.coord.queuedCount \in Nat
BY DEF DbOK, Coordinator

LEMMA QueuedFinite ==
  ASSUME NEW d, NEW S \in SUBSET Event
  PROVE  IsFiniteSet(S) /\ Cardinality(S) \in Nat
BY FS_Subset, FS_CardinalityType, RequestsAssumption

\* A covered set may be narrowed.
LEMMA CoversSubset ==
  ASSUME NEW d, DbOK(d), NEW S \in SUBSET Event, NEW T \in SUBSET S, Covers(d, S)
  PROVE  Covers(d, T)
<1>1. Cardinality(T) <= Cardinality(S)
  BY FS_Subset, QueuedFinite
<1>2. Cardinality(T) \in Nat /\ Cardinality(S) \in Nat
  BY QueuedFinite
<1>3. QED
  BY <1>1, <1>2, CountType DEF Covers

Sound(d) == DbOK(d) /\ Covers(d, Queued(d))

\* A page read that trusts the counter reads the whole queue.
LEMMA PageIsQueue ==
  ASSUME NEW d, Sound(d)
  PROVE  QueuedPage(d) = Queued(d)
<1>1. Queued(d) \in SUBSET Event
  BY DEF Queued
<1>2. CASE d.coord.queuedCount = 0
  <2>1. Cardinality(Queued(d)) = 0
    BY <1>1, <1>2, QueuedFinite DEF Sound, Covers
  <2>2. Queued(d) = {}
    BY <1>1, <2>1, QueuedFinite, FS_EmptySet
  <2>3. QED
    BY <1>2, <2>2 DEF QueuedPage
<1>3. CASE d.coord.queuedCount # 0
  BY <1>3 DEF QueuedPage
<1>4. QED
  BY <1>2, <1>3

LEMMA AdmittedRow ==
  ASSUME NEW d, DbOK(d), NEW e \in Event, d.rows[e].status # "none"
  PROVE  d.rows[e] \in Admitted
BY DEF DbOK, Row, NoRow

LEMMA MarkedType ==
  ASSUME NEW d, DbOK(d), NEW status \in Statuses \ {"none"},
         NEW e \in Event, d.rows[e].status # "none"
  PROVE  Marked(d, status)[e] \in Row /\ Marked(d, status)[e].status = status
BY AdmittedRow DEF Marked, Row, Admitted

\* Queued rows S that get a status of another kind leave a sound state.
LEMMA DequeueSound ==
  ASSUME NEW d, Sound(d), NEW S \in SUBSET Queued(d), NEW moved,
         \A e \in S : moved[e] \in Row /\ moved[e].status # "queued"
  PROVE  /\ Sound(Dequeue(d, S, moved))
         /\ Queued(Dequeue(d, S, moved)) = Queued(d) \ S
<1>1. Queued(d) \in SUBSET Event /\ S \in SUBSET Event
  BY DEF Queued
<1>2. Queued(Dequeue(d, S, moved)) = Queued(d) \ S
  BY DEF Dequeue, Queued
<1>3. DbOK(Dequeue(d, S, moved))
  BY <1>1, DequeueType DEF Sound
<1>4. Covers(Dequeue(d, S, moved), Queued(d) \ S)
  BY <1>1, DequeueCovers DEF Sound
<1>5. QED
  BY <1>2, <1>3, <1>4 DEF Sound

LEMMA ExpireSound ==
  ASSUME NEW d, Sound(d), NEW page \in SUBSET Queued(d)
  PROVE  /\ Sound(ExpireQueuedEnvelopes(d, page))
         /\ Queued(ExpireQueuedEnvelopes(d, page)) = Queued(d) \ Due(d, page)
<1>1. Due(d, page) \in SUBSET Queued(d)
  BY DEF Due
<1>2. \A e \in Due(d, page) : /\ Marked(d, "expired")[e] \in Row
                              /\ Marked(d, "expired")[e].status # "queued"
  BY <1>1, MarkedType DEF Queued, Sound, Statuses
<1>3. QED
  BY <1>1, <1>2, DequeueSound DEF ExpireQueuedEnvelopes

LEMMA InsertEventsSound ==
  ASSUME NEW d, Sound(d), NEW told
  PROVE  Sound(InsertOwnedEvents(d, told))
<1> DEFINE S == {e \in QueuedPage(d) : d.rows[e].req.result \in told}
<1>1. S \in SUBSET Queued(d)
  BY PageIsQueue
<1>2. \A e \in S : /\ Marked(d, "completed")[e] \in Row
                   /\ Marked(d, "completed")[e].status # "queued"
  BY <1>1, MarkedType DEF Queued, Sound, Statuses
<1>3. QED
  BY <1>1, <1>2, DequeueSound DEF InsertOwnedEvents

\* The owner's row may leave the queue here without the counter: it only gets
\* smaller than the counter.
LEMMA StaleOwnerSound ==
  ASSUME NEW d, Sound(d)
  PROVE  /\ Sound(ExpireStaleOwner(d))
         /\ Queued(ExpireStaleOwner(d)) \subseteq Queued(d)
         /\ ExpireStaleOwner(d).coord = d.coord
<1> DEFINE h == ExpireStaleOwner(d)
<1>1. DbOK(h) /\ h.coord = d.coord /\ Queued(h) \subseteq Queued(d)
  BY AdmittedRow
     DEF ExpireStaleOwner, Expired, Sound, DbOK, Row, Admitted, Statuses, Queued
<1>2. Covers(d, Queued(h))
  BY <1>1, CoversSubset DEF Sound, Queued
<1>3. Covers(h, Queued(h))
  BY <1>1, <1>2 DEF Covers
<1>4. QED
  BY <1>1, <1>3 DEF Sound

\* There is an oldest row: sequences are natural numbers.
LEMMA OldestExists ==
  ASSUME NEW d, DbOK(d), NEW S \in SUBSET Event, S # {}
  PROVE  /\ Oldest(d, S) \in S
         /\ \A f \in S : d.rows[Oldest(d, S)].sequence <= d.rows[f].sequence
<1> DEFINE T == {d.rows[e].sequence : e \in S}
           R == {ss \in Nat \X Nat : ss[1] < ss[2]}
<1>1. T \subseteq Nat /\ T # {}
  BY DEF DbOK, Row, Admitted, NoRow
<1>2. IsWellFoundedOn(R, Nat)
  BY NatLessThanWellFounded DEF OpToRel
<1>3. PICK x \in T : \A y \in T : ~(<<y, x>> \in R)
  <2> HIDE DEF T, R
  <2> QED
    BY <1>1, <1>2, WFMin
<1>4. ASSUME NEW y \in T PROVE x <= y
  <2>1. x \in Nat /\ y \in Nat
    BY <1>1
  <2>2. ASSUME y < x PROVE <<y, x>> \in R
    BY <2>1, <2>2
  <2>3. QED
    BY <1>3, <2>1, <2>2
<1>5. \E e \in S : \A f \in S : d.rows[e].sequence <= d.rows[f].sequence
  BY <1>4
<1>6. QED
  BY <1>5 DEF Oldest


-----------------------------------------------------------------------------
(* The operators that start rows.                                          *)

Owners == Event \cup {ClearEvent, NoEvent}

\* Rows S of a covered set A start: what is left of A is still covered.  S may
\* hold a row that is no longer queued, as accept's page does.
LEMMA ApplySound ==
  ASSUME NEW d, DbOK(d), NEW A \in SUBSET Event, Covers(d, A), Queued(d) \subseteq A,
         \A e \in A : d.rows[e].status # "none",
         NEW S \in SUBSET A, NEW owner \in Owners, NEW gen \in Nat
  PROVE  Sound(Apply(d, S, owner, gen))
<1> DEFINE h == Apply(d, S, owner, gen)
           moved == [e \in Event |-> [d.rows[e] EXCEPT !.status = "processing",
                                                       !.appliedTo = owner,
                                                       !.generation = gen]]
<1>1. ASSUME NEW e \in S PROVE moved[e] \in Row
  <2>1. d.rows[e] \in Admitted
    BY AdmittedRow
  <2>2. moved[e] = [d.rows[e] EXCEPT !.status = "processing",
                                     !.appliedTo = owner, !.generation = gen]
    OBVIOUS
  <2>3. [d.rows[e] EXCEPT !.status = "processing", !.appliedTo = owner,
                          !.generation = gen] \in Admitted
    BY <2>1 DEF Admitted, Statuses, Owners
  <2>4. QED
    BY <2>2, <2>3 DEF Row
<1>2. h = Dequeue(d, S, moved)
  BY DEF Apply
<1>3. DbOK(h) /\ Covers(h, A \ S)
  <2> HIDE DEF h, moved
  <2> QED
    BY <1>1, <1>2, DequeueType, DequeueCovers
<1>4. Queued(h) \subseteq A \ S
  BY DEF Apply, Dequeue, Queued
<1>5. Covers(h, Queued(h))
  <2> HIDE DEF h, moved
  <2> QED
    BY <1>3, <1>4, CoversSubset
<1>6. QED
  BY <1>3, <1>5 DEF Sound

LEMMA GroupInPage ==
  ASSUME NEW d, DbOK(d), NEW S \in SUBSET Event, S # {}
  PROVE  NextGroup(d, S) \subseteq S
BY OldestExists DEF NextGroup, ContiguousModePrefix

\* Only the owner's fields are written: the rows and the counter stay.
LEMMA CoordSound ==
  ASSUME NEW d, Sound(d), NEW h, h = [coord |-> h.coord, bytes |-> h.bytes, rows |-> d.rows],
         h.coord \in Coordinator, h.coord.lease \in -1 .. LeaseTtl,
         h.coord.queuedCount >= d.coord.queuedCount
  PROVE  Sound(h)
<1>1. DbOK(h)
  BY DEF DbOK, Sound
<1>2. Queued(h) = Queued(d)
  BY DEF Queued
<1>3. Queued(d) \in SUBSET Event
  BY DEF Queued
<1>4. Covers(h, Queued(h))
  BY <1>1, <1>2, <1>3, CountType, QueuedFinite DEF Covers, Sound
<1>5. QED
  BY <1>1, <1>4 DEF Sound

LEMMA AcquireType ==
  ASSUME NEW c \in Coordinator, NEW owner \in Owners, NEW task \in Task \cup {NoTask},
         NEW gen \in Nat
  PROVE  /\ Acquire(c, owner, task, gen) \in Coordinator
         /\ Acquire(c, owner, task, gen).ownerEventId = owner
         /\ Acquire(c, owner, task, gen).ownerGeneration = gen
         /\ Acquire(c, owner, task, gen).queuedCount = c.queuedCount
         /\ Acquire(c, owner, task, gen).lease = LeaseTtl
         /\ Acquire(c, owner, task, gen).lease \in -1 .. LeaseTtl
<1> DEFINE h == Acquire(c, owner, task, gen)
<1>1. LeaseTtl \in Nat /\ LeaseTtl \in Int /\ LeaseTtl \in -1 .. LeaseTtl
  BY BoundsAssumption
<1>2. h \in Coordinator
  BY <1>1 DEF Acquire, Coordinator, Owners
<1>3. /\ h.ownerEventId = owner
      /\ h.ownerGeneration = gen
      /\ h.queuedCount = c.queuedCount
      /\ h.lease = LeaseTtl
  BY DEF Acquire, Coordinator
<1>4. QED
  BY <1>1, <1>2, <1>3

LEMMA PromoteSound ==
  ASSUME NEW d, DbOK(d), NEW A \in SUBSET Event, Covers(d, A), Queued(d) \subseteq A,
         \A e \in A : d.rows[e].status # "none", NEW gen \in Nat
  PROVE  /\ Sound(PromoteQueuedGroup(d, A, gen))
         /\ A # {} => /\ PromoteQueuedGroup(d, A, gen).coord.ownerGeneration = gen
                      /\ PromoteQueuedGroup(d, A, gen).coord.ownerEventId \in Event
         /\ A = {} => PromoteQueuedGroup(d, A, gen) = d
<1>1. CASE A = {}
  <2>1. PromoteQueuedGroup(d, A, gen) = d
    BY <1>1 DEF PromoteQueuedGroup
  <2>2. Queued(d) = A
    BY <1>1
  <2>3. QED
    BY <1>1, <2>1, <2>2 DEF Sound
<1>2. CASE A # {}
  <2> DEFINE first == Oldest(d, A)
             m == Apply(d, NextGroup(d, A), first, gen)
             h == PromoteQueuedGroup(d, A, gen)
  <2>1. first \in A
    BY <1>2, OldestExists
  <2>2. Sound(m)
    <3>1. first \in Owners /\ NextGroup(d, A) \in SUBSET A
      BY <1>2, <2>1, GroupInPage DEF Owners
    <3>2. QED
      BY <3>1, ApplySound
  <2>3. h = [m EXCEPT !.coord = Acquire(@, first, d.rows[first].req.task, gen)]
    BY <1>2 DEF PromoteQueuedGroup
  <2>4. d.rows[first].req.task \in Task \cup {NoTask}
    BY <2>1, AdmittedRow, RequestsAssumption DEF Admitted, Request
  <2>5. /\ h = [coord |-> h.coord, bytes |-> h.bytes, rows |-> m.rows]
        /\ h.coord = Acquire(m.coord, first, d.rows[first].req.task, gen)
    BY <2>2, <2>3 DEF Sound, DbOK
  <2>6. /\ h.coord \in Coordinator
        /\ h.coord.lease \in -1 .. LeaseTtl
        /\ h.coord.queuedCount = m.coord.queuedCount
        /\ h.coord.ownerGeneration = gen
        /\ h.coord.ownerEventId = first
    BY <2>1, <2>2, <2>4, <2>5, AcquireType DEF Sound, DbOK, Owners
  <2>7. m.coord.queuedCount \in Nat
    BY <2>2, CountType DEF Sound
  <2>8. Sound(h)
    <3> HIDE DEF h, m, first
    <3> QED
      BY <2>2, <2>5, <2>6, <2>7, CoordSound
  <2>9. QED
    BY <1>2, <2>1, <2>6, <2>8
<1>3. QED
  BY <1>1, <1>2


\* What does not add to the queue stays sound.
LEMMA ShrinkSound ==
  ASSUME NEW d, Sound(d), NEW h, DbOK(h), Queued(h) \subseteq Queued(d),
         h.coord.queuedCount >= d.coord.queuedCount
  PROVE  Sound(h)
<1>1. Queued(d) \in SUBSET Event /\ Queued(h) \in SUBSET Queued(d)
  BY DEF Queued
<1>2. Covers(d, Queued(h))
  BY <1>1, CoversSubset DEF Sound
<1>3. Covers(h, Queued(h))
  BY <1>1, <1>2, CountType, QueuedFinite DEF Covers, Sound
<1>4. QED
  BY <1>3 DEF Sound

LEMMA LeaseSound ==
  ASSUME NEW d, Sound(d)
  PROVE  Sound([d EXCEPT !.coord.lease = LeaseTtl])
<1> DEFINE h == [d EXCEPT !.coord.lease = LeaseTtl]
<1>1. LeaseTtl \in -1 .. LeaseTtl /\ LeaseTtl \in Int
  BY BoundsAssumption
<1>2. /\ h = [coord |-> h.coord, bytes |-> h.bytes, rows |-> d.rows]
      /\ h.coord = [d.coord EXCEPT !.lease = LeaseTtl]
  BY DEF Sound, DbOK
<1>3. /\ h.coord \in Coordinator
      /\ h.coord.lease \in -1 .. LeaseTtl
      /\ h.coord.queuedCount = d.coord.queuedCount
  BY <1>1, <1>2 DEF Sound, DbOK, Coordinator
<1>4. h.coord.queuedCount >= d.coord.queuedCount
  BY <1>3, CountType DEF Sound
<1>5. Sound(h)
  <2> HIDE DEF h
  <2> QED
    BY <1>2, <1>3, <1>4, CoordSound
<1>6. QED
  BY <1>5

LEMMA RenewSound ==
  ASSUME NEW d, Sound(d)
  PROVE  Sound(RenewHeldLease(d))
BY LeaseSound DEF RenewHeldLease

LEMMA SettleSound ==
  ASSUME NEW d, Sound(d), NEW outcome \in {"completed", "failed"}
  PROVE  /\ Sound(SettleAppliedEnvelopes(d, outcome))
         /\ SettleAppliedEnvelopes(d, outcome).coord = d.coord
<1> DEFINE h == SettleAppliedEnvelopes(d, outcome)
<1>1. h = [coord |-> d.coord, bytes |-> h.bytes, rows |-> h.rows]
  <2>1. PICK R : h = [d EXCEPT !.rows = R]
    BY Zenon DEF SettleAppliedEnvelopes
  <2> HIDE DEF h
  <2>2. h = [coord |-> d.coord, bytes |-> d.bytes, rows |-> R]
    BY <2>1, RowsWritten DEF Sound
  <2>3. QED
    BY <2>2
<1>2. ASSUME NEW e \in Event PROVE h.rows[e] \in Row
  <2>1. CASE d.rows[e].status = "processing"
    <3>1. d.rows[e] \in Admitted
      BY <2>1, AdmittedRow DEF Sound
    <3>2. ASSUME NEW b \in BOOLEAN
          PROVE  [d.rows[e] EXCEPT !.status = outcome, !.stoppedByUser = b] \in Admitted
      BY <3>1 DEF Admitted, Statuses
    <3>3. \/ h.rows[e] = d.rows[e]
          \/ \E b \in BOOLEAN :
               h.rows[e] = [d.rows[e] EXCEPT !.status = outcome, !.stoppedByUser = b]
      BY <3>1 DEF SettleAppliedEnvelopes, Sound, DbOK, Coordinator, Admitted
    <3>4. QED
      BY <3>2, <3>3 DEF Row, Sound, DbOK
  <2>2. CASE d.rows[e].status # "processing"
    <3>1. h.rows[e] = d.rows[e]
      BY <2>2 DEF SettleAppliedEnvelopes, Sound, DbOK
    <3>2. QED
      BY <3>1 DEF Sound, DbOK
  <2>3. QED
    BY <2>1, <2>2
<1>3. h.rows \in [Event -> Row]
  <2>1. h.rows = [e \in Event |-> h.rows[e]]
    BY DEF SettleAppliedEnvelopes, Sound, DbOK
  <2>2. QED
    BY <1>2, <2>1
<1>4. DbOK(h) /\ h.coord = d.coord
  BY <1>1, <1>3 DEF DbOK, Sound
<1>5. Queued(h) \subseteq Queued(d)
  <2>1. ASSUME NEW e \in Event, h.rows[e].status = "queued"
        PROVE  d.rows[e].status = "queued"
    BY <2>1 DEF SettleAppliedEnvelopes, Sound, DbOK, Row, Admitted, NoRow
  <2>2. QED
    BY <2>1 DEF Queued
<1>6. h.coord.queuedCount >= d.coord.queuedCount
  BY <1>4, CountType DEF Sound
<1>7. Sound(h)
  <2> HIDE DEF h
  <2> QED
    BY <1>4, <1>5, <1>6, ShrinkSound
<1>8. QED
  BY <1>4, <1>7


LEMMA SweptSound ==
  ASSUME NEW d, Sound(d)
  PROVE  Sound(Swept(d)) /\ Queued(Swept(d)) = QueuedPage(d) \ Due(d, QueuedPage(d))
<1>1. QueuedPage(d) = Queued(d)
  BY PageIsQueue
<1>2. QED
  BY <1>1, ExpireSound DEF Swept

LEMMA SteersInPage ==
  ASSUME NEW d, NEW textOnly \in BOOLEAN
  PROVE  Steers(d, textOnly) \subseteq QueuedPage(d) \ Due(d, QueuedPage(d))
BY DEF Steers, SteerPrefix, ContiguousModePrefix

LEMMA UnclaimedSound ==
  ASSUME NEW d, Sound(d)
  PROVE  Sound(Unclaimed(d))
BY SweptSound, LeaseSound DEF Unclaimed

LEMMA ClaimedSound ==
  ASSUME NEW d, Sound(d), NEW S \in SUBSET (QueuedPage(d) \ Due(d, QueuedPage(d)))
  PROVE  Sound(Claimed(d, S))
<1> DEFINE w == Swept(d)
           Q == Queued(w)
           m == Apply(w, S, d.coord.ownerEventId, d.coord.ownerGeneration)
<1>1. Sound(w) /\ S \in SUBSET Q
  BY SweptSound
<1>2. /\ Q \in SUBSET Event
      /\ \A e \in Q : w.rows[e].status # "none"
  BY DEF Queued
<1>3. DbOK(w) /\ Covers(w, Q) /\ Queued(w) \subseteq Q
  BY <1>1 DEF Sound
<1>4. d.coord.ownerEventId \in Owners /\ d.coord.ownerGeneration \in Nat
  BY DEF Sound, DbOK, Coordinator, Owners
<1>5. Sound(m)
  <2> HIDE DEF w, Q
  <2> QED
    BY <1>1, <1>2, <1>3, <1>4, ApplySound
<1>6. QED
  BY <1>5, LeaseSound DEF Claimed

LEMMA ClaimSound ==
  ASSUME NEW d, Sound(d), NEW textOnly \in BOOLEAN
  PROVE  Sound(ClaimSteering(d, textOnly))
<1>1. Sound(Claimed(d, Steers(d, textOnly)))
  BY SteersInPage, ClaimedSound
<1>2. QED
  BY <1>1, UnclaimedSound DEF ClaimSteering

-----------------------------------------------------------------------------
(* Admission.                                                              *)

LEMMA ForgetSound ==
  ASSUME NEW q, Sound(Db)
  PROVE  /\ Sound(Forget(q))
         /\ Forget(q).coord = coord
<1> DEFINE h == Forget(q)
           R == [e \in Event |-> IF e \in Forgotten(q) THEN NoRow ELSE rows[e]]
<1>1. h = [coord |-> coord, bytes |-> queuedBytes, rows |-> R]
  BY DEF Forget, Db
<1>2. R \in [Event -> Row]
  BY DEF Sound, DbOK, Db, Row
<1>3. DbOK(h) /\ h.coord = coord
  BY <1>1, <1>2 DEF DbOK, Sound, Db
<1>4. Queued(h) \subseteq Queued(Db)
  BY <1>1 DEF Queued, Db, NoRow
<1>5. h.coord.queuedCount >= Db.coord.queuedCount
  BY <1>1, CountType DEF Sound, Db
<1>6. Sound(h)
  <2> HIDE DEF h
  <2> QED
    BY <1>3, <1>4, <1>5, ShrinkSound
<1>7. QED
  BY <1>3, <1>6

\* accept keeps the page it read before the owner's row expired: the counter
\* still covers all of it.
LEMMA PreparedSound ==
  ASSUME NEW q, Sound(Db)
  PROVE  LET page   == QueuedPage(Forget(q))
             active == page \ Due(Forget(q), page)
         IN  /\ Sound(Prepared(q))
             /\ active \in SUBSET Event
             /\ Covers(Prepared(q), active)
             /\ Queued(Prepared(q)) \subseteq active
             /\ \A e \in active : Prepared(q).rows[e].status # "none"
             /\ Prepared(q).coord.ownerGeneration = coord.ownerGeneration
<1> DEFINE d == Forget(q)
           page == QueuedPage(d)
           active == page \ Due(d, page)
           x == ExpireQueuedEnvelopes(d, page)
           h == ExpireStaleOwner(x)
<1>1. Sound(d) /\ d.coord = coord
  BY ForgetSound
<1>2. page = Queued(d)
  BY <1>1, PageIsQueue
<1>3. Sound(x) /\ Queued(x) = active
  BY <1>1, <1>2, ExpireSound
<1>4. /\ Sound(h)
      /\ Queued(h) \subseteq active
      /\ h.coord = x.coord
  BY <1>3, StaleOwnerSound
<1>5. active \in SUBSET Event
  BY <1>2 DEF Queued
<1>6. Covers(h, active)
  BY <1>3, <1>4 DEF Sound, Covers
<1>7. \A e \in active : h.rows[e].status # "none"
  <2>1. \A e \in active : x.rows[e].status = "queued"
    BY <1>3 DEF Queued
  <2>2. \A e \in Event : h.rows[e] = x.rows[e] \/ h.rows[e] = Expired(x.rows[e])
    BY <1>3 DEF ExpireStaleOwner, Sound, DbOK
  <2>3. \A e \in active : x.rows[e] \in Admitted
    BY <1>3, <1>5, <2>1, AdmittedRow DEF Sound
  <2>4. \A r \in Admitted : r.status # "none" /\ Expired(r).status # "none"
    BY DEF Admitted, Expired
  <2> HIDE DEF x, h, active
  <2>5. QED
    BY <1>5, <2>2, <2>3, <2>4
<1>8. x.coord.ownerGeneration = coord.ownerGeneration
  BY <1>1 DEF ExpireQueuedEnvelopes, Dequeue, Sound, DbOK, Coordinator
<1>9. h = Prepared(q)
  BY DEF Prepared
<1>10. QED
  BY <1>4, <1>5, <1>6, <1>7, <1>8, <1>9


\* A commit either keeps the generation or names the owner of the next one.
Handed(d) == \/ d.coord.ownerGeneration = coord.ownerGeneration
             \/ d.coord.ownerEventId \in Event \cup {ClearEvent}

LEMMA RecoveredSound ==
  ASSUME NEW q, Sound(Db)
  PROVE  Sound(Recovered(q)) /\ Handed(Recovered(q))
<1> DEFINE page   == QueuedPage(Forget(q))
           active == page \ Due(Forget(q), page)
           p      == Prepared(q)
           gen    == p.coord.ownerGeneration + 1
           h      == PromoteQueuedGroup(p, active, gen)
<1>1. /\ Sound(p)
      /\ active \in SUBSET Event
      /\ Covers(p, active)
      /\ Queued(p) \subseteq active
      /\ \A e \in active : p.rows[e].status # "none"
      /\ p.coord.ownerGeneration = coord.ownerGeneration
  BY PreparedSound
<1>2. DbOK(p) /\ gen \in Nat
  BY <1>1 DEF Sound, DbOK, Coordinator
<1>3. /\ Sound(h)
      /\ active # {} => h.coord.ownerEventId \in Event
      /\ active = {} => h = p
  <2> HIDE DEF p, active, gen
  <2> QED
    BY <1>1, <1>2, PromoteSound
<1>4. Recovered(q) = h \/ Recovered(q) = p
  BY DEF Recovered
<1>5. Handed(h) /\ Handed(p)
  BY <1>1, <1>3 DEF Handed
<1>6. QED
  BY <1>1, <1>3, <1>4, <1>5

LEMMA NewRowType ==
  ASSUME NEW d, DbOK(d), NEW q \in Requests, NEW status \in Statuses \ {"none"}
  PROVE  [NewRow(d, q) EXCEPT !.status = status] \in Admitted
BY BoundsAssumption DEF NewRow, NoRow, Admitted, DbOK, Coordinator

LEMMA EventOf ==
  ASSUME NEW q \in Requests
  PROVE  q.event \in Event /\ q.task \in Task \cup {NoTask}
BY RequestsAssumption DEF Request

LEMMA CountedType ==
  ASSUME NEW c \in Coordinator,
         NEW h, h = [c EXCEPT !.nextSequence = @ + 1, !.queuedCount = @ + 1]
  PROVE  /\ h \in Coordinator
         /\ h.lease = c.lease
         /\ h.queuedCount = c.queuedCount + 1
<1> DEFINE n == c.nextSequence + 1
           k == c.queuedCount + 1
<1>1. n \in Nat /\ k \in Nat
  BY DEF Coordinator
<1>2. h = [c EXCEPT !.nextSequence = n, !.queuedCount = k]
  BY DEF Coordinator
<1> HIDE DEF n, k
<1>3. /\ h \in Coordinator
      /\ h.lease = c.lease
      /\ h.queuedCount = k
  BY <1>1, <1>2 DEF Coordinator
<1>4. QED
  BY <1>3 DEF k

LEMMA EnqueueSound ==
  ASSUME NEW d, Sound(d), NEW q \in Requests
  PROVE  /\ Sound(Enqueue(d, q))
         /\ Enqueue(d, q).coord.ownerGeneration = d.coord.ownerGeneration
         /\ Enqueue(d, q).coord.ownerEventId = d.coord.ownerEventId
<1> DEFINE row == [NewRow(d, q) EXCEPT !.status = "queued"]
           h == Enqueue(d, q)
<1>1. row \in Admitted /\ q.event \in Event
  BY NewRowType, EventOf DEF Sound, Statuses
<1>2. /\ h = [coord |-> h.coord, bytes |-> h.bytes, rows |-> h.rows]
      /\ h.rows = [d.rows EXCEPT ![q.event] = row]
      /\ h.coord = [d.coord EXCEPT !.nextSequence = @ + 1, !.queuedCount = @ + 1]
  BY DEF Enqueue
<1>3. DbOK(h) /\ h.coord.queuedCount = d.coord.queuedCount + 1
  <2>1. /\ d.coord \in Coordinator
        /\ d.coord.lease \in -1 .. LeaseTtl
        /\ d.rows \in [Event -> Row]
    BY DEF Sound, DbOK
  <2> HIDE DEF h, row
  <2>2. /\ h.coord \in Coordinator
        /\ h.coord.lease = d.coord.lease
        /\ h.coord.queuedCount = d.coord.queuedCount + 1
    BY <1>2, <2>1, CountedType
  <2>3. row \in Row
    BY <1>1 DEF Row
  <2>4. h.rows \in [Event -> Row]
    BY <1>2, <2>1, <2>3
  <2>5. QED
    BY <1>2, <2>1, <2>2, <2>4 DEF DbOK
<1>4. Queued(h) \subseteq Queued(d) \cup {q.event}
  <2>1. \A e \in Event \ {q.event} : h.rows[e] = d.rows[e]
    BY DEF Enqueue, Sound, DbOK
  <2> HIDE DEF h, row
  <2> QED
    BY <2>1 DEF Queued
<1>5. Covers(h, Queued(d) \cup {q.event})
  <2>1. IsFiniteSet(Queued(d)) /\ Cardinality(Queued(d)) \in Nat
    BY QueuedFinite DEF Queued
  <2>2. Cardinality(Queued(d) \cup {q.event}) \in
          {Cardinality(Queued(d)), Cardinality(Queued(d)) + 1}
    <3>1. CASE q.event \in Queued(d)
      <4>1. Queued(d) \cup {q.event} = Queued(d)
        BY <3>1
      <4>2. QED
        BY <4>1
    <3>2. CASE q.event \notin Queued(d)
      BY <2>1, <3>2, FS_AddElement
    <3>3. QED
      BY <3>1, <3>2
  <2>3. QED
    BY <1>3, <2>1, <2>2, CountType DEF Covers, Sound
<1>6. Covers(h, Queued(h))
  <2>1. Queued(d) \cup {q.event} \in SUBSET Event
    BY <1>1 DEF Queued
  <2> HIDE DEF h
  <2>2. QED
    BY <1>3, <1>4, <1>5, <2>1, CoversSubset
<1>7. /\ h.coord.ownerGeneration = d.coord.ownerGeneration
      /\ h.coord.ownerEventId = d.coord.ownerEventId
  <2> HIDE DEF h
  <2> QED
    BY <1>2 DEF Sound, DbOK, Coordinator
<1>8. QED
  BY <1>3, <1>6, <1>7 DEF Sound

LEMMA OwnSound ==
  ASSUME NEW d, Sound(d), NEW q \in Requests
  PROVE  Sound(Own(d, q)) /\ Own(d, q).coord.ownerEventId \in Event
<1> DEFINE gen == d.coord.ownerGeneration + 1
           row == [NewRow(d, q) EXCEPT !.status = "processing",
                                       !.appliedTo = q.event, !.generation = gen]
           c == [d.coord EXCEPT !.nextSequence = @ + 1]
           h == Own(d, q)
<1>1. q.event \in Event /\ q.task \in Task \cup {NoTask} /\ gen \in Nat
  BY EventOf DEF Sound, DbOK, Coordinator
<1>2. row \in Admitted
  <2>1. [NewRow(d, q) EXCEPT !.status = "processing"] \in Admitted
    BY NewRowType DEF Sound, Statuses
  <2>2. row = [[NewRow(d, q) EXCEPT !.status = "processing"]
                 EXCEPT !.appliedTo = q.event, !.generation = gen]
    OBVIOUS
  <2>3. QED
    BY <1>1, <2>1, <2>2 DEF Admitted
<1>3. c \in Coordinator /\ c.queuedCount = d.coord.queuedCount
  BY DEF Sound, DbOK, Coordinator
<1>4. /\ h = [coord |-> h.coord, bytes |-> h.bytes, rows |-> h.rows]
      /\ h.rows = [d.rows EXCEPT ![q.event] = row]
      /\ h.coord = Acquire(c, q.event, q.task, gen)
  BY DEF Own
<1>5. /\ h.coord \in Coordinator
      /\ h.coord.lease \in -1 .. LeaseTtl
      /\ h.coord.queuedCount = d.coord.queuedCount
      /\ h.coord.ownerEventId = q.event
  <2> HIDE DEF h, c, gen
  <2> QED
    BY <1>1, <1>3, <1>4, AcquireType DEF Owners
<1>6. DbOK(h) /\ Queued(h) \subseteq Queued(d)
  <2>1. row.status = "processing"
    BY DEF NewRow, NoRow
  <2> HIDE DEF h, row
  <2>2. QED
    BY <1>1, <1>2, <1>4, <1>5, <2>1 DEF DbOK, Sound, Row, Queued
<1>7. h.coord.queuedCount >= d.coord.queuedCount
  BY <1>5, CountType DEF Sound
<1>8. Sound(h)
  <2> HIDE DEF h
  <2> QED
    BY <1>6, <1>7, ShrinkSound
<1>9. QED
  BY <1>1, <1>5, <1>8

-----------------------------------------------------------------------------
(* The cron, the sweep, and the end of a turn.                             *)

LEMMA MaintainedSound ==
  ASSUME NEW d, Sound(d)
  PROVE  /\ Sound(Maintained(d))
         /\ Maintained(d).coord.ownerGeneration = d.coord.ownerGeneration
<1> DEFINE s == ExpireQueuedEnvelopes(d, Queued(d))
           due == Due(d, {e \in Event : d.rows[e].status = "processing"})
           h == Maintained(d)
           free == [s.coord EXCEPT !.ownerEventId = NoEvent, !.lease = -1]
<1>1. Sound(s) /\ Queued(s) \subseteq Queued(d)
  BY ExpireSound
<1>2. s.coord.ownerGeneration = d.coord.ownerGeneration
  BY DEF ExpireQueuedEnvelopes, Dequeue, Sound, DbOK, Coordinator
<1>3. ASSUME NEW e \in due
      PROVE  s.rows[e] = d.rows[e] /\ s.rows[e] \in Admitted
             /\ s.rows[e].status = "processing" /\ e \in Event
  <2>1. e \in Event /\ d.rows[e].status = "processing"
    BY DEF Due
  <2>2. e \notin Due(d, Queued(d))
    BY <2>1 DEF Due, Queued
  <2>3. s.rows[e] = d.rows[e]
    BY <2>1, <2>2 DEF ExpireQueuedEnvelopes, Dequeue
  <2>4. QED
    BY <2>1, <2>3, AdmittedRow DEF Sound
<1>4. /\ h = [coord |-> h.coord, bytes |-> h.bytes, rows |-> h.rows]
      /\ h.coord \in {s.coord, free}
      /\ h.rows = [e \in Event |-> h.rows[e]]
  BY DEF Maintained
<1>5. ASSUME NEW e \in Event
      PROVE  \/ h.rows[e] = NoRow
             \/ h.rows[e] = s.rows[e]
             \/ e \in due /\ h.rows[e] = Expired(s.rows[e])
             \/ /\ e \in due
                /\ d.coord.lease >= 0
                /\ h.rows[e] = [s.rows[e] EXCEPT !.ttl = d.coord.lease]
  BY DEF Maintained, ExpireQueuedEnvelopes, Dequeue, OfLiveTurn, HasActiveOwner
<1>6. s.coord \in Coordinator /\ s.coord.lease \in -1 .. LeaseTtl
  BY <1>1 DEF Sound, DbOK
<1>7. /\ h.coord \in Coordinator
      /\ h.coord.lease \in -1 .. LeaseTtl
      /\ h.coord.queuedCount = s.coord.queuedCount
      /\ h.coord.ownerGeneration = s.coord.ownerGeneration
  <2>1. -1 \in -1 .. LeaseTtl /\ -1 \in Int
    BY BoundsAssumption
  <2> HIDE DEF h, s
  <2>2. /\ free \in Coordinator
        /\ free.lease = -1
        /\ free.queuedCount = s.coord.queuedCount
        /\ free.ownerGeneration = s.coord.ownerGeneration
    BY <1>6, <2>1 DEF Coordinator
  <2> HIDE DEF free
  <2>3. QED
    BY <1>4, <1>6, <2>1, <2>2
<1>8. ASSUME NEW e \in Event
      PROVE  /\ h.rows[e] \in Row
             /\ h.rows[e].status = "queued" => s.rows[e].status = "queued"
  <2>1. d.coord.lease >= 0 => d.coord.lease \in Nat
    BY DEF Sound, DbOK, Coordinator
  <2>2. NoRow \in Row /\ NoRow.status # "queued"
    BY DEF Row, NoRow
  <2>3. s.rows[e] \in Row
    BY <1>1 DEF Sound, DbOK
  <2>4. ASSUME e \in due
        PROVE  /\ Expired(s.rows[e]) \in Admitted
               /\ Expired(s.rows[e]).status = "expired"
    BY <1>3, <2>4 DEF Expired, Admitted, Statuses
  <2>5. ASSUME e \in due, d.coord.lease \in Nat
        PROVE  [s.rows[e] EXCEPT !.ttl = d.coord.lease] \in Admitted
               /\ [s.rows[e] EXCEPT !.ttl = d.coord.lease].status = "processing"
    BY <1>3, <2>5 DEF Admitted
  <2> HIDE DEF h, s, due
  <2>6. QED
    BY <1>5, <2>1, <2>2, <2>3, <2>4, <2>5 DEF Row
<1>9. DbOK(h) /\ Queued(h) \subseteq Queued(s)
  <2> HIDE DEF h, s
  <2> QED
    BY <1>4, <1>7, <1>8 DEF DbOK, Queued
<1>10. Sound(h)
  <2>1. h.coord.queuedCount >= s.coord.queuedCount
    BY <1>1, <1>7, CountType DEF Sound
  <2> HIDE DEF h, s
  <2>2. QED
    BY <1>1, <1>9, <2>1, ShrinkSound
<1>11. QED
  BY <1>2, <1>7, <1>10

\* The sweep recounts, so that what it promotes from is covered again.
LEMMA SweepSound ==
  ASSUME Sound(Db)
  PROVE  Sound(SweepRecovered) /\ Handed(SweepRecovered)
<1> DEFINE d == ExpireStaleOwner(Db)
           page == Queued(d)
           active == page \ Due(d, page)
           s == ExpireQueuedEnvelopes(d, page)
           gen == d.coord.ownerGeneration + 1
           r == [coord |-> [s.coord EXCEPT !.queuedCount = Cardinality(active)],
                 bytes |-> SizeOf(d, active),
                 rows  |-> s.rows]
           h == PromoteQueuedGroup(r, active, gen)
<1>1. Sound(d) /\ d.coord = coord
  BY StaleOwnerSound DEF Db
<1>2. Sound(s) /\ Queued(s) = active
  BY <1>1, ExpireSound
<1>3. active \in SUBSET Event /\ Cardinality(active) \in Nat
  BY QueuedFinite DEF Queued
<1>4. /\ r = [coord |-> r.coord, bytes |-> r.bytes, rows |-> s.rows]
      /\ r.coord = [s.coord EXCEPT !.queuedCount = Cardinality(active)]
  OBVIOUS
<1>5. /\ r.coord \in Coordinator
      /\ r.coord.lease \in -1 .. LeaseTtl
      /\ r.coord.queuedCount = Cardinality(active)
      /\ r.coord.ownerGeneration = s.coord.ownerGeneration
  <2>1. s.coord \in Coordinator /\ s.coord.lease \in -1 .. LeaseTtl
    BY <1>2 DEF Sound, DbOK
  <2> HIDE DEF s, r, active
  <2>2. QED
    BY <1>3, <1>4, <2>1 DEF Coordinator
<1>6. DbOK(r)
  <2>1. s.rows \in [Event -> Row]
    BY <1>2 DEF Sound, DbOK
  <2> HIDE DEF s, r, active
  <2>2. QED
    BY <1>4, <1>5, <2>1 DEF DbOK
<1>7. /\ Covers(r, active)
      /\ Queued(r) \subseteq active
      /\ \A e \in active : r.rows[e].status # "none"
  <2>1. Queued(r) = Queued(s)
    BY <1>4 DEF Queued
  <2>2. \A e \in Queued(r) : r.rows[e].status # "none"
    BY DEF Queued
  <2> HIDE DEF s, r, active
  <2>3. QED
    BY <1>2, <1>3, <1>5, <2>1, <2>2 DEF Covers
<1>8. gen \in Nat
  BY <1>1 DEF Sound, DbOK, Coordinator
<1>9. /\ Sound(h)
      /\ active # {} => h.coord.ownerEventId \in Event
      /\ active = {} => h = r
  <2> HIDE DEF r, active, gen
  <2> QED
    BY <1>3, <1>6, <1>7, <1>8, PromoteSound
<1>10. s.coord.ownerGeneration = coord.ownerGeneration
  BY <1>1 DEF ExpireQueuedEnvelopes, Dequeue, Sound, DbOK, Coordinator
<1>11. Handed(h)
  BY <1>5, <1>9, <1>10 DEF Handed
<1>12. h = SweepRecovered
  BY DEF SweepRecovered
<1>13. QED
  BY <1>9, <1>11, <1>12

LEMMA ClearedType ==
  ASSUME NEW c \in Coordinator, NEW task \in Task \cup {NoTask},
         NEW h, h = [Cleared(c) EXCEPT !.ownerTaskId = task]
  PROVE  /\ h \in Coordinator
         /\ h.lease \in -1 .. LeaseTtl
         /\ h.queuedCount = c.queuedCount
         /\ h.ownerGeneration = c.ownerGeneration
<1>1. -1 \in -1 .. LeaseTtl /\ -1 \in Int
  BY BoundsAssumption
<1>2. h \in Coordinator /\ h.lease = -1
  BY <1>1 DEF Cleared, Coordinator
<1>3. /\ h.queuedCount = c.queuedCount
      /\ h.ownerGeneration = c.ownerGeneration
  BY DEF Cleared, Coordinator
<1>4. QED
  BY <1>1, <1>2, <1>3

\* Both ends of a turn: the next group is handed out, or nobody owns.
LEMMA TakeSound ==
  ASSUME NEW d, Sound(d), NEW gen \in Nat
  PROVE  LET page  == QueuedPage(d)
             next  == PromoteQueuedGroup(Swept(d), page \ Due(d, page), gen)
             freed == [Swept(d) EXCEPT
                        !.coord = [Cleared(@) EXCEPT !.ownerTaskId = NoTask]]
         IN  /\ Sound(next)
             /\ page \ Due(d, page) # {} => next.coord.ownerEventId \in Event
             /\ Sound(freed)
             /\ freed.coord.ownerGeneration = d.coord.ownerGeneration
<1> DEFINE page == QueuedPage(d)
           s == Swept(d)
           active == page \ Due(d, page)
           next == PromoteQueuedGroup(s, active, gen)
           c == [Cleared(s.coord) EXCEPT !.ownerTaskId = NoTask]
           freed == [s EXCEPT !.coord = [Cleared(@) EXCEPT !.ownerTaskId = NoTask]]
<1>1. Sound(s) /\ Queued(s) = active
  BY SweptSound
<1>2. /\ DbOK(s) /\ active \in SUBSET Event /\ Covers(s, active)
      /\ Queued(s) \subseteq active
      /\ \A e \in active : s.rows[e].status # "none"
  <2>1. \A e \in Queued(s) : s.rows[e].status # "none"
    BY DEF Queued
  <2>2. Queued(s) \in SUBSET Event
    BY DEF Queued
  <2> HIDE DEF s, active
  <2>3. QED
    BY <1>1, <2>1, <2>2 DEF Sound
<1>3. Sound(next) /\ (active # {} => next.coord.ownerEventId \in Event)
  <2> HIDE DEF s, active
  <2> QED
    BY <1>2, PromoteSound
<1>4. /\ freed = [coord |-> freed.coord, bytes |-> freed.bytes, rows |-> s.rows]
      /\ freed.coord = c
  BY <1>1 DEF Sound, DbOK
<1>5. /\ c \in Coordinator
      /\ c.lease \in -1 .. LeaseTtl
      /\ c.queuedCount = s.coord.queuedCount
      /\ c.ownerGeneration = s.coord.ownerGeneration
  BY <1>2, ClearedType DEF DbOK
<1>6. c.queuedCount >= s.coord.queuedCount
  <2> HIDE DEF c, s
  <2> QED
    BY <1>2, <1>5, CountType
<1>7. Sound(freed)
  <2> HIDE DEF c, s, freed
  <2> QED
    BY <1>1, <1>4, <1>5, <1>6, CoordSound
<1>8. s.coord.ownerGeneration = d.coord.ownerGeneration
  BY DEF Swept, ExpireQueuedEnvelopes, Dequeue, Sound, DbOK, Coordinator
<1>9. QED
  BY <1>3, <1>4, <1>5, <1>7, <1>8

-----------------------------------------------------------------------------
(* The inductive invariant: types, and a counter that covers the queue.     *)

Inv == TypeOK /\ CountCovers

LEMMA InvSound ==
  ASSUME Inv
  PROVE  Sound(Db) /\ Db.coord = coord
BY DEF Inv, TypeOK, CountCovers, Sound, DbOK, Covers, Db

LEMMA ResultsType ==
  ASSUME NEW d, DbOK(d), NEW S \in SUBSET Event,
         \A e \in S : d.rows[e].status # "none"
  PROVE  ResultsOf(d, S) \subseteq Result
<1>1. \A e \in S : d.rows[e].req.result \in Result \cup {NoResult}
  BY AdmittedRow, RequestsAssumption DEF Admitted, Request
<1>2. QED
  BY <1>1 DEF ResultsOf

LEMMA CommitInv ==
  ASSUME Inv, NEW d, Sound(d), Handed(d), Commit(d), storedBy' \in [Result -> Nat]
  PROVE  Inv'
<1>1. /\ coord' = d.coord
      /\ rows' = d.rows
  BY DEF Commit
<1>2. /\ coord' \in Coordinator
      /\ coord'.lease \in -1 .. LeaseTtl
      /\ rows' \in [Event -> Row]
  BY <1>1 DEF Sound, DbOK
<1>3. CountCovers'
  <2>1. Queued(Db)' = Queued(d)
    BY <1>1 DEF Queued, Db
  <2>2. QED
    BY <1>1, <2>1 DEF CountCovers, Sound, Covers
<1>4. /\ turns' \in Seq(Event \cup {ClearEvent})
      /\ unsaved' \subseteq Result
      /\ phase' \in {"running", "settled", "interrupted"}
  <2>1. CASE d.coord.ownerGeneration = coord.ownerGeneration
    BY <2>1 DEF Commit, Inv, TypeOK
  <2>2. CASE d.coord.ownerGeneration # coord.ownerGeneration
    <3>1. d.coord.ownerEventId \in Event \cup {ClearEvent}
      BY <2>2 DEF Handed
    <3>2. turns' = Append(turns, d.coord.ownerEventId) /\ phase' = "running"
      BY <2>2 DEF Commit
    <3>3. turns' \in Seq(Event \cup {ClearEvent})
      BY <3>1, <3>2 DEF Inv, TypeOK
    <3>4. Members(d, d.coord.ownerGeneration) \in SUBSET Event
          /\ \A e \in Members(d, d.coord.ownerGeneration) : d.rows[e].status # "none"
      BY DEF Members
    <3>5. ResultsOf(d, Members(d, d.coord.ownerGeneration)) \subseteq Result
      BY <3>4, ResultsType DEF Sound
    <3>6. QED
      BY <2>2, <3>2, <3>3, <3>5 DEF Commit
  <2>3. QED
    BY <2>1, <2>2
<1>5. QED
  BY <1>2, <1>3, <1>4 DEF Inv, TypeOK

\* A call of a worker that keeps the turn.
LEMMA WriteInv ==
  ASSUME Inv, NEW d, Sound(d), Write(d), storedBy' \in [Result -> Nat],
         UNCHANGED turns, unsaved' \subseteq Result,
         phase' \in {"running", "settled", "interrupted"}
  PROVE  Inv'
<1>1. coord' = d.coord /\ rows' = d.rows
  BY DEF Write
<1>2. Queued(Db)' = Queued(d)
  BY <1>1 DEF Queued, Db
<1>3. CountCovers'
  BY <1>1, <1>2 DEF CountCovers, Sound, Covers
<1>4. QED
  BY <1>1, <1>3 DEF Inv, TypeOK, Sound, DbOK

LEMMA StoredType ==
  ASSUME Inv, NEW g \in Nat, NEW told, MarkStored(g, told)
  PROVE  storedBy' \in [Result -> Nat]
BY DEF Inv, TypeOK, MarkStored

LEMMA InitInv == Init => Inv
<1> SUFFICES ASSUME Init PROVE Inv
  OBVIOUS
<1>1. Queued(Db) = {} /\ coord.queuedCount = 0
  BY DEF Init, Queued, Db, NoRow
<1>2. CountCovers
  BY <1>1, FS_EmptySet DEF CountCovers
<1>3. TypeOK
  BY BoundsAssumption DEF Init, TypeOK, Coordinator, Row
<1>4. QED
  BY <1>2, <1>3 DEF Inv

LEMMA AdmissionInv == Inv /\ Admission => Inv'
<1> SUFFICES ASSUME Inv, Admission PROVE Inv'
  OBVIOUS
<1>1. Sound(Db)
  BY InvSound
<1>2. ASSUME UNCHANGED storedBy PROVE storedBy' \in [Result -> Nat]
  BY <1>2 DEF Inv, TypeOK
<1>3. ASSUME NEW q \in Requests, AcceptAnswered(q) PROVE Inv'
  <2>1. Sound(Forget(q)) /\ Handed(Forget(q))
    BY <1>1, ForgetSound DEF Handed
  <2>2. QED
    BY <1>2, <1>3, <2>1, CommitInv DEF AcceptAnswered
<1>4. ASSUME NEW q \in Requests, AcceptRefused(q) PROVE Inv'
  BY <1>1, <1>2, <1>4, RecoveredSound, CommitInv DEF AcceptRefused
<1>5. ASSUME NEW q \in Requests, AcceptQueued(q) PROVE Inv'
  <2> DEFINE d == Recovered(q)
  <2>1. Sound(d) /\ Handed(d)
    BY <1>1, RecoveredSound
  <2>2. Sound(Enqueue(d, q)) /\ Handed(Enqueue(d, q))
    <3> HIDE DEF d
    <3> QED
      BY <2>1, EnqueueSound DEF Handed
  <2>3. QED
    BY <1>2, <1>5, <2>2, CommitInv DEF AcceptQueued
<1>6. ASSUME NEW q \in Requests, AcceptOwner(q) PROVE Inv'
  <2> DEFINE d == Recovered(q)
  <2>1. Sound(Own(d, q)) /\ Handed(Own(d, q))
    <3>1. Sound(d)
      BY <1>1, RecoveredSound
    <3> HIDE DEF d
    <3> QED
      BY <3>1, OwnSound DEF Handed
  <2>2. QED
    BY <1>2, <1>6, <2>1, CommitInv DEF AcceptOwner
<1>7. ASSUME AcquireClear PROVE Inv'
  <2> DEFINE d == ExpireQueuedEnvelopes(Db, QueuedPage(Db))
             task == d.coord.ownerTaskId
             gen == d.coord.ownerGeneration + 1
             c == Acquire(d.coord, ClearEvent, task, gen)
             h == [d EXCEPT !.coord = Acquire(@, ClearEvent, @.ownerTaskId,
                                              @.ownerGeneration + 1)]
  <2>1. Sound(d) /\ d.coord.ownerGeneration = coord.ownerGeneration
    <3>1. Sound(d)
      BY <1>1, PageIsQueue, ExpireSound
    <3>2. d.coord.ownerGeneration = coord.ownerGeneration
      BY <1>1 DEF ExpireQueuedEnvelopes, Dequeue, Db, Sound, DbOK, Coordinator
    <3>3. QED
      BY <3>1, <3>2
  <2>2. /\ h = [coord |-> h.coord, bytes |-> h.bytes, rows |-> d.rows]
        /\ h.coord = c
    <3>1. d = [coord |-> d.coord, bytes |-> d.bytes, rows |-> d.rows]
      BY <2>1 DEF Sound, DbOK
    <3> HIDE DEF d
    <3>2. QED
      BY <3>1
  <2>3. /\ c \in Coordinator
        /\ c.lease \in -1 .. LeaseTtl
        /\ c.queuedCount = d.coord.queuedCount
        /\ c.ownerEventId = ClearEvent
    <3>1. /\ d.coord \in Coordinator
          /\ ClearEvent \in Owners
          /\ task \in Task \cup {NoTask}
          /\ gen \in Nat
      BY <2>1 DEF Sound, DbOK, Coordinator, Owners
    <3> HIDE DEF d, task, gen
    <3>2. QED
      BY <3>1, AcquireType
  <2>4. Sound(h) /\ Handed(h)
    <3>1. c.queuedCount >= d.coord.queuedCount
      <4> HIDE DEF c, d
      <4> QED
        BY <2>1, <2>3, CountType DEF Sound
    <3> HIDE DEF h, c, d
    <3>2. QED
      BY <2>1, <2>2, <2>3, <3>1, CoordSound DEF Handed
  <2>5. Handed(d)
    BY <2>1 DEF Handed
  <2>6. storedBy' \in [Result -> Nat] /\ (Commit(d) \/ Commit(h))
    BY <1>2, <1>7 DEF AcquireClear
  <2> HIDE DEF d, h
  <2>7. QED
    BY <2>1, <2>4, <2>5, <2>6, CommitInv
<1>8. QED
  BY <1>3, <1>4, <1>5, <1>6, <1>7 DEF Admission

LEMMA WorkerInv == Inv /\ Worker => Inv'
<1> SUFFICES ASSUME Inv, Worker PROVE Inv'
  OBVIOUS
<1>1. Sound(Db) /\ DbOK(Db)
  BY InvSound DEF Sound
<1>2. /\ unsaved \subseteq Result
      /\ phase \in {"running", "settled", "interrupted"}
      /\ turns \in Seq(Event \cup {ClearEvent})
      /\ storedBy \in [Result -> Nat]
  BY DEF Inv, TypeOK
<1>3. ASSUME NEW d, Sound(d), NEW textOnly \in BOOLEAN
      PROVE  ResultsOf(d, Steers(d, textOnly)) \subseteq Result
  <2>1. /\ Steers(d, textOnly) \in SUBSET Event
        /\ \A e \in Steers(d, textOnly) : d.rows[e].status # "none"
    BY <1>3, SteersInPage, PageIsQueue DEF Queued
  <2>2. QED
    BY <1>3, <2>1, ResultsType DEF Sound
<1>4. PICK g \in 1 .. Len(turns) :
        \/ \E told \in SUBSET Result :
             \/ AppendConversationEvent(g, told)
             \/ \E claim \in BOOLEAN : StepBoundary(g, told, claim)
             \/ \E outcome \in {"completed", "failed"} : Settle(g, outcome, told)
             \/ \E outcome \in {"none", "completed", "failed"} :
                  TakeNext(g, outcome, told)
        \/ \E textOnly \in BOOLEAN : ApplySteering(g, textOnly)
        \/ RenewOwner(g)
        \/ Interrupt(g)
        \/ ReleaseOwner(g)
  BY DEF Worker
<1>5. g \in Nat
  BY <1>2
<1>6. ASSUME NEW told PROVE Sound(InsertOwnedEvents(Db, told))
  BY <1>1, InsertEventsSound
<1>7. ASSUME NEW told \in SUBSET Result, AppendConversationEvent(g, told)
      PROVE  Inv'
  <2>1. /\ Write(InsertOwnedEvents(Db, told))
        /\ MarkStored(g, told)
        /\ UNCHANGED <<turns, phase>>
        /\ unsaved' \subseteq Result
    BY <1>2, <1>7 DEF AppendConversationEvent, InTurn
  <2>2. QED
    BY <1>2, <1>5, <1>6, <2>1, StoredType, WriteInv
<1>8. ASSUME NEW told \in SUBSET Result, NEW claim \in BOOLEAN,
             StepBoundary(g, told, claim)
      PROVE  Inv'
  <2> DEFINE d == InsertOwnedEvents(Db, told)
             steers == IF claim /\ ~Stopped(d, g) THEN Steers(d, FALSE) ELSE {}
             h == CASE Stopped(d, g) -> d
                    [] steers # {}   -> Claimed(d, steers)
                    [] OTHER -> RenewHeldLease(IF claim THEN Unclaimed(d) ELSE d)
  <2>1. /\ Write(h)
        /\ MarkStored(g, told)
        /\ UNCHANGED <<turns, phase>>
        /\ unsaved' = ResultsOf(d, steers)
    BY <1>8 DEF StepBoundary, InTurn
  <2>2. Sound(d)
    BY <1>6
  <2>3. Sound(h)
    <3> HIDE DEF d
    <3>1. steers \in SUBSET (QueuedPage(d) \ Due(d, QueuedPage(d)))
      BY SteersInPage
    <3>2. Sound(Claimed(d, steers))
      BY <2>2, <3>1, ClaimedSound
    <3>3. Sound(RenewHeldLease(IF claim THEN Unclaimed(d) ELSE d))
      BY <2>2, UnclaimedSound, RenewSound
    <3>4. QED
      BY <2>2, <3>2, <3>3
  <2>4. unsaved' \subseteq Result
    <3> HIDE DEF d
    <3>1. ResultsOf(d, Steers(d, FALSE)) \subseteq Result
      BY <1>3, <2>2
    <3>2. ResultsOf(d, {}) = {}
      BY DEF ResultsOf
    <3>3. QED
      BY <2>1, <3>1, <3>2
  <2> HIDE DEF h
  <2>5. QED
    BY <1>2, <1>5, <2>1, <2>3, <2>4, StoredType, WriteInv
<1>9. ASSUME NEW told \in SUBSET Result, NEW outcome \in {"completed", "failed"},
             Settle(g, outcome, told)
      PROVE  Inv'
  <2>1. /\ Write(SettleAppliedEnvelopes(InsertOwnedEvents(Db, told), outcome))
        /\ MarkStored(g, told)
        /\ UNCHANGED turns
        /\ unsaved' \subseteq Result
        /\ phase' = "settled"
    BY <1>2, <1>9 DEF Settle, InTurn
  <2>2. Sound(SettleAppliedEnvelopes(InsertOwnedEvents(Db, told), outcome))
    BY <1>6, SettleSound
  <2>3. QED
    BY <1>2, <1>5, <2>1, <2>2, StoredType, WriteInv, Zenon
<1>10. ASSUME NEW told \in SUBSET Result,
              NEW outcome \in {"none", "completed", "failed"},
              TakeNext(g, outcome, told)
       PROVE  Inv'
  <2> DEFINE w == InsertOwnedEvents(Db, told)
             d == IF outcome \in Terminal THEN SettleAppliedEnvelopes(w, outcome)
                  ELSE w
             page == QueuedPage(d)
             next == PromoteQueuedGroup(Swept(d), page \ Due(d, page), g + 1)
             freed == [Swept(d) EXCEPT
                        !.coord = [Cleared(@) EXCEPT !.ownerTaskId = NoTask]]
  <2>1. Sound(d) /\ d.coord.ownerGeneration = coord.ownerGeneration
    <3>1. Sound(w) /\ w.coord.ownerGeneration = coord.ownerGeneration
      <4>1. w.coord.ownerGeneration = coord.ownerGeneration
        BY <1>1 DEF InsertOwnedEvents, Dequeue, Db, Sound, DbOK, Coordinator
      <4>2. QED
        BY <1>6, <4>1
    <3> HIDE DEF w
    <3>2. outcome \in Terminal => outcome \in {"completed", "failed"}
      BY DEF Terminal
    <3>3. QED
      BY <3>1, <3>2, SettleSound
  <2>2. /\ Commit(next) /\ page \ Due(d, page) # {}
        \/ Commit(freed)
    BY <1>10 DEF TakeNext
  <2>3. storedBy' \in [Result -> Nat]
    BY <1>5, <1>10, StoredType DEF TakeNext
  <2>4. g + 1 \in Nat
    BY <1>5
  <2> HIDE DEF d
  <2>5. /\ Sound(next)
        /\ page \ Due(d, page) # {} => next.coord.ownerEventId \in Event
        /\ Sound(freed)
        /\ freed.coord.ownerGeneration = d.coord.ownerGeneration
    BY <2>1, <2>4, TakeSound
  <2> HIDE DEF next, freed, page
  <2>6. Handed(freed) /\ (page \ Due(d, page) # {} => Handed(next))
    BY <2>1, <2>5 DEF Handed
  <2>7. QED
    BY <2>2, <2>3, <2>5, <2>6, CommitInv
<1>11. ASSUME NEW textOnly \in BOOLEAN, ApplySteering(g, textOnly) PROVE Inv'
  <2>1. /\ Write(Db) \/ Write(ClaimSteering(Db, textOnly))
        /\ MarkStored(g, {})
        /\ UNCHANGED <<turns, phase>>
        /\ \/ unsaved' = ResultsOf(Db, Steers(Db, textOnly))
           \/ unsaved' = ResultsOf(Db, {})
    BY <1>11 DEF ApplySteering, InTurn
  <2>2. Sound(ClaimSteering(Db, textOnly))
    BY <1>1, ClaimSound
  <2>3. unsaved' \subseteq Result
    <3>1. ResultsOf(Db, {}) = {}
      BY DEF ResultsOf
    <3>2. QED
      BY <1>1, <1>3, <2>1, <3>1
  <2>4. QED
    BY <1>1, <1>2, <1>5, <2>1, <2>2, <2>3, StoredType, WriteInv
<1>12. ASSUME RenewOwner(g) PROVE Inv'
  <2>1. /\ Write(RenewHeldLease(Db))
        /\ UNCHANGED <<storedBy, turns, unsaved, phase>>
    BY <1>12 DEF RenewOwner
  <2>2. QED
    BY <1>1, <1>2, <2>1, RenewSound, WriteInv
<1>13. ASSUME Interrupt(g) PROVE Inv'
  <2>1. /\ Write(SettleAppliedEnvelopes(Db, "failed"))
        /\ MarkStored(g, {})
        /\ UNCHANGED <<turns, unsaved>>
        /\ phase' \in {"running", "settled", "interrupted"}
    BY <1>2, <1>13 DEF Interrupt, InTurn
  <2>2. QED
    BY <1>1, <1>2, <1>5, <2>1, SettleSound, StoredType, WriteInv
<1>14. ASSUME ReleaseOwner(g) PROVE Inv'
  <2>1. /\ coord \in Coordinator
        /\ coord' = [Cleared(coord) EXCEPT !.ownerTaskId = coord.ownerTaskId]
        /\ coord.ownerTaskId \in Task \cup {NoTask}
    BY <1>14 DEF ReleaseOwner, Inv, TypeOK, Coordinator, Cleared
  <2>2. /\ coord' \in Coordinator
        /\ coord'.lease \in -1 .. LeaseTtl
        /\ coord'.queuedCount = coord.queuedCount
    BY <2>1, ClearedType
  <2>3. UNCHANGED <<rows, storedBy, turns, unsaved, phase>>
    BY <1>14 DEF ReleaseOwner
  <2>4. CountCovers'
    BY <2>2, <2>3 DEF Inv, CountCovers, Queued, Db
  <2>5. QED
    BY <2>2, <2>3, <2>4 DEF Inv, TypeOK
<1>15. QED
  BY <1>4, <1>7, <1>8, <1>9, <1>10, <1>11, <1>12, <1>13, <1>14

LEMMA NoRowStays ==
  ASSUME NEW row, row = NoRow
  PROVE  [row EXCEPT !.ttl = row.ttl, !.retain = row.retain] = row
BY DEF NoRow

\* Whoever else steps: /stop, the cron, the sweep and the clock.
LEMMA OthersInv ==
  /\ Inv /\ (\E expected \in Task \cup {NoTask} : StopOwner(expected)) => Inv'
  /\ Inv /\ Maintain => Inv'
  /\ Inv /\ RecoverQueued => Inv'
  /\ Inv /\ Tick => Inv'
<1>1. ASSUME Inv, NEW expected \in Task \cup {NoTask}, StopOwner(expected)
      PROVE  Inv'
  <2>1. coord \in Coordinator /\ coord.lease \in -1 .. LeaseTtl
    BY <1>1 DEF Inv, TypeOK
  <2>2. /\ coord' \in Coordinator
        /\ coord'.lease = coord.lease
        /\ coord'.queuedCount = coord.queuedCount
    BY <1>1, <2>1 DEF StopOwner, Coordinator
  <2>3. UNCHANGED <<rows, storedBy, turns, unsaved, phase>>
    BY <1>1 DEF StopOwner
  <2>4. CountCovers'
    BY <1>1, <2>2, <2>3 DEF Inv, CountCovers, Queued, Db
  <2>5. QED
    BY <1>1, <2>1, <2>2, <2>3, <2>4 DEF Inv, TypeOK
<1>2. ASSUME Inv, Maintain PROVE Inv'
  <2>1. Sound(Maintained(Db)) /\ Handed(Maintained(Db))
    BY <1>2, InvSound, MaintainedSound DEF Handed
  <2>2. storedBy' \in [Result -> Nat] /\ Commit(Maintained(Db))
    BY <1>2 DEF Maintain, Inv, TypeOK
  <2>3. QED
    BY <1>2, <2>1, <2>2, CommitInv
<1>3. ASSUME Inv, RecoverQueued PROVE Inv'
  <2>1. storedBy' \in [Result -> Nat] /\ Commit(SweepRecovered)
    BY <1>3 DEF RecoverQueued, Inv, TypeOK
  <2>2. QED
    BY <1>3, <2>1, InvSound, SweepSound, CommitInv
<1>4. ASSUME Inv, Tick PROVE Inv'
  <2>1. /\ coord \in Coordinator
        /\ coord.lease \in -1 .. LeaseTtl
        /\ rows \in [Event -> Row]
    BY <1>4 DEF Inv, TypeOK
  <2>2. /\ coord' \in Coordinator
        /\ coord'.lease \in -1 .. LeaseTtl
        /\ coord'.queuedCount = coord.queuedCount
    BY <1>4, <2>1, BoundsAssumption DEF Tick, Coordinator
  <2>3. ASSUME NEW e \in Event
        PROVE  Aged(e) \in Row /\ Aged(e).status = rows[e].status
    <3>1. CASE rows[e] \in Admitted
      <4>1. \A n \in Nat : Less(n) \in Nat
        BY DEF Less
      <4> DEFINE t == IF Live(rows[e]) THEN Less(rows[e].ttl) ELSE rows[e].ttl
                 r == IF OfLiveTurn(Db, e) THEN rows[e].retain
                      ELSE Less(rows[e].retain)
      <4>2. t \in Nat /\ r \in Nat
        BY <3>1, <4>1 DEF Admitted
      <4>3. Aged(e) = [rows[e] EXCEPT !.ttl = t, !.retain = r]
        BY <3>1 DEF Aged, Admitted
      <4> HIDE DEF t, r
      <4>4. QED
        BY <3>1, <4>2, <4>3 DEF Admitted, Row
    <3>2. CASE rows[e] = NoRow
      <4>1. Less(0) = 0
        BY DEF Less
      <4>2. rows[e].ttl = 0 /\ rows[e].retain = 0
        BY <3>2 DEF NoRow
      <4> DEFINE row == rows[e]
      <4>3. /\ (IF Live(row) THEN Less(row.ttl) ELSE row.ttl) = row.ttl
            /\ (IF OfLiveTurn(Db, e) THEN row.retain ELSE Less(row.retain))
                 = row.retain
        BY <4>1, <4>2
      <4>4. Aged(e) = [row EXCEPT !.ttl = row.ttl, !.retain = row.retain]
        BY <4>3 DEF Aged
      <4>5. Aged(e) = NoRow
        BY <3>2, <4>4, NoRowStays
      <4>6. QED
        BY <3>2, <4>5 DEF Row
    <3>3. QED
      BY <2>1, <3>1, <3>2 DEF Row
  <2>4. rows' = [e \in Event |-> Aged(e)]
        /\ UNCHANGED <<storedBy, turns, unsaved, phase>>
    BY <1>4 DEF Tick
  <2>5. CountCovers'
    <3>1. Queued(Db)' = Queued(Db)
      BY <2>3, <2>4 DEF Queued, Db
    <3>2. QED
      BY <1>4, <2>2, <3>1 DEF Inv, CountCovers
  <2>6. QED
    BY <1>4, <2>2, <2>3, <2>4, <2>5 DEF Inv, TypeOK
<1>5. QED
  BY <1>1, <1>2, <1>3, <1>4

LEMMA StepInv == Inv /\ [Next]_vars => Inv'
<1>1. ASSUME Inv, UNCHANGED vars PROVE Inv'
  BY <1>1 DEF Inv, TypeOK, CountCovers, Queued, Db, vars
<1>2. QED
  BY <1>1, AdmissionInv, WorkerInv, OthersInv DEF Next

LEMMA InvHolds == Spec => []Inv
BY InitInv, StepInv, PTL DEF Spec

\* Every mutation, cron pass, sweep and worker call keeps the fields of the
\* coordinator row and of the envelopes in their domains.
THEOREM TypeCorrect == Spec => []TypeOK
BY InvHolds, PTL DEF Inv

\* However rows are admitted, re-admitted, expired, merged, told and swept, the
\* counter never drops below the queue: the read that skips the queue at zero
\* (queuedPage) never skips a row.
THEOREM CounterCovers == Spec => []CountCovers
BY InvHolds, PTL DEF Inv

-----------------------------------------------------------------------------
(* How a transaction moves rows.  Between two database states a row that is  *)
(* not started stays, ends, or goes; Wanes says it of a whole state.         *)

Same(a, b) == /\ b.status = a.status /\ b.generation = a.generation
              /\ b.req = a.req /\ b.sequence = a.sequence
              /\ b.appliedTo = a.appliedTo

Ended(a, b) == /\ Live(a) /\ b.status \in Terminal
               /\ b.generation = a.generation
               /\ b.req = a.req /\ b.sequence = a.sequence

Fades(a, b) == Same(a, b) \/ Ended(a, b) \/ b = NoRow

\* Nothing starts, nothing is queued, and the owner's fields stay.
Wanes(d, h) ==
  /\ \A e \in Event : Fades(d.rows[e], h.rows[e])
  /\ \A e \in Event : h.rows[e].status = "queued" => h.rows[e] = d.rows[e]
  /\ h.coord = [d.coord EXCEPT !.queuedCount = h.coord.queuedCount]

\* What runs in the turn that holds the conversation goes on running.
Keeps(d, h) ==
  HasActiveOwner(d.coord) =>
    \A e \in Event : /\ d.rows[e].status = "processing"
                     /\ d.rows[e].generation = d.coord.ownerGeneration
                     => Same(d.rows[e], h.rows[e])

LEMMA GoneStays ==
  ASSUME NEW b \in Row, Same(NoRow, b)
  PROVE  b = NoRow
BY DEF Same, Row, Admitted, NoRow

LEMMA FadesOn ==
  ASSUME NEW a, NEW b, NEW c \in Row, Fades(a, b), Fades(b, c)
  PROVE  Fades(a, c)
<1>1. CASE c = NoRow
  BY <1>1 DEF Fades
<1>2. CASE Same(a, b) /\ Same(b, c)
  BY <1>2 DEF Fades, Same
<1>3. CASE Same(a, b) /\ Ended(b, c)
  BY <1>3 DEF Fades, Same, Ended, Live
<1>4. CASE Ended(a, b) /\ Same(b, c)
  BY <1>4 DEF Fades, Same, Ended
<1>5. CASE Ended(a, b) /\ Ended(b, c)
  BY <1>5 DEF Ended, Live, Terminal
<1>6. CASE b = NoRow /\ Same(b, c)
  BY <1>6, GoneStays DEF Fades
<1>7. CASE b = NoRow /\ Ended(b, c)
  BY <1>7 DEF Ended, Live, NoRow
<1>8. QED
  BY <1>1, <1>2, <1>3, <1>4, <1>5, <1>6, <1>7 DEF Fades

LEMMA OwnerKept ==
  ASSUME NEW c \in Coordinator, NEW k, k = [c EXCEPT !.queuedCount = k.queuedCount]
  PROVE  /\ k.ownerEventId = c.ownerEventId
         /\ k.ownerGeneration = c.ownerGeneration
         /\ k.ownerTaskId = c.ownerTaskId
         /\ k.lease = c.lease
         /\ k.stopRequestedGeneration = c.stopRequestedGeneration
         /\ k.nextSequence = c.nextSequence
         /\ HasActiveOwner(k) = HasActiveOwner(c)
<1>1. /\ k.ownerEventId = c.ownerEventId
      /\ k.ownerGeneration = c.ownerGeneration
      /\ k.ownerTaskId = c.ownerTaskId
      /\ k.lease = c.lease
      /\ k.stopRequestedGeneration = c.stopRequestedGeneration
      /\ k.nextSequence = c.nextSequence
  <2> DEFINE n == k.queuedCount
  <2>1. k = [c EXCEPT !.queuedCount = n]
    OBVIOUS
  <2> HIDE DEF n
  <2>2. QED
    BY <2>1 DEF Coordinator
<1>2. QED
  BY <1>1 DEF HasActiveOwner

\* The owner's fields of a state that waned.
LEMMA WanesOwner ==
  ASSUME NEW d, DbOK(d), NEW h, Wanes(d, h)
  PROVE  /\ h.coord.ownerEventId = d.coord.ownerEventId
         /\ h.coord.ownerGeneration = d.coord.ownerGeneration
         /\ h.coord.ownerTaskId = d.coord.ownerTaskId
         /\ h.coord.lease = d.coord.lease
         /\ h.coord.stopRequestedGeneration = d.coord.stopRequestedGeneration
         /\ h.coord.nextSequence = d.coord.nextSequence
         /\ HasActiveOwner(h.coord) = HasActiveOwner(d.coord)
BY OwnerKept DEF DbOK, Wanes

LEMMA WanesOn ==
  ASSUME NEW d, NEW x, NEW h, DbOK(d), DbOK(h), Wanes(d, x), Wanes(x, h)
  PROVE  Wanes(d, h)
<1>1. ASSUME NEW e \in Event PROVE Fades(d.rows[e], h.rows[e])
  <2>1. h.rows[e] \in Row
    BY DEF DbOK
  <2>2. Fades(d.rows[e], x.rows[e]) /\ Fades(x.rows[e], h.rows[e])
    BY DEF Wanes
  <2>3. QED
    BY <2>1, <2>2, FadesOn
<1>2. \A e \in Event : h.rows[e].status = "queued" => h.rows[e] = d.rows[e]
  BY DEF Wanes
<1>3. h.coord = [d.coord EXCEPT !.queuedCount = h.coord.queuedCount]
  <2> DEFINE c == d.coord
             k == x.coord
             l == h.coord
             m == k.queuedCount
             n == l.queuedCount
  <2>1. /\ c \in Coordinator
        /\ k = [c EXCEPT !.queuedCount = m]
        /\ l = [k EXCEPT !.queuedCount = n]
    BY DEF Wanes, DbOK
  <2> HIDE DEF c, k, l, m, n
  <2>2. l = [c EXCEPT !.queuedCount = n]
    BY <2>1 DEF Coordinator
  <2>3. QED
    BY <2>2 DEF c, l, n
<1>4. QED
  BY <1>1, <1>2, <1>3 DEF Wanes

LEMMA KeepsOn ==
  ASSUME NEW d, NEW x, NEW h, DbOK(d), Wanes(d, x), Keeps(d, x), Keeps(x, h)
  PROVE  Keeps(d, h)
<1> SUFFICES ASSUME HasActiveOwner(d.coord), NEW e \in Event,
                    d.rows[e].status = "processing",
                    d.rows[e].generation = d.coord.ownerGeneration
             PROVE  Same(d.rows[e], h.rows[e])
  BY DEF Keeps
<1>1. Same(d.rows[e], x.rows[e])
  BY DEF Keeps
<1>2. HasActiveOwner(x.coord) /\ x.coord.ownerGeneration = d.coord.ownerGeneration
  BY WanesOwner
<1>3. Same(x.rows[e], h.rows[e])
  BY <1>1, <1>2 DEF Keeps, Same
<1>4. QED
  BY <1>1, <1>3 DEF Same

LEMMA WanesStill ==
  ASSUME NEW d, DbOK(d)
  PROVE  Wanes(d, d) /\ Keeps(d, d)
<1>1. d.coord = [d.coord EXCEPT !.queuedCount = d.coord.queuedCount]
  BY DEF DbOK, Coordinator
<1>2. QED
  BY <1>1 DEF Wanes, Keeps, Fades, Same

\* Queued rows leave for a terminal status.
LEMMA DequeueWanes ==
  ASSUME NEW d, DbOK(d), NEW S \in SUBSET Queued(d), NEW status \in Terminal
  PROVE  /\ Wanes(d, Dequeue(d, S, Marked(d, status)))
         /\ Keeps(d, Dequeue(d, S, Marked(d, status)))
<1> DEFINE h == Dequeue(d, S, Marked(d, status))
<1>1. ASSUME NEW e \in Event
      PROVE  \/ e \in S /\ h.rows[e] = [d.rows[e] EXCEPT !.status = status]
             \/ e \notin S /\ h.rows[e] = d.rows[e]
  BY DEF Dequeue, Marked
<1>2. ASSUME NEW e \in S PROVE d.rows[e] \in Admitted /\ d.rows[e].status = "queued"
  BY AdmittedRow DEF Queued
<1>3. S \subseteq Event
  BY DEF Queued
<1>4. ASSUME NEW e \in S, h.rows[e] = [d.rows[e] EXCEPT !.status = status]
      PROVE  Ended(d.rows[e], h.rows[e]) /\ h.rows[e].status = status
  BY <1>2, <1>4 DEF Ended, Live, Admitted
<1>5. h.coord = [d.coord EXCEPT !.queuedCount = h.coord.queuedCount]
  BY DEF Dequeue, DbOK, Coordinator
<1>6. \A e \in Event : Fades(d.rows[e], h.rows[e])
  BY <1>1, <1>4 DEF Fades, Same
<1>7. \A e \in Event : h.rows[e].status = "queued" => h.rows[e] = d.rows[e]
  BY <1>1, <1>4 DEF Terminal
<1>8. Keeps(d, h)
  BY <1>1, <1>2 DEF Keeps, Same
<1>9. QED
  BY <1>5, <1>6, <1>7, <1>8 DEF Wanes

LEMMA ExpireWanes ==
  ASSUME NEW d, DbOK(d), NEW page \in SUBSET Queued(d)
  PROVE  /\ Wanes(d, ExpireQueuedEnvelopes(d, page))
         /\ Keeps(d, ExpireQueuedEnvelopes(d, page))
BY DequeueWanes DEF ExpireQueuedEnvelopes, Due, Terminal

LEMMA InsertEventsWanes ==
  ASSUME NEW d, Sound(d), NEW told
  PROVE  /\ Wanes(d, InsertOwnedEvents(d, told))
         /\ Keeps(d, InsertOwnedEvents(d, told))
         /\ \A e \in Queued(InsertOwnedEvents(d, told)) :
              d.rows[e].req.result \notin told
<1> DEFINE S == {e \in QueuedPage(d) : d.rows[e].req.result \in told}
           h == InsertOwnedEvents(d, told)
<1>1. S \in SUBSET Queued(d) /\ QueuedPage(d) = Queued(d) /\ DbOK(d)
  BY PageIsQueue DEF Sound
<1>2. h = Dequeue(d, S, Marked(d, "completed"))
  BY DEF InsertOwnedEvents
<1>3. Wanes(d, h) /\ Keeps(d, h)
  <2> HIDE DEF h, S
  <2> QED
    BY <1>1, <1>2, DequeueWanes DEF Terminal
<1>4. Queued(h) = Queued(d) \ S
  <2>1. \A e \in S : /\ Marked(d, "completed")[e] \in Row
                     /\ Marked(d, "completed")[e].status # "queued"
    BY <1>1, MarkedType DEF Queued, Statuses
  <2> HIDE DEF h, S
  <2>2. QED
    BY <1>1, <1>2, <2>1, DequeueSound
<1>5. \A e \in Queued(h) : d.rows[e].req.result \notin told
  BY <1>1, <1>4
<1>6. QED
  BY <1>3, <1>5

\* The lapsed owner's row ends: nothing runs under a lease there.
LEMMA StaleOwnerWanes ==
  ASSUME NEW d, Sound(d)
  PROVE  /\ Wanes(d, ExpireStaleOwner(d))
         /\ Keeps(d, ExpireStaleOwner(d))
         /\ \A e \in Event : \/ ExpireStaleOwner(d).rows[e] = d.rows[e]
                             \/ ExpireStaleOwner(d).rows[e] = Expired(d.rows[e])
<1> DEFINE h == ExpireStaleOwner(d)
           owner == d.coord.ownerEventId
<1>1. CASE h = d
  BY <1>1, WanesStill DEF Sound
<1>2. CASE h # d
  <2>1. /\ owner \in Event
        /\ ~HasActiveOwner(d.coord)
        /\ d.rows[owner].status \in {"queued", "processing"}
        /\ h = [d EXCEPT !.rows[owner] = Expired(@)]
    BY <1>2 DEF ExpireStaleOwner
  <2>2. /\ h.coord = d.coord
        /\ h.rows = [d.rows EXCEPT ![owner] = Expired(d.rows[owner])]
        /\ d.rows \in [Event -> Row]
    BY <2>1 DEF Sound, DbOK
  <2>3. /\ h.rows[owner] = Expired(d.rows[owner])
        /\ \A e \in Event \ {owner} : h.rows[e] = d.rows[e]
    BY <2>1, <2>2
  <2>4. d.rows[owner] \in Admitted
    BY <2>1, AdmittedRow DEF Sound
  <2>5. Ended(d.rows[owner], Expired(d.rows[owner]))
        /\ Expired(d.rows[owner]).status = "expired"
    BY <2>1, <2>4 DEF Ended, Live, Terminal, Expired, Admitted
  <2>6. h.coord = [d.coord EXCEPT !.queuedCount = h.coord.queuedCount]
    BY <2>2 DEF Sound, DbOK, Coordinator
  <2> HIDE DEF h
  <2>7. Wanes(d, h)
    BY <2>1, <2>3, <2>5, <2>6 DEF Wanes, Fades, Same
  <2>8. QED
    BY <2>1, <2>3, <2>7 DEF Keeps, h
<1>3. QED
  BY <1>1, <1>2

\* An undelivered resume's row is dropped: it had ended.
LEMMA ForgetWanes ==
  ASSUME NEW q, Sound(Db)
  PROVE  Wanes(Db, Forget(q)) /\ Keeps(Db, Forget(q))
<1> DEFINE h == Forget(q)
<1>1. h.coord = coord /\ Db.coord = coord /\ Db.rows = rows
  BY ForgetSound DEF Db
<1>2. \A e \in Event : \/ h.rows[e] = rows[e]
                       \/ h.rows[e] = NoRow /\ rows[e].status \in Terminal
  BY DEF Forget, Forgotten, UndeliveredResume, Db
<1>3. coord = [coord EXCEPT !.queuedCount = coord.queuedCount]
  BY DEF Sound, DbOK, Db, Coordinator
<1> HIDE DEF h
<1>4. Wanes(Db, h)
  <2>1. \A e \in Event : Fades(Db.rows[e], h.rows[e])
    BY <1>1, <1>2 DEF Fades, Same
  <2>2. \A e \in Event : h.rows[e].status = "queued" => h.rows[e] = Db.rows[e]
    BY <1>1, <1>2 DEF NoRow
  <2>3. h.coord = [Db.coord EXCEPT !.queuedCount = h.coord.queuedCount]
    BY <1>1, <1>3
  <2>4. QED
    BY <2>1, <2>2, <2>3 DEF Wanes
<1>5. Keeps(Db, h)
  BY <1>1, <1>2 DEF Keeps, Same, Terminal
<1>6. QED
  BY <1>4, <1>5 DEF h

\* The rows of a turn end together.
LEMMA SettleWanes ==
  ASSUME NEW d, Sound(d), NEW outcome \in {"completed", "failed"}
  PROVE  Wanes(d, SettleAppliedEnvelopes(d, outcome))
<1> DEFINE h == SettleAppliedEnvelopes(d, outcome)
<1>1. ASSUME NEW e \in Event
      PROVE  /\ Fades(d.rows[e], h.rows[e])
             /\ h.rows[e].status = "queued" => h.rows[e] = d.rows[e]
  <2>1. CASE d.rows[e].status = "processing"
    <3>1. d.rows[e] \in Admitted
      BY <2>1, AdmittedRow DEF Sound
    <3>2. ASSUME NEW b, h.rows[e] = [d.rows[e] EXCEPT !.status = outcome, !.stoppedByUser = b]
          PROVE  Ended(d.rows[e], h.rows[e]) /\ h.rows[e].status = outcome
      <4> HIDE DEF h
      <4> QED
        BY <2>1, <3>1, <3>2 DEF Ended, Live, Terminal, Admitted
    <3>3. \/ h.rows[e] = d.rows[e]
          \/ \E b : h.rows[e] = [d.rows[e] EXCEPT !.status = outcome, !.stoppedByUser = b]
      BY <3>1 DEF SettleAppliedEnvelopes, Sound, DbOK
    <3> HIDE DEF h
    <3>4. QED
      BY <3>2, <3>3 DEF Fades, Same
  <2>2. CASE d.rows[e].status # "processing"
    <3>1. h.rows[e] = d.rows[e]
      BY <2>2 DEF SettleAppliedEnvelopes, Sound, DbOK
    <3>2. QED
      BY <3>1 DEF Fades, Same
  <2>3. QED
    BY <2>1, <2>2
<1>2. h.coord = d.coord
  BY SettleSound
<1>3. h.coord = [d.coord EXCEPT !.queuedCount = h.coord.queuedCount]
  <2> HIDE DEF h
  <2> QED
    BY <1>2 DEF Sound, DbOK, Coordinator
<1>4. QED
  BY <1>1, <1>3 DEF Wanes


-----------------------------------------------------------------------------
(* Generations and sequences: a row runs in a turn that began, no two rows   *)
(* have one place in the queue.                                            *)

RowsOK(d) ==
  /\ \A e \in Event :
       /\ d.rows[e].generation <= d.coord.ownerGeneration
       /\ d.rows[e].status = "queued" => d.rows[e].generation = 0
       /\ d.rows[e].status = "processing" => d.rows[e].generation # 0
       /\ d.rows[e].status # "none" => d.rows[e].sequence < d.coord.nextSequence
  /\ \A e, f \in Event :
       /\ d.rows[e].status # "none" /\ d.rows[f].status # "none"
       /\ d.rows[e].sequence = d.rows[f].sequence
       => e = f
  /\ HasActiveOwner(d.coord) => d.coord.ownerGeneration # 0

NumberedInv == Inv /\ RowsOK(Db)

LEMMA RowNumbers ==
  ASSUME NEW d, DbOK(d), NEW e \in Event
  PROVE  /\ d.rows[e].sequence \in Nat
         /\ d.rows[e].generation \in Nat
         /\ d.rows[e] \in Row
BY DEF DbOK, Row, Admitted, NoRow

\* Rows that can be told apart by their place in the queue.
Placed(d, A) ==
  \A e, f \in A : d.rows[e].sequence = d.rows[f].sequence => e = f

LEMMA FirstInGroup ==
  ASSUME NEW d, DbOK(d), NEW A \in SUBSET Event, A # {}, Placed(d, A)
  PROVE  Oldest(d, A) \in NextGroup(d, A)
<1> DEFINE first == Oldest(d, A)
<1>1. /\ first \in A
      /\ \A f \in A : d.rows[first].sequence <= d.rows[f].sequence
  BY OldestExists
<1>2. ASSUME NEW f \in UpTo(d, A, first) PROVE f = first
  <2>1. f \in A /\ d.rows[f].sequence <= d.rows[first].sequence
    BY DEF UpTo
  <2>2. d.rows[f].sequence \in Nat /\ d.rows[first].sequence \in Nat
    BY <1>1, <2>1, RowNumbers
  <2>3. d.rows[f].sequence = d.rows[first].sequence
    BY <1>1, <2>1, <2>2
  <2>4. QED
    BY <1>1, <2>1, <2>3 DEF Placed
<1>3. first \in ContiguousModePrefix(d, A, d.rows[first].req.sender)
  BY <1>1, <1>2 DEF ContiguousModePrefix
<1>4. QED
  BY <1>3 DEF NextGroup

\* A prefix holds whatever is older than one of its rows.
LEMMA PrefixClosed ==
  ASSUME NEW d, DbOK(d), NEW A \in SUBSET Event, NEW sender,
         NEW e \in ContiguousModePrefix(d, A, sender), NEW f \in A,
         d.rows[f].sequence <= d.rows[e].sequence
  PROVE  f \in ContiguousModePrefix(d, A, sender)
<1>1. e \in A
  BY DEF ContiguousModePrefix
<1>2. UpTo(d, A, f) \subseteq UpTo(d, A, e)
  <2>1. \A x \in A : d.rows[x].sequence \in Nat
    BY RowNumbers
  <2>2. QED
    BY <1>1, <2>1 DEF UpTo
<1>3. QED
  BY <1>2 DEF ContiguousModePrefix

LEMMA GroupClosed ==
  ASSUME NEW d, DbOK(d), NEW A \in SUBSET Event, NEW e \in NextGroup(d, A),
         NEW f \in A, d.rows[f].sequence < d.rows[e].sequence
  PROVE  f \in NextGroup(d, A)
<1> DEFINE first == Oldest(d, A)
<1>1. /\ first \in A
      /\ \A x \in A : d.rows[first].sequence <= d.rows[x].sequence
      /\ e \in A
  BY OldestExists, GroupInPage
<1>2. d.rows[f].sequence \in Nat /\ d.rows[e].sequence \in Nat
      /\ d.rows[first].sequence \in Nat
  BY <1>1, RowNumbers
<1>3. e # first
  BY <1>1, <1>2
<1>4. NextGroup(d, A) = ContiguousModePrefix(d, A, d.rows[first].req.sender)
  BY <1>3 DEF NextGroup
<1>5. d.rows[f].sequence <= d.rows[e].sequence
  BY <1>2
<1>6. QED
  BY <1>4, <1>5, PrefixClosed

LEMMA SteersClosed ==
  ASSUME NEW d, DbOK(d), NEW textOnly \in BOOLEAN, NEW e \in Steers(d, textOnly),
         NEW f \in QueuedPage(d) \ Due(d, QueuedPage(d)),
         d.rows[f].sequence < d.rows[e].sequence
  PROVE  f \in Steers(d, textOnly)
<1> DEFINE A == QueuedPage(d) \ Due(d, QueuedPage(d))
           owner == d.coord.ownerEventId
           first == Oldest(d, A)
           sender == IF owner \in Event /\ d.rows[owner].status # "none"
                     THEN d.rows[owner].req.sender
                     ELSE d.rows[first].req.sender
           P == ContiguousModePrefix(d, A, sender)
<1>1. A \in SUBSET Event
  BY DEF QueuedPage, Queued
<1>2. Steers(d, textOnly) \in
        {{}, P, {x \in P : \A y \in UpTo(d, P, x) : d.rows[y].req.plain},
         {x \in {} : \A y \in UpTo(d, {}, x) : d.rows[y].req.plain}}
  BY DEF Steers, SteerPrefix
<1>3. e \in P
  BY <1>2
<1>4. e \in A
  BY <1>3 DEF ContiguousModePrefix
<1>5. d.rows[f].sequence \in Nat /\ d.rows[e].sequence \in Nat
  BY <1>1, <1>4, RowNumbers
<1>6. f \in P
  <2>1. d.rows[f].sequence <= d.rows[e].sequence
    BY <1>5
  <2> HIDE DEF A, sender
  <2>2. QED
    BY <1>1, <1>3, <2>1, PrefixClosed DEF A
<1>7. UpTo(d, P, f) \subseteq UpTo(d, P, e)
  <2>1. \A x \in P : d.rows[x].sequence \in Nat
    BY <1>1, RowNumbers DEF ContiguousModePrefix
  <2> HIDE DEF P
  <2>2. QED
    BY <1>5, <2>1 DEF UpTo
<1>8. QED
  <2> HIDE DEF P
  <2> QED
    BY <1>2, <1>6, <1>7

\* Requests one turn may run together.
Alike(q, r) ==
  /\ q.sender = r.sender
  /\ q.mode = r.mode /\ q.mode \in {"collect", "steer"}

\* A row of a prefix has the head's mode and the sender asked for.
LEMMA PrefixAlike ==
  ASSUME NEW d, DbOK(d), NEW A \in SUBSET Event, NEW sender,
         NEW e \in ContiguousModePrefix(d, A, sender)
  PROVE  /\ d.rows[e].req.sender = sender
         /\ d.rows[e].req.mode = d.rows[Oldest(d, A)].req.mode
<1>1. e \in A /\ d.rows[e].sequence \in Nat
  BY RowNumbers DEF ContiguousModePrefix
<1>2. e \in UpTo(d, A, e)
  BY <1>1 DEF UpTo
<1>3. QED
  BY <1>2 DEF ContiguousModePrefix

\* What is promoted together is of one person, and asked for it.
LEMMA GroupAlike ==
  ASSUME NEW d, DbOK(d), NEW A \in SUBSET Event,
         NEW e \in NextGroup(d, A), NEW f \in NextGroup(d, A), e # f
  PROVE  Alike(d.rows[e].req, d.rows[f].req)
<1> DEFINE first == Oldest(d, A)
<1>1. /\ d.rows[first].req.mode \in {"collect", "steer"}
      /\ NextGroup(d, A) = ContiguousModePrefix(d, A, d.rows[first].req.sender)
  BY DEF NextGroup
<1>2. ASSUME NEW x \in NextGroup(d, A)
      PROVE  /\ d.rows[x].req.sender = d.rows[first].req.sender
             /\ d.rows[x].req.mode = d.rows[first].req.mode
  BY <1>1, <1>2, PrefixAlike
<1>3. QED
  BY <1>1, <1>2 DEF Alike

\* What a turn claims is a steer of its owner's sender.
LEMMA SteersAlike ==
  ASSUME NEW d, DbOK(d), NEW textOnly \in BOOLEAN, NEW e \in Steers(d, textOnly)
  PROVE  /\ d.rows[e].req.mode = "steer"
         /\ d.coord.ownerEventId \in Event
            /\ d.rows[d.coord.ownerEventId].status # "none"
            => d.rows[e].req.sender = d.rows[d.coord.ownerEventId].req.sender
<1> DEFINE A == QueuedPage(d) \ Due(d, QueuedPage(d))
           owner == d.coord.ownerEventId
           first == Oldest(d, A)
           sender == IF owner \in Event /\ d.rows[owner].status # "none"
                     THEN d.rows[owner].req.sender
                     ELSE d.rows[first].req.sender
           P == ContiguousModePrefix(d, A, sender)
<1>1. A \in SUBSET Event
  BY DEF QueuedPage, Queued
<1>2. e \in P /\ d.rows[first].req.mode = "steer"
  BY DEF Steers, SteerPrefix
<1>3. d.rows[e].req.sender = sender /\ d.rows[e].req.mode = d.rows[first].req.mode
  <2> HIDE DEF A, sender
  <2> QED
    BY <1>1, <1>2, PrefixAlike
<1>4. QED
  BY <1>2, <1>3

\* Promoted rows process in turn gen of the oldest of them; the rest stay.
Promoted(d, A, gen, h) ==
  LET G == NextGroup(d, A)
  IN  /\ G \subseteq A
      /\ \A e \in Event \ G : h.rows[e] = d.rows[e]
      /\ \A e \in G : /\ h.rows[e].status = "processing"
                      /\ h.rows[e].generation = gen
                      /\ h.rows[e].appliedTo = Oldest(d, A)
                      /\ h.rows[e].req = d.rows[e].req
                      /\ h.rows[e].sequence = d.rows[e].sequence
      /\ h.coord.ownerEventId = Oldest(d, A)
      /\ h.coord.ownerGeneration = gen
      /\ h.coord.nextSequence = d.coord.nextSequence
      /\ HasActiveOwner(h.coord)

LEMMA PromoteMoves ==
  ASSUME NEW d, DbOK(d), NEW A \in SUBSET Event, A # {}, NEW gen \in Nat,
         \A e \in A : d.rows[e].status # "none"
  PROVE  Promoted(d, A, gen, PromoteQueuedGroup(d, A, gen))
<1> DEFINE first == Oldest(d, A)
           G == NextGroup(d, A)
           m == Apply(d, G, first, gen)
           h == PromoteQueuedGroup(d, A, gen)
<1>1. first \in A /\ G \subseteq A
  BY OldestExists, GroupInPage
<1>2. h = [m EXCEPT !.coord = Acquire(@, first, d.rows[first].req.task, gen)]
  BY DEF PromoteQueuedGroup
<1>3. h.rows = m.rows /\ h.coord = Acquire(m.coord, first, d.rows[first].req.task, gen)
  <2>1. m = [coord |-> m.coord, bytes |-> m.bytes, rows |-> m.rows]
    BY DEF Apply, Dequeue
  <2> HIDE DEF m
  <2>2. QED
    BY <1>2, <2>1
<1>4. \A e \in Event \ G : m.rows[e] = d.rows[e]
  BY DEF Apply, Dequeue
<1>5. ASSUME NEW e \in G
      PROVE  /\ m.rows[e].status = "processing"
             /\ m.rows[e].generation = gen
             /\ m.rows[e].appliedTo = first
             /\ m.rows[e].req = d.rows[e].req
             /\ m.rows[e].sequence = d.rows[e].sequence
  <2>1. e \in Event /\ d.rows[e] \in Admitted
    BY <1>1, AdmittedRow
  <2>2. m.rows[e] = [d.rows[e] EXCEPT !.status = "processing", !.appliedTo = first,
                                      !.generation = gen]
    BY <2>1 DEF Apply, Dequeue
  <2> HIDE DEF m
  <2>3. QED
    BY <2>1, <2>2 DEF Admitted
<1>6. m.coord \in Coordinator /\ m.coord.nextSequence = d.coord.nextSequence
  <2>1. m.coord = [d.coord EXCEPT !.queuedCount =
                     Floor(d.coord.queuedCount - Cardinality(G))]
    BY DEF Apply, Dequeue
  <2>2. Cardinality(G) \in Nat
    BY <1>1, QueuedFinite
  <2>3. d.coord \in Coordinator /\ d.coord.queuedCount \in Nat
    BY DEF DbOK, Coordinator
  <2>4. Floor(d.coord.queuedCount - Cardinality(G)) \in Nat
    BY <2>2, <2>3 DEF Floor
  <2> HIDE DEF m
  <2>5. QED
    BY <2>1, <2>3, <2>4 DEF Coordinator
<1>7. /\ h.coord.ownerEventId = first
      /\ h.coord.ownerGeneration = gen
      /\ h.coord.nextSequence = m.coord.nextSequence
      /\ h.coord.lease = LeaseTtl
  <2> HIDE DEF m, first
  <2> QED
    BY <1>3, <1>6 DEF Acquire, Coordinator
<1>8. HasActiveOwner(h.coord)
  BY <1>1, <1>7, NamesAssumption, BoundsAssumption DEF HasActiveOwner
<1> HIDE DEF m, h
<1>9. Promoted(d, A, gen, h)
  BY <1>1, <1>3, <1>4, <1>5, <1>6, <1>7, <1>8 DEF Promoted
<1>10. QED
  BY <1>9 DEF h

\* What wanes keeps its numbers.
LEMMA WanesRows ==
  ASSUME NEW d, NEW h, DbOK(d), DbOK(h), RowsOK(d), Wanes(d, h)
  PROVE  RowsOK(h)
<1>1. /\ h.coord.ownerGeneration = d.coord.ownerGeneration
      /\ h.coord.nextSequence = d.coord.nextSequence
      /\ HasActiveOwner(h.coord) = HasActiveOwner(d.coord)
  BY WanesOwner
<1>2. d.coord.ownerGeneration \in Nat
  BY DEF DbOK, Coordinator
<1>3. ASSUME NEW e \in Event
      PROVE  /\ h.rows[e].generation <= d.coord.ownerGeneration
             /\ h.rows[e].status = "queued" => h.rows[e].generation = 0
             /\ h.rows[e].status = "processing" => h.rows[e].generation # 0
             /\ h.rows[e].status # "none" =>
                  /\ d.rows[e].status # "none"
                  /\ h.rows[e].sequence = d.rows[e].sequence
  <2>1. Fades(d.rows[e], h.rows[e])
    BY DEF Wanes
  <2>2. CASE Same(d.rows[e], h.rows[e])
    BY <2>2 DEF Same, RowsOK
  <2>3. CASE Ended(d.rows[e], h.rows[e])
    BY <2>3 DEF Ended, RowsOK, Terminal, Live
  <2>4. CASE h.rows[e] = NoRow
    BY <1>2, <2>4 DEF NoRow
  <2>5. QED
    BY <2>1, <2>2, <2>3, <2>4 DEF Fades
<1>4. ASSUME NEW e \in Event, h.rows[e].status # "none"
      PROVE  h.rows[e].sequence < d.coord.nextSequence
  BY <1>3, <1>4 DEF RowsOK
<1>5. \A e, f \in Event :
        /\ h.rows[e].status # "none" /\ h.rows[f].status # "none"
        /\ h.rows[e].sequence = h.rows[f].sequence
        => e = f
  BY <1>3 DEF RowsOK
<1>6. QED
  BY <1>1, <1>3, <1>4, <1>5 DEF RowsOK


-----------------------------------------------------------------------------
(* One shape for every step.  A transaction takes the database to h; it      *)
(* starts the rows of S in the turn h names, admits the row n if n is an     *)
(* event, and tells the results `told`.                                     *)

Started(e, h) ==
  /\ rows[e].status = "queued"
  /\ h.rows[e].status = "processing"
  /\ h.rows[e].generation = h.coord.ownerGeneration
  /\ h.rows[e].appliedTo = h.coord.ownerEventId
  /\ h.rows[e].req = rows[e].req
  /\ h.rows[e].sequence = rows[e].sequence

\* The admitted row answers a request that was no duplicate and not too late.
Arrived(n, h) ==
  LET q == h.rows[n].req
  IN  /\ q \in Requests
      /\ ~Live(rows[n])
      /\ q.result # NoResult => storedBy[q.result] = 0 /\ ~LiveResumeOf(Db, q.result)
      /\ q.activeOwnerOnly => /\ HasActiveOwner(coord)
                              /\ h.coord.ownerGeneration = coord.ownerGeneration
                              /\ q.expectedTask \in {NoTask, coord.ownerTaskId}
      /\ h.rows[n].sequence = coord.nextSequence
      /\ \/ h.rows[n].status = "queued" /\ h.rows[n].generation = 0
         \/ /\ h.rows[n].status = "processing"
            /\ h.rows[n].generation = h.coord.ownerGeneration
            /\ h.rows[n].appliedTo = h.coord.ownerEventId
            /\ h.coord.ownerGeneration = coord.ownerGeneration + 1

\* The next turn begins, or the last one keeps or loses the conversation.
TurnMoves(k) ==
  \/ k.ownerGeneration = coord.ownerGeneration + 1 /\ HasActiveOwner(k)
  \/ /\ k.ownerGeneration = coord.ownerGeneration
     /\ HasActiveOwner(k) =>
          /\ HasActiveOwner(coord)
          /\ k.ownerEventId = coord.ownerEventId
          /\ coord.stopRequestedGeneration = coord.ownerGeneration
             => k.stopRequestedGeneration = coord.ownerGeneration

RowsMove(h, S, n) ==
  /\ S \in SUBSET Event
  /\ n \in (Event \cup {NoEvent}) \ S
  /\ \A e \in Event \ (S \cup {n}) : Fades(rows[e], h.rows[e])
  /\ \A e \in S : Started(e, h)
  /\ n \in Event => Arrived(n, h)
  /\ h.coord.nextSequence
       = IF n \in Event THEN coord.nextSequence + 1 ELSE coord.nextSequence

\* What starts together asked for it; what joins a turn steers its owner's.
StartsAlike(h, S, n) ==
  /\ h.coord.ownerGeneration # coord.ownerGeneration
     => \A e, f \in S \cup {n} :
          /\ e \in Event /\ h.rows[e].status = "processing"
          /\ f \in Event /\ h.rows[f].status = "processing"
          => e = f \/ Alike(h.rows[e].req, h.rows[f].req)
  /\ h.coord.ownerGeneration = coord.ownerGeneration
     => \A e \in S :
          /\ phase # "settled" /\ coord.ownerEventId \in Event
          /\ h.rows[e].req.mode = "steer"
          /\ rows[coord.ownerEventId].status # "none"
             => h.rows[e].req.sender = rows[coord.ownerEventId].req.sender

\* What starts is owned, not stopped, and leaves nothing older in the queue.
StartsRight(h, S, n) ==
  /\ S # {} => /\ HasActiveOwner(h.coord)
               /\ h.coord.ownerGeneration = coord.ownerGeneration
                  => ~Stopped(Db, coord.ownerGeneration)
  /\ h.coord.ownerGeneration # coord.ownerGeneration /\ h.coord.ownerEventId \in Event
     => /\ h.coord.ownerEventId \in S \cup {n}
        /\ h.rows[h.coord.ownerEventId].status = "processing"
  /\ \A e \in S \cup {n}, f \in Event :
       /\ e \in Event /\ h.rows[e].status = "processing"
       /\ rows[f].status = "queued" /\ h.rows[f].status = "queued"
       => ~(rows[f].sequence < h.rows[e].sequence)

\* No row that waits or starts resumes a result this step tells.
TellsRight(h, n, told) ==
  /\ \A e \in Event \ {n} : rows[e].status = "queued" /\ Live(h.rows[e])
                            => rows[e].req.result \notin told
  /\ n \in Event => told = {}

Step(h, S, n, told) ==
  /\ RowsMove(h, S, n)
  /\ TurnMoves(h.coord)
  /\ StartsRight(h, S, n)
  /\ StartsAlike(h, S, n)
  /\ TellsRight(h, n, told)

\* A step that starts and admits nothing.
LEMMA QuietStep ==
  ASSUME NEW h, \A e \in Event : Fades(rows[e], h.rows[e]),
         TurnMoves(h.coord), h.coord.nextSequence = coord.nextSequence,
         h.coord.ownerGeneration # coord.ownerGeneration
           => h.coord.ownerEventId \notin Event,
         NEW told,
         \A e \in Event : rows[e].status = "queued" /\ Live(h.rows[e])
                          => rows[e].req.result \notin told
  PROVE  Step(h, {}, NoEvent, told)
<1>1. NoEvent \notin Event
  BY NamesAssumption
<1>2. RowsMove(h, {}, NoEvent)
  BY <1>1 DEF RowsMove
<1>3. StartsRight(h, {}, NoEvent)
  BY <1>1 DEF StartsRight
<1>4. TellsRight(h, NoEvent, told)
  BY <1>1 DEF TellsRight
<1>5. StartsAlike(h, {}, NoEvent)
  BY <1>1 DEF StartsAlike
<1>6. QED
  BY <1>2, <1>3, <1>4, <1>5 DEF Step

LEMMA OwnerStays ==
  ASSUME NEW k,
         k.ownerEventId = coord.ownerEventId,
         k.ownerGeneration = coord.ownerGeneration,
         HasActiveOwner(k) => HasActiveOwner(coord),
         k.stopRequestedGeneration = coord.stopRequestedGeneration
  PROVE  TurnMoves(k)
BY DEF TurnMoves

LEMMA WanesStep ==
  ASSUME Sound(Db), NEW h, Wanes(Db, h), NEW told,
         \A e \in Event : rows[e].status = "queued" /\ Live(h.rows[e])
                          => rows[e].req.result \notin told
  PROVE  Step(h, {}, NoEvent, told)
<1>1. DbOK(Db) /\ Db.rows = rows /\ Db.coord = coord
  BY DEF Sound, Db
<1>2. /\ h.coord.ownerEventId = coord.ownerEventId
      /\ h.coord.ownerGeneration = coord.ownerGeneration
      /\ h.coord.stopRequestedGeneration = coord.stopRequestedGeneration
      /\ h.coord.nextSequence = coord.nextSequence
      /\ HasActiveOwner(h.coord) = HasActiveOwner(coord)
  <2>1. /\ h.coord.ownerEventId = Db.coord.ownerEventId
        /\ h.coord.ownerGeneration = Db.coord.ownerGeneration
        /\ h.coord.stopRequestedGeneration = Db.coord.stopRequestedGeneration
        /\ h.coord.nextSequence = Db.coord.nextSequence
        /\ HasActiveOwner(h.coord) = HasActiveOwner(Db.coord)
    BY <1>1, WanesOwner
  <2>2. QED
    BY <1>1, <2>1
<1>3. TurnMoves(h.coord)
  BY <1>2, OwnerStays
<1>4. \A e \in Event : Fades(rows[e], h.rows[e])
  BY <1>1 DEF Wanes
<1>5. QED
  BY <1>2, <1>3, <1>4, QuietStep

\* The rows queued in x run next, from a state p where the lapsed owner's row
\* may have ended.
LEMMA PromoteStep ==
  ASSUME NumberedInv, NEW x, DbOK(x), Wanes(Db, x), NEW p, DbOK(p),
         \A e \in Event : p.rows[e] = x.rows[e] \/ p.rows[e] = Expired(x.rows[e]),
         \A e \in Event : Fades(rows[e], p.rows[e]),
         p.coord.nextSequence = coord.nextSequence,
         NEW A, A = Queued(x), A # {},
         NEW told, \A e \in A : rows[e].req.result \notin told,
         NEW h, h = PromoteQueuedGroup(p, A, coord.ownerGeneration + 1)
  PROVE  Step(h, NextGroup(p, A), NoEvent, told)
<1> DEFINE G == NextGroup(p, A)
           gen == coord.ownerGeneration + 1
<1>1. DbOK(Db) /\ Db.rows = rows /\ Db.coord = coord /\ RowsOK(Db)
  BY InvSound DEF NumberedInv, Sound, Db
<1>2. gen \in Nat /\ gen # coord.ownerGeneration
  BY <1>1 DEF DbOK, Coordinator
<1>3. A \in SUBSET Event
  BY DEF Queued
<1>4. ASSUME NEW e \in A
      PROVE  /\ rows[e].status = "queued"
             /\ p.rows[e].status # "none"
             /\ p.rows[e].req = rows[e].req
             /\ p.rows[e].sequence = rows[e].sequence
  <2>1. x.rows[e] = rows[e] /\ rows[e].status = "queued"
    BY <1>1 DEF Wanes, Queued
  <2>2. rows[e] \in Admitted
    BY <1>1, <1>3, <2>1, AdmittedRow
  <2>3. p.rows[e] = rows[e] \/ p.rows[e] = Expired(rows[e])
    BY <1>3, <2>1
  <2>4. QED
    BY <2>1, <2>2, <2>3 DEF Expired, Admitted
<1>5. Placed(p, A)
  BY <1>1, <1>3, <1>4 DEF Placed, RowsOK
<1>6. Oldest(p, A) \in G
  <2> HIDE DEF G
  <2> QED
    BY <1>3, <1>5, FirstInGroup DEF G
<1>7. /\ G \subseteq A
      /\ \A e \in Event \ G : h.rows[e] = p.rows[e]
      /\ \A e \in G : /\ h.rows[e].status = "processing"
                      /\ h.rows[e].generation = gen
                      /\ h.rows[e].appliedTo = h.coord.ownerEventId
                      /\ h.rows[e].req = p.rows[e].req
                      /\ h.rows[e].sequence = p.rows[e].sequence
      /\ h.coord.ownerEventId = Oldest(p, A)
      /\ h.coord.ownerGeneration = gen
      /\ h.coord.nextSequence = p.coord.nextSequence
      /\ HasActiveOwner(h.coord)
  <2>1. \A e \in A : p.rows[e].status # "none"
    BY <1>4
  <2>2. Promoted(p, A, gen, PromoteQueuedGroup(p, A, gen))
    <3> HIDE DEF gen
    <3> QED
      BY <1>2, <1>3, <2>1, PromoteMoves
  <2>3. Promoted(p, A, gen, h)
    BY <2>2
  <2> HIDE DEF gen
  <2>4. QED
    BY <2>3 DEF Promoted
<1>8. ASSUME NEW e \in G, NEW f \in A, rows[f].sequence < rows[e].sequence
      PROVE  f \in G
  <2>1. p.rows[f].sequence < p.rows[e].sequence
    BY <1>4, <1>7, <1>8
  <2> HIDE DEF G
  <2>2. QED
    BY <1>3, <2>1, GroupClosed DEF G
<1>9. NoEvent \notin Event
  BY NamesAssumption
<1>10. ASSUME NEW e \in G, NEW f \in G, e # f
       PROVE  Alike(h.rows[e].req, h.rows[f].req)
  <2>1. Alike(p.rows[e].req, p.rows[f].req)
    BY <1>3, <1>10, GroupAlike
  <2> HIDE DEF G
  <2>2. QED
    BY <1>7, <2>1
<1> HIDE DEF G, gen
<1>11. StartsAlike(h, G, NoEvent)
  BY <1>2, <1>7, <1>9, <1>10 DEF StartsAlike
<1>12. RowsMove(h, G, NoEvent)
  <2>1. \A e \in G : Started(e, h)
    BY <1>4, <1>7 DEF Started
  <2>2. \A e \in Event \ (G \cup {NoEvent}) : Fades(rows[e], h.rows[e])
    BY <1>7
  <2>3. QED
    BY <1>3, <1>7, <1>9, <2>1, <2>2 DEF RowsMove
<1>13. TurnMoves(h.coord)
  BY <1>7 DEF TurnMoves, gen
<1>14. StartsRight(h, G, NoEvent)
  <2>1. ASSUME NEW e \in G, NEW f \in Event, rows[f].status = "queued",
               h.rows[f].status = "queued"
        PROVE  ~(rows[f].sequence < h.rows[e].sequence)
    <3>1. f \notin G
      BY <1>7, <2>1
    <3>2. p.rows[f].status = "queued"
      BY <1>7, <2>1, <3>1
    <3>3. x.rows[f].status = "queued"
      <4>1. x.rows[f] \in Row
        BY <2>1 DEF DbOK
      <4>2. Expired(x.rows[f]).status # "queued"
        BY <4>1 DEF Expired, Row, Admitted, NoRow
      <4>3. QED
        BY <2>1, <3>2, <4>2
    <3>4. f \in A
      BY <3>3 DEF Queued
    <3>5. h.rows[e].sequence = rows[e].sequence
      BY <1>4, <1>7
    <3>6. QED
      BY <1>8, <3>1, <3>4, <3>5
  <2>2. QED
    BY <1>2, <1>6, <1>7, <1>9, <2>1 DEF StartsRight
<1>15. TellsRight(h, NoEvent, told)
  <2>1. ASSUME NEW e \in Event, rows[e].status = "queued", Live(h.rows[e])
        PROVE  e \in A
    <3>1. CASE e \in G
      BY <1>7, <3>1
    <3>2. CASE e \notin G
      <4>1. Live(p.rows[e]) /\ Fades(rows[e], p.rows[e])
        BY <1>7, <2>1, <3>2
      <4>2. p.rows[e].status = "queued"
        BY <2>1, <4>1 DEF Fades, Same, Ended, Live, Terminal, NoRow
      <4>3. x.rows[e] \in Row
        BY <2>1 DEF DbOK
      <4>4. Expired(x.rows[e]).status # "queued"
        BY <4>3 DEF Expired, Row, Admitted, NoRow
      <4>5. x.rows[e].status = "queued"
        BY <2>1, <4>2, <4>4
      <4>6. QED
        BY <4>5 DEF Queued
    <3>3. QED
      BY <3>1, <3>2
  <2>2. QED
    BY <1>9, <2>1 DEF TellsRight
<1>16. QED
  BY <1>12, <1>13, <1>14, <1>15, <1>11 DEF Step, G


\* Like Wanes, where the lease may be renewed.
Carries(d, h) ==
  /\ \A e \in Event : Fades(d.rows[e], h.rows[e])
  /\ \A e \in Event : h.rows[e].status = "queued" => h.rows[e] = d.rows[e]
  /\ h.coord.ownerEventId = d.coord.ownerEventId
  /\ h.coord.ownerGeneration = d.coord.ownerGeneration
  /\ h.coord.stopRequestedGeneration = d.coord.stopRequestedGeneration
  /\ h.coord.nextSequence = d.coord.nextSequence

LEMMA WanesCarries ==
  ASSUME NEW d, DbOK(d), NEW h, Wanes(d, h)
  PROVE  Carries(d, h)
BY WanesOwner DEF Wanes, Carries

LEMMA LeaseFields ==
  ASSUME NEW d, DbOK(d), NEW h, h = [d EXCEPT !.coord.lease = LeaseTtl]
  PROVE  /\ h.rows = d.rows
         /\ h.coord.ownerEventId = d.coord.ownerEventId
         /\ h.coord.ownerGeneration = d.coord.ownerGeneration
         /\ h.coord.stopRequestedGeneration = d.coord.stopRequestedGeneration
         /\ h.coord.nextSequence = d.coord.nextSequence
         /\ h.coord.lease = LeaseTtl
<1>1. h.rows = d.rows /\ h.coord = [d.coord EXCEPT !.lease = LeaseTtl]
  BY DEF DbOK
<1>2. d.coord \in Coordinator
  BY DEF DbOK
<1>3. QED
  BY <1>1, <1>2 DEF Coordinator

LEMMA LeaseCarries ==
  ASSUME NEW a, NEW d, DbOK(d), Carries(a, d), Keeps(a, d)
  PROVE  /\ Carries(a, [d EXCEPT !.coord.lease = LeaseTtl])
         /\ Keeps(a, [d EXCEPT !.coord.lease = LeaseTtl])
<1> DEFINE h == [d EXCEPT !.coord.lease = LeaseTtl]
<1>1. /\ h.rows = d.rows
      /\ h.coord.ownerEventId = d.coord.ownerEventId
      /\ h.coord.ownerGeneration = d.coord.ownerGeneration
      /\ h.coord.stopRequestedGeneration = d.coord.stopRequestedGeneration
      /\ h.coord.nextSequence = d.coord.nextSequence
  BY LeaseFields
<1> HIDE DEF h
<1>2. Carries(a, h) /\ Keeps(a, h)
  BY <1>1 DEF Carries, Keeps
<1>3. QED
  BY <1>2 DEF h

LEMMA RenewCarries ==
  ASSUME NEW a, NEW d, DbOK(d), Carries(a, d), Keeps(a, d)
  PROVE  Carries(a, RenewHeldLease(d)) /\ Keeps(a, RenewHeldLease(d))
BY LeaseCarries DEF RenewHeldLease

LEMMA SweptWanes ==
  ASSUME NEW d, Sound(d)
  PROVE  Wanes(d, Swept(d)) /\ Keeps(d, Swept(d))
<1>1. QueuedPage(d) \in SUBSET Queued(d) /\ DbOK(d)
  BY PageIsQueue DEF Sound
<1>2. QED
  BY <1>1, ExpireWanes DEF Swept

LEMMA UnclaimedCarries ==
  ASSUME NEW a, DbOK(a), NEW d, Sound(d), Wanes(a, d), Keeps(a, d)
  PROVE  Carries(a, Unclaimed(d)) /\ Keeps(a, Unclaimed(d))
<1> DEFINE w == Swept(d)
<1>1. Carries(a, d)
  BY WanesCarries
<1>2. DbOK(w) /\ Wanes(a, w) /\ Keeps(a, w)
  <2>1. Sound(w) /\ Wanes(d, w) /\ Keeps(d, w)
    BY SweptSound, SweptWanes
  <2> HIDE DEF w
  <2>2. QED
    BY <2>1, WanesOn, KeepsOn DEF Sound
<1>3. Carries(a, w)
  <2> HIDE DEF w
  <2> QED
    BY <1>2, WanesCarries
<1>4. /\ Carries(a, [w EXCEPT !.coord.lease = LeaseTtl])
      /\ Keeps(a, [w EXCEPT !.coord.lease = LeaseTtl])
  <2> HIDE DEF w
  <2> QED
    BY <1>2, <1>3, LeaseCarries
<1>5. Unclaimed(d) \in {d, [w EXCEPT !.coord.lease = LeaseTtl]}
  BY DEF Unclaimed
<1> HIDE DEF w
<1>6. QED
  BY <1>1, <1>4, <1>5

LEMMA CarriesStep ==
  ASSUME NEW h, Carries(Db, h), HasActiveOwner(coord), NEW told,
         \A e \in Event : rows[e].status = "queued" /\ Live(h.rows[e])
                          => rows[e].req.result \notin told
  PROVE  Step(h, {}, NoEvent, told)
<1>1. Db.rows = rows /\ Db.coord = coord
  BY DEF Db
<1>2. \A e \in Event : Fades(rows[e], h.rows[e])
  BY <1>1 DEF Carries
<1>3. /\ h.coord.ownerEventId = coord.ownerEventId
      /\ h.coord.ownerGeneration = coord.ownerGeneration
      /\ h.coord.stopRequestedGeneration = coord.stopRequestedGeneration
      /\ h.coord.nextSequence = coord.nextSequence
  BY <1>1 DEF Carries
<1>4. TurnMoves(h.coord)
  BY <1>3, OwnerStays
<1>5. QED
  BY <1>2, <1>3, <1>4, QuietStep

\* Steers S join the turn that holds the conversation.
Joined(d, S, h) ==
  /\ \A e \in Event \ S : h.rows[e] = Swept(d).rows[e]
  /\ \A e \in S : /\ h.rows[e].status = "processing"
                  /\ h.rows[e].generation = d.coord.ownerGeneration
                  /\ h.rows[e].appliedTo = d.coord.ownerEventId
                  /\ h.rows[e].req = Swept(d).rows[e].req
                  /\ h.rows[e].sequence = Swept(d).rows[e].sequence
  /\ h.coord.ownerEventId = d.coord.ownerEventId
  /\ h.coord.ownerGeneration = d.coord.ownerGeneration
  /\ h.coord.stopRequestedGeneration = d.coord.stopRequestedGeneration
  /\ h.coord.nextSequence = d.coord.nextSequence
  /\ h.coord.lease = LeaseTtl

LEMMA ClaimedMoves ==
  ASSUME NEW d, Sound(d), NEW S \in SUBSET Queued(Swept(d))
  PROVE  Joined(d, S, Claimed(d, S))
<1> DEFINE w == Swept(d)
           owner == d.coord.ownerEventId
           gen == d.coord.ownerGeneration
           m == Apply(w, S, owner, gen)
           h == Claimed(d, S)
<1>1. Sound(w) /\ Wanes(d, w) /\ DbOK(d) /\ DbOK(w)
  BY SweptSound, SweptWanes DEF Sound
<1>2. /\ w.coord.ownerEventId = owner
      /\ w.coord.ownerGeneration = gen
      /\ w.coord.stopRequestedGeneration = d.coord.stopRequestedGeneration
      /\ w.coord.nextSequence = d.coord.nextSequence
  <2> HIDE DEF w
  <2> QED
    BY <1>1, WanesOwner
<1>3. h = [m EXCEPT !.coord.lease = LeaseTtl]
  BY DEF Claimed
<1>4. S \subseteq Event /\ \A e \in S : w.rows[e].status = "queued"
  BY DEF Queued
<1>5. \A e \in Event \ S : m.rows[e] = w.rows[e]
  <2> HIDE DEF w
  <2> QED
    BY DEF Apply, Dequeue
<1>6. ASSUME NEW e \in S
      PROVE  /\ m.rows[e].status = "processing"
             /\ m.rows[e].generation = gen
             /\ m.rows[e].appliedTo = owner
             /\ m.rows[e].req = w.rows[e].req
             /\ m.rows[e].sequence = w.rows[e].sequence
  <2>1. w.rows[e] \in Admitted /\ e \in Event
    BY <1>1, <1>4, AdmittedRow
  <2> HIDE DEF w
  <2>2. m.rows[e] = [w.rows[e] EXCEPT !.status = "processing",
                       !.appliedTo = owner, !.generation = gen]
    BY <2>1 DEF Apply, Dequeue
  <2> HIDE DEF m
  <2>3. QED
    BY <2>1, <2>2 DEF Admitted
<1>7. /\ m = [coord |-> m.coord, bytes |-> m.bytes, rows |-> m.rows]
      /\ m.coord = [w.coord EXCEPT !.queuedCount =
                      Floor(w.coord.queuedCount - Cardinality(S))]
  BY DEF Apply, Dequeue
<1>8. /\ h.rows = m.rows
      /\ h.coord = [m.coord EXCEPT !.lease = LeaseTtl]
  <2> HIDE DEF m
  <2> QED
    BY <1>3, <1>7
<1>9. /\ h.coord.ownerEventId = owner
      /\ h.coord.ownerGeneration = gen
      /\ h.coord.stopRequestedGeneration = d.coord.stopRequestedGeneration
      /\ h.coord.nextSequence = d.coord.nextSequence
      /\ h.coord.lease = LeaseTtl
  <2>1. w.coord \in Coordinator
    BY <1>1 DEF DbOK
  <2> HIDE DEF m, w, h
  <2>2. QED
    BY <1>2, <1>7, <1>8, <2>1 DEF Coordinator
<1> HIDE DEF m, h, w
<1>10. Joined(d, S, h)
  BY <1>4, <1>5, <1>6, <1>8, <1>9 DEF Joined, w
<1>11. QED
  BY <1>10 DEF h

LEMMA ClaimStep ==
  ASSUME NumberedInv, HasActiveOwner(coord), ~Stopped(Db, coord.ownerGeneration),
         coord.ownerEventId \in Event, phase # "settled",
         NEW d, Sound(d), Wanes(Db, d), Keeps(Db, d),
         d.rows[coord.ownerEventId].status = "none"
           => rows[coord.ownerEventId].status = "none",
         NEW told, \A e \in Queued(d) : rows[e].req.result \notin told,
         NEW textOnly \in BOOLEAN
  PROVE  /\ Step(Claimed(d, Steers(d, textOnly)), Steers(d, textOnly), NoEvent, told)
         /\ Keeps(Db, Claimed(d, Steers(d, textOnly)))
<1> DEFINE w == Swept(d)
           S == Steers(d, textOnly)
           h == Claimed(d, S)
<1>1. DbOK(Db) /\ Db.rows = rows /\ Db.coord = coord /\ RowsOK(Db)
  BY InvSound DEF NumberedInv, Sound, Db
<1>2. /\ Sound(w) /\ DbOK(w) /\ DbOK(d) /\ Wanes(d, w) /\ Keeps(d, w)
      /\ Queued(w) = QueuedPage(d) \ Due(d, QueuedPage(d))
  BY SweptSound, SweptWanes DEF Sound
<1>3. S \subseteq Queued(w) /\ S \subseteq Event
  BY <1>2, SteersInPage DEF Queued
<1>4. Wanes(Db, w) /\ Keeps(Db, w)
  <2> HIDE DEF w
  <2> QED
    BY <1>1, <1>2, WanesOn, KeepsOn
<1>5. ASSUME NEW e \in Queued(w)
      PROVE  /\ e \in Event /\ e \in Queued(d)
             /\ rows[e].status = "queued" /\ w.rows[e] = rows[e] /\ d.rows[e] = rows[e]
  <2>1. e \in Event /\ w.rows[e].status = "queued"
    BY DEF Queued
  <2>2. w.rows[e] = rows[e] /\ w.rows[e] = d.rows[e]
    BY <1>1, <1>2, <1>4, <2>1 DEF Wanes
  <2>3. QED
    BY <2>1, <2>2 DEF Queued
<1>6. /\ d.coord.ownerEventId = coord.ownerEventId
      /\ d.coord.ownerGeneration = coord.ownerGeneration
      /\ d.coord.stopRequestedGeneration = coord.stopRequestedGeneration
      /\ d.coord.nextSequence = coord.nextSequence
  <2>1. /\ d.coord.ownerEventId = Db.coord.ownerEventId
        /\ d.coord.ownerGeneration = Db.coord.ownerGeneration
        /\ d.coord.stopRequestedGeneration = Db.coord.stopRequestedGeneration
        /\ d.coord.nextSequence = Db.coord.nextSequence
    BY <1>1, WanesOwner
  <2>2. QED
    BY <1>1, <2>1
<1>7. Joined(d, S, h)
  <2>1. S \in SUBSET Queued(Swept(d))
    BY <1>3
  <2> HIDE DEF S
  <2>2. QED
    BY <2>1, ClaimedMoves
<1>8. ASSUME NEW e \in S, NEW f \in Queued(w), rows[f].sequence < rows[e].sequence
      PROVE  f \in S
  <2>1. d.rows[f].sequence < d.rows[e].sequence
    BY <1>3, <1>5, <1>8
  <2>2. f \in QueuedPage(d) \ Due(d, QueuedPage(d))
    BY <1>2
  <2>3. QED
    BY <1>2, <2>1, <2>2, SteersClosed
<1>9. NoEvent \notin Event
  BY NamesAssumption
<1>10. ASSUME NEW e \in S
       PROVE  /\ rows[e].req.mode = "steer"
              /\ rows[coord.ownerEventId].status # "none"
                 => rows[e].req.sender = rows[coord.ownerEventId].req.sender
  <2>1. d.rows[e] = rows[e]
    BY <1>3, <1>5
  <2>2. /\ rows[e].req.mode = "steer"
        /\ d.rows[coord.ownerEventId].status # "none"
           => rows[e].req.sender = d.rows[coord.ownerEventId].req.sender
    BY <1>2, <1>6, <2>1, SteersAlike
  <2>3. d.rows[coord.ownerEventId].status # "none"
        => d.rows[coord.ownerEventId].req = rows[coord.ownerEventId].req
    BY <1>1 DEF Wanes, Fades, Same, Ended, NoRow
  <2>4. QED
    BY <2>2, <2>3
<1> HIDE DEF w, S, h
<1>11. /\ \A e \in Event \ S : h.rows[e] = w.rows[e]
       /\ \A e \in S : Started(e, h) /\ h.rows[e].status = "processing"
                       /\ h.rows[e].sequence = rows[e].sequence
       /\ h.coord.ownerEventId = coord.ownerEventId
       /\ h.coord.ownerGeneration = coord.ownerGeneration
       /\ h.coord.stopRequestedGeneration = coord.stopRequestedGeneration
       /\ h.coord.nextSequence = coord.nextSequence
       /\ h.coord.lease = LeaseTtl
  <2>1. \A e \in Event \ S : h.rows[e] = w.rows[e]
    BY <1>7 DEF Joined, w
  <2>2. ASSUME NEW e \in S
        PROVE  Started(e, h) /\ h.rows[e].status = "processing"
               /\ h.rows[e].sequence = rows[e].sequence
    <3>1. w.rows[e] = rows[e] /\ rows[e].status = "queued"
      BY <1>3, <1>5
    <3>2. /\ h.rows[e].status = "processing"
          /\ h.rows[e].generation = d.coord.ownerGeneration
          /\ h.rows[e].appliedTo = d.coord.ownerEventId
          /\ h.rows[e].req = w.rows[e].req
          /\ h.rows[e].sequence = w.rows[e].sequence
          /\ h.coord.ownerGeneration = d.coord.ownerGeneration
          /\ h.coord.ownerEventId = d.coord.ownerEventId
      BY <1>7 DEF Joined, w
    <3>3. QED
      BY <3>1, <3>2 DEF Started
  <2>3. QED
    BY <1>6, <1>7, <2>1, <2>2 DEF Joined
<1>12. HasActiveOwner(h.coord)
  BY <1>11, BoundsAssumption DEF HasActiveOwner
<1>13. RowsMove(h, S, NoEvent)
  <2>1. \A e \in Event \ (S \cup {NoEvent}) : Fades(rows[e], h.rows[e])
    BY <1>1, <1>4, <1>11 DEF Wanes
  <2>2. QED
    BY <1>3, <1>9, <1>11, <2>1 DEF RowsMove
<1>14. TurnMoves(h.coord)
  BY <1>11, OwnerStays
<1>15. StartsRight(h, S, NoEvent)
  <2>1. ASSUME NEW e \in S, NEW f \in Event, h.rows[f].status = "queued"
        PROVE  ~(rows[f].sequence < h.rows[e].sequence)
    <3>1. f \notin S
      BY <1>11, <2>1
    <3>2. f \in Queued(w)
      BY <1>11, <2>1, <3>1 DEF Queued
    <3>3. QED
      BY <1>8, <1>11, <3>1, <3>2
  <2>2. QED
    BY <1>9, <1>11, <1>12, <2>1 DEF StartsRight
<1>16. TellsRight(h, NoEvent, told)
  <2>1. ASSUME NEW e \in Event, rows[e].status = "queued", Live(h.rows[e])
        PROVE  e \in Queued(d)
    <3>1. CASE e \in S
      BY <1>3, <1>5, <3>1
    <3>2. CASE e \notin S
      <4>1. Live(w.rows[e]) /\ Fades(rows[e], w.rows[e])
        BY <1>1, <1>4, <1>11, <2>1, <3>2 DEF Wanes
      <4>2. w.rows[e].status = "queued"
        BY <2>1, <4>1 DEF Fades, Same, Ended, Live, Terminal, NoRow
      <4>3. QED
        BY <1>5, <2>1, <4>2 DEF Queued
    <3>3. QED
      BY <3>1, <3>2
  <2>2. QED
    BY <1>9, <2>1 DEF TellsRight
<1>17. Keeps(Db, h)
  <2> SUFFICES ASSUME HasActiveOwner(Db.coord), NEW e \in Event,
                      Db.rows[e].status = "processing",
                      Db.rows[e].generation = Db.coord.ownerGeneration
               PROVE  Same(Db.rows[e], h.rows[e])
    BY DEF Keeps
  <2>1. e \notin S
    BY <1>1, <1>3, <1>5
  <2>2. QED
    BY <1>4, <1>11, <2>1 DEF Keeps
<1>18. StartsAlike(h, S, NoEvent)
  <2>1. \A e \in S : h.rows[e].req = rows[e].req
    BY <1>11 DEF Started
  <2>2. QED
    BY <1>11, <1>10, <2>1 DEF StartsAlike
<1>19. QED
  BY <1>13, <1>14, <1>15, <1>16, <1>17, <1>18 DEF Step, h, S


-----------------------------------------------------------------------------
(* Admission moves rows.                                                   *)

LEMMA AdmissionFacts ==
  ASSUME NumberedInv, NEW q \in Requests, ~Answered(q)
  PROVE  /\ ~Live(rows[q.event])
         /\ q.result # NoResult => storedBy[q.result] = 0 /\ ~LiveResumeOf(Db, q.result)
<1>1. q.event \in Event
  BY EventOf
<1>2. \A e \in Event : \/ Forget(q).rows[e] = rows[e]
                       \/ Forget(q).rows[e] = NoRow /\ rows[e].status \in Terminal
  BY DEF Forget, Forgotten, UndeliveredResume, Db
<1>3. Forget(q).rows[q.event].status = "none"
  BY DEF Answered
<1>4. ~Live(rows[q.event])
  BY <1>1, <1>2, <1>3 DEF Live, Terminal
<1>5. ASSUME q.result # NoResult
      PROVE  storedBy[q.result] = 0 /\ ~LiveResumeOf(Db, q.result)
  <2>1. storedBy[q.result] = 0 /\ ~LiveResumeOf(Forget(q), q.result)
    BY <1>5 DEF Answered
  <2>2. ASSUME LiveResumeOf(Db, q.result) PROVE LiveResumeOf(Forget(q), q.result)
    <3>1. PICK e \in Event : Live(rows[e]) /\ rows[e].req.result = q.result
      BY <2>2 DEF LiveResumeOf, Db
    <3>2. Forget(q).rows[e] = rows[e]
      BY <1>2, <3>1 DEF Live, Terminal
    <3>3. QED
      BY <3>1, <3>2 DEF LiveResumeOf
  <2>3. QED
    BY <2>1, <2>2
<1>6. QED
  BY <1>4, <1>5

\* The state an arrival finds: the page it read, and the rows that waned.
LEMMA PreparedWanes ==
  ASSUME NEW q, Sound(Db)
  PROVE  LET d == Forget(q)
             x == ExpireQueuedEnvelopes(d, QueuedPage(d))
         IN  /\ DbOK(x) /\ Wanes(Db, x)
             /\ Queued(x) = QueuedPage(d) \ Due(d, QueuedPage(d))
             /\ DbOK(Prepared(q)) /\ Wanes(Db, Prepared(q)) /\ Keeps(Db, Prepared(q))
             /\ \A e \in Event : \/ Prepared(q).rows[e] = x.rows[e]
                                 \/ Prepared(q).rows[e] = Expired(x.rows[e])
<1> DEFINE d == Forget(q)
           page == QueuedPage(d)
           x == ExpireQueuedEnvelopes(d, page)
           h == ExpireStaleOwner(x)
<1>1. DbOK(Db) /\ Sound(d) /\ DbOK(d) /\ Wanes(Db, d) /\ Keeps(Db, d)
  BY ForgetSound, ForgetWanes DEF Sound
<1>2. page = Queued(d)
  BY <1>1, PageIsQueue
<1>3. /\ Sound(x) /\ DbOK(x) /\ Wanes(d, x) /\ Keeps(d, x)
      /\ Queued(x) = page \ Due(d, page)
  BY <1>1, <1>2, ExpireSound, ExpireWanes DEF Sound
<1>4. /\ Sound(h) /\ DbOK(h) /\ Wanes(x, h) /\ Keeps(x, h)
      /\ \A e \in Event : h.rows[e] = x.rows[e] \/ h.rows[e] = Expired(x.rows[e])
  BY <1>3, StaleOwnerSound, StaleOwnerWanes DEF Sound
<1>5. Wanes(Db, x) /\ Keeps(Db, x)
  <2> HIDE DEF d, x
  <2> QED
    BY <1>1, <1>3, WanesOn, KeepsOn
<1>6. Wanes(Db, h) /\ Keeps(Db, h)
  <2> HIDE DEF x, h
  <2> QED
    BY <1>1, <1>4, <1>5, WanesOn, KeepsOn
<1>7. h = Prepared(q)
  BY DEF Prepared
<1>8. QED
  BY <1>3, <1>4, <1>5, <1>6, <1>7

\* Either nothing is promoted, and then an idle conversation has no queue, or a
\* turn begins with what waited.
LEMMA RecoveredCases ==
  ASSUME NumberedInv, NEW q
  PROVE  \/ /\ Recovered(q) = Prepared(q)
            /\ HasActiveOwner(Prepared(q).coord) \/ Queued(Prepared(q)) = {}
         \/ /\ ~HasActiveOwner(Prepared(q).coord)
            /\ HasActiveOwner(Recovered(q).coord)
            /\ \E S : Step(Recovered(q), S, NoEvent, {})
            /\ Keeps(Db, Recovered(q))
<1> DEFINE d == Forget(q)
           page == QueuedPage(d)
           x == ExpireQueuedEnvelopes(d, page)
           p == Prepared(q)
           A == page \ Due(d, page)
           gen == coord.ownerGeneration + 1
           h == PromoteQueuedGroup(p, A, gen)
<1>1. Sound(Db) /\ DbOK(Db) /\ Db.coord = coord /\ Db.rows = rows
  BY InvSound DEF NumberedInv, Sound, Db
<1>2. /\ DbOK(x) /\ Wanes(Db, x) /\ Queued(x) = A
      /\ DbOK(p) /\ Wanes(Db, p)
      /\ \A e \in Event : p.rows[e] = x.rows[e] \/ p.rows[e] = Expired(x.rows[e])
  BY <1>1, PreparedWanes
<1>3. /\ p.coord.ownerGeneration = coord.ownerGeneration
      /\ p.coord.nextSequence = coord.nextSequence
      /\ HasActiveOwner(p.coord) = HasActiveOwner(coord)
  <2>1. /\ p.coord.ownerGeneration = Db.coord.ownerGeneration
        /\ p.coord.nextSequence = Db.coord.nextSequence
        /\ HasActiveOwner(p.coord) = HasActiveOwner(Db.coord)
    <3> HIDE DEF p
    <3> QED
      BY <1>1, <1>2, WanesOwner
  <2>2. QED
    BY <1>1, <2>1
<1>4. Recovered(q) = IF ~HasActiveOwner(p.coord) /\ p.coord.queuedCount > 0
                     THEN h ELSE p
  BY <1>3 DEF Recovered
<1>5. A \in SUBSET Event /\ Covers(p, A) /\ Queued(p) \subseteq A
  BY <1>1, PreparedSound
<1>6. CASE HasActiveOwner(p.coord)
  BY <1>4, <1>6
<1>7. CASE A = {}
  <2>1. h = p
    BY <1>7 DEF PromoteQueuedGroup
  <2>2. QED
    BY <1>4, <1>5, <1>7, <2>1
<1>8. CASE ~HasActiveOwner(p.coord) /\ A # {}
  <2>1. p.coord.queuedCount > 0
    <3>1. Cardinality(A) \in Nat /\ IsFiniteSet(A) /\ Cardinality(A) # 0
      BY <1>5, <1>8, QueuedFinite, FS_EmptySet
    <3>2. p.coord.queuedCount \in Nat
      BY <1>2, CountType
    <3>3. QED
      BY <1>5, <3>1, <3>2 DEF Covers
  <2>2. Recovered(q) = h
    BY <1>4, <1>8, <2>1
  <2>3. \A e \in Event : Fades(rows[e], p.rows[e])
    BY <1>1, <1>2 DEF Wanes
  <2>4. Step(h, NextGroup(p, A), NoEvent, {})
    <3> HIDE DEF x, p, A, d, page
    <3> QED
      BY <1>2, <1>3, <1>8, <2>3, PromoteStep
  <2>5. ~HasActiveOwner(coord)
    BY <1>3, <1>8
  <2>6. Keeps(Db, h)
    BY <1>1, <2>5 DEF Keeps
  <2> HIDE DEF x, p, A, d, page, h
  <2>7. NextGroup(p, A) # {} => HasActiveOwner(h.coord)
    BY <2>4 DEF Step, StartsRight
  <2>8. HasActiveOwner(h.coord)
    <3>1. Promoted(p, A, gen, PromoteQueuedGroup(p, A, gen))
      <4>1. gen \in Nat
        BY <1>1 DEF DbOK, Coordinator
      <4>2. \A e \in A : p.rows[e].status # "none"
        <5>1. \A e \in A : p.rows[e].status # "none"
          BY <1>1, PreparedSound DEF A, p, page, d
        <5>2. QED
          BY <5>1
      <4> HIDE DEF gen
      <4>3. QED
        BY <1>2, <1>5, <1>8, <4>1, <4>2, PromoteMoves
    <3>2. QED
      BY <3>1 DEF Promoted, h
  <2>9. QED
    BY <1>8, <2>2, <2>4, <2>6, <2>8 DEF p
<1>9. QED
  BY <1>6, <1>7, <1>8

LEMMA RecoveredStep ==
  ASSUME NumberedInv, NEW q
  PROVE  (\E S : Step(Recovered(q), S, NoEvent, {})) /\ Keeps(Db, Recovered(q))
<1>1. CASE Recovered(q) = Prepared(q)
  <2>1. Sound(Db)
    BY InvSound DEF NumberedInv
  <2>2. Wanes(Db, Prepared(q)) /\ Keeps(Db, Prepared(q))
    BY <2>1, PreparedWanes
  <2>3. Step(Prepared(q), {}, NoEvent, {})
    BY <2>1, <2>2, WanesStep
  <2>4. QED
    BY <1>1, <2>2, <2>3
<1>2. QED
  BY <1>1, RecoveredCases

\* What a late control may not do.
InTime(q, c) ==
  q.activeOwnerOnly => /\ HasActiveOwner(coord)
                       /\ c.ownerGeneration = coord.ownerGeneration
                       /\ q.expectedTask \in {NoTask, coord.ownerTaskId}

LEMMA NotLate ==
  ASSUME NumberedInv, NEW q \in Requests, ~Refused(q)
  PROVE  /\ InTime(q, Recovered(q).coord)
         /\ ~HasActiveOwner(Recovered(q).coord) => ~q.activeOwnerOnly
<1> DEFINE p == Prepared(q)
<1>1. Sound(Db) /\ DbOK(Db) /\ Db.coord = coord
  BY InvSound DEF NumberedInv, Sound, Db
<1>2. /\ p.coord.ownerGeneration = coord.ownerGeneration
      /\ p.coord.ownerTaskId = coord.ownerTaskId
      /\ HasActiveOwner(p.coord) = HasActiveOwner(coord)
  <2>1. Wanes(Db, p)
    BY <1>1, PreparedWanes
  <2> HIDE DEF p
  <2>2. /\ p.coord.ownerGeneration = Db.coord.ownerGeneration
        /\ p.coord.ownerTaskId = Db.coord.ownerTaskId
        /\ HasActiveOwner(p.coord) = HasActiveOwner(Db.coord)
    BY <1>1, <2>1, WanesOwner
  <2>3. QED
    BY <1>1, <2>2
<1>3. ~IsLateControl(q, p.coord)
  BY DEF Refused
<1>4. ASSUME q.activeOwnerOnly
      PROVE  /\ HasActiveOwner(p.coord)
             /\ q.expectedTask \in {NoTask, coord.ownerTaskId}
  BY <1>2, <1>3, <1>4 DEF IsLateControl
<1>5. ASSUME q.activeOwnerOnly PROVE Recovered(q) = p
  BY <1>4, <1>5 DEF Recovered
<1> HIDE DEF p
<1>6. QED
  BY <1>2, <1>4, <1>5 DEF InTime

LEMMA EnqueueMoves ==
  ASSUME NEW d, DbOK(d), NEW q \in Requests
  PROVE  LET h == Enqueue(d, q)
         IN  /\ \A e \in Event \ {q.event} : h.rows[e] = d.rows[e]
             /\ h.rows[q.event].status = "queued"
             /\ h.rows[q.event].generation = 0
             /\ h.rows[q.event].req = q
             /\ h.rows[q.event].sequence = d.coord.nextSequence
             /\ h.coord.ownerEventId = d.coord.ownerEventId
             /\ h.coord.ownerGeneration = d.coord.ownerGeneration
             /\ h.coord.stopRequestedGeneration = d.coord.stopRequestedGeneration
             /\ HasActiveOwner(h.coord) = HasActiveOwner(d.coord)
             /\ h.coord.nextSequence = d.coord.nextSequence + 1
<1> DEFINE h == Enqueue(d, q)
           row == [NewRow(d, q) EXCEPT !.status = "queued"]
<1>1. q.event \in Event /\ d.rows \in [Event -> Row] /\ d.coord \in Coordinator
  BY EventOf DEF DbOK
<1>2. /\ h.rows = [d.rows EXCEPT ![q.event] = row]
      /\ h.coord = [d.coord EXCEPT !.nextSequence = @ + 1, !.queuedCount = @ + 1]
  BY DEF Enqueue
<1>3. /\ row.status = "queued" /\ row.generation = 0 /\ row.req = q
      /\ row.sequence = d.coord.nextSequence
  BY DEF NewRow, NoRow
<1> HIDE DEF h, row
<1>4. /\ \A e \in Event \ {q.event} : h.rows[e] = d.rows[e]
      /\ h.rows[q.event] = row
  BY <1>1, <1>2
<1>5. /\ h.coord.ownerEventId = d.coord.ownerEventId
      /\ h.coord.ownerGeneration = d.coord.ownerGeneration
      /\ h.coord.stopRequestedGeneration = d.coord.stopRequestedGeneration
      /\ h.coord.lease = d.coord.lease
      /\ h.coord.nextSequence = d.coord.nextSequence + 1
  BY <1>1, <1>2 DEF Coordinator
<1>6. HasActiveOwner(h.coord) = HasActiveOwner(d.coord)
  BY <1>5 DEF HasActiveOwner
<1>7. QED
  BY <1>3, <1>4, <1>5, <1>6 DEF h

LEMMA EnqueueStep ==
  ASSUME NumberedInv, NEW q \in Requests, ~Answered(q), NEW d, DbOK(d), NEW S,
         Step(d, S, NoEvent, {}), InTime(q, d.coord)
  PROVE  Step(Enqueue(d, q), S, q.event, {})
<1> DEFINE h == Enqueue(d, q)
           n == q.event
<1>1. /\ n \in Event /\ ~Live(rows[n])
      /\ q.result # NoResult => storedBy[q.result] = 0 /\ ~LiveResumeOf(Db, q.result)
  BY AdmissionFacts, EventOf
<1>2. /\ \A e \in Event \ {n} : h.rows[e] = d.rows[e]
      /\ h.rows[n].status = "queued"
      /\ h.rows[n].generation = 0
      /\ h.rows[n].req = q
      /\ h.rows[n].sequence = d.coord.nextSequence
      /\ h.coord.ownerEventId = d.coord.ownerEventId
      /\ h.coord.ownerGeneration = d.coord.ownerGeneration
      /\ h.coord.stopRequestedGeneration = d.coord.stopRequestedGeneration
      /\ HasActiveOwner(h.coord) = HasActiveOwner(d.coord)
      /\ h.coord.nextSequence = d.coord.nextSequence + 1
  BY EnqueueMoves
<1>3. NoEvent \notin Event
  BY NamesAssumption
<1> HIDE DEF h, n
<1>4. n \notin S /\ S \subseteq Event /\ d.coord.nextSequence = coord.nextSequence
  BY <1>1, <1>3 DEF Step, RowsMove, Started, Live
<1>5. RowsMove(h, S, n)
  <2>1. \A e \in Event \ (S \cup {n}) : Fades(rows[e], h.rows[e])
    BY <1>2, <1>3 DEF Step, RowsMove
  <2>2. \A e \in S : Started(e, h)
    BY <1>2, <1>4 DEF Step, RowsMove, Started
  <2>3. Arrived(n, h)
    BY <1>1, <1>2, <1>4 DEF Arrived, InTime
  <2>4. QED
    BY <1>1, <1>2, <1>4, <2>1, <2>2, <2>3 DEF RowsMove
<1>6. TurnMoves(h.coord)
  BY <1>2 DEF Step, TurnMoves
<1>7. StartsRight(h, S, n)
  <2>1. StartsRight(d, S, NoEvent)
    BY DEF Step
  <2>2. S # {} => /\ HasActiveOwner(h.coord)
                  /\ h.coord.ownerGeneration = coord.ownerGeneration
                     => ~Stopped(Db, coord.ownerGeneration)
    BY <1>2, <2>1 DEF StartsRight
  <2>3. h.coord.ownerGeneration # coord.ownerGeneration /\ h.coord.ownerEventId \in Event
        => /\ h.coord.ownerEventId \in S \cup {n}
           /\ h.rows[h.coord.ownerEventId].status = "processing"
    BY <1>2, <1>3, <1>4, <2>1 DEF StartsRight
  <2>4. ASSUME NEW e \in S \cup {n}, NEW f \in Event, h.rows[e].status = "processing",
               rows[f].status = "queued", h.rows[f].status = "queued"
        PROVE  ~(rows[f].sequence < h.rows[e].sequence)
    <3>1. e \in S /\ e # n
      BY <1>2, <1>4, <2>4
    <3>2. f # n
      BY <1>1, <2>4 DEF Live
    <3>3. QED
      BY <1>2, <1>4, <2>1, <2>4, <3>1, <3>2 DEF StartsRight
  <2>5. QED
    BY <2>2, <2>3, <2>4 DEF StartsRight
<1>8. TellsRight(h, n, {})
  BY DEF TellsRight
<1>9. StartsAlike(h, S, n)
  <2>1. StartsAlike(d, S, NoEvent) /\ \A e \in S : h.rows[e] = d.rows[e]
    BY <1>2, <1>4 DEF Step
  <2>2. QED
    BY <1>2, <1>4, <2>1 DEF StartsAlike
<1>10. QED
  BY <1>5, <1>6, <1>7, <1>8, <1>9 DEF Step, h, n

LEMMA OwnMoves ==
  ASSUME NEW d, DbOK(d), NEW q \in Requests
  PROVE  LET h == Own(d, q)
         IN  /\ \A e \in Event \ {q.event} : h.rows[e] = d.rows[e]
             /\ h.rows[q.event].status = "processing"
             /\ h.rows[q.event].generation = d.coord.ownerGeneration + 1
             /\ h.rows[q.event].appliedTo = q.event
             /\ h.rows[q.event].req = q
             /\ h.rows[q.event].sequence = d.coord.nextSequence
             /\ h.coord.ownerEventId = q.event
             /\ h.coord.ownerGeneration = d.coord.ownerGeneration + 1
             /\ HasActiveOwner(h.coord)
             /\ h.coord.nextSequence = d.coord.nextSequence + 1
<1> DEFINE h == Own(d, q)
           gen == d.coord.ownerGeneration + 1
           c == [d.coord EXCEPT !.nextSequence = @ + 1]
           row == [NewRow(d, q) EXCEPT !.status = "processing",
                                       !.appliedTo = q.event, !.generation = gen]
<1>1. q.event \in Event /\ d.rows \in [Event -> Row] /\ d.coord \in Coordinator
  BY EventOf DEF DbOK
<1>2. /\ h.rows = [d.rows EXCEPT ![q.event] = row]
      /\ h.coord = Acquire(c, q.event, q.task, gen)
  BY DEF Own
<1>3. /\ row.status = "processing" /\ row.generation = gen /\ row.req = q
      /\ row.sequence = d.coord.nextSequence /\ row.appliedTo = q.event
  BY DEF NewRow, NoRow
<1>4. c \in Coordinator /\ c.nextSequence = d.coord.nextSequence + 1
  BY <1>1 DEF Coordinator
<1> HIDE DEF h, row, gen, c
<1>5. /\ \A e \in Event \ {q.event} : h.rows[e] = d.rows[e]
      /\ h.rows[q.event] = row
  BY <1>1, <1>2
<1>6. /\ h.coord.ownerEventId = q.event
      /\ h.coord.ownerGeneration = gen
      /\ h.coord.lease = LeaseTtl
      /\ h.coord.nextSequence = c.nextSequence
  BY <1>2, <1>4 DEF Acquire, Coordinator
<1>7. HasActiveOwner(h.coord)
  BY <1>1, <1>6, NamesAssumption, BoundsAssumption DEF HasActiveOwner
<1>8. QED
  BY <1>3, <1>4, <1>5, <1>6, <1>7 DEF h, gen

\* An arrival that owns the conversation finds no queue.
LEMMA OwnStep ==
  ASSUME NumberedInv, NEW q \in Requests, ~Answered(q), NEW d, DbOK(d),
         Wanes(Db, d), Queued(d) = {}, ~q.activeOwnerOnly
  PROVE  Step(Own(d, q), {}, q.event, {})
<1> DEFINE h == Own(d, q)
           n == q.event
<1>1. /\ n \in Event /\ ~Live(rows[n])
      /\ q.result # NoResult => storedBy[q.result] = 0 /\ ~LiveResumeOf(Db, q.result)
  BY AdmissionFacts, EventOf
<1>2. DbOK(Db) /\ Db.coord = coord /\ Db.rows = rows
  BY InvSound DEF NumberedInv, Sound, Db
<1>3. /\ d.coord.ownerGeneration = coord.ownerGeneration
      /\ d.coord.nextSequence = coord.nextSequence
  <2>1. /\ d.coord.ownerGeneration = Db.coord.ownerGeneration
        /\ d.coord.nextSequence = Db.coord.nextSequence
    BY <1>2, WanesOwner
  <2>2. QED
    BY <1>2, <2>1
<1>4. /\ \A e \in Event \ {n} : h.rows[e] = d.rows[e]
      /\ h.rows[n].status = "processing"
      /\ h.rows[n].generation = coord.ownerGeneration + 1
      /\ h.rows[n].appliedTo = n
      /\ h.rows[n].req = q
      /\ h.rows[n].sequence = coord.nextSequence
      /\ h.coord.ownerEventId = n
      /\ h.coord.ownerGeneration = coord.ownerGeneration + 1
      /\ HasActiveOwner(h.coord)
      /\ h.coord.nextSequence = coord.nextSequence + 1
  BY <1>3, OwnMoves
<1>5. coord.ownerGeneration \in Nat
  BY <1>2 DEF DbOK, Coordinator
<1> HIDE DEF h, n
<1>6. RowsMove(h, {}, n)
  <2>1. \A e \in Event \ {n} : Fades(rows[e], h.rows[e])
    BY <1>2, <1>4 DEF Wanes
  <2>2. Arrived(n, h)
    BY <1>1, <1>4 DEF Arrived
  <2>3. QED
    BY <1>1, <1>4, <2>1, <2>2 DEF RowsMove
<1>7. TurnMoves(h.coord)
  BY <1>4 DEF TurnMoves
<1>8. StartsRight(h, {}, n)
  <2>1. ASSUME NEW f \in Event, rows[f].status = "queued", h.rows[f].status = "queued"
        PROVE  FALSE
    <3>1. f # n
      BY <1>4, <2>1
    <3>2. f \in Queued(d)
      BY <1>4, <2>1, <3>1 DEF Queued
    <3>3. QED
      BY <3>2
  <2>2. QED
    BY <1>4, <2>1 DEF StartsRight
<1>9. TellsRight(h, n, {})
  BY DEF TellsRight
<1>10. StartsAlike(h, {}, n)
  BY <1>1 DEF StartsAlike
<1>11. QED
  BY <1>6, <1>7, <1>8, <1>9, <1>10 DEF Step, h, n


-----------------------------------------------------------------------------
(* Every action takes such a step.                                         *)

UnsavedMoves(h, S, n) ==
  \/ h.coord.ownerGeneration = coord.ownerGeneration /\ unsaved' \subseteq unsaved
  \/ \A r \in unsaved' : /\ r # NoResult
                         /\ \E e \in (S \cup {n}) \cap Event : h.rows[e].req.result = r

\* While the turn runs on, nothing of it ends.
PhaseMoves(h) ==
  /\ phase' = "running"
  /\ h.coord.ownerGeneration = coord.ownerGeneration
  /\ HasActiveOwner(h.coord)
  => phase = "running" /\ Keeps(Db, h)

Taken(h, S, n, told) ==
  /\ coord' = h.coord /\ rows' = h.rows
  /\ Step(h, S, n, told)
  /\ MarkStored(coord.ownerGeneration, told)
  /\ UnsavedMoves(h, S, n)
  /\ PhaseMoves(h)

TakesStep == \E h, S, n, told : Taken(h, S, n, told)

LEMMA NothingTold ==
  ASSUME NumberedInv, UNCHANGED storedBy
  PROVE  MarkStored(coord.ownerGeneration, {})
BY DEF NumberedInv, Inv, TypeOK, MarkStored

LEMMA CommitTakes ==
  ASSUME NumberedInv, NEW h, NEW S, NEW n, NEW told, Step(h, S, n, told), Commit(h),
         MarkStored(coord.ownerGeneration, told),
         h.coord.ownerGeneration = coord.ownerGeneration /\ HasActiveOwner(h.coord)
           => Keeps(Db, h)
  PROVE  TakesStep
<1>1. coord' = h.coord /\ rows' = h.rows
  BY DEF Commit
<1>2. CASE h.coord.ownerGeneration = coord.ownerGeneration
  <2>1. unsaved' = unsaved /\ phase' = phase
    BY <1>2 DEF Commit
  <2>2. UnsavedMoves(h, S, n) /\ PhaseMoves(h)
    BY <1>2, <2>1 DEF UnsavedMoves, PhaseMoves
  <2>3. QED
    BY <1>1, <2>2 DEF TakesStep, Taken
<1>3. CASE h.coord.ownerGeneration # coord.ownerGeneration
  <2>1. unsaved' = ResultsOf(h, Members(h, h.coord.ownerGeneration))
    BY <1>3 DEF Commit
  <2>2. h.coord.ownerGeneration = coord.ownerGeneration + 1
    BY <1>3 DEF Step, TurnMoves
  <2>3. ASSUME NEW e \in Members(h, h.coord.ownerGeneration)
        PROVE  e \in (S \cup {n}) \cap Event
    <3>1. e \in Event /\ h.rows[e].generation = coord.ownerGeneration + 1
      BY <2>2 DEF Members
    <3>2. ~Fades(rows[e], h.rows[e])
      <4>1. rows[e].generation <= coord.ownerGeneration
        BY <3>1 DEF NumberedInv, RowsOK, Db
      <4>2. coord.ownerGeneration \in Nat /\ rows[e].generation \in Nat
        <5>1. DbOK(Db) /\ Db.rows = rows
          BY InvSound DEF NumberedInv, Sound, Db
        <5>2. QED
          BY <3>1, <5>1, RowNumbers DEF DbOK, Coordinator, Db
      <4>3. QED
        BY <3>1, <4>1, <4>2 DEF Fades, Same, Ended, NoRow
    <3>3. QED
      BY <3>1, <3>2 DEF Step, RowsMove
  <2>4. \A r \in unsaved' : /\ r # NoResult
                            /\ \E e \in (S \cup {n}) \cap Event : h.rows[e].req.result = r
    BY <2>1, <2>3 DEF ResultsOf
  <2>5. UnsavedMoves(h, S, n) /\ PhaseMoves(h)
    BY <1>3, <2>4 DEF UnsavedMoves, PhaseMoves
  <2>6. QED
    BY <1>1, <2>5 DEF TakesStep, Taken
<1>4. QED
  BY <1>2, <1>3

LEMMA AcceptTakes ==
  ASSUME NumberedInv, NEW q \in Requests,
         \/ AcceptAnswered(q) \/ AcceptRefused(q) \/ AcceptQueued(q) \/ AcceptOwner(q)
  PROVE  TakesStep
<1>1. Sound(Db)
  BY InvSound DEF NumberedInv
<1> DEFINE d == Recovered(q)
<1>2. (\E S : Step(d, S, NoEvent, {})) /\ Keeps(Db, d) /\ DbOK(d)
  BY <1>1, RecoveredStep, RecoveredSound DEF Sound
<1>3. CASE AcceptAnswered(q)
  <2>1. Wanes(Db, Forget(q)) /\ Keeps(Db, Forget(q))
    BY <1>1, ForgetWanes
  <2>2. Step(Forget(q), {}, NoEvent, {})
    BY <1>1, <2>1, WanesStep
  <2>3. Commit(Forget(q)) /\ UNCHANGED storedBy
    BY <1>3 DEF AcceptAnswered
  <2>4. QED
    BY <2>1, <2>2, <2>3, NothingTold, CommitTakes
<1>4. CASE AcceptRefused(q)
  <2>1. Commit(d) /\ UNCHANGED storedBy
    BY <1>4 DEF AcceptRefused
  <2> HIDE DEF d
  <2>2. PICK S : Step(d, S, NoEvent, {})
    BY <1>2
  <2>3. QED
    BY <1>2, <2>1, <2>2, NothingTold, CommitTakes
<1>5. CASE AcceptQueued(q)
  <2>1. /\ ~Answered(q) /\ ~Refused(q)
        /\ Commit(Enqueue(d, q)) /\ UNCHANGED storedBy
    BY <1>5 DEF AcceptQueued
  <2>2. InTime(q, d.coord)
    BY <2>1, NotLate
  <2> HIDE DEF d
  <2>3. PICK S : Step(d, S, NoEvent, {})
    BY <1>2
  <2>4. Step(Enqueue(d, q), S, q.event, {})
    BY <1>2, <2>1, <2>2, <2>3, EnqueueStep
  <2>5. Keeps(Db, Enqueue(d, q))
    <3>1. ~Live(rows[q.event]) /\ Db.rows = rows
      BY <2>1, AdmissionFacts DEF Db
    <3>2. \A e \in Event \ {q.event} : Enqueue(d, q).rows[e] = d.rows[e]
      BY <1>2, EnqueueMoves
    <3>3. QED
      BY <1>2, <3>1, <3>2 DEF Keeps, Live
  <2>6. QED
    BY <2>1, <2>4, <2>5, NothingTold, CommitTakes
<1>6. CASE AcceptOwner(q)
  <2>1. /\ ~Answered(q) /\ ~Refused(q) /\ ~HasActiveOwner(d.coord)
        /\ Commit(Own(d, q)) /\ UNCHANGED storedBy
    BY <1>6 DEF AcceptOwner
  <2>2. ~q.activeOwnerOnly
    BY <2>1, NotLate
  <2>3. d = Prepared(q) /\ Queued(d) = {}
    BY <2>1, RecoveredCases
  <2>4. Wanes(Db, d)
    BY <1>1, <2>3, PreparedWanes
  <2> HIDE DEF d
  <2>5. Step(Own(d, q), {}, q.event, {})
    BY <1>2, <2>1, <2>2, <2>3, <2>4, OwnStep
  <2>6. Own(d, q).coord.ownerGeneration # coord.ownerGeneration
    <3>1. Own(d, q).coord.ownerGeneration = d.coord.ownerGeneration + 1
      BY <1>2, OwnMoves
    <3>2. d.coord.ownerGeneration = coord.ownerGeneration
          /\ coord.ownerGeneration \in Nat
      <4>1. DbOK(Db) /\ Db.coord = coord
        BY <1>1 DEF Sound, Db
      <4>2. d.coord.ownerGeneration = Db.coord.ownerGeneration
        BY <2>4, <4>1, WanesOwner
      <4>3. QED
        BY <4>1, <4>2 DEF DbOK, Coordinator
    <3>3. QED
      BY <3>1, <3>2
  <2>7. QED
    BY <2>1, <2>5, <2>6, NothingTold, CommitTakes
<1>7. QED
  BY <1>3, <1>4, <1>5, <1>6

LEMMA ClearTakes ==
  ASSUME NumberedInv, AcquireClear
  PROVE  TakesStep
<1> DEFINE d == ExpireQueuedEnvelopes(Db, QueuedPage(Db))
           task == d.coord.ownerTaskId
           gen == d.coord.ownerGeneration + 1
           h == [d EXCEPT !.coord = Acquire(@, ClearEvent, @.ownerTaskId,
                                            @.ownerGeneration + 1)]
<1>1. Sound(Db) /\ DbOK(Db) /\ Db.coord = coord /\ Db.rows = rows
  BY InvSound DEF NumberedInv, Sound, Db
<1>2. Sound(d) /\ DbOK(d) /\ Wanes(Db, d) /\ Keeps(Db, d)
  BY <1>1, PageIsQueue, ExpireSound, ExpireWanes DEF Sound
<1>3. (Commit(d) \/ Commit(h)) /\ UNCHANGED storedBy
  BY DEF AcquireClear
<1>4. h.rows = d.rows /\ h.coord = Acquire(d.coord, ClearEvent, task, gen)
  <2> HIDE DEF d
  <2> QED
    BY <1>2 DEF DbOK
<1> HIDE DEF d
<1>5. d.coord \in Coordinator /\ d.coord.ownerGeneration = coord.ownerGeneration
      /\ d.coord.nextSequence = coord.nextSequence /\ coord.ownerGeneration \in Nat
  <2>1. /\ d.coord.ownerGeneration = Db.coord.ownerGeneration
        /\ d.coord.nextSequence = Db.coord.nextSequence
    BY <1>1, <1>2, WanesOwner
  <2>2. QED
    BY <1>1, <1>2, <2>1 DEF DbOK, Coordinator
<1> HIDE DEF h
<1>6. CASE Commit(d)
  <2>1. Step(d, {}, NoEvent, {})
    BY <1>1, <1>2, WanesStep
  <2>2. QED
    BY <1>2, <1>3, <1>6, <2>1, NothingTold, CommitTakes
<1>7. CASE Commit(h)
  <2>1. /\ h.coord.ownerEventId = ClearEvent
        /\ h.coord.ownerGeneration = coord.ownerGeneration + 1
        /\ h.coord.lease = LeaseTtl
        /\ h.coord.nextSequence = coord.nextSequence
    BY <1>4, <1>5 DEF Acquire, Coordinator
  <2>2. HasActiveOwner(h.coord) /\ ClearEvent \notin Event
    BY <2>1, NamesAssumption, BoundsAssumption DEF HasActiveOwner
  <2>3. TurnMoves(h.coord)
    BY <2>1, <2>2 DEF TurnMoves
  <2>4. \A e \in Event : Fades(rows[e], h.rows[e])
    BY <1>1, <1>2, <1>4 DEF Wanes
  <2>5. Step(h, {}, NoEvent, {})
    BY <2>1, <2>2, <2>3, <2>4, QuietStep
  <2>6. h.coord.ownerGeneration # coord.ownerGeneration
    BY <1>5, <2>1
  <2>7. QED
    BY <1>3, <1>7, <2>5, <2>6, NothingTold, CommitTakes
<1>8. QED
  BY <1>3, <1>6, <1>7

\* The cron.
LEMMA MaintainTakes ==
  ASSUME NumberedInv, Maintain
  PROVE  TakesStep
<1> DEFINE s == ExpireQueuedEnvelopes(Db, Queued(Db))
           due == Due(Db, {e \in Event : rows[e].status = "processing"})
           h == Maintained(Db)
           free == [s.coord EXCEPT !.ownerEventId = NoEvent, !.lease = -1]
<1>1. Sound(Db) /\ DbOK(Db) /\ Db.coord = coord /\ Db.rows = rows
  BY InvSound DEF NumberedInv, Sound, Db
<1>2. Sound(s) /\ DbOK(s) /\ Wanes(Db, s) /\ Keeps(Db, s)
  BY <1>1, ExpireSound, ExpireWanes DEF Sound
<1>3. ASSUME NEW e \in due
      PROVE  s.rows[e] = rows[e] /\ rows[e] \in Admitted /\ rows[e].status = "processing"
  <2>1. e \in Event /\ rows[e].status = "processing"
    BY DEF Due
  <2>2. e \notin Due(Db, Queued(Db))
    BY <1>1, <2>1 DEF Due, Queued
  <2>3. s.rows[e] = rows[e]
    BY <1>1, <2>1, <2>2 DEF ExpireQueuedEnvelopes, Dequeue
  <2>4. QED
    BY <1>1, <2>1, <2>3, AdmittedRow
<1>4. h.coord \in {s.coord, free}
  BY DEF Maintained
<1>5. ASSUME NEW e \in Event
      PROVE  \/ h.rows[e] = NoRow /\ (e \notin due => s.rows[e].status \in Terminal)
                                 /\ (e \in due => ~OfLiveTurn(Db, e))
             \/ h.rows[e] = s.rows[e]
             \/ e \in due /\ ~OfLiveTurn(Db, e) /\ h.rows[e] = Expired(s.rows[e])
             \/ e \in due /\ h.rows[e] = [s.rows[e] EXCEPT !.ttl = coord.lease]
  <2> DEFINE kept == {x \in due : OfLiveTurn(Db, x)}
             D(x) == CASE x \in kept -> [s.rows[x] EXCEPT !.ttl = coord.lease]
                       [] x \in due \ kept -> Expired(s.rows[x])
                       [] OTHER -> s.rows[x]
  <2>1. h.rows[e] = IF D(e).status \in Terminal /\ D(e).retain <= 0
                    THEN NoRow ELSE D(e)
    BY <1>1 DEF Maintained
  <2>2. CASE e \in kept
    <3>1. D(e) = [s.rows[e] EXCEPT !.ttl = coord.lease]
      BY <2>2
    <3>2. s.rows[e] \in Admitted /\ s.rows[e].status = "processing"
      BY <1>3, <2>2
    <3> HIDE DEF D
    <3>3. D(e).status = "processing"
      BY <3>1, <3>2 DEF Admitted
    <3>4. QED
      BY <2>1, <2>2, <3>1, <3>3 DEF Terminal
  <2>3. CASE e \in due \ kept
    <3>1. D(e) = Expired(s.rows[e])
      BY <2>3
    <3> HIDE DEF D
    <3>2. QED
      BY <2>1, <2>3, <3>1
  <2>4. CASE e \notin due
    <3>1. D(e) = s.rows[e]
      BY <2>4
    <3> HIDE DEF D
    <3>2. QED
      BY <2>1, <2>4, <3>1
  <2>5. QED
    BY <2>2, <2>3, <2>4
<1>6. /\ s.coord.ownerEventId = coord.ownerEventId
      /\ s.coord.ownerGeneration = coord.ownerGeneration
      /\ s.coord.stopRequestedGeneration = coord.stopRequestedGeneration
      /\ s.coord.nextSequence = coord.nextSequence
      /\ HasActiveOwner(s.coord) = HasActiveOwner(coord)
      /\ s.coord \in Coordinator
  <2> HIDE DEF s
  <2>1. /\ s.coord.ownerEventId = Db.coord.ownerEventId
        /\ s.coord.ownerGeneration = Db.coord.ownerGeneration
        /\ s.coord.stopRequestedGeneration = Db.coord.stopRequestedGeneration
        /\ s.coord.nextSequence = Db.coord.nextSequence
        /\ HasActiveOwner(s.coord) = HasActiveOwner(Db.coord)
    BY <1>1, <1>2, WanesOwner
  <2>2. QED
    BY <1>1, <1>2, <2>1 DEF DbOK
<1>7. Commit(h) /\ UNCHANGED storedBy
  BY DEF Maintain
<1> HIDE DEF s, h, due
<1>8. ASSUME NEW e \in due
      PROVE  /\ Ended(rows[e], Expired(s.rows[e]))
             /\ Same(rows[e], [s.rows[e] EXCEPT !.ttl = coord.lease])
  BY <1>3 DEF Ended, Same, Live, Terminal, Expired, Admitted
<1>9. ASSUME NEW e \in Event PROVE Fades(rows[e], h.rows[e])
  <2>1. Fades(rows[e], s.rows[e])
    BY <1>1, <1>2 DEF Wanes
  <2>2. QED
    BY <1>5, <1>8, <2>1 DEF Fades
<1>10. Keeps(Db, h)
  <2> SUFFICES ASSUME HasActiveOwner(coord), NEW e \in Event,
                      rows[e].status = "processing",
                      rows[e].generation = coord.ownerGeneration
               PROVE  Same(rows[e], h.rows[e])
    BY <1>1 DEF Keeps
  <2>1. OfLiveTurn(Db, e)
    BY <1>1 DEF OfLiveTurn
  <2>2. Same(rows[e], s.rows[e])
    BY <1>1, <1>2 DEF Keeps
  <2>3. s.rows[e].status \notin Terminal
    BY <2>2 DEF Same, Terminal
  <2>4. QED
    BY <1>5, <1>8, <2>1, <2>2, <2>3
<1>11. TurnMoves(h.coord) /\ h.coord.nextSequence = coord.nextSequence
       /\ h.coord.ownerGeneration = coord.ownerGeneration
  <2>1. CASE h.coord = s.coord
    BY <1>6, <2>1, OwnerStays
  <2>2. CASE h.coord = free
    <3>1. /\ h.coord.ownerGeneration = coord.ownerGeneration
          /\ h.coord.nextSequence = coord.nextSequence
          /\ h.coord.ownerEventId = NoEvent
      BY <1>6, <2>2 DEF Coordinator
    <3>2. QED
      BY <3>1 DEF TurnMoves, HasActiveOwner
  <2>3. QED
    BY <1>4, <2>1, <2>2
<1>12. Step(h, {}, NoEvent, {})
  BY <1>9, <1>11, QuietStep
<1>13. QED
  BY <1>7, <1>10, <1>12, NothingTold, CommitTakes

\* The recovery sweep.
LEMMA SweepTakes ==
  ASSUME NumberedInv, RecoverQueued
  PROVE  TakesStep
<1> DEFINE d == ExpireStaleOwner(Db)
           page == Queued(d)
           A == page \ Due(d, page)
           s == ExpireQueuedEnvelopes(d, page)
           r == [coord |-> [s.coord EXCEPT !.queuedCount = Cardinality(A)],
                 bytes |-> SizeOf(d, A),
                 rows  |-> s.rows]
           gen == coord.ownerGeneration + 1
           h == PromoteQueuedGroup(r, A, gen)
<1>1. Sound(Db) /\ DbOK(Db) /\ Db.coord = coord /\ Db.rows = rows
  BY InvSound DEF NumberedInv, Sound, Db
<1>2. Sound(d) /\ DbOK(d) /\ Wanes(Db, d) /\ d.coord = coord
  BY <1>1, StaleOwnerSound, StaleOwnerWanes DEF Sound
<1>3. Sound(s) /\ DbOK(s) /\ Wanes(d, s) /\ Queued(s) = A
  BY <1>2, ExpireSound, ExpireWanes DEF Sound
<1>4. Wanes(Db, s)
  <2> HIDE DEF d, s
  <2> QED
    BY <1>1, <1>2, <1>3, WanesOn
<1>5. h = SweepRecovered
  BY <1>2 DEF SweepRecovered
<1>6. ~HasActiveOwner(coord) /\ Commit(h) /\ UNCHANGED storedBy
  BY <1>5 DEF RecoverQueued
<1>7. /\ r.rows = s.rows /\ r.bytes = SizeOf(d, A)
      /\ r.coord = [s.coord EXCEPT !.queuedCount = Cardinality(A)]
      /\ r = [coord |-> r.coord, bytes |-> r.bytes, rows |-> r.rows]
  OBVIOUS
<1>8. A \in SUBSET Event /\ Cardinality(A) \in Nat
  BY QueuedFinite DEF Queued
<1> HIDE DEF d, page, A, s, r
<1>9. s.coord \in Coordinator /\ s.coord.lease \in -1 .. LeaseTtl
      /\ s.coord.ownerEventId = coord.ownerEventId
      /\ s.coord.ownerGeneration = coord.ownerGeneration
      /\ s.coord.stopRequestedGeneration = coord.stopRequestedGeneration
      /\ s.coord.nextSequence = coord.nextSequence
      /\ s.coord.lease = coord.lease
  <2>1. /\ s.coord.ownerEventId = Db.coord.ownerEventId
        /\ s.coord.ownerGeneration = Db.coord.ownerGeneration
        /\ s.coord.stopRequestedGeneration = Db.coord.stopRequestedGeneration
        /\ s.coord.nextSequence = Db.coord.nextSequence
        /\ s.coord.lease = Db.coord.lease
    BY <1>1, <1>4, WanesOwner
  <2>2. QED
    BY <1>1, <1>3, <2>1 DEF DbOK
<1>10. /\ r.coord \in Coordinator /\ r.coord.lease \in -1 .. LeaseTtl
       /\ r.coord.ownerEventId = coord.ownerEventId
       /\ r.coord.ownerGeneration = coord.ownerGeneration
       /\ r.coord.stopRequestedGeneration = coord.stopRequestedGeneration
       /\ r.coord.nextSequence = coord.nextSequence
       /\ r.coord.lease = coord.lease
  BY <1>7, <1>8, <1>9 DEF Coordinator
<1>11. DbOK(r)
  BY <1>3, <1>7, <1>10 DEF DbOK
<1>12. \A e \in Event : Fades(rows[e], r.rows[e])
  BY <1>1, <1>4, <1>7 DEF Wanes
<1>13. ~HasActiveOwner(r.coord)
  BY <1>6, <1>10 DEF HasActiveOwner
<1>14. CASE A = {}
  <2>1. h = r
    BY <1>14 DEF PromoteQueuedGroup
  <2>2. TurnMoves(r.coord)
    BY <1>10, <1>13, OwnerStays
  <2>3. Step(r, {}, NoEvent, {})
    BY <1>10, <1>12, <2>2, QuietStep
  <2>4. QED
    BY <1>6, <1>13, <2>1, <2>3, NothingTold, CommitTakes
<1>15. CASE A # {}
  <2>1. \A e \in Event : r.rows[e] = s.rows[e] \/ r.rows[e] = Expired(s.rows[e])
    BY <1>7
  <2>2. Step(h, NextGroup(r, A), NoEvent, {})
    BY <1>3, <1>4, <1>10, <1>11, <1>12, <1>15, <2>1, PromoteStep
  <2>3. Keeps(Db, h)
    BY <1>1, <1>6 DEF Keeps
  <2> HIDE DEF h
  <2>4. QED
    BY <1>6, <2>2, <2>3, NothingTold, CommitTakes
<1>16. QED
  BY <1>14, <1>15


\* /stop and the clock.
LEMMA StopTakes ==
  ASSUME NumberedInv, NEW expected \in Task \cup {NoTask}, StopOwner(expected)
  PROVE  TakesStep
<1> DEFINE k == [coord EXCEPT !.stopRequestedGeneration = coord.ownerGeneration,
                              !.stopRequestedByParent = expected # NoTask]
           h == [coord |-> k, rows |-> rows]
<1>1. /\ coord' = h.coord /\ rows' = h.rows
      /\ UNCHANGED <<storedBy, unsaved, phase>>
      /\ HasActiveOwner(coord)
  BY DEF StopOwner
<1>2. coord \in Coordinator
  BY DEF NumberedInv, Inv, TypeOK
<1>3. /\ k.ownerEventId = coord.ownerEventId
      /\ k.ownerGeneration = coord.ownerGeneration
      /\ k.stopRequestedGeneration = coord.ownerGeneration
      /\ k.nextSequence = coord.nextSequence
  BY <1>2 DEF Coordinator
<1>4. h.coord = k /\ h.rows = rows
  OBVIOUS
<1> HIDE DEF k, h
<1>5. TurnMoves(h.coord)
  BY <1>1, <1>3, <1>4 DEF TurnMoves
<1>6. Step(h, {}, NoEvent, {})
  <2>1. \A e \in Event : Fades(rows[e], h.rows[e])
    BY <1>4 DEF Fades, Same
  <2>2. QED
    BY <1>3, <1>4, <1>5, <2>1, QuietStep
<1>7. Keeps(Db, h)
  BY <1>4 DEF Keeps, Same, Db
<1>8. UnsavedMoves(h, {}, NoEvent) /\ PhaseMoves(h)
  BY <1>1, <1>3, <1>4, <1>7 DEF UnsavedMoves, PhaseMoves
<1>9. MarkStored(coord.ownerGeneration, {})
  BY <1>1, NothingTold
<1>10. QED
  BY <1>1, <1>6, <1>8, <1>9 DEF TakesStep, Taken

LEMMA AgedSame ==
  ASSUME TypeOK, NEW e \in Event
  PROVE  Same(rows[e], Aged(e))
<1>1. rows[e] \in Row
  BY DEF TypeOK
<1>2. ASSUME NEW row \in Row, NEW t, NEW r
      PROVE  Same(row, [row EXCEPT !.ttl = t, !.retain = r])
  BY DEF Same, Row, Admitted, NoRow
<1>3. \E t, r : Aged(e) = [rows[e] EXCEPT !.ttl = t, !.retain = r]
  <2> DEFINE t == IF Live(rows[e]) THEN Less(rows[e].ttl) ELSE rows[e].ttl
             r == IF OfLiveTurn(Db, e) THEN rows[e].retain ELSE Less(rows[e].retain)
  <2>1. Aged(e) = [rows[e] EXCEPT !.ttl = t, !.retain = r]
    BY <1>1 DEF Aged, Row, Admitted, NoRow
  <2> HIDE DEF t, r
  <2>2. QED
    BY <2>1
<1>4. PICK t, r : Aged(e) = [rows[e] EXCEPT !.ttl = t, !.retain = r]
  BY <1>3
<1>5. Same(rows[e], [rows[e] EXCEPT !.ttl = t, !.retain = r])
  BY <1>1, <1>2
<1>6. QED
  BY <1>4, <1>5

LEMMA TickTakes ==
  ASSUME NumberedInv, Tick
  PROVE  TakesStep
<1> DEFINE k == [coord EXCEPT !.lease = IF @ >= 0 THEN @ - 1 ELSE @]
           h == [coord |-> k, rows |-> [e \in Event |-> Aged(e)]]
<1>1. /\ coord' = h.coord /\ rows' = h.rows
      /\ UNCHANGED <<storedBy, unsaved, phase>>
  BY DEF Tick
<1>2. coord \in Coordinator /\ TypeOK
  BY DEF NumberedInv, Inv, TypeOK
<1>3. /\ k.ownerEventId = coord.ownerEventId
      /\ k.ownerGeneration = coord.ownerGeneration
      /\ k.stopRequestedGeneration = coord.stopRequestedGeneration
      /\ k.nextSequence = coord.nextSequence
      /\ k.lease >= 0 => coord.lease >= 0
  BY <1>2 DEF Coordinator
<1>4. /\ h.coord = k
      /\ \A e \in Event : h.rows[e] = Aged(e)
  OBVIOUS
<1> HIDE DEF k, h
<1>5. TurnMoves(h.coord)
  BY <1>3, <1>4, OwnerStays DEF HasActiveOwner
<1>6. \A e \in Event : Same(rows[e], h.rows[e])
  BY <1>2, <1>4, AgedSame
<1>7. Step(h, {}, NoEvent, {})
  BY <1>3, <1>4, <1>5, <1>6, QuietStep DEF Fades
<1>8. UnsavedMoves(h, {}, NoEvent) /\ PhaseMoves(h)
  BY <1>1, <1>3, <1>4, <1>6 DEF UnsavedMoves, PhaseMoves, Keeps, Db
<1>9. MarkStored(coord.ownerGeneration, {})
  BY <1>1, NothingTold
<1>10. QED
  BY <1>1, <1>7, <1>8, <1>9 DEF TakesStep, Taken

\* A call of the running turn that starts nothing, or the steers S.
LEMMA WriteTakes ==
  ASSUME NumberedInv, NEW h, NEW S, NEW told, Step(h, S, NoEvent, told), Write(h),
         MarkStored(coord.ownerGeneration, told),
         h.coord.ownerGeneration = coord.ownerGeneration,
         \/ unsaved' \subseteq unsaved
         \/ \A r \in unsaved' : r # NoResult /\ \E e \in S : h.rows[e].req.result = r,
         phase' = "running" => phase = "running" /\ Keeps(Db, h)
  PROVE  TakesStep
<1>1. coord' = h.coord /\ rows' = h.rows
  BY DEF Write
<1>2. S \subseteq Event
  BY DEF Step, RowsMove
<1>3. UnsavedMoves(h, S, NoEvent)
  BY <1>2 DEF UnsavedMoves
<1>4. PhaseMoves(h)
  BY DEF PhaseMoves
<1>5. QED
  BY <1>1, <1>3, <1>4 DEF TakesStep, Taken

LEMMA CarriesTakes ==
  ASSUME NumberedInv, HasActiveOwner(coord), NEW h, Carries(Db, h), Write(h), NEW told,
         \A e \in Event : rows[e].status = "queued" /\ Live(h.rows[e])
                          => rows[e].req.result \notin told,
         MarkStored(coord.ownerGeneration, told),
         unsaved' \subseteq unsaved,
         phase' = "running" => phase = "running" /\ Keeps(Db, h)
  PROVE  TakesStep
<1>1. Step(h, {}, NoEvent, told)
  BY CarriesStep
<1>2. h.coord.ownerGeneration = coord.ownerGeneration
  BY DEF Carries, Db
<1>3. QED
  BY <1>1, <1>2, WriteTakes

\* The history write every call of a turn may begin with.
LEMMA WrittenMoves ==
  ASSUME Sound(Db), NEW told
  PROVE  LET d == InsertOwnedEvents(Db, told)
         IN  /\ Sound(d) /\ DbOK(d) /\ Wanes(Db, d) /\ Keeps(Db, d) /\ Carries(Db, d)
             /\ \A e \in Queued(d) : rows[e].req.result \notin told
             /\ d.coord.ownerGeneration = coord.ownerGeneration
             /\ \A e \in Event : d.rows[e].status = "none" => rows[e].status = "none"
<1> DEFINE d == InsertOwnedEvents(Db, told)
<1>1. /\ Sound(d) /\ DbOK(d) /\ Wanes(Db, d) /\ Keeps(Db, d)
      /\ \A e \in Queued(d) : Db.rows[e].req.result \notin told
  BY InsertEventsSound, InsertEventsWanes DEF Sound
<1>2. Db.rows = rows /\ Db.coord = coord /\ DbOK(Db)
  BY DEF Db, Sound
<1>3. ASSUME NEW e \in Event, d.rows[e].status = "none"
      PROVE  rows[e].status = "none"
  <2> DEFINE ends == {x \in QueuedPage(Db) : Db.rows[x].req.result \in told}
  <2>1. d.rows[e] = IF e \in ends THEN Marked(Db, "completed")[e] ELSE rows[e]
    BY <1>2 DEF InsertOwnedEvents, Dequeue
  <2>2. e \in ends => Marked(Db, "completed")[e].status = "completed"
    <3>1. e \in ends => rows[e] \in Admitted
      BY <1>2, AdmittedRow DEF QueuedPage, Queued
    <3>2. QED
      BY <1>2, <3>1 DEF Marked, Admitted
  <2>3. QED
    BY <1>3, <2>1, <2>2
<1> HIDE DEF d
<1>4. Carries(Db, d)
  BY <1>1, <1>2, WanesCarries
<1>5. d.coord.ownerGeneration = coord.ownerGeneration
  BY <1>2, <1>4 DEF Carries
<1>6. QED
  BY <1>1, <1>2, <1>4, <1>5, <1>3 DEF d

\* What wanes or carries on from d keeps the told results out of the queue.
LEMMA UntoldStays ==
  ASSUME NEW d, NEW told, \A e \in Queued(d) : rows[e].req.result \notin told,
         \A e \in Event : Fades(rows[e], d.rows[e]),
         NEW h, \A e \in Event : Fades(d.rows[e], h.rows[e]),
         NEW e \in Event, rows[e].status = "queued", Live(h.rows[e])
  PROVE  rows[e].req.result \notin told
<1>1. Live(d.rows[e])
  BY DEF Fades, Same, Ended, Live, NoRow, Terminal
<1>2. d.rows[e].status = "queued"
  BY <1>1 DEF Fades, Same, Ended, Live, NoRow, Terminal
<1>3. QED
  BY <1>2 DEF Queued


LEMMA AppendTakes ==
  ASSUME NumberedInv, NEW g, NEW told, AppendConversationEvent(g, told)
  PROVE  TakesStep
<1> DEFINE d == InsertOwnedEvents(Db, told)
<1>1. Sound(Db)
  BY InvSound DEF NumberedInv
<1>2. /\ g = coord.ownerGeneration /\ HasActiveOwner(coord)
      /\ Write(d) /\ MarkStored(g, told)
      /\ unsaved' \subseteq unsaved /\ phase' = phase
  BY DEF AppendConversationEvent, RunsTurn, RequireOwner, InTurn
<1>3. /\ Carries(Db, d) /\ Keeps(Db, d)
      /\ \A e \in Queued(d) : rows[e].req.result \notin told
  BY <1>1, WrittenMoves
<1> HIDE DEF d
<1>4. ASSUME NEW e \in Event, rows[e].status = "queued", Live(d.rows[e])
      PROVE  rows[e].req.result \notin told
  <2>1. Fades(rows[e], d.rows[e])
    BY <1>3 DEF Carries, Db
  <2>2. d.rows[e].status = "queued"
    BY <1>4, <2>1 DEF Fades, Same, Ended, Live, NoRow, Terminal
  <2>3. QED
    BY <1>3, <2>2 DEF Queued
<1>5. QED
  BY <1>2, <1>3, <1>4, CarriesTakes

LEMMA RenewTakes ==
  ASSUME NumberedInv, NEW g, RenewOwner(g)
  PROVE  TakesStep
<1>1. DbOK(Db)
  BY InvSound DEF NumberedInv, Sound
<1>2. /\ HasActiveOwner(coord) /\ Write(RenewHeldLease(Db))
      /\ UNCHANGED <<storedBy, unsaved, phase>>
  BY DEF RenewOwner, RunsTurn, RequireOwner
<1>3. Carries(Db, RenewHeldLease(Db)) /\ Keeps(Db, RenewHeldLease(Db))
  <2>1. Carries(Db, Db) /\ Keeps(Db, Db)
    BY <1>1, WanesStill, WanesCarries
  <2>2. QED
    BY <1>1, <2>1, RenewCarries
<1>4. QED
  BY <1>2, <1>3, NothingTold, CarriesTakes

LEMMA SettleTakes ==
  ASSUME NumberedInv, NEW g, NEW outcome \in {"completed", "failed"}, NEW told,
         Settle(g, outcome, told)
  PROVE  TakesStep
<1> DEFINE d == InsertOwnedEvents(Db, told)
           h == SettleAppliedEnvelopes(d, outcome)
<1>1. Sound(Db) /\ DbOK(Db)
  BY InvSound DEF NumberedInv, Sound
<1>2. /\ g = coord.ownerGeneration /\ HasActiveOwner(coord)
      /\ Write(h) /\ MarkStored(g, told)
      /\ unsaved' \subseteq unsaved /\ phase' = "settled"
  BY DEF Settle, RunsTurn, RequireOwner, InTurn
<1>3. /\ Sound(d) /\ Wanes(Db, d)
      /\ \A e \in Queued(d) : rows[e].req.result \notin told
  BY <1>1, WrittenMoves
<1> HIDE DEF d
<1>4. Sound(h) /\ DbOK(h) /\ Wanes(d, h)
  BY <1>3, SettleSound, SettleWanes DEF Sound
<1>5. phase' # "running"
  BY <1>2
<1> HIDE DEF h
<1>6. Carries(Db, h)
  BY <1>1, <1>3, <1>4, WanesOn, WanesCarries
<1>7. ASSUME NEW e \in Event, rows[e].status = "queued", Live(h.rows[e])
      PROVE  rows[e].req.result \notin told
  <2>1. \A x \in Event : Fades(rows[x], d.rows[x]) /\ Fades(d.rows[x], h.rows[x])
    BY <1>3, <1>4 DEF Wanes, Db
  <2>2. QED
    BY <1>3, <1>7, <2>1, UntoldStays
<1>8. QED
  BY <1>2, <1>5, <1>6, <1>7, CarriesTakes

LEMMA InterruptTakes ==
  ASSUME NumberedInv, NEW g, Interrupt(g)
  PROVE  TakesStep
<1> DEFINE h == SettleAppliedEnvelopes(Db, "failed")
<1>1. Sound(Db) /\ DbOK(Db)
  BY InvSound DEF NumberedInv, Sound
<1>2. /\ g = coord.ownerGeneration /\ HasActiveOwner(coord)
      /\ Write(h) /\ MarkStored(g, {})
      /\ unsaved' \subseteq unsaved /\ phase' # "running"
  BY DEF Interrupt, RunsTurn, RequireOwner, InTurn
<1>3. Wanes(Db, h)
  BY <1>1, SettleWanes
<1> HIDE DEF h
<1>4. Carries(Db, h)
  BY <1>1, <1>3, WanesCarries
<1>5. QED
  BY <1>2, <1>4, CarriesTakes

LEMMA ReleaseTakes ==
  ASSUME NumberedInv, NEW g, ReleaseOwner(g)
  PROVE  TakesStep
<1> DEFINE k == Cleared(coord)
           h == [coord |-> k, rows |-> rows]
<1>1. /\ coord' = h.coord /\ rows' = h.rows
      /\ UNCHANGED <<storedBy, unsaved, phase>>
  BY DEF ReleaseOwner
<1>2. coord \in Coordinator
  BY DEF NumberedInv, Inv, TypeOK
<1>3. /\ k.ownerEventId = NoEvent
      /\ k.ownerGeneration = coord.ownerGeneration
      /\ k.nextSequence = coord.nextSequence
  BY <1>2 DEF Cleared, Coordinator
<1>4. h.coord = k /\ h.rows = rows
  OBVIOUS
<1> HIDE DEF k, h
<1>5. TurnMoves(h.coord) /\ ~HasActiveOwner(h.coord)
  BY <1>3, <1>4 DEF TurnMoves, HasActiveOwner
<1>6. Step(h, {}, NoEvent, {})
  <2>1. \A e \in Event : Fades(rows[e], h.rows[e])
    BY <1>4 DEF Fades, Same
  <2>2. QED
    BY <1>3, <1>4, <1>5, <2>1, QuietStep
<1>7. UnsavedMoves(h, {}, NoEvent) /\ PhaseMoves(h)
  BY <1>1, <1>3, <1>4, <1>5 DEF UnsavedMoves, PhaseMoves
<1>8. MarkStored(coord.ownerGeneration, {})
  BY <1>1, NothingTold
<1>9. QED
  BY <1>1, <1>6, <1>7, <1>8 DEF TakesStep, Taken

\* The results of rows that join the turn.
LEMMA ResultsJoin ==
  ASSUME NEW d, NEW S, S \subseteq Event, NEW h,
         \A e \in S : h.rows[e].req = d.rows[e].req,
         NEW r \in ResultsOf(d, S)
  PROVE  r # NoResult /\ \E e \in S : h.rows[e].req.result = r
BY DEF ResultsOf

\* Steers that are claimed, with what was written before.
LEMMA ClaimTakes ==
  ASSUME NumberedInv, HasActiveOwner(coord), ~Stopped(Db, coord.ownerGeneration),
         coord.ownerEventId \in Event, phase # "settled",
         NEW d, Sound(d), Wanes(Db, d), Keeps(Db, d),
         d.rows[coord.ownerEventId].status = "none"
           => rows[coord.ownerEventId].status = "none",
         NEW told, \A e \in Queued(d) : rows[e].req.result \notin told,
         NEW textOnly \in BOOLEAN,
         Write(Claimed(d, Steers(d, textOnly))),
         MarkStored(coord.ownerGeneration, told),
         unsaved' = ResultsOf(d, Steers(d, textOnly)), UNCHANGED phase
  PROVE  TakesStep
<1> DEFINE S == Steers(d, textOnly)
           h == Claimed(d, S)
<1>1. Step(h, S, NoEvent, told) /\ Keeps(Db, h)
  BY ClaimStep
<1>2. S \subseteq Queued(Swept(d)) /\ S \subseteq Event
  BY SweptSound, SteersInPage DEF Queued
<1>3. Joined(d, S, h)
  <2>1. S \in SUBSET Queued(Swept(d))
    BY <1>2
  <2> HIDE DEF S
  <2>2. QED
    BY <2>1, ClaimedMoves
<1>4. \A e \in S : Swept(d).rows[e] = d.rows[e]
  <2> HIDE DEF S, h
  <2>1. Wanes(d, Swept(d))
    BY SweptWanes
  <2>2. \A e \in S : Swept(d).rows[e].status = "queued"
    BY <1>2 DEF Queued
  <2>3. QED
    BY <1>2, <2>1, <2>2 DEF Wanes
<1> HIDE DEF S, h
<1>5. \A e \in S : h.rows[e].req = d.rows[e].req
  BY <1>3, <1>4 DEF Joined
<1>6. \A r \in unsaved' : r # NoResult /\ \E e \in S : h.rows[e].req.result = r
  <2>1. unsaved' = ResultsOf(d, S)
    BY DEF S
  <2>2. QED
    BY <1>2, <1>5, <2>1, ResultsJoin
<1>7. h.coord.ownerGeneration = coord.ownerGeneration
  <2>1. DbOK(Db) /\ Db.coord = coord
    BY InvSound DEF NumberedInv, Sound, Db
  <2>2. d.coord.ownerGeneration = Db.coord.ownerGeneration
    BY <2>1, WanesOwner
  <2>3. QED
    BY <1>3, <2>1, <2>2 DEF Joined
<1>8. Write(h)
  BY DEF h, S
<1>9. QED
  BY <1>1, <1>6, <1>7, <1>8, WriteTakes

LEMMA BoundaryTakes ==
  ASSUME NumberedInv, NEW g, NEW told, NEW claim \in BOOLEAN, StepBoundary(g, told, claim)
  PROVE  TakesStep
<1> DEFINE d == InsertOwnedEvents(Db, told)
           steers == IF claim /\ ~Stopped(d, g) THEN Steers(d, FALSE) ELSE {}
           y == IF claim THEN Unclaimed(d) ELSE d
           h == CASE Stopped(d, g) -> d
                  [] steers # {}   -> Claimed(d, steers)
                  [] OTHER -> RenewHeldLease(y)
<1>1. Sound(Db) /\ DbOK(Db) /\ Db.rows = rows /\ Db.coord = coord
  BY InvSound DEF NumberedInv, Sound, Db
<1>2. /\ g = coord.ownerGeneration /\ HasActiveOwner(coord)
      /\ coord.ownerEventId \in Event /\ phase # "settled"
      /\ Write(h) /\ MarkStored(g, told)
      /\ unsaved' = ResultsOf(d, steers) /\ phase' = phase
  BY DEF StepBoundary, RunsTurn, RequireOwner, InTurn
<1>3. /\ Sound(d) /\ DbOK(d) /\ Wanes(Db, d) /\ Keeps(Db, d) /\ Carries(Db, d)
      /\ \A e \in Queued(d) : rows[e].req.result \notin told
      /\ \A e \in Event : d.rows[e].status = "none" => rows[e].status = "none"
  BY <1>1, WrittenMoves
<1> HIDE DEF d
<1>4. Stopped(d, g) = Stopped(Db, g)
  BY <1>3 DEF Carries, Stopped
<1>5. CASE steers # {}
  <2>1. steers = Steers(d, FALSE) /\ ~Stopped(d, g)
    BY <1>5
  <2>2. h = Claimed(d, Steers(d, FALSE)) /\ unsaved' = ResultsOf(d, Steers(d, FALSE))
    BY <1>2, <1>5, <2>1
  <2> HIDE DEF steers, h
  <2>3. QED
    BY <1>2, <1>3, <1>4, <2>1, <2>2, ClaimTakes
<1>6. CASE steers = {}
  <2>1. unsaved' \subseteq unsaved
    <3>1. ResultsOf(d, {}) = {}
      BY DEF ResultsOf
    <3>2. QED
      BY <1>2, <1>6, <3>1
  <2>2. /\ h \in {d, RenewHeldLease(y)}
        /\ y \in {d, Unclaimed(d)}
    BY <1>6
  <2>3. Carries(Db, y) /\ Keeps(Db, y) /\ DbOK(y)
    <3>1. DbOK(Unclaimed(d))
      BY <1>3, UnclaimedSound DEF Sound
    <3>2. Carries(Db, Unclaimed(d)) /\ Keeps(Db, Unclaimed(d))
      BY <1>1, <1>3, UnclaimedCarries
    <3> HIDE DEF y
    <3>3. QED
      BY <1>3, <2>2, <3>1, <3>2
  <2> HIDE DEF y, h
  <2>4. Carries(Db, h) /\ Keeps(Db, h)
    BY <1>3, <2>2, <2>3, RenewCarries
  <2>5. ASSUME NEW e \in Event, rows[e].status = "queued", Live(h.rows[e])
        PROVE  rows[e].req.result \notin told
    <3>1. h.rows[e].status = "queued"
      <4>1. Fades(rows[e], h.rows[e])
        BY <1>1, <2>4 DEF Carries
      <4>2. QED
        BY <2>5, <4>1 DEF Fades, Same, Ended, Live, NoRow, Terminal
    <3>2. e \in Queued(d)
      <4>1. d.rows[e].status = "queued"
        <5>1. CASE h = d
          BY <3>1, <5>1
        <5>2. CASE h = RenewHeldLease(y)
          <6>1. h.rows = y.rows
            <7>1. [y EXCEPT !.coord.lease = LeaseTtl].rows = y.rows
              BY <2>3, LeaseFields
            <7>2. QED
              BY <5>2, <7>1 DEF RenewHeldLease
          <6>2. y.rows[e].status = "queued" => d.rows[e].status = "queued"
            <7>1. Carries(d, Unclaimed(d)) /\ Carries(d, d)
              <8>1. Wanes(d, d) /\ Keeps(d, d)
                BY <1>3, WanesStill
              <8>2. QED
                BY <1>3, <8>1, UnclaimedCarries, WanesCarries
            <7>2. Carries(d, y)
              BY <2>2, <7>1
            <7>3. QED
              BY <7>2 DEF Carries
          <6>3. QED
            BY <3>1, <6>1, <6>2
        <5>3. QED
          BY <2>2, <5>1, <5>2
      <4>2. QED
        BY <4>1 DEF Queued
    <3>3. QED
      BY <1>3, <3>2
  <2>6. QED
    BY <1>2, <2>1, <2>4, <2>5, CarriesTakes
<1>7. QED
  BY <1>5, <1>6

LEMMA SteeringTakes ==
  ASSUME NumberedInv, NEW g, NEW textOnly \in BOOLEAN, ApplySteering(g, textOnly)
  PROVE  TakesStep
<1> DEFINE S == Steers(Db, textOnly)
<1>1. Sound(Db) /\ DbOK(Db) /\ Db.rows = rows /\ Db.coord = coord
  BY InvSound DEF NumberedInv, Sound, Db
<1>2. /\ g = coord.ownerGeneration /\ HasActiveOwner(coord)
      /\ coord.ownerEventId \in Event /\ phase # "settled"
      /\ Write(IF Stopped(Db, g) THEN Db ELSE ClaimSteering(Db, textOnly))
      /\ MarkStored(g, {})
      /\ unsaved' = ResultsOf(Db, IF Stopped(Db, g) THEN {} ELSE S)
      /\ phase' = phase
  BY DEF ApplySteering, RunsTurn, RequireOwner, InTurn
<1>3. ResultsOf(Db, {}) = {}
  BY DEF ResultsOf
<1>4. Wanes(Db, Db) /\ Keeps(Db, Db)
  BY <1>1, WanesStill
<1> HIDE DEF S
<1>5. CASE Stopped(Db, g)
  <2>1. Write(Db) /\ unsaved' \subseteq unsaved
    BY <1>2, <1>3, <1>5
  <2>2. Carries(Db, Db)
    BY <1>1, <1>4, WanesCarries
  <2>3. QED
    BY <1>2, <1>4, <2>1, <2>2, CarriesTakes
<1>6. CASE ~Stopped(Db, g) /\ S = {}
  <2>1. Write(Unclaimed(Db)) /\ unsaved' \subseteq unsaved
    BY <1>2, <1>3, <1>6 DEF ClaimSteering, S
  <2>2. Carries(Db, Unclaimed(Db)) /\ Keeps(Db, Unclaimed(Db))
    BY <1>1, <1>4, UnclaimedCarries
  <2>3. QED
    BY <1>2, <2>1, <2>2, CarriesTakes
<1>7. CASE ~Stopped(Db, g) /\ S # {}
  <2>1. Write(Claimed(Db, S)) /\ unsaved' = ResultsOf(Db, S)
    BY <1>2, <1>7 DEF ClaimSteering, S
  <2>2. QED
    BY <1>1, <1>2, <1>4, <1>7, <2>1, ClaimTakes DEF S
<1>8. QED
  BY <1>5, <1>6, <1>7


LEMMA TakeNextTakes ==
  ASSUME NumberedInv, NEW g, NEW outcome \in {"none", "completed", "failed"}, NEW told,
         TakeNext(g, outcome, told)
  PROVE  TakesStep
<1> DEFINE w == InsertOwnedEvents(Db, told)
           d == IF outcome \in Terminal THEN SettleAppliedEnvelopes(w, outcome) ELSE w
           page == QueuedPage(d)
           x == Swept(d)
           A == page \ Due(d, page)
           next == PromoteQueuedGroup(x, A, g + 1)
           freed == [x EXCEPT !.coord = [Cleared(@) EXCEPT !.ownerTaskId = NoTask]]
<1>1. Sound(Db) /\ DbOK(Db) /\ Db.rows = rows /\ Db.coord = coord
  BY InvSound DEF NumberedInv, Sound, Db
<1>2. /\ g = coord.ownerGeneration /\ HasActiveOwner(coord)
      /\ MarkStored(g, told)
      /\ (A # {} /\ Commit(next)) \/ (A = {} /\ Commit(freed))
  <2>1. RunsTurn(g) /\ MarkStored(g, told)
    BY DEF TakeNext
  <2>2. g = coord.ownerGeneration /\ HasActiveOwner(coord)
    BY <2>1 DEF RunsTurn, RequireOwner
  <2>3. (A # {} /\ Commit(next)) \/ (A = {} /\ Commit(freed))
    BY DEF TakeNext
  <2>4. QED
    BY <2>1, <2>2, <2>3
<1>3. /\ Sound(w) /\ DbOK(w) /\ Wanes(Db, w)
      /\ \A e \in Queued(w) : rows[e].req.result \notin told
  BY <1>1, WrittenMoves
<1> HIDE DEF w
<1>4. Sound(d) /\ DbOK(d) /\ Wanes(w, d)
  <2>1. outcome \in Terminal => outcome \in {"completed", "failed"}
    BY DEF Terminal
  <2>2. Wanes(w, w)
    BY <1>3, WanesStill
  <2>3. QED
    BY <1>3, <2>1, <2>2, SettleSound, SettleWanes DEF Sound
<1> HIDE DEF d
<1>5. Sound(x) /\ DbOK(x) /\ Wanes(d, x) /\ Queued(x) = A
  BY <1>4, SweptSound, SweptWanes DEF Sound
<1> HIDE DEF x, page, A
<1>6. Wanes(w, x)
  BY <1>3, <1>4, <1>5, WanesOn
<1>7. Wanes(Db, x)
  BY <1>1, <1>3, <1>5, <1>6, WanesOn
<1>8. /\ x.coord.ownerGeneration = coord.ownerGeneration
      /\ x.coord.nextSequence = coord.nextSequence
  <2>1. /\ x.coord.ownerGeneration = Db.coord.ownerGeneration
        /\ x.coord.nextSequence = Db.coord.nextSequence
    BY <1>1, <1>7, WanesOwner
  <2>2. QED
    BY <1>1, <2>1
<1>9. \A e \in Event : Fades(rows[e], x.rows[e])
  BY <1>1, <1>7 DEF Wanes
<1>10. \A e \in Event : rows[e].status = "queued" /\ Live(x.rows[e])
                        => rows[e].req.result \notin told
  <2>1. \A e \in Event : Fades(rows[e], w.rows[e]) /\ Fades(w.rows[e], x.rows[e])
    BY <1>1, <1>3, <1>6 DEF Wanes
  <2>2. QED
    BY <1>3, <2>1, UntoldStays
<1>11. CASE A # {} /\ Commit(next)
  <2>1. \A e \in A : rows[e].req.result \notin told
    <3>1. ASSUME NEW e \in A PROVE e \in Event /\ x.rows[e].status = "queued"
      BY <1>5, <3>1 DEF Queued
    <3>2. ASSUME NEW e \in A PROVE rows[e].status = "queued" /\ Live(x.rows[e])
      BY <1>1, <1>7, <3>1 DEF Wanes, Live
    <3>3. QED
      BY <1>10, <3>1, <3>2
  <2>2. next = PromoteQueuedGroup(x, A, coord.ownerGeneration + 1)
    BY <1>2
  <2> HIDE DEF next
  <2>3. Step(next, NextGroup(x, A), NoEvent, told)
    BY <1>5, <1>7, <1>8, <1>9, <1>11, <2>1, <2>2, PromoteStep
  <2>4. next.coord.ownerGeneration # coord.ownerGeneration
    <3>1. A \in SUBSET Event /\ \A e \in A : x.rows[e].status # "none"
      BY <1>5 DEF Queued
    <3>2. coord.ownerGeneration + 1 \in Nat
          /\ coord.ownerGeneration + 1 # coord.ownerGeneration
      BY <1>1 DEF DbOK, Coordinator
    <3>3. Promoted(x, A, coord.ownerGeneration + 1, next)
      BY <1>5, <1>11, <2>2, <3>1, <3>2, PromoteMoves
    <3>4. QED
      BY <3>2, <3>3 DEF Promoted
  <2>5. QED
    BY <1>2, <1>11, <2>3, <2>4, CommitTakes
<1>12. CASE A = {} /\ Commit(freed)
  <2>1. /\ freed.rows = x.rows
        /\ freed.coord = [Cleared(x.coord) EXCEPT !.ownerTaskId = NoTask]
    BY <1>5 DEF DbOK
  <2> HIDE DEF freed
  <2>2. /\ freed.coord.ownerEventId = NoEvent
        /\ freed.coord.ownerGeneration = coord.ownerGeneration
        /\ freed.coord.nextSequence = coord.nextSequence
    BY <1>5, <1>8, <2>1 DEF Cleared, DbOK, Coordinator
  <2>3. TurnMoves(freed.coord) /\ ~HasActiveOwner(freed.coord)
    BY <2>2 DEF TurnMoves, HasActiveOwner
  <2>4. Step(freed, {}, NoEvent, told)
    BY <1>9, <1>10, <2>1, <2>2, <2>3, QuietStep
  <2>5. QED
    BY <1>2, <1>12, <2>3, <2>4, CommitTakes
<1>13. QED
  BY <1>2, <1>11, <1>12

LEMMA NextTakes ==
  ASSUME NumberedInv, Next
  PROVE  TakesStep
<1>1. ASSUME Admission PROVE TakesStep
  <2>1. CASE AcquireClear
    BY <2>1, ClearTakes
  <2>2. ASSUME NEW q \in Requests,
               \/ AcceptAnswered(q) \/ AcceptRefused(q) \/ AcceptQueued(q) \/ AcceptOwner(q)
        PROVE  TakesStep
    BY <2>2, AcceptTakes
  <2>3. QED
    BY <1>1, <2>1, <2>2 DEF Admission
<1>2. ASSUME Worker PROVE TakesStep
  <2>1. PICK g \in 1 .. Len(turns) :
          \/ \E told \in SUBSET Result :
               \/ AppendConversationEvent(g, told)
               \/ \E claim \in BOOLEAN : StepBoundary(g, told, claim)
               \/ \E outcome \in {"completed", "failed"} : Settle(g, outcome, told)
               \/ \E outcome \in {"none", "completed", "failed"} :
                    TakeNext(g, outcome, told)
          \/ \E textOnly \in BOOLEAN : ApplySteering(g, textOnly)
          \/ RenewOwner(g)
          \/ Interrupt(g)
          \/ ReleaseOwner(g)
    BY <1>2 DEF Worker
  <2>2. ASSUME NEW told,
               \/ AppendConversationEvent(g, told)
               \/ \E claim \in BOOLEAN : StepBoundary(g, told, claim)
               \/ \E outcome \in {"completed", "failed"} : Settle(g, outcome, told)
               \/ \E outcome \in {"none", "completed", "failed"} :
                    TakeNext(g, outcome, told)
        PROVE  TakesStep
    BY <2>2, AppendTakes, BoundaryTakes, SettleTakes, TakeNextTakes
  <2>3. QED
    BY <2>1, <2>2, SteeringTakes, RenewTakes, InterruptTakes, ReleaseTakes
<1>3. QED
  BY <1>1, <1>2, StopTakes, MaintainTakes, SweepTakes, TickTakes DEF Next

-----------------------------------------------------------------------------
(* What follows of the shape of the steps.                                 *)

LEMMA InitNumbered == Init => NumberedInv
<1> SUFFICES ASSUME Init PROVE RowsOK(Db)
  BY InitInv DEF NumberedInv
<1>1. \A e \in Event : rows[e] = NoRow
  BY DEF Init
<1>2. coord.ownerGeneration = 0 /\ ~HasActiveOwner(coord)
  BY DEF Init, HasActiveOwner
<1>3. QED
  BY <1>1, <1>2 DEF RowsOK, NoRow, Db

\* The types a step needs.
LEMMA Numbers ==
  ASSUME NumberedInv
  PROVE  /\ coord.ownerGeneration \in Nat /\ coord.nextSequence \in Nat
         /\ RowsOK([coord |-> coord, bytes |-> queuedBytes, rows |-> rows])
         /\ \A e \in Event : /\ rows[e].generation \in Nat
                             /\ rows[e].sequence \in Nat
                             /\ rows[e].status \in Statuses
<1>1. DbOK(Db) /\ Db.rows = rows /\ Db.coord = coord
  BY InvSound DEF NumberedInv, Sound, Db
<1>2. coord.ownerGeneration \in Nat /\ coord.nextSequence \in Nat
  BY <1>1 DEF DbOK, Coordinator
<1>3. ASSUME NEW e \in Event
      PROVE  /\ rows[e].generation \in Nat
             /\ rows[e].sequence \in Nat
             /\ rows[e].status \in Statuses
  BY <1>1, RowNumbers DEF Row, Admitted, NoRow, Statuses
<1>4. QED
  BY <1>2, <1>3 DEF NumberedInv, Db

\* A row after the step, by how it got there.


LEMMA RowCases ==
  ASSUME NEW h, NEW S, NEW n, RowsMove(h, S, n), NEW e \in Event
  PROVE  \/ Same(rows[e], h.rows[e])
         \/ Ended(rows[e], h.rows[e])
         \/ h.rows[e] = NoRow
         \/ e \in S /\ Started(e, h)
         \/ e = n /\ Arrived(e, h)
BY DEF RowsMove, Fades

LEMMA NumberedStep ==
  ASSUME NumberedInv, [Next]_vars
  PROVE  NumberedInv'
<1>1. CASE UNCHANGED vars
  <2>1. Inv'
    BY <1>1, StepInv DEF NumberedInv
  <2>2. RowsOK(Db)'
    BY <1>1 DEF NumberedInv, RowsOK, Db, vars
  <2>3. QED
    BY <2>1, <2>2 DEF NumberedInv
<1>2. CASE Next
  <2>1. Inv'
    BY <1>2, StepInv DEF NumberedInv
  <2>2. PICK h, S, n, told : Taken(h, S, n, told)
    BY <1>2, NextTakes DEF TakesStep
  <2>3. /\ coord' = h.coord /\ rows' = h.rows
        /\ RowsMove(h, S, n) /\ TurnMoves(h.coord)
    BY <2>2 DEF Taken, Step
  <2>4. /\ coord.ownerGeneration \in Nat /\ coord.nextSequence \in Nat
        /\ \A e \in Event : rows[e].generation \in Nat /\ rows[e].sequence \in Nat
    BY Numbers
  <2>5. /\ h.coord.ownerGeneration \in {coord.ownerGeneration, coord.ownerGeneration + 1}
        /\ HasActiveOwner(h.coord) => h.coord.ownerGeneration # 0
        /\ h.coord.nextSequence \in {coord.nextSequence, coord.nextSequence + 1}
    BY <2>3, <2>4 DEF TurnMoves, NumberedInv, RowsOK, Db, RowsMove
  <2>6. ASSUME NEW e \in Event
        PROVE  /\ h.rows[e].generation <= h.coord.ownerGeneration
               /\ h.rows[e].status = "queued" => h.rows[e].generation = 0
               /\ h.rows[e].status = "processing" => h.rows[e].generation # 0
               /\ h.rows[e].status # "none" =>
                    \/ e # n /\ rows[e].status # "none"
                       /\ h.rows[e].sequence = rows[e].sequence
                    \/ e = n /\ h.rows[e].sequence = coord.nextSequence
    <3>1. /\ rows[e].generation <= coord.ownerGeneration
          /\ rows[e].status = "queued" => rows[e].generation = 0
          /\ rows[e].status = "processing" => rows[e].generation # 0
      BY DEF NumberedInv, RowsOK, Db
    <3>2. CASE e = n
      <4>1. Arrived(e, h)
        BY <2>3, <3>2 DEF RowsMove
      <4>2. QED
        BY <2>4, <2>5, <3>2, <4>1 DEF Arrived
    <3>3. CASE e # n /\ e \in S
      <4>1. Started(e, h) /\ rows[e].status = "queued"
        BY <2>3, <3>3 DEF RowsMove, Started
      <4>2. S # {} => HasActiveOwner(h.coord)
        BY <2>2 DEF Taken, Step, StartsRight
      <4>3. QED
        BY <2>4, <2>5, <3>3, <4>1, <4>2 DEF Started
    <3>4. CASE e # n /\ e \notin S
      <4>1. Fades(rows[e], h.rows[e])
        BY <2>3, <3>4 DEF RowsMove
      <4>2. CASE Same(rows[e], h.rows[e])
        BY <2>4, <2>5, <3>1, <3>4, <4>2 DEF Same
      <4>3. CASE Ended(rows[e], h.rows[e])
        BY <2>4, <2>5, <3>1, <3>4, <4>3 DEF Ended, Terminal, Live
      <4>4. CASE h.rows[e] = NoRow
        BY <2>4, <2>5, <4>4 DEF NoRow
      <4>5. QED
        BY <4>1, <4>2, <4>3, <4>4 DEF Fades
    <3>5. QED
      BY <3>2, <3>3, <3>4
  <2>7. \A e \in Event : rows[e].status # "none" => rows[e].sequence < coord.nextSequence
    BY DEF NumberedInv, RowsOK, Db
  <2>8. n \in Event => h.coord.nextSequence = coord.nextSequence + 1
    BY <2>3 DEF RowsMove
  <2>9. ASSUME NEW e \in Event, h.rows[e].status # "none"
        PROVE  h.rows[e].sequence < h.coord.nextSequence
    BY <2>4, <2>5, <2>6, <2>7, <2>8, <2>9
  <2>10. ASSUME NEW e \in Event, NEW f \in Event,
                h.rows[e].status # "none", h.rows[f].status # "none",
                h.rows[e].sequence = h.rows[f].sequence
         PROVE  e = f
    <3>1. rows[e].status # "none" /\ rows[f].status # "none"
          /\ rows[e].sequence = rows[f].sequence => e = f
      BY DEF NumberedInv, RowsOK, Db
    <3>2. QED
      BY <2>4, <2>6, <2>7, <2>10, <3>1
  <2>11. RowsOK(h)
    BY <2>5, <2>6, <2>9, <2>10 DEF RowsOK
  <2>12. RowsOK(Db)'
    BY <2>3, <2>11 DEF RowsOK, Db
  <2>13. QED
    BY <2>1, <2>12 DEF NumberedInv
<1>3. QED
  BY <1>1, <1>2

LEMMA NumberedHolds == Spec => []NumberedInv
BY InitNumbered, NumberedStep, PTL DEF Spec


LEMMA LivesOn ==
  ASSUME NEW h, NEW S, NEW n, RowsMove(h, S, n), NEW e \in Event, e # n,
         Live(h.rows[e])
  PROVE  /\ Live(rows[e]) /\ rows[e].req = h.rows[e].req
         /\ h.rows[e].status = "queued" => rows[e].status = "queued"
BY RowCases DEF Same, Ended, Started, Live, Terminal, NoRow

\* One resume of a result runs or waits: an admission meets the one that does
\* before it adds another, and no step makes an ended row live again.
THEOREM OneResume == Spec => []NoDoubleResume
<1>1. Init => NoDoubleResume
  BY DEF Init, NoDoubleResume, NoRow, Live
<1>2. ASSUME NumberedInv, NoDoubleResume, Next,
             NEW e \in Event, NEW f \in Event,
             Live(rows[e])', Live(rows[f])',
             rows'[e].req.result = rows'[f].req.result,
             rows'[e].req.result # NoResult
      PROVE  e = f
  <2>1. PICK h, S, n, told : Taken(h, S, n, told)
    BY <1>2, NextTakes DEF TakesStep
  <2>2. rows' = h.rows /\ RowsMove(h, S, n)
    BY <2>1 DEF Taken, Step
  <2>3. Live(h.rows[e]) /\ Live(h.rows[f])
    BY <1>2, <2>2 DEF Live
  <2>4. CASE e # n /\ f # n
    <3>1. /\ Live(rows[e]) /\ rows[e].req = h.rows[e].req
          /\ Live(rows[f]) /\ rows[f].req = h.rows[f].req
      BY <2>2, <2>3, <2>4, LivesOn
    <3>2. QED
      BY <1>2, <2>2, <3>1 DEF NoDoubleResume
  <2>5. ASSUME NEW x \in Event, NEW y \in Event, x = n, y # n,
               Live(h.rows[y]), h.rows[x].req.result = h.rows[y].req.result,
               h.rows[x].req.result # NoResult
        PROVE  FALSE
    <3>1. Live(rows[y]) /\ rows[y].req = h.rows[y].req
      BY <2>2, <2>5, LivesOn
    <3>2. ~LiveResumeOf(Db, h.rows[x].req.result)
      BY <2>2, <2>5 DEF RowsMove, Arrived
    <3>3. QED
      BY <2>5, <3>1, <3>2 DEF LiveResumeOf, Db
  <2>6. QED
    BY <1>2, <2>2, <2>3, <2>4, <2>5
<1>3. NumberedInv /\ NoDoubleResume /\ [Next]_vars => NoDoubleResume'
  <2>1. CASE UNCHANGED vars
    BY <2>1 DEF vars, NoDoubleResume, Live
  <2>2. ASSUME NumberedInv, NoDoubleResume, Next PROVE NoDoubleResume'
    <3>1. \A e, f \in Event :
            /\ Live(rows[e])' /\ Live(rows[f])'
            /\ rows'[e].req.result = rows'[f].req.result
            /\ rows'[e].req.result # NoResult
            => e = f
      BY <1>2, <2>2
    <3>2. QED
      BY <3>1 DEF NoDoubleResume
  <2>3. QED
    BY <2>1, <2>2
<1>4. QED
  BY <1>1, <1>3, NumberedHolds, PTL DEF Spec

\* A row that waits or starts after the step resumes nothing told yet.
LEMMA StillUntold ==
  ASSUME NumberedInv, ResumeToldOnce,
         NEW h, NEW S, NEW n, NEW told, Taken(h, S, n, told), NEW e \in Event,
         (h.rows[e].status = "queued" \/ e \in S) \/ e = n,
         h.rows[e].req.result # NoResult
  PROVE  storedBy'[h.rows[e].req.result] = 0
<1> DEFINE r == h.rows[e].req.result
<1>1. /\ RowsMove(h, S, n) /\ TellsRight(h, n, told)
      /\ MarkStored(coord.ownerGeneration, told)
  BY DEF Taken, Step
<1>2. storedBy[r] = 0 /\ r \notin told /\ h.rows[e].req \in Requests
  <2>1. CASE e = n
    BY <1>1, <2>1 DEF RowsMove, Arrived, TellsRight
  <2>2. CASE e # n
    <3>1. Live(h.rows[e])
      BY <1>1, <2>2 DEF RowsMove, Started, Live
    <3>2. /\ rows[e].status = "queued" /\ rows[e].req = h.rows[e].req
      <4>1. CASE e \in S
        BY <1>1, <4>1 DEF RowsMove, Started
      <4>2. CASE e \notin S
        BY <1>1, <2>2, <3>1, <4>2, LivesOn
      <4>3. QED
        BY <4>1, <4>2
    <3>3. storedBy[r] = 0
      BY <3>2 DEF ResumeToldOnce, Queued, Db
    <3>4. r \notin told
      BY <1>1, <2>2, <3>1, <3>2 DEF TellsRight
    <3>5. rows[e].req \in Requests
      BY <3>2, InvSound DEF NumberedInv, Inv, TypeOK, Row, Admitted, NoRow
    <3>6. QED
      BY <3>2, <3>3, <3>4, <3>5
  <2>3. QED
    BY <2>1, <2>2
<1>3. r \in Result
  BY <1>2, RequestsAssumption DEF Request
<1>4. QED
  BY <1>1, <1>2, <1>3 DEF MarkStored

\* A turn starts on no result another turn told: the write that tells it ends
\* the resume that waits, and the admission of a late one is answered.
THEOREM ToldOnce == Spec => []ResumeToldOnce
<1>1. Init => ResumeToldOnce
  BY DEF Init, ResumeToldOnce, Queued, Db, NoRow
<1>2. ASSUME NumberedInv, ResumeToldOnce, Next
      PROVE  /\ \A r \in unsaved' : storedBy'[r] \in {0, coord'.ownerGeneration}
             /\ \A e \in Event : rows'[e].status = "queued"
                                 /\ rows'[e].req.result # NoResult
                                 => storedBy'[rows'[e].req.result] = 0
  <2>1. PICK h, S, n, told : Taken(h, S, n, told)
    BY <1>2, NextTakes DEF TakesStep
  <2>2. /\ coord' = h.coord /\ rows' = h.rows
        /\ MarkStored(coord.ownerGeneration, told)
        /\ UnsavedMoves(h, S, n)
    BY <2>1 DEF Taken
  <2>3. unsaved \subseteq Result
    BY <1>2 DEF NumberedInv, Inv, TypeOK
  <2>4. ASSUME NEW r \in unsaved'
        PROVE  storedBy'[r] \in {0, coord'.ownerGeneration}
    <3>1. CASE h.coord.ownerGeneration = coord.ownerGeneration
               /\ unsaved' \subseteq unsaved
      <4>1. r \in Result /\ storedBy[r] \in {0, coord.ownerGeneration}
        BY <1>2, <2>3, <2>4, <3>1 DEF ResumeToldOnce
      <4>2. QED
        BY <2>2, <3>1, <4>1 DEF MarkStored
    <3>2. CASE \A x \in unsaved' :
                 /\ x # NoResult
                 /\ \E e \in (S \cup {n}) \cap Event : h.rows[e].req.result = x
      <4>1. PICK e \in Event : e \in S \cup {n} /\ h.rows[e].req.result = r
        BY <2>4, <3>2
      <4>2. r # NoResult
        BY <2>4, <3>2
      <4>3. storedBy'[r] = 0
        BY <1>2, <2>1, <4>1, <4>2, StillUntold
      <4>4. QED
        BY <4>3
    <3>3. QED
      BY <2>2, <3>1, <3>2 DEF UnsavedMoves
  <2>5. ASSUME NEW e \in Event, h.rows[e].status = "queued",
               h.rows[e].req.result # NoResult
        PROVE  storedBy'[h.rows[e].req.result] = 0
    BY <1>2, <2>1, <2>5, StillUntold
  <2>6. QED
    BY <2>2, <2>4, <2>5
<1>3. NumberedInv /\ ResumeToldOnce /\ [Next]_vars => ResumeToldOnce'
  <2>1. CASE UNCHANGED vars
    BY <2>1 DEF vars, ResumeToldOnce, Queued, Db
  <2>2. ASSUME NumberedInv, ResumeToldOnce, Next PROVE ResumeToldOnce'
    BY <1>2, <2>2 DEF ResumeToldOnce, Queued, Db
  <2>3. QED
    BY <2>1, <2>2
<1>4. QED
  BY <1>1, <1>3, NumberedHolds, PTL DEF Spec


\* While the turn goes on, what it holds was handed to it and still runs.
LEMMA TurnRunsOn ==
  ASSUME NumberedInv, LiveTurnKept,
         NEW h, NEW S, NEW n, NEW told, Taken(h, S, n, told),
         h.coord.ownerGeneration = coord.ownerGeneration,
         HasActiveOwner(h.coord), h.coord.ownerEventId \in Event,
         phase' = "running"
  PROVE  /\ h.rows[h.coord.ownerEventId].generation = h.coord.ownerGeneration
         /\ \A e \in Event : h.rows[e].generation = h.coord.ownerGeneration
                             => h.rows[e].status = "processing"
<1>1. RowsMove(h, S, n) /\ TurnMoves(h.coord) /\ PhaseMoves(h)
  BY DEF Taken, Step
<1>2. /\ coord.ownerGeneration \in Nat
      /\ HasActiveOwner(coord) => coord.ownerGeneration # 0
  BY Numbers DEF NumberedInv, RowsOK, Db
<1>3. HasActiveOwner(coord) /\ h.coord.ownerEventId = coord.ownerEventId
  BY <1>1, <1>2 DEF TurnMoves
<1>4. phase = "running" /\ Keeps(Db, h)
  BY <1>1 DEF PhaseMoves
<1>5. /\ rows[coord.ownerEventId].generation = coord.ownerGeneration
      /\ \A e \in Event : rows[e].generation = coord.ownerGeneration
                          => rows[e].status = "processing"
  BY <1>3, <1>4 DEF LiveTurnKept
<1>6. ASSUME NEW e \in Event, rows[e].generation = coord.ownerGeneration
      PROVE  Same(rows[e], h.rows[e])
  BY <1>3, <1>4, <1>5, <1>6 DEF Keeps, Db
<1>7. h.rows[h.coord.ownerEventId].generation = h.coord.ownerGeneration
  BY <1>3, <1>5, <1>6 DEF Same
<1>8. ASSUME NEW e \in Event, h.rows[e].generation = h.coord.ownerGeneration
      PROVE  h.rows[e].status = "processing"
  <2>1. CASE e = n
    BY <1>1, <1>2, <1>3, <1>8, <2>1 DEF RowsMove, Arrived
  <2>2. CASE e \in S
    BY <1>1, <2>2 DEF RowsMove, Started
  <2>3. CASE e # n /\ e \notin S
    <3>1. Fades(rows[e], h.rows[e])
      BY <1>1, <2>3 DEF RowsMove
    <3>2. rows[e].generation = coord.ownerGeneration
      BY <1>2, <1>3, <1>8, <3>1 DEF Fades, Same, Ended, NoRow
    <3>3. QED
      BY <1>5, <1>6, <3>2 DEF Same
  <2>4. QED
    BY <2>1, <2>2, <2>3
<1>9. QED
  BY <1>7, <1>8

\* A turn that begins runs all it holds: its number is new.
LEMMA TurnBegins ==
  ASSUME NumberedInv, NEW h, NEW S, NEW n, NEW told, Taken(h, S, n, told),
         h.coord.ownerGeneration # coord.ownerGeneration,
         h.coord.ownerEventId \in Event
  PROVE  /\ h.rows[h.coord.ownerEventId].generation = h.coord.ownerGeneration
         /\ \A e \in Event : h.rows[e].generation = h.coord.ownerGeneration
                             => h.rows[e].status = "processing"
<1>1. RowsMove(h, S, n) /\ TurnMoves(h.coord) /\ StartsRight(h, S, n)
  BY DEF Taken, Step
<1>2. /\ coord.ownerGeneration \in Nat
      /\ \A e \in Event : /\ rows[e].generation \in Nat
                          /\ rows[e].generation <= coord.ownerGeneration
  BY Numbers DEF NumberedInv, RowsOK, Db
<1>3. h.coord.ownerGeneration = coord.ownerGeneration + 1
  BY <1>1 DEF TurnMoves
<1>4. /\ h.coord.ownerEventId \in S \cup {n}
      /\ h.rows[h.coord.ownerEventId].status = "processing"
  BY <1>1 DEF StartsRight
<1>5. ASSUME NEW e \in S \cup {n}, e \in Event, h.rows[e].status = "processing"
      PROVE  h.rows[e].generation = h.coord.ownerGeneration
  BY <1>1, <1>5 DEF RowsMove, Started, Arrived
<1>6. ASSUME NEW e \in Event, h.rows[e].generation = h.coord.ownerGeneration
      PROVE  h.rows[e].status = "processing"
  <2>1. CASE e = n
    BY <1>1, <1>2, <1>3, <1>6, <2>1 DEF RowsMove, Arrived
  <2>2. CASE e \in S
    BY <1>1, <2>2 DEF RowsMove, Started
  <2>3. CASE e # n /\ e \notin S
    <3>1. Fades(rows[e], h.rows[e])
      BY <1>1, <2>3 DEF RowsMove
    <3>2. h.rows[e].generation \in {rows[e].generation, 0}
      BY <3>1 DEF Fades, Same, Ended, NoRow
    <3>3. QED
      BY <1>2, <1>3, <1>6, <3>2
  <2>4. QED
    BY <2>1, <2>2, <2>3
<1>7. QED
  BY <1>4, <1>5, <1>6

\* Under a live lease a worker that runs still has all it was handed: what ends
\* a row looks at the owner, its generation and its lease first.
THEOREM KeptWhileLive == Spec => []LiveTurnKept
<1>1. Init => LiveTurnKept
  BY DEF Init, LiveTurnKept, HasActiveOwner
<1>2. ASSUME NumberedInv, LiveTurnKept, Next,
             HasActiveOwner(coord)', coord'.ownerEventId \in Event,
             phase' = "running"
      PROVE  /\ rows'[coord'.ownerEventId].generation = coord'.ownerGeneration
             /\ \A e \in Event : rows'[e].generation = coord'.ownerGeneration
                                 => rows'[e].status = "processing"
  <2>1. PICK h, S, n, told : Taken(h, S, n, told)
    BY <1>2, NextTakes DEF TakesStep
  <2>2. coord' = h.coord /\ rows' = h.rows
    BY <2>1 DEF Taken
  <2>3. HasActiveOwner(h.coord)
    BY <1>2, <2>2 DEF HasActiveOwner
  <2>4. CASE h.coord.ownerGeneration = coord.ownerGeneration
    BY <1>2, <2>1, <2>2, <2>3, <2>4, TurnRunsOn
  <2>5. CASE h.coord.ownerGeneration # coord.ownerGeneration
    BY <1>2, <2>1, <2>2, <2>5, TurnBegins
  <2>6. QED
    BY <2>4, <2>5
<1>3. NumberedInv /\ LiveTurnKept /\ [Next]_vars => LiveTurnKept'
  <2>1. CASE UNCHANGED vars
    BY <2>1 DEF vars, LiveTurnKept, HasActiveOwner
  <2>2. ASSUME NumberedInv, LiveTurnKept, Next PROVE LiveTurnKept'
    BY <1>2, <2>2 DEF LiveTurnKept
  <2>3. QED
    BY <2>1, <2>2
<1>4. QED
  BY <1>1, <1>3, NumberedHolds, PTL DEF Spec

\* A stop request outlives the turn it stops, and keeps steers out of it: a
\* boundary looks for it before it claims, and no other step joins a turn.
THEOREM StopsAreHonoured == Spec => StopHonoured
<1>1. ASSUME NumberedInv, Next, HasActiveOwner(coord),
             coord.stopRequestedGeneration = coord.ownerGeneration,
             coord'.ownerGeneration = coord.ownerGeneration
      PROVE  /\ \A e \in Event : rows'[e].generation = coord.ownerGeneration
                                 => rows[e].generation = coord.ownerGeneration
             /\ HasActiveOwner(coord)'
                => coord'.stopRequestedGeneration = coord.ownerGeneration
  <2>1. PICK h, S, n, told : Taken(h, S, n, told)
    BY <1>1, NextTakes DEF TakesStep
  <2>2. /\ coord' = h.coord /\ rows' = h.rows
        /\ RowsMove(h, S, n) /\ TurnMoves(h.coord) /\ StartsRight(h, S, n)
    BY <2>1 DEF Taken, Step
  <2>3. coord.ownerGeneration \in Nat /\ coord.ownerGeneration # 0
    BY <1>1, Numbers DEF NumberedInv, RowsOK, Db
  <2>4. S = {}
    BY <1>1, <2>2 DEF StartsRight, Stopped, Db
  <2>5. ASSUME NEW e \in Event, h.rows[e].generation = coord.ownerGeneration
        PROVE  rows[e].generation = coord.ownerGeneration
    <3>1. e # n
      BY <1>1, <2>2, <2>3, <2>5 DEF RowsMove, Arrived
    <3>2. Fades(rows[e], h.rows[e])
      BY <2>2, <2>4, <3>1 DEF RowsMove
    <3>3. QED
      BY <2>3, <2>5, <3>2 DEF Fades, Same, Ended, NoRow
  <2>6. HasActiveOwner(coord)'
        => coord'.stopRequestedGeneration = coord.ownerGeneration
    BY <1>1, <2>2, <2>3 DEF TurnMoves, HasActiveOwner
  <2>7. QED
    BY <2>2, <2>5, <2>6
<1>2. NumberedInv /\ [Next]_vars =>
        [/\ HasActiveOwner(coord)
         /\ coord.stopRequestedGeneration = coord.ownerGeneration
         /\ coord'.ownerGeneration = coord.ownerGeneration
         => /\ \A e \in Event : rows'[e].generation = coord.ownerGeneration
                                 => rows[e].generation = coord.ownerGeneration
            /\ HasActiveOwner(coord')
               => coord'.stopRequestedGeneration = coord.ownerGeneration]_vars
  BY <1>1 DEF HasActiveOwner
<1>3. QED
  BY <1>2, NumberedHolds, PTL DEF Spec, StopHonoured

\* Rows start from the head of the queue, whichever of the four paths starts
\* them.
THEOREM NothingOvertakes == Spec => Fifo
<1>1. ASSUME NumberedInv, Next, NEW e \in Event, NEW f \in Event, Overtakes(e, f)
      PROVE  FALSE
  <2>1. PICK h, S, n, told : Taken(h, S, n, told)
    BY <1>1, NextTakes DEF TakesStep
  <2>2. rows' = h.rows /\ RowsMove(h, S, n) /\ StartsRight(h, S, n)
    BY <2>1 DEF Taken, Step
  <2>3. /\ rows[e].generation = 0 /\ h.rows[e].status = "processing"
        /\ rows[f].status = "queued" /\ h.rows[f].status = "queued"
        /\ rows[f].sequence < h.rows[e].sequence
    BY <1>1, <2>2 DEF Overtakes
  <2>4. rows[e].status # "processing"
    BY <1>1, <2>3 DEF NumberedInv, RowsOK, Db
  <2>5. e \in S \cup {n}
    BY <2>2, <2>3, <2>4 DEF RowsMove, Fades, Same, Ended, Terminal, NoRow
  <2>6. QED
    BY <2>2, <2>3, <2>5 DEF StartsRight
<1>2. NumberedInv /\ [Next]_vars => [\A e, f \in Event : ~Overtakes(e, f)]_vars
  BY <1>1
<1>3. QED
  BY <1>2, NumberedHolds, PTL DEF Spec, Fifo

\* A control for a task that is over leaves no row and starts no turn, though
\* it lands behind a lapsed owner with work queued.
THEOREM LateControlsAreRefused == Spec => LateControlsMiss
<1>1. ASSUME NumberedInv, Next, NEW e \in Event,
             rows[e].status = "none", rows'[e].status # "none",
             rows'[e].req.activeOwnerOnly
      PROVE  /\ HasActiveOwner(coord)
             /\ coord'.ownerGeneration = coord.ownerGeneration
             /\ rows'[e].req.expectedTask \in {NoTask, coord.ownerTaskId}
  <2>1. PICK h, S, n, told : Taken(h, S, n, told)
    BY <1>1, NextTakes DEF TakesStep
  <2>2. coord' = h.coord /\ rows' = h.rows /\ RowsMove(h, S, n)
    BY <2>1 DEF Taken, Step
  <2>3. e = n
    BY <1>1, <2>2, RowCases DEF Same, Ended, Started, Live, NoRow
  <2>4. QED
    BY <1>1, <2>2, <2>3 DEF RowsMove, Arrived
<1>2. NumberedInv /\ [Next]_vars =>
        [\A e \in Event :
           rows[e].status = "none" /\ rows'[e].status # "none"
           /\ rows'[e].req.activeOwnerOnly
           => /\ HasActiveOwner(coord)
              /\ coord'.ownerGeneration = coord.ownerGeneration
              /\ rows'[e].req.expectedTask \in {NoTask, coord.ownerTaskId}]_vars
  BY <1>1
<1>3. QED
  BY <1>2, NumberedHolds, PTL DEF Spec, LateControlsMiss


\* Every step of the coordinator is a step of the promise of numbered turns:
\* leases, counters, queues and retries never show a message in two turns, nor
\* a turn that takes a lapsed conversation back.
THEOREM CoordinatorImplementsTurns == Spec => ImplementsTurns
<1>1. Init => Turns!Init
  BY DEF Init, NoRow, HasActiveOwner, Turns!Init
<1>2. ASSUME NumberedInv, Next PROVE Turns!Next
  <2>1. PICK h, S, n, told : Taken(h, S, n, told)
    BY <1>2, NextTakes DEF TakesStep
  <2>2. /\ coord' = h.coord /\ rows' = h.rows
        /\ RowsMove(h, S, n) /\ TurnMoves(h.coord) /\ StartsRight(h, S, n)
    BY <2>1 DEF Taken, Step
  <2>3. coord.ownerGeneration \in Nat
        /\ \A e \in Event : rows[e].status \in Statuses
    BY <1>2, Numbers
  <2>4. Turns!Begin \/ Turns!Carry
    BY <2>2 DEF TurnMoves, HasActiveOwner, Turns!Begin, Turns!Carry
  <2>5. ASSUME NEW e \in Event
        PROVE  \/ Turns!Stay(e) \/ Turns!Submit(e) \/ Turns!Run(e)
               \/ Turns!End(e) \/ Turns!Leave(e)
    <3>1. CASE Same(rows[e], h.rows[e])
      BY <2>2, <3>1 DEF Same, Turns!Stay
    <3>2. CASE Ended(rows[e], h.rows[e])
      BY <2>2, <3>2 DEF Ended, Live, Terminal, Turns!End
    <3>3. CASE h.rows[e] = NoRow
      BY <2>2, <3>3 DEF NoRow, Turns!Leave
    <3>4. CASE e \in S /\ Started(e, h)
      <4>1. HasActiveOwner(h.coord)
        BY <2>2, <3>4 DEF StartsRight
      <4>2. QED
        BY <2>2, <3>4, <4>1 DEF Started, HasActiveOwner, Turns!Run
    <3>5. CASE e = n /\ Arrived(e, h)
      <4>1. CASE h.rows[e].status = "queued" /\ h.rows[e].generation = 0
        BY <2>2, <2>3, <3>5, <4>1 DEF Arrived, Live, Statuses, Turns!Submit
      <4>2. CASE /\ h.rows[e].status = "processing"
                 /\ h.rows[e].generation = h.coord.ownerGeneration
                 /\ h.coord.ownerGeneration = coord.ownerGeneration + 1
        <5>1. HasActiveOwner(h.coord)
          BY <2>2, <2>3, <4>2 DEF TurnMoves
        <5>2. QED
          BY <2>2, <2>3, <3>5, <4>2, <5>1
             DEF Arrived, Live, Statuses, HasActiveOwner, Turns!Run
      <4>3. QED
        BY <3>5, <4>1, <4>2 DEF Arrived
    <3>6. QED
      BY <2>2, <3>1, <3>2, <3>3, <3>4, <3>5, RowCases
  <2>6. QED
    BY <2>4, <2>5 DEF Turns!Next
<1>3. UNCHANGED vars => UNCHANGED Turns!vars
  BY DEF vars, Turns!vars, HasActiveOwner
<1>4. NumberedInv /\ [Next]_vars => [Turns!Next]_Turns!vars
  BY <1>2, <1>3
<1>5. QED
  BY <1>1, <1>4, NumberedHolds, PTL DEF Spec, ImplementsTurns, Turns!Spec



\* An interrupted turn still has its own row: nobody resumed the same result
\* again under its lease, which gives a failed resume's row back.
InterruptedKept ==
  HasActiveOwner(coord) /\ coord.ownerEventId \in Event /\ phase = "interrupted"
  => rows[coord.ownerEventId].generation = coord.ownerGeneration

\* What two rows of one turn have to do with each other.
Agree(a, b, e, f) ==
  /\ a.status = "processing" /\ b.status = "processing"
  /\ a.generation = b.generation
  => /\ a.req.sender = b.req.sender
     /\ b.appliedTo = e /\ e # f
        => b.req.mode = "steer" \/ (a.req.mode = "collect" /\ b.req.mode = "collect")

\* The rows of the turn that holds the conversation are its owner's, and its
\* sender's as long as the owner's row is of that turn.
OwnersRows(d) ==
  HasActiveOwner(d.coord) /\ d.coord.ownerEventId \in Event =>
    \A e \in Event :
      /\ d.rows[e].status = "processing"
      /\ d.rows[e].generation = d.coord.ownerGeneration
      => /\ d.rows[e].appliedTo = d.coord.ownerEventId
         /\ d.rows[d.coord.ownerEventId].generation = d.coord.ownerGeneration
            => d.rows[e].req.sender = d.rows[d.coord.ownerEventId].req.sender

SendersInv == OwnersRows(Db) /\ TurnsAreOneSenders

LEMMA SendersAgree ==
  TurnsAreOneSenders <=> \A e, f \in Event : Agree(rows[e], rows[f], e, f)
BY DEF TurnsAreOneSenders, Agree

\* A row that processes after the step did before, or started with it.
LEMMA ProcessingCases ==
  ASSUME NumberedInv, NEW h, NEW S, NEW n, NEW told, Taken(h, S, n, told),
         NEW e \in Event, h.rows[e].status = "processing"
  PROVE  \/ /\ Same(rows[e], h.rows[e]) /\ rows[e].status = "processing"
            /\ rows[e].generation \in 1 .. coord.ownerGeneration
         \/ /\ e \in S \cup {n}
            /\ h.rows[e].generation = h.coord.ownerGeneration
            /\ h.rows[e].appliedTo = h.coord.ownerEventId
            /\ h.coord.ownerGeneration = coord.ownerGeneration => e \in S
<1>1. RowsMove(h, S, n)
  BY DEF Taken, Step
<1>2. CASE e \in S
  BY <1>1, <1>2 DEF RowsMove, Started
<1>3. CASE e = n
  <2>1. coord.ownerGeneration \in Nat
    BY Numbers
  <2>2. QED
    BY <1>1, <1>3, <2>1 DEF RowsMove, Arrived
<1>4. CASE e \notin S /\ e # n
  <2>1. Fades(rows[e], h.rows[e])
    BY <1>1, <1>4 DEF RowsMove
  <2>2. Same(rows[e], h.rows[e]) /\ rows[e].status = "processing"
    BY <2>1 DEF Fades, Same, Ended, Terminal, NoRow
  <2>3. /\ coord.ownerGeneration \in Nat /\ rows[e].generation \in Nat
        /\ rows[e].generation <= coord.ownerGeneration
        /\ rows[e].generation # 0
    BY <2>2, Numbers DEF NumberedInv, RowsOK, Db
  <2>4. QED
    BY <2>2, <2>3
<1>5. QED
  BY <1>2, <1>3, <1>4

\* The owner's row of a turn that goes on was its own before the step.
LEMMA OwnersRowBefore ==
  ASSUME NumberedInv, NEW h, NEW S, NEW n, NEW told, Taken(h, S, n, told),
         h.coord.ownerGeneration = coord.ownerGeneration,
         coord.ownerGeneration # 0, NEW o \in Event,
         h.rows[o].generation = coord.ownerGeneration, o \notin S
  PROVE  /\ rows[o].generation = coord.ownerGeneration
         /\ h.rows[o].req = rows[o].req
<1>1. RowsMove(h, S, n) /\ coord.ownerGeneration \in Nat
  BY Numbers DEF Taken, Step
<1>2. o # n
  BY <1>1 DEF RowsMove, Arrived
<1>3. Fades(rows[o], h.rows[o])
  BY <1>1, <1>2 DEF RowsMove
<1>4. QED
  BY <1>3 DEF Fades, Same, Ended, NoRow

\* What joins a turn finds the owner's row in it, and steers for its sender.
LEMMA JoinsOwner ==
  ASSUME NumberedInv, LiveTurnKept, InterruptedKept,
         NEW h, NEW S, NEW n, NEW told, Taken(h, S, n, told),
         h.coord.ownerGeneration = coord.ownerGeneration, NEW e \in S
  PROVE  /\ HasActiveOwner(coord) /\ coord.ownerEventId \in Event
         /\ h.coord.ownerEventId = coord.ownerEventId
         /\ rows[coord.ownerEventId].generation = coord.ownerGeneration
         /\ coord.ownerGeneration # 0
         /\ coord.ownerEventId \notin S
         /\ h.rows[e].req.mode = "steer"
         /\ h.rows[e].req.sender = rows[coord.ownerEventId].req.sender
<1>1. /\ RowsMove(h, S, n) /\ TurnMoves(h.coord)
      /\ StartsRight(h, S, n) /\ StartsAlike(h, S, n)
  BY DEF Taken, Step
<1>2. coord.ownerGeneration \in Nat
  BY Numbers
<1>3. /\ HasActiveOwner(coord) /\ h.coord.ownerEventId = coord.ownerEventId
  BY <1>1, <1>2 DEF StartsRight, TurnMoves
<1>4. /\ phase # "settled" /\ coord.ownerEventId \in Event
      /\ h.rows[e].req.mode = "steer"
      /\ rows[coord.ownerEventId].status # "none"
         => h.rows[e].req.sender = rows[coord.ownerEventId].req.sender
  BY <1>1 DEF StartsAlike
<1>5. phase \in {"running", "interrupted"}
  BY <1>4 DEF NumberedInv, Inv, TypeOK
<1>6. rows[coord.ownerEventId].generation = coord.ownerGeneration
  BY <1>3, <1>4, <1>5 DEF LiveTurnKept, InterruptedKept
<1>7. coord.ownerGeneration # 0
  BY <1>3 DEF NumberedInv, RowsOK, Db
<1>8. rows[coord.ownerEventId].status \notin {"none", "queued"}
  <2>1. rows[coord.ownerEventId] \in Row
    BY <1>4 DEF NumberedInv, Inv, TypeOK
  <2>2. rows[coord.ownerEventId].status = "none"
        => rows[coord.ownerEventId].generation = 0
    BY <2>1 DEF Row, Admitted, NoRow
  <2>3. rows[coord.ownerEventId].status = "queued"
        => rows[coord.ownerEventId].generation = 0
    BY <1>4 DEF NumberedInv, RowsOK, Db
  <2>4. QED
    BY <1>6, <1>7, <2>2, <2>3
<1>9. coord.ownerEventId \notin S
  BY <1>1, <1>8 DEF RowsMove, Started
<1>10. QED
  BY <1>3, <1>4, <1>6, <1>7, <1>8, <1>9


\* Any two rows that process after a step agree, wherever they come from.
LEMMA RowsAgree ==
  ASSUME NumberedInv, LiveTurnKept, InterruptedKept, SendersInv,
         NEW h, NEW S, NEW n, NEW told, Taken(h, S, n, told),
         NEW e \in Event, NEW f \in Event
  PROVE  Agree(h.rows[e], h.rows[f], e, f)
<1> SUFFICES ASSUME h.rows[e].status = "processing", h.rows[f].status = "processing",
                    h.rows[e].generation = h.rows[f].generation, e # f
             PROVE  /\ h.rows[e].req.sender = h.rows[f].req.sender
                    /\ h.rows[f].appliedTo = e
                       => \/ h.rows[f].req.mode = "steer"
                          \/ h.rows[e].req.mode = "collect" /\ h.rows[f].req.mode = "collect"
  BY DEF Agree
<1> DEFINE gen == coord.ownerGeneration
           Old(x) == /\ Same(rows[x], h.rows[x]) /\ rows[x].status = "processing"
                     /\ rows[x].generation \in 1 .. gen
           New(x) == /\ x \in S \cup {n}
                     /\ h.rows[x].generation = h.coord.ownerGeneration
                     /\ h.rows[x].appliedTo = h.coord.ownerEventId
                     /\ h.coord.ownerGeneration = gen => x \in S
<1>1. /\ Old(e) \/ New(e)
      /\ Old(f) \/ New(f)
  BY ProcessingCases
<1>2. gen \in Nat /\ h.coord.ownerGeneration \in {gen, gen + 1}
  BY Numbers DEF Taken, Step, TurnMoves
<1>3. CASE Old(e) /\ Old(f)
  <2>1. Agree(rows[e], rows[f], e, f)
    BY SendersAgree DEF SendersInv
  <2>2. QED
    BY <1>3, <2>1 DEF Agree, Same
<1>4. CASE New(e) /\ New(f) /\ h.coord.ownerGeneration # gen
  <2>1. Alike(h.rows[e].req, h.rows[f].req)
    BY <1>4 DEF Taken, Step, StartsAlike
  <2>2. QED
    BY <2>1 DEF Alike
<1>5. CASE New(e) /\ New(f) /\ h.coord.ownerGeneration = gen
  <2>1. ASSUME NEW x \in S
        PROVE  /\ h.rows[x].req.mode = "steer"
               /\ h.rows[x].req.sender = rows[coord.ownerEventId].req.sender
    BY <1>5, JoinsOwner
  <2>2. QED
    BY <1>5, <2>1
<1>6. ASSUME NEW x \in Event, NEW y \in Event, Old(x), New(y),
             h.rows[x].generation = h.rows[y].generation
      PROVE  /\ h.rows[y].req.mode = "steer" /\ y \in S
             /\ h.rows[x].req.sender = h.rows[y].req.sender
             /\ h.rows[x].appliedTo \notin S
  <2>1. /\ h.rows[x].generation = rows[x].generation
        /\ h.rows[x].req = rows[x].req /\ h.rows[x].appliedTo = rows[x].appliedTo
    BY <1>6 DEF Same
  <2>2. h.coord.ownerGeneration = gen /\ rows[x].generation = gen
    BY <1>2, <1>6, <2>1
  <2>3. y \in S
    BY <1>6, <2>2
  <2>4. /\ HasActiveOwner(coord) /\ coord.ownerEventId \in Event
        /\ rows[coord.ownerEventId].generation = gen
        /\ coord.ownerEventId \notin S
        /\ h.rows[y].req.mode = "steer"
        /\ h.rows[y].req.sender = rows[coord.ownerEventId].req.sender
    BY <2>2, <2>3, JoinsOwner
  <2>5. /\ rows[x].appliedTo = coord.ownerEventId
        /\ rows[x].req.sender = rows[coord.ownerEventId].req.sender
    BY <1>6, <2>2, <2>4 DEF SendersInv, OwnersRows, Db
  <2>6. QED
    BY <2>1, <2>3, <2>4, <2>5
<1> HIDE DEF gen
<1>7. CASE Old(e) /\ New(f)
  BY <1>6, <1>7
<1>8. CASE New(e) /\ Old(f)
  BY <1>6, <1>8
<1>9. QED
  BY <1>1, <1>3, <1>4, <1>5, <1>7, <1>8

\* The turn that holds the conversation holds its owner's rows only.
LEMMA OwnersAgree ==
  ASSUME NumberedInv, LiveTurnKept, InterruptedKept, SendersInv,
         NEW h, NEW S, NEW n, NEW told, Taken(h, S, n, told)
  PROVE  OwnersRows(h)
<1> DEFINE gen == coord.ownerGeneration
           o == h.coord.ownerEventId
<1> SUFFICES ASSUME HasActiveOwner(h.coord), o \in Event, NEW e \in Event,
                    h.rows[e].status = "processing",
                    h.rows[e].generation = h.coord.ownerGeneration
             PROVE  /\ h.rows[e].appliedTo = o
                    /\ h.rows[o].generation = h.coord.ownerGeneration
                       => h.rows[e].req.sender = h.rows[o].req.sender
  BY DEF OwnersRows
<1>1. /\ RowsMove(h, S, n) /\ TurnMoves(h.coord)
      /\ StartsRight(h, S, n) /\ StartsAlike(h, S, n)
  BY DEF Taken, Step
<1>2. gen \in Nat /\ h.coord.ownerGeneration \in {gen, gen + 1}
  BY <1>1, Numbers DEF TurnMoves
<1>3. CASE h.coord.ownerGeneration # gen
  <2>1. ASSUME NEW x \in Event, h.rows[x].status = "processing",
               h.rows[x].generation = h.coord.ownerGeneration
        PROVE  x \in S \cup {n} /\ h.rows[x].appliedTo = o
    <3>1. ~(Same(rows[x], h.rows[x]) /\ rows[x].generation \in 1 .. gen)
      BY <1>2, <1>3, <2>1 DEF Same
    <3>2. QED
      BY <2>1, <3>1, ProcessingCases
  <2>2. o \in S \cup {n} /\ h.rows[o].status = "processing"
    BY <1>1, <1>3 DEF StartsRight
  <2>3. e = o \/ Alike(h.rows[e].req, h.rows[o].req)
    BY <1>1, <1>3, <2>1, <2>2 DEF StartsAlike
  <2>4. QED
    BY <2>1, <2>3 DEF Alike
<1>4. CASE h.coord.ownerGeneration = gen
  <2>1. /\ HasActiveOwner(coord) /\ o = coord.ownerEventId /\ gen # 0
    BY <1>1, <1>2, <1>4 DEF TurnMoves, NumberedInv, RowsOK, Db
  <2>2. CASE e \in S
    <3>1. /\ rows[o].generation = gen /\ o \notin S
          /\ h.rows[e].req.sender = rows[o].req.sender
      BY <1>4, <2>1, <2>2, JoinsOwner
    <3>2. h.rows[e].appliedTo = o
      BY <1>1, <2>2 DEF RowsMove, Started
    <3>3. h.rows[o].generation = gen => h.rows[o].req = rows[o].req
      BY <1>4, <2>1, <3>1, OwnersRowBefore
    <3>4. QED
      BY <1>4, <3>1, <3>2, <3>3
  <2>3. CASE e \notin S
    <3>1. /\ Same(rows[e], h.rows[e]) /\ rows[e].status = "processing"
          /\ rows[e].generation = gen
      BY <1>4, <2>3, ProcessingCases DEF Same
    <3>2. /\ rows[e].appliedTo = o
          /\ rows[o].generation = gen => rows[e].req.sender = rows[o].req.sender
      BY <2>1, <3>1 DEF SendersInv, OwnersRows, Db
    <3>3. h.rows[e].appliedTo = o /\ h.rows[e].req = rows[e].req
      BY <3>1, <3>2 DEF Same
    <3>4. ASSUME h.rows[o].generation = gen
          PROVE  rows[o].generation = gen /\ h.rows[o].req = rows[o].req
      <4>1. o \notin S
        <5>1. ASSUME o \in S PROVE rows[o].generation = gen /\ o \notin S
          BY <1>4, <2>1, <5>1, JoinsOwner
        <5>2. QED
          BY <5>1
      <4>2. QED
        BY <1>4, <2>1, <3>4, <4>1, OwnersRowBefore
    <3>5. QED
      BY <1>4, <3>2, <3>3, <3>4
  <2>4. QED
    BY <2>2, <2>3
<1>5. QED
  BY <1>3, <1>4

\* One turn runs one person's messages, and merges only what asked for it, as
\* long as an interrupted turn keeps its own row: the sender a boundary
\* compares steers with is read from it.
THEOREM OneSenderPerTurn == Spec /\ []InterruptedKept => []TurnsAreOneSenders
<1>1. Init => SendersInv
  BY DEF Init, SendersInv, OwnersRows, TurnsAreOneSenders, NoRow, Db
<1>2. ASSUME NumberedInv, LiveTurnKept, InterruptedKept, SendersInv, Next
      PROVE  SendersInv'
  <2>1. PICK h, S, n, told : Taken(h, S, n, told)
    BY <1>2, NextTakes DEF TakesStep
  <2>2. coord' = h.coord /\ rows' = h.rows
    BY <2>1 DEF Taken
  <2>3. OwnersRows(Db)'
    <3>1. OwnersRows(h)
      BY <1>2, <2>1, OwnersAgree
    <3>2. QED
      BY <2>2, <3>1 DEF OwnersRows, Db, HasActiveOwner
  <2>4. TurnsAreOneSenders'
    <3>1. \A e, f \in Event : Agree(h.rows[e], h.rows[f], e, f)
      BY <1>2, <2>1, RowsAgree
    <3>2. QED
      BY <2>2, <3>1 DEF TurnsAreOneSenders, Agree
  <2>5. QED
    BY <2>3, <2>4 DEF SendersInv
<1>3. NumberedInv /\ LiveTurnKept /\ InterruptedKept /\ SendersInv /\ [Next]_vars
      => SendersInv'
  <2>1. CASE UNCHANGED vars
    BY <2>1 DEF vars, SendersInv, OwnersRows, TurnsAreOneSenders, Db, HasActiveOwner
  <2>2. QED
    BY <1>2, <2>1
<1>4. SendersInv => TurnsAreOneSenders
  BY DEF SendersInv
<1>5. QED
  BY <1>1, <1>3, <1>4, NumberedHolds, KeptWhileLive, PTL DEF Spec

=============================================================================
