------------------------- MODULE IngressOwnerProofs -------------------------
(***************************************************************************)
(* What the coordinator promises as long as the owner's row is where the    *)
(* owner is: its counters are exact, a turn is one sender's, and a turn      *)
(* decides its own rows.  For every set of requests and every bound, and     *)
(* without a condition where no late result comes back.                     *)
(*                                                                         *)
(* queuedBytes is a sum over the queue.  The first part says what such a sum *)
(* is, by a least set without one; the second follows the queue and its two *)
(* counters through every operator a transaction is composed of; the third   *)
(* follows the owner's row and the time the queued rows are kept; the last   *)
(* two the outcomes a step gives, and the clocks of what runs.              *)
(***************************************************************************)
EXTENDS IngressProofs

-----------------------------------------------------------------------------
(* Sums over finite sets.                                                  *)

\* g gives every subset of A the sum of its elements' weights.
Adds(g, A, w) ==
  /\ g \in [SUBSET A -> Nat]
  /\ g[{}] = 0
  /\ \A x \in A : g[{x}] = w[x]
  /\ \A S, T \in SUBSET A : S \cap T = {} => g[S \cup T] = g[S] + g[T]

\* F sums by taking one element away at a time.
Rule(F, S, w) ==
  F = [s \in SUBSET S |->
         IF s = {} THEN 0
         ELSE w[CHOOSE x \in s : TRUE] + F[s \ {CHOOSE x \in s : TRUE}]]

\* Every finite set has a sum, whatever its elements weigh.
LEMMA SumExists ==
  ASSUME NEW A, IsFiniteSet(A), NEW w \in [A -> Nat]
  PROVE  \E g : Adds(g, A, w)
<1> DEFINE Bad == {B \in SUBSET A : ~ \E g : Adds(g, B, w)}
<1> SUFFICES ASSUME Bad # {} PROVE FALSE
  OBVIOUS
<1>1. FiniteSubsetsOf(A) = SUBSET A
  BY FS_FiniteSubsetsOfFinite
<1>2. IsWellFoundedOn(StrictSubsetOrdering(A), SUBSET A)
  BY <1>1, FS_StrictSubsetOrderingWellFounded
<1>3. PICK B \in Bad : \A C \in Bad : ~ (<<C, B>> \in StrictSubsetOrdering(A))
  BY <1>2, WFMin
<1>4. B # {}
  <2> DEFINE g == [s \in SUBSET {} |-> 0]
  <2>1. Adds(g, {}, w)
    BY DEF Adds
  <2> QED
    BY <2>1
<1>5. PICK x \in B : TRUE
  BY <1>4
<1>6. B \ {x} \notin Bad
  BY <1>3, <1>5 DEF StrictSubsetOrdering
<1>7. PICK g : Adds(g, B \ {x}, w)
  BY <1>6
<1> DEFINE h == [s \in SUBSET B |->
                   g[s \ {x}] + (IF x \in s THEN w[x] ELSE 0)]
<1>8. w[x] \in Nat
  OBVIOUS
<1>9. \A s \in SUBSET B : s \ {x} \in SUBSET (B \ {x}) /\ g[s \ {x}] \in Nat
  BY <1>7 DEF Adds
<1>10. h \in [SUBSET B -> Nat]
  <2>1. \A s \in SUBSET B :
          g[s \ {x}] + (IF x \in s THEN w[x] ELSE 0) \in Nat
    <3> SUFFICES ASSUME NEW s \in SUBSET B
                 PROVE  g[s \ {x}] + (IF x \in s THEN w[x] ELSE 0) \in Nat
      OBVIOUS
    <3>1. PICK a \in Nat : a = g[s \ {x}]
      BY <1>9
    <3>2. PICK b \in Nat : b = IF x \in s THEN w[x] ELSE 0
      BY <1>8
    <3>3. QED
      BY <3>1, <3>2
  <2>2. QED
    BY <2>1
<1>11. h[{}] = 0
  <2>1. {} \in SUBSET B /\ {} \ {x} = {} /\ g[{}] = 0
    BY <1>7 DEF Adds
  <2>2. QED
    BY <2>1
<1>12. \A y \in B : h[{y}] = w[y]
  <2> SUFFICES ASSUME NEW y \in B PROVE h[{y}] = w[y]
    OBVIOUS
  <2>1. h[{y}] = g[{y} \ {x}] + (IF x \in {y} THEN w[x] ELSE 0)
    OBVIOUS
  <2>2. CASE y = x
    <3>1. {y} \ {x} = {} /\ g[{}] = 0
      BY <1>7, <2>2 DEF Adds
    <3>2. QED
      BY <1>8, <2>1, <2>2, <3>1
  <2>3. CASE y # x
    <3>1. {y} \ {x} = {y} /\ y \in B \ {x} /\ x \notin {y}
      BY <2>3
    <3>2. g[{y}] = w[y] /\ w[y] \in Nat
      BY <1>7, <3>1 DEF Adds
    <3>3. QED
      BY <2>1, <3>1, <3>2
  <2>4. QED
    BY <2>2, <2>3
<1>13. \A s, t \in SUBSET B : s \cap t = {} => h[s \cup t] = h[s] + h[t]
  <2> SUFFICES ASSUME NEW s \in SUBSET B, NEW t \in SUBSET B, s \cap t = {}
               PROVE  h[s \cup t] = h[s] + h[t]
    OBVIOUS
  <2>1. (s \cup t) \ {x} = (s \ {x}) \cup (t \ {x})
    OBVIOUS
  <2>2. (s \ {x}) \cap (t \ {x}) = {}
    OBVIOUS
  <2>3. g[(s \ {x}) \cup (t \ {x})] = g[s \ {x}] + g[t \ {x}]
    BY <1>7, <1>9, <2>2 DEF Adds
  <2>4. /\ h[s] = g[s \ {x}] + (IF x \in s THEN w[x] ELSE 0)
        /\ h[t] = g[t \ {x}] + (IF x \in t THEN w[x] ELSE 0)
        /\ h[s \cup t] = g[(s \cup t) \ {x}]
                           + (IF x \in s \cup t THEN w[x] ELSE 0)
    OBVIOUS
  <2> HIDE DEF h
  <2>5. ~ (x \in s /\ x \in t)
    OBVIOUS
  <2>6. PICK a \in Nat, b \in Nat : a = g[s \ {x}] /\ b = g[t \ {x}]
    BY <1>9
  <2>7. PICK n \in Nat : n = w[x]
    BY <1>8
  <2>8. g[(s \cup t) \ {x}] = a + b
    BY <2>1, <2>3, <2>6
  <2>9. CASE x \in s
    <3>1. h[s] = a + n /\ h[t] = b + 0 /\ h[s \cup t] = (a + b) + n
      BY <2>4, <2>5, <2>6, <2>7, <2>8, <2>9
    <3>2. QED
      BY <3>1
  <2>10. CASE x \in t
    <3>1. h[s] = a + 0 /\ h[t] = b + n /\ h[s \cup t] = (a + b) + n
      BY <2>4, <2>5, <2>6, <2>7, <2>8, <2>10
    <3>2. QED
      BY <3>1
  <2>11. CASE x \notin s \cup t
    <3>1. h[s] = a + 0 /\ h[t] = b + 0 /\ h[s \cup t] = (a + b) + 0
      BY <2>4, <2>6, <2>8, <2>11
    <3>2. QED
      BY <3>1
  <2>12. QED
    BY <2>9, <2>10, <2>11
<1>14. Adds(h, B, w)
  <2> HIDE DEF h
  <2>1. QED
    BY <1>10, <1>11, <1>12, <1>13 DEF Adds
<1>15. QED
  BY <1>3, <1>14

\* The value of the recursive rule is the sum, in whatever order it adds.
LEMMA RuleIsSum ==
  ASSUME NEW A, IsFiniteSet(A), NEW w \in [A -> Nat], NEW g, Adds(g, A, w)
  PROVE  Rule(g, A, w) /\ \A F : Rule(F, A, w) => F = g
<1>1. \A s \in SUBSET A :
        s # {} => LET x == CHOOSE x \in s : TRUE
                  IN  x \in s /\ g[s] = w[x] + g[s \ {x}]
  <2> SUFFICES ASSUME NEW s \in SUBSET A, s # {}, NEW x, x = CHOOSE y \in s : TRUE
               PROVE  x \in s /\ g[s] = w[x] + g[s \ {x}]
    OBVIOUS
  <2>1. x \in s
    OBVIOUS
  <2>2. s = {x} \cup (s \ {x}) /\ {x} \cap (s \ {x}) = {}
    BY <2>1
  <2>3. {x} \in SUBSET A /\ s \ {x} \in SUBSET A
    BY <2>1
  <2>4. g[{x} \cup (s \ {x})] = g[{x}] + g[s \ {x}] /\ g[{x}] = w[x]
    BY <2>1, <2>2, <2>3 DEF Adds
  <2>5. QED
    BY <2>1, <2>2, <2>4
<1>2. Rule(g, A, w)
  <2>1. g = [s \in SUBSET A |-> g[s]]
    BY DEF Adds
  <2>2. \A s \in SUBSET A :
          g[s] = IF s = {} THEN 0
                 ELSE w[CHOOSE x \in s : TRUE] + g[s \ {CHOOSE x \in s : TRUE}]
    BY <1>1 DEF Adds
  <2>3. QED
    BY <2>1, <2>2 DEF Rule
<1>3. ASSUME NEW F, Rule(F, A, w) PROVE F = g
  <2> DEFINE Bad == {s \in SUBSET A : F[s] # g[s]}
  <2>1. Bad = {}
    <3> SUFFICES ASSUME Bad # {} PROVE FALSE
      OBVIOUS
    <3>1. FiniteSubsetsOf(A) = SUBSET A
      BY FS_FiniteSubsetsOfFinite
    <3>2. IsWellFoundedOn(StrictSubsetOrdering(A), SUBSET A)
      BY <3>1, FS_StrictSubsetOrderingWellFounded
    <3>3. PICK s \in Bad : \A c \in Bad : ~ (<<c, s>> \in StrictSubsetOrdering(A))
      BY <3>2, WFMin
    <3>4. F[s] = IF s = {} THEN 0
                 ELSE w[CHOOSE x \in s : TRUE] + F[s \ {CHOOSE x \in s : TRUE}]
      BY <1>3 DEF Rule
    <3>5. CASE s = {}
      BY <3>3, <3>4, <3>5 DEF Adds
    <3>6. CASE s # {}
      <4>1. PICK x : x = CHOOSE y \in s : TRUE
        OBVIOUS
      <4>2. x \in s /\ g[s] = w[x] + g[s \ {x}]
        BY <1>1, <3>6, <4>1
      <4>3. s \ {x} \notin Bad
        <5>1. s \in SUBSET A /\ s \ {x} \in SUBSET A /\ s \ {x} # s
          BY <3>3, <4>2
        <5>2. <<s \ {x}, s>> \in StrictSubsetOrdering(A)
          BY <5>1 DEF StrictSubsetOrdering
        <5>3. QED
          BY <3>3, <5>2
      <4>4. F[s \ {x}] = g[s \ {x}]
        BY <4>3
      <4>5. QED
        BY <3>3, <3>4, <3>6, <4>1, <4>2, <4>4
    <3>7. QED
      BY <3>5, <3>6
  <2>2. \A s \in SUBSET A : F[s] = g[s]
    BY <2>1
  <2>3. F = [s \in SUBSET A |-> F[s]] /\ g = [s \in SUBSET A |-> g[s]]
    BY <1>3 DEF Rule, Adds
  <2>4. QED
    BY <2>2, <2>3
<1>4. QED
  BY <1>2, <1>3

\* What SizeOf computes: the sum of the sizes.
LEMMA SizeIsSum ==
  ASSUME NEW d, NEW S, IsFiniteSet(S), \A e \in S : d.rows[e].req.size \in Nat,
         NEW g, Adds(g, S, [e \in S |-> d.rows[e].req.size])
  PROVE  SizeOf(d, S) = g[S]
<1> DEFINE Sums(F) ==
      F = [s \in SUBSET S |->
            IF s = {} THEN 0
            ELSE d.rows[CHOOSE x \in s : TRUE].req.size
                   + F[s \ {CHOOSE x \in s : TRUE}]]
<1>1. SizeOf(d, S) = (CHOOSE F : Sums(F))[S]
  BY DEF SizeOf, MapThenSumSet, MapThenFoldSet
<1>2. PICK w : w = [e \in S |-> d.rows[e].req.size]
  OBVIOUS
<1>3. \A F : Rule(F, S, w) <=> Sums(F)
  BY <1>2 DEF Rule
<1> HIDE DEF Sums
<1>4. Sums(g) /\ \A F : Sums(F) => F = g
  BY <1>2, <1>3, RuleIsSum
<1>5. QED
  BY <1>1, <1>4

\* A part of what g adds up, by g.
LEMMA AddsPart ==
  ASSUME NEW A, NEW w \in [A -> Nat], NEW g, Adds(g, A, w), NEW T \in SUBSET A
  PROVE  Adds([s \in SUBSET T |-> g[s]], T, [e \in T |-> w[e]])
<1> DEFINE h == [s \in SUBSET T |-> g[s]]
           v == [e \in T |-> w[e]]
<1>1. SUBSET T \subseteq SUBSET A
  OBVIOUS
<1>2. h \in [SUBSET T -> Nat] /\ h[{}] = 0
  BY <1>1 DEF Adds
<1>3. \A x \in T : h[{x}] = v[x]
  <2> SUFFICES ASSUME NEW x \in T PROVE h[{x}] = v[x]
    OBVIOUS
  <2>1. {x} \in SUBSET T /\ x \in A
    OBVIOUS
  <2>2. QED
    BY <2>1 DEF Adds
<1>4. \A s, t \in SUBSET T : s \cap t = {} => h[s \cup t] = h[s] + h[t]
  <2> SUFFICES ASSUME NEW s \in SUBSET T, NEW t \in SUBSET T, s \cap t = {}
               PROVE  h[s \cup t] = h[s] + h[t]
    OBVIOUS
  <2>1. s \cup t \in SUBSET T
    OBVIOUS
  <2>2. g[s \cup t] = g[s] + g[t]
    BY <1>1 DEF Adds
  <2>3. QED
    BY <2>1, <2>2
<1> HIDE DEF h, v
<1>5. QED
  BY <1>2, <1>3, <1>4 DEF Adds

\* The bytes of two queues without a row in common add up.
LEMMA SizeParts ==
  ASSUME NEW d, NEW S, IsFiniteSet(S), \A e \in S : d.rows[e].req.size \in Nat,
         NEW T \in SUBSET S
  PROVE  /\ SizeOf(d, T) \in Nat /\ SizeOf(d, S \ T) \in Nat
         /\ SizeOf(d, S) = SizeOf(d, T) + SizeOf(d, S \ T)
<1>1. PICK w : w = [e \in S |-> d.rows[e].req.size]
  OBVIOUS
<1>2. w \in [S -> Nat]
  BY <1>1
<1>3. PICK g : Adds(g, S, w)
  BY <1>2, SumExists
<1>4. ASSUME NEW U \in SUBSET S
      PROVE  SizeOf(d, U) = g[U] /\ g[U] \in Nat
  <2>1. IsFiniteSet(U)
    BY FS_Subset
  <2>2. [e \in U |-> w[e]] = [e \in U |-> d.rows[e].req.size]
    BY <1>1
  <2>3. Adds([s \in SUBSET U |-> g[s]], U, [e \in U |-> d.rows[e].req.size])
    <3>1. Adds([s \in SUBSET U |-> g[s]], U, [e \in U |-> w[e]])
      BY <1>2, <1>3, AddsPart
    <3>2. QED
      BY <2>2, <3>1
  <2>4. SizeOf(d, U) = [s \in SUBSET U |-> g[s]][U]
    BY <2>1, <2>3, SizeIsSum
  <2>5. g[U] \in Nat
    BY <1>3 DEF Adds
  <2>6. QED
    BY <2>4, <2>5
<1>5. S = T \cup (S \ T) /\ T \cap (S \ T) = {} /\ S \ T \in SUBSET S
  OBVIOUS
<1>6. g[T \cup (S \ T)] = g[T] + g[S \ T]
  BY <1>3, <1>5 DEF Adds
<1>7. g[S] = g[T] + g[S \ T]
  BY <1>5, <1>6
<1>8. QED
  BY <1>4, <1>5, <1>7

\* Only the rows' requests are weighed.
LEMMA SizeSame ==
  ASSUME NEW d, NEW h, NEW S, IsFiniteSet(S),
         \A e \in S : d.rows[e].req.size \in Nat /\ h.rows[e].req = d.rows[e].req
  PROVE  SizeOf(h, S) = SizeOf(d, S)
<1>1. PICK w : w = [e \in S |-> d.rows[e].req.size]
  OBVIOUS
<1>2. w \in [S -> Nat] /\ w = [e \in S |-> h.rows[e].req.size]
  BY <1>1
<1>3. PICK g : Adds(g, S, w)
  BY <1>2, SumExists
<1>4. SizeOf(d, S) = g[S]
  BY <1>1, <1>3, SizeIsSum
<1>5. \A e \in S : h.rows[e].req.size \in Nat
  OBVIOUS
<1>6. SizeOf(h, S) = g[S]
  BY <1>2, <1>3, <1>5, SizeIsSum
<1>7. QED
  BY <1>4, <1>6

\* No rows weigh nothing, one row weighs its request.
LEMMA SizeOfFew ==
  ASSUME NEW d
  PROVE  /\ SizeOf(d, {}) = 0
         /\ \A e : d.rows[e].req.size \in Nat
                   => SizeOf(d, {e}) = d.rows[e].req.size
<1>1. ASSUME NEW S, IsFiniteSet(S), \A e \in S : d.rows[e].req.size \in Nat
      PROVE  \E g : /\ SizeOf(d, S) = g[S]
                    /\ Adds(g, S, [e \in S |-> d.rows[e].req.size])
  <2>1. PICK w : w = [e \in S |-> d.rows[e].req.size]
    OBVIOUS
  <2>2. w \in [S -> Nat]
    BY <1>1, <2>1
  <2>3. PICK g : Adds(g, S, w)
    BY <1>1, <2>2, SumExists
  <2>4. SizeOf(d, S) = g[S]
    BY <1>1, <2>1, <2>3, SizeIsSum
  <2>5. QED
    BY <2>1, <2>3, <2>4
<1>2. SizeOf(d, {}) = 0
  <2>1. IsFiniteSet({})
    BY FS_EmptySet
  <2>2. PICK g : /\ SizeOf(d, {}) = g[{}]
                 /\ Adds(g, {}, [e \in {} |-> d.rows[e].req.size])
    BY <1>1, <2>1
  <2>3. QED
    BY <2>2 DEF Adds
<1>3. ASSUME NEW e, d.rows[e].req.size \in Nat
      PROVE  SizeOf(d, {e}) = d.rows[e].req.size
  <2>1. IsFiniteSet({e})
    BY FS_Singleton
  <2>2. PICK g : /\ SizeOf(d, {e}) = g[{e}]
                 /\ Adds(g, {e}, [f \in {e} |-> d.rows[f].req.size])
    BY <1>1, <1>3, <2>1
  <2>3. g[{e}] = [f \in {e} |-> d.rows[f].req.size][e]
    BY <2>2 DEF Adds
  <2>4. QED
    BY <2>2, <2>3
<1>4. QED
  BY <1>2, <1>3

-----------------------------------------------------------------------------
(* The queue and its counters, through every operator.                     *)

\* The counters are what the queue adds up to.
Counted(d) ==
  /\ d.coord.queuedCount = Cardinality(Queued(d))
  /\ d.bytes = SizeOf(d, Queued(d))

Exact(d) == Sound(d) /\ Counted(d)

LEMMA SizesKnown ==
  ASSUME NEW d, DbOK(d), NEW S \in SUBSET Event, \A e \in S : d.rows[e].status # "none"
  PROVE  IsFiniteSet(S) /\ \A e \in S : d.rows[e].req.size \in Nat
<1>1. \A e \in S : d.rows[e].req.size \in Nat
  BY AdmittedRow, RequestsAssumption DEF Admitted, Request
<1>2. QED
  BY <1>1, QueuedFinite

LEMMA QueueSizes ==
  ASSUME NEW d, DbOK(d)
  PROVE  /\ Queued(d) \in SUBSET Event
         /\ IsFiniteSet(Queued(d))
         /\ \A e \in Queued(d) : d.rows[e].req.size \in Nat
<1>1. Queued(d) \in SUBSET Event /\ \A e \in Queued(d) : d.rows[e].status # "none"
  BY DEF Queued
<1>2. QED
  BY <1>1, SizesKnown

\* Neither the queue, what its rows weigh nor a counter is written.
LEMMA CountedCarries ==
  ASSUME NEW d, DbOK(d), Counted(d), NEW h, Queued(h) = Queued(d),
         \A e \in Queued(d) : h.rows[e].req = d.rows[e].req,
         h.coord.queuedCount = d.coord.queuedCount, h.bytes = d.bytes
  PROVE  Counted(h)
<1>1. SizeOf(h, Queued(d)) = SizeOf(d, Queued(d))
  BY QueueSizes, SizeSame
<1>2. QED
  BY <1>1 DEF Counted

\* Rows that leave the queue take their number and their bytes with them.
LEMMA DequeueExact ==
  ASSUME NEW d, Exact(d), NEW S \in SUBSET Queued(d), NEW moved,
         \A e \in S : moved[e] \in Row /\ moved[e].status # "queued"
  PROVE  /\ Exact(Dequeue(d, S, moved))
         /\ Queued(Dequeue(d, S, moved)) = Queued(d) \ S
<1> DEFINE h == Dequeue(d, S, moved)
           Q == Queued(d)
<1>1. Sound(h) /\ Queued(h) = Q \ S
  BY DequeueSound DEF Exact
<1>2. /\ Q \in SUBSET Event /\ IsFiniteSet(Q) /\ S \in SUBSET Q
      /\ \A e \in Q : d.rows[e].req.size \in Nat
  BY QueueSizes DEF Exact, Sound
<1>3. h.coord.queuedCount = Cardinality(Q \ S)
  <2>1. Cardinality(Q \ S) = Cardinality(Q) - Cardinality(Q \cap S) /\ Q \cap S = S
    BY <1>2, FS_Difference
  <2>2. Cardinality(Q \ S) \in Nat /\ Cardinality(Q) \in Nat /\ Cardinality(S) \in Nat
    BY <1>2, FS_CardinalityType, FS_Subset
  <2>3. h.coord.queuedCount = Floor(Cardinality(Q) - Cardinality(S))
    BY DEF Dequeue, Exact, Sound, DbOK, Coordinator, Counted
  <2> HIDE DEF h, Q
  <2>4. Floor(Cardinality(Q) - Cardinality(S)) = Cardinality(Q \ S)
    BY <2>1, <2>2 DEF Floor
  <2>5. QED
    BY <2>3, <2>4
<1>4. h.bytes = SizeOf(d, Q \ S)
  <2>1. /\ SizeOf(d, S) \in Nat /\ SizeOf(d, Q \ S) \in Nat
        /\ SizeOf(d, Q) = SizeOf(d, S) + SizeOf(d, Q \ S)
    <3>1. IsFiniteSet(Q) /\ S \in SUBSET Q
      BY <1>2
    <3>2. \A e \in Q : d.rows[e].req.size \in Nat
      BY <1>2
    <3> HIDE DEF h, Q
    <3>3. SizeOf(d, S) \in Nat
      BY <3>1, <3>2, SizeParts
    <3>4. SizeOf(d, Q \ S) \in Nat
      BY <3>1, <3>2, SizeParts
    <3>5. SizeOf(d, Q) = SizeOf(d, S) + SizeOf(d, Q \ S)
      BY <3>1, <3>2, SizeParts
    <3>6. QED
      BY <3>3, <3>4, <3>5
  <2>2. h.bytes = Floor(SizeOf(d, Q) - SizeOf(d, S))
    BY DEF Dequeue, Exact, Counted
  <2> HIDE DEF h, Q
  <2>3. QED
    BY <2>1, <2>2 DEF Floor
<1>5. SizeOf(h, Q \ S) = SizeOf(d, Q \ S)
  <2>1. \A e \in Q \ S : h.rows[e] = d.rows[e]
    BY <1>2 DEF Dequeue
  <2>2. IsFiniteSet(Q \ S)
    BY <1>2, FS_Subset
  <2> HIDE DEF h, Q
  <2>3. QED
    BY <1>2, <2>1, <2>2, SizeSame
<1> HIDE DEF h, Q
<1>6. Counted(h)
  BY <1>1, <1>3, <1>4, <1>5 DEF Counted
<1>7. QED
  BY <1>1, <1>6 DEF Exact, h, Q

LEMMA ExpireExact ==
  ASSUME NEW d, Exact(d), NEW page \in SUBSET Queued(d)
  PROVE  /\ Exact(ExpireQueuedEnvelopes(d, page))
         /\ Queued(ExpireQueuedEnvelopes(d, page)) = Queued(d) \ Due(d, page)
<1>1. Due(d, page) \in SUBSET Queued(d)
  BY DEF Due
<1>2. \A e \in Due(d, page) : /\ Marked(d, "expired")[e] \in Row
                              /\ Marked(d, "expired")[e].status # "queued"
  BY <1>1, MarkedType DEF Queued, Exact, Sound, Statuses
<1>3. QED
  BY <1>1, <1>2, DequeueExact DEF ExpireQueuedEnvelopes

LEMMA InsertEventsExact ==
  ASSUME NEW d, Exact(d), NEW told
  PROVE  Exact(InsertOwnedEvents(d, told))
<1> DEFINE S == {e \in QueuedPage(d) : d.rows[e].req.result \in told}
<1>1. S \in SUBSET Queued(d)
  BY PageIsQueue DEF Exact
<1>2. \A e \in S : /\ Marked(d, "completed")[e] \in Row
                   /\ Marked(d, "completed")[e].status # "queued"
  BY <1>1, MarkedType DEF Queued, Exact, Sound, Statuses
<1>3. QED
  BY <1>1, <1>2, DequeueExact DEF InsertOwnedEvents

LEMMA ApplyExact ==
  ASSUME NEW d, Exact(d), NEW S \in SUBSET Queued(d), NEW owner \in Owners, NEW gen \in Nat
  PROVE  /\ Exact(Apply(d, S, owner, gen))
         /\ Queued(Apply(d, S, owner, gen)) = Queued(d) \ S
<1> DEFINE moved == [e \in Event |-> [d.rows[e] EXCEPT !.status = "processing",
                                                       !.appliedTo = owner,
                                                       !.generation = gen]]
<1>1. ASSUME NEW e \in S PROVE moved[e] \in Row /\ moved[e].status # "queued"
  <2>1. e \in Event /\ d.rows[e] \in Admitted
    BY AdmittedRow DEF Queued, Exact, Sound
  <2>2. moved[e] = [d.rows[e] EXCEPT !.status = "processing",
                                     !.appliedTo = owner, !.generation = gen]
    BY <2>1
  <2>3. [d.rows[e] EXCEPT !.status = "processing", !.appliedTo = owner,
                          !.generation = gen] \in Admitted
    BY <2>1 DEF Admitted, Statuses, Owners
  <2>4. moved[e].status = "processing"
    BY <2>1, <2>2 DEF Admitted
  <2>5. QED
    BY <2>2, <2>3, <2>4 DEF Row
<1>2. Apply(d, S, owner, gen) = Dequeue(d, S, moved)
  BY DEF Apply
<1> HIDE DEF moved
<1>3. /\ Exact(Dequeue(d, S, moved))
      /\ Queued(Dequeue(d, S, moved)) = Queued(d) \ S
  BY <1>1, DequeueExact
<1>4. QED
  BY <1>2, <1>3

\* A turn begins with the head of the queue.
LEMMA PromoteExact ==
  ASSUME NEW d, Exact(d), NEW A, A = Queued(d), NEW gen \in Nat
  PROVE  /\ Exact(PromoteQueuedGroup(d, A, gen))
         /\ Queued(PromoteQueuedGroup(d, A, gen)) \subseteq A
<1>1. CASE A = {}
  BY <1>1 DEF PromoteQueuedGroup
<1>2. CASE A # {}
  <2> DEFINE first == Oldest(d, A)
             S == NextGroup(d, A)
             m == Apply(d, S, first, gen)
             h == PromoteQueuedGroup(d, A, gen)
  <2>1. DbOK(d) /\ A \in SUBSET Event
    BY DEF Exact, Sound, Queued
  <2>2. first \in A /\ first \in Event /\ S \in SUBSET Queued(d)
    BY <1>2, <2>1, OldestExists, GroupInPage
  <2>3. Exact(m) /\ Queued(m) \subseteq A
    <3>1. first \in Owners
      BY <2>2 DEF Owners
    <3> HIDE DEF S, first
    <3>2. Exact(m)
      BY <2>2, <3>1, ApplyExact
    <3>3. Queued(m) = Queued(d) \ S
      BY <2>2, <3>1, ApplyExact
    <3>4. QED
      BY <3>2, <3>3
  <2>4. h = [m EXCEPT !.coord = Acquire(@, first, d.rows[first].req.task, gen)]
    BY <1>2 DEF PromoteQueuedGroup
  <2>5. d.rows[first].req.task \in Task \cup {NoTask}
    <3>1. d.rows[first].status # "none"
      BY <2>2 DEF Queued
    <3>2. QED
      BY <2>1, <2>2, <3>1, AdmittedRow, RequestsAssumption DEF Admitted, Request
  <2>6. /\ h.rows = m.rows /\ h.bytes = m.bytes
        /\ h.coord = Acquire(m.coord, first, d.rows[first].req.task, gen)
    BY <2>3, <2>4 DEF Exact, Sound, DbOK
  <2> HIDE DEF h, m
  <2>7. h.coord.queuedCount = m.coord.queuedCount
    BY <2>2, <2>3, <2>5, <2>6, AcquireType DEF Exact, Sound, DbOK, Owners
  <2>8. Queued(h) = Queued(m)
    BY <2>6 DEF Queued
  <2>9. Counted(h)
    BY <2>3, <2>6, <2>7, <2>8, CountedCarries DEF Exact, Sound
  <2>10. Sound(h)
    <3>1. \A e \in A : d.rows[e].status # "none"
      BY DEF Queued
    <3>2. Covers(d, A) /\ Queued(d) \subseteq A
      BY DEF Exact, Sound
    <3>3. QED
      BY <2>1, <3>1, <3>2, PromoteSound DEF h
  <2>11. QED
    BY <2>3, <2>8, <2>9, <2>10 DEF Exact, h
<1>3. QED
  BY <1>1, <1>2

\* The owner's row may leave the queue uncounted, so it must not wait there.
LEMMA StaleOwnerExact ==
  ASSUME NEW d, Exact(d),
         ~HasActiveOwner(d.coord) /\ d.coord.ownerEventId \in Event
         => d.rows[d.coord.ownerEventId].status # "queued"
  PROVE  /\ Exact(ExpireStaleOwner(d))
         /\ Queued(ExpireStaleOwner(d)) = Queued(d)
<1> DEFINE h == ExpireStaleOwner(d)
           owner == d.coord.ownerEventId
<1>1. Sound(h)
  BY StaleOwnerSound DEF Exact
<1>2. DbOK(d) /\ Counted(d)
  BY DEF Exact, Sound
<1>3. CASE h = d
  BY <1>3
<1>4. CASE h # d
  <2>1. /\ owner \in Event /\ d.rows[owner].status = "processing"
        /\ h = [d EXCEPT !.rows[owner] = Expired(@)]
    BY <1>4 DEF ExpireStaleOwner
  <2>2. /\ h.coord = d.coord /\ h.bytes = d.bytes
        /\ \A e \in Event \ {owner} : h.rows[e] = d.rows[e]
        /\ h.rows[owner] = Expired(d.rows[owner])
    BY <1>2, <2>1 DEF DbOK
  <2>3. /\ Expired(d.rows[owner]).status = "expired"
        /\ Expired(d.rows[owner]).req = d.rows[owner].req
    BY <1>2, <2>1, AdmittedRow DEF Expired, Admitted
  <2> HIDE DEF h
  <2>4. Queued(h) = Queued(d)
    BY <2>1, <2>2, <2>3 DEF Queued
  <2>5. \A e \in Queued(d) : h.rows[e].req = d.rows[e].req
    BY <2>2, <2>3 DEF Queued
  <2>6. Counted(h)
    BY <1>2, <2>2, <2>4, <2>5, CountedCarries
  <2>7. QED
    BY <1>1, <2>4, <2>6 DEF Exact, h
<1>5. QED
  BY <1>3, <1>4

LEMMA LeaseExact ==
  ASSUME NEW d, Exact(d)
  PROVE  Exact([d EXCEPT !.coord.lease = LeaseTtl])
<1> DEFINE h == [d EXCEPT !.coord.lease = LeaseTtl]
<1>1. Sound(h)
  BY LeaseSound DEF Exact
<1>2. DbOK(d) /\ Counted(d)
  BY DEF Exact, Sound
<1>3. h.rows = d.rows /\ h.bytes = d.bytes /\ h.coord = [d.coord EXCEPT !.lease = LeaseTtl]
  BY <1>2 DEF DbOK
<1>4. h.coord.queuedCount = d.coord.queuedCount
  BY <1>2, <1>3 DEF DbOK, Coordinator
<1> HIDE DEF h
<1>5. Queued(h) = Queued(d)
  BY <1>3 DEF Queued
<1>6. Exact(h)
  BY <1>1, <1>2, <1>3, <1>4, <1>5, CountedCarries DEF Exact
<1>7. QED
  BY <1>6 DEF h

LEMMA RenewExact ==
  ASSUME NEW d, Exact(d)
  PROVE  Exact(RenewHeldLease(d))
BY LeaseExact DEF RenewHeldLease

LEMMA SettleExact ==
  ASSUME NEW d, Exact(d), NEW outcome \in {"completed", "failed"}
  PROVE  Exact(SettleAppliedEnvelopes(d, outcome))
<1> DEFINE h == SettleAppliedEnvelopes(d, outcome)
<1>1. Sound(h) /\ h.coord = d.coord
  BY SettleSound DEF Exact
<1>2. DbOK(d) /\ Counted(d)
  BY DEF Exact, Sound
<1>3. h.bytes = d.bytes
  <2>1. PICK R : h = [d EXCEPT !.rows = R]
    BY Zenon DEF SettleAppliedEnvelopes
  <2> HIDE DEF h
  <2>2. QED
    BY <1>2, <2>1, RowsWritten
<1>4. ASSUME NEW e \in Event
      PROVE  /\ d.rows[e].status # "processing" => h.rows[e] = d.rows[e]
             /\ d.rows[e].status = "processing" => h.rows[e].status # "queued"
  <2>1. d.rows[e].status # "processing" => h.rows[e] = d.rows[e]
    BY <1>2 DEF SettleAppliedEnvelopes, DbOK
  <2>2. ASSUME d.rows[e].status = "processing" PROVE h.rows[e].status # "queued"
    BY <1>2, <2>2, AdmittedRow DEF SettleAppliedEnvelopes, DbOK, Admitted
  <2>3. QED
    BY <2>1, <2>2
<1> HIDE DEF h
<1>5. Queued(h) = Queued(d) /\ \A e \in Queued(d) : h.rows[e].req = d.rows[e].req
  BY <1>4 DEF Queued
<1>6. Counted(h)
  BY <1>1, <1>2, <1>3, <1>5, CountedCarries
<1>7. QED
  BY <1>1, <1>6 DEF Exact, h

LEMMA SweptExact ==
  ASSUME NEW d, Exact(d)
  PROVE  /\ Exact(Swept(d))
         /\ Queued(Swept(d)) = QueuedPage(d) \ Due(d, QueuedPage(d))
<1>1. QueuedPage(d) = Queued(d)
  BY PageIsQueue DEF Exact
<1>2. QED
  BY <1>1, ExpireExact DEF Swept

LEMMA UnclaimedExact ==
  ASSUME NEW d, Exact(d)
  PROVE  Exact(Unclaimed(d))
BY SweptExact, LeaseExact DEF Unclaimed

LEMMA ClaimedExact ==
  ASSUME NEW d, Exact(d), NEW S \in SUBSET (QueuedPage(d) \ Due(d, QueuedPage(d)))
  PROVE  Exact(Claimed(d, S))
<1> DEFINE w == Swept(d)
           m == Apply(w, S, d.coord.ownerEventId, d.coord.ownerGeneration)
<1>1. Exact(w) /\ S \in SUBSET Queued(w)
  BY SweptExact
<1>2. d.coord.ownerEventId \in Owners /\ d.coord.ownerGeneration \in Nat
  BY DEF Exact, Sound, DbOK, Coordinator, Owners
<1>3. Exact(m)
  <2> HIDE DEF w
  <2> QED
    BY <1>1, <1>2, ApplyExact
<1>4. QED
  BY <1>3, LeaseExact DEF Claimed

LEMMA ClaimExact ==
  ASSUME NEW d, Exact(d), NEW textOnly \in BOOLEAN
  PROVE  Exact(ClaimSteering(d, textOnly))
<1>1. Exact(Claimed(d, Steers(d, textOnly)))
  BY SteersInPage, ClaimedExact
<1>2. QED
  BY <1>1, UnclaimedExact DEF ClaimSteering

-----------------------------------------------------------------------------
(* Admission.                                                              *)

\* The only way a counter drifts: the row of an owner whose lease lapsed waits
\* again, since its event was admitted once more after the first row was given
\* back, and expireStaleOwner ends it without counting.
OwnerDoesNotWait ==
  ~HasActiveOwner(coord) /\ coord.ownerEventId \in Event
  => rows[coord.ownerEventId].status # "queued"

LEMMA ForgetExact ==
  ASSUME NEW q, Exact(Db)
  PROVE  /\ Exact(Forget(q)) /\ Forget(q).coord = coord
         /\ Queued(Forget(q)) = Queued(Db)
<1> DEFINE h == Forget(q)
<1>1. Sound(h) /\ h.coord = coord
  BY ForgetSound DEF Exact
<1>2. DbOK(Db) /\ Counted(Db)
  BY DEF Exact, Sound
<1>3. /\ h.bytes = Db.bytes /\ h.coord.queuedCount = Db.coord.queuedCount
      /\ \A e \in Event : \/ h.rows[e] = Db.rows[e]
                          \/ h.rows[e] = NoRow /\ Db.rows[e].status \in Terminal
  BY DEF Forget, Forgotten, UndeliveredResume, Db
<1> HIDE DEF h
<1>4. Queued(h) = Queued(Db) /\ \A e \in Queued(Db) : h.rows[e].req = Db.rows[e].req
  BY <1>3 DEF Queued, NoRow, Terminal
<1>5. Counted(h)
  BY <1>2, <1>3, <1>4, CountedCarries
<1>6. QED
  BY <1>1, <1>4, <1>5 DEF Exact, h

\* With a counter that is exact, accept promotes from the very queue it left.
LEMMA PreparedExact ==
  ASSUME NEW q, Exact(Db), OwnerDoesNotWait
  PROVE  /\ Exact(Prepared(q))
         /\ Queued(Prepared(q))
              = QueuedPage(Forget(q)) \ Due(Forget(q), QueuedPage(Forget(q)))
<1> DEFINE d == Forget(q)
           page == QueuedPage(d)
           x == ExpireQueuedEnvelopes(d, page)
<1>1. Exact(d) /\ d.coord = coord /\ Queued(d) = Queued(Db)
  BY ForgetExact
<1>2. page = Queued(d)
  BY <1>1, PageIsQueue DEF Exact
<1>3. Exact(x) /\ Queued(x) = page \ Due(d, page)
  BY <1>1, <1>2, ExpireExact
<1>4. /\ HasActiveOwner(x.coord) = HasActiveOwner(coord)
      /\ x.coord.ownerEventId = coord.ownerEventId
  <2>1. coord \in Coordinator
    BY <1>1 DEF Exact, Sound, DbOK
  <2>2. /\ x.coord.ownerEventId = coord.ownerEventId
        /\ x.coord.lease = coord.lease
    BY <1>1, <2>1 DEF ExpireQueuedEnvelopes, Dequeue, Coordinator
  <2>3. QED
    BY <2>2 DEF HasActiveOwner
<1>5. ~HasActiveOwner(x.coord) /\ x.coord.ownerEventId \in Event
      => x.rows[x.coord.ownerEventId].status # "queued"
  <2>1. SUFFICES ASSUME ~HasActiveOwner(x.coord), x.coord.ownerEventId \in Event,
                        x.rows[x.coord.ownerEventId].status = "queued"
                 PROVE  FALSE
    OBVIOUS
  <2>2. coord.ownerEventId \in Queued(x)
    BY <1>4, <2>1 DEF Queued
  <2>3. coord.ownerEventId \in Queued(Db)
    BY <1>1, <1>2, <1>3, <2>2
  <2>4. rows[coord.ownerEventId].status = "queued"
    BY <2>3 DEF Queued, Db
  <2>5. QED
    BY <1>4, <2>1, <2>4 DEF OwnerDoesNotWait
<1> HIDE DEF x
<1>6. Exact(ExpireStaleOwner(x)) /\ Queued(ExpireStaleOwner(x)) = Queued(x)
  BY <1>3, <1>5, StaleOwnerExact
<1>7. Prepared(q) = ExpireStaleOwner(x)
  BY DEF Prepared, x
<1>8. QED
  BY <1>3, <1>6, <1>7

LEMMA RecoveredExact ==
  ASSUME NEW q, Exact(Db), OwnerDoesNotWait
  PROVE  Exact(Recovered(q)) /\ Queued(Recovered(q)) \subseteq Queued(Forget(q))
<1> DEFINE page == QueuedPage(Forget(q))
           A    == page \ Due(Forget(q), page)
           p    == Prepared(q)
           gen  == p.coord.ownerGeneration + 1
<1>1. Exact(p) /\ Queued(p) = A
  BY PreparedExact
<1>2. gen \in Nat
  BY <1>1 DEF Exact, Sound, DbOK, Coordinator
<1>3. Recovered(q) \in {p, PromoteQueuedGroup(p, A, gen)}
  BY DEF Recovered
<1>4. A \subseteq Queued(Forget(q))
  BY ForgetExact, PageIsQueue DEF Exact
<1> HIDE DEF A, p, gen
<1>5. /\ Exact(PromoteQueuedGroup(p, A, gen))
      /\ Queued(PromoteQueuedGroup(p, A, gen)) \subseteq A
  BY <1>1, <1>2, PromoteExact
<1>6. QED
  BY <1>1, <1>3, <1>4, <1>5

\* The row an arrival is stored in does not wait already.
LEMMA ArrivalIsNew ==
  ASSUME NEW q \in Requests, ~Answered(q), Exact(Db), OwnerDoesNotWait
  PROVE  q.event \notin Queued(Recovered(q))
<1>1. q.event \notin Queued(Forget(q))
  BY DEF Answered, Queued
<1>2. QED
  BY <1>1, RecoveredExact

\* A row that joins the queue brings its number and its bytes.
LEMMA EnqueueExact ==
  ASSUME NEW d, Exact(d), NEW q \in Requests, q.event \notin Queued(d)
  PROVE  Exact(Enqueue(d, q))
<1> DEFINE h == Enqueue(d, q)
           Q == Queued(d)
           n == q.event
<1>1. Sound(h) /\ DbOK(d) /\ DbOK(h)
  BY EnqueueSound DEF Exact, Sound
<1>2. /\ h.coord.queuedCount = d.coord.queuedCount + 1
      /\ h.bytes = d.bytes + q.size
  <2>1. d.coord \in Coordinator
    BY <1>1 DEF DbOK
  <2>2. QED
    BY <2>1 DEF Enqueue, Coordinator
<1>3. /\ \A e \in Event \ {n} : h.rows[e] = d.rows[e]
      /\ h.rows[n].status = "queued" /\ h.rows[n].req = q /\ n \in Event
  BY <1>1, EnqueueMoves, EventOf
<1>4. q.size \in Nat
  BY RequestsAssumption DEF Request
<1>5. /\ Q \in SUBSET Event /\ IsFiniteSet(Q) /\ n \notin Q
      /\ \A e \in Q : d.rows[e].req.size \in Nat
  BY <1>1, QueueSizes
<1>6. d.coord.queuedCount = Cardinality(Q) /\ d.bytes = SizeOf(d, Q)
  BY DEF Exact, Counted
<1> HIDE DEF h, n
<1>7. Queued(h) = Q \cup {n}
  BY <1>3 DEF Queued
<1> HIDE DEF Q
<1>8. /\ IsFiniteSet(Q \cup {n})
      /\ Cardinality(Q \cup {n}) = Cardinality(Q) + 1
  BY <1>5, FS_AddElement
<1>9. SizeOf(h, Q \cup {n}) = SizeOf(d, Q) + q.size
  <2>1. \A e \in Q \cup {n} : h.rows[e].req.size \in Nat
    BY <1>3, <1>4, <1>5
  <2>2. {n} \in SUBSET (Q \cup {n})
    OBVIOUS
  <2>3. SizeOf(h, Q \cup {n}) = SizeOf(h, {n}) + SizeOf(h, (Q \cup {n}) \ {n})
    BY <1>8, <2>1, <2>2, SizeParts
  <2>4. (Q \cup {n}) \ {n} = Q
    BY <1>5
  <2>5. SizeOf(h, {n}) = q.size
    BY <1>3, <1>4, SizeOfFew
  <2>6. SizeOf(h, Q) = SizeOf(d, Q)
    <3>1. \A e \in Q : d.rows[e].req.size \in Nat /\ h.rows[e].req = d.rows[e].req
      BY <1>3, <1>5
    <3>2. QED
      BY <1>5, <3>1, SizeSame
  <2>7. SizeOf(d, Q) \in Nat
    <3>1. Q \in SUBSET Q
      OBVIOUS
    <3>2. QED
      BY <1>5, <3>1, SizeParts
  <2>8. PICK a \in Nat, k \in Nat : a = SizeOf(d, Q) /\ k = q.size
    BY <1>4, <2>7
  <2>9. SizeOf(h, Q \cup {n}) = k + a
    BY <2>3, <2>4, <2>5, <2>6, <2>8
  <2>10. QED
    BY <2>8, <2>9
<1>10. Counted(h)
  BY <1>2, <1>6, <1>7, <1>8, <1>9 DEF Counted
<1>11. QED
  BY <1>1, <1>10 DEF Exact, h

LEMMA OwnExact ==
  ASSUME NEW d, Exact(d), NEW q \in Requests, q.event \notin Queued(d)
  PROVE  Exact(Own(d, q))
<1> DEFINE h == Own(d, q)
           gen == d.coord.ownerGeneration + 1
           c == [d.coord EXCEPT !.nextSequence = @ + 1]
<1>1. Sound(h) /\ DbOK(d) /\ Counted(d)
  BY OwnSound DEF Exact, Sound
<1>2. h.bytes = d.bytes /\ h.coord = Acquire(c, q.event, q.task, gen)
  BY DEF Own
<1>3. h.coord.queuedCount = d.coord.queuedCount
  <2>1. /\ c \in Coordinator /\ c.queuedCount = d.coord.queuedCount
        /\ gen \in Nat
    BY <1>1 DEF DbOK, Coordinator
  <2>2. q.event \in Owners /\ q.task \in Task \cup {NoTask}
    BY EventOf DEF Owners
  <2> HIDE DEF h, c, gen
  <2>3. QED
    BY <1>2, <2>1, <2>2, AcquireType
<1>4. /\ \A e \in Event \ {q.event} : h.rows[e] = d.rows[e]
      /\ h.rows[q.event].status = "processing"
  BY <1>1, OwnMoves
<1> HIDE DEF h
<1>5. Queued(h) = Queued(d) /\ \A e \in Queued(d) : h.rows[e].req = d.rows[e].req
  BY <1>4 DEF Queued
<1>6. Counted(h)
  BY <1>1, <1>2, <1>3, <1>5, CountedCarries
<1>7. QED
  BY <1>1, <1>6 DEF Exact, h

-----------------------------------------------------------------------------
(* The cron, the sweep, and the end of a turn.                             *)

LEMMA MaintainedExact ==
  ASSUME NEW d, Exact(d)
  PROVE  Exact(Maintained(d))
<1> DEFINE s == ExpireQueuedEnvelopes(d, Queued(d))
           due == Due(d, {e \in Event : d.rows[e].status = "processing"})
           h == Maintained(d)
<1>1. Sound(h) /\ Exact(s)
  BY MaintainedSound, ExpireExact DEF Exact
<1>2. DbOK(s) /\ Counted(s)
  BY <1>1 DEF Exact, Sound
<1>3. h.bytes = s.bytes /\ h.coord.queuedCount = s.coord.queuedCount
  <2>1. s.coord \in Coordinator
    BY <1>2 DEF DbOK
  <2>2. h.bytes = s.bytes
        /\ h.coord \in {s.coord, [s.coord EXCEPT !.ownerEventId = NoEvent, !.lease = -1]}
    BY DEF Maintained
  <2> HIDE DEF h, s
  <2>3. QED
    BY <2>1, <2>2 DEF Coordinator
<1>4. ASSUME NEW e \in Event
      PROVE  /\ s.rows[e].status = "queued" => h.rows[e] = s.rows[e]
             /\ h.rows[e].status = "queued" => s.rows[e].status = "queued"
  <2>1. CASE e \in due
    <3>1. e \in Event /\ d.rows[e].status = "processing"
      BY <2>1 DEF Due
    <3>2. s.rows[e] = d.rows[e]
      BY <3>1 DEF ExpireQueuedEnvelopes, Dequeue, Due, Queued
    <3>3. s.rows[e] \in Admitted /\ s.rows[e].status = "processing"
      BY <1>2, <3>1, <3>2, AdmittedRow
    <3>4. \/ h.rows[e] = NoRow
          \/ h.rows[e] = Expired(s.rows[e])
          \/ h.rows[e] = [s.rows[e] EXCEPT !.ttl = d.coord.lease]
      BY <2>1 DEF Maintained
    <3> HIDE DEF h, s
    <3>5. h.rows[e].status # "queued"
      BY <3>3, <3>4 DEF Expired, Admitted, NoRow
    <3>6. QED
      BY <3>3, <3>5
  <2>2. CASE e \notin due
    <3>1. h.rows[e] = IF s.rows[e].status \in Terminal /\ s.rows[e].retain <= 0
                      THEN NoRow ELSE s.rows[e]
      BY <2>2 DEF Maintained
    <3> HIDE DEF h, s
    <3>2. QED
      BY <3>1 DEF NoRow, Terminal
  <2>3. QED
    BY <2>1, <2>2
<1> HIDE DEF h, s
<1>5. Queued(h) = Queued(s) /\ \A e \in Queued(s) : h.rows[e].req = s.rows[e].req
  BY <1>4 DEF Queued
<1>6. Counted(h)
  BY <1>2, <1>3, <1>5, CountedCarries
<1>7. QED
  BY <1>1, <1>6 DEF Exact, h

\* The sweep recounts: what it leaves is exact whatever it found.
LEMMA SweepExact ==
  ASSUME Sound(Db)
  PROVE  Exact(SweepRecovered)
<1> DEFINE d == ExpireStaleOwner(Db)
           page == Queued(d)
           active == page \ Due(d, page)
           s == ExpireQueuedEnvelopes(d, page)
           gen == d.coord.ownerGeneration + 1
           r == [coord |-> [s.coord EXCEPT !.queuedCount = Cardinality(active)],
                 bytes |-> SizeOf(d, active),
                 rows  |-> s.rows]
<1>1. Sound(d)
  BY StaleOwnerSound
<1>2. Sound(s) /\ Queued(s) = active
  BY <1>1, ExpireSound
<1>3. active \in SUBSET Queued(d) /\ Cardinality(active) \in Nat
  BY QueuedFinite DEF Queued
<1>4. /\ r.coord = [s.coord EXCEPT !.queuedCount = Cardinality(active)]
      /\ r.bytes = SizeOf(d, active) /\ r.rows = s.rows
      /\ r = [coord |-> r.coord, bytes |-> r.bytes, rows |-> s.rows]
  OBVIOUS
<1>5. /\ r.coord \in Coordinator /\ r.coord.lease \in -1 .. LeaseTtl
      /\ r.coord.queuedCount = Cardinality(active)
  <2>1. s.coord \in Coordinator /\ s.coord.lease \in -1 .. LeaseTtl
    BY <1>2 DEF Sound, DbOK
  <2> HIDE DEF s, r, active
  <2>2. QED
    BY <1>3, <1>4, <2>1 DEF Coordinator
<1>6. Queued(r) = active
  BY <1>2 DEF Queued
<1>7. SizeOf(r, active) = SizeOf(d, active)
  <2>1. \A e \in active : r.rows[e].req = d.rows[e].req
    <3>1. \A e \in active : e \in Event /\ e \notin Due(d, page)
      BY <1>3 DEF Queued
    <3>2. \A e \in active : s.rows[e] = d.rows[e]
      BY <3>1 DEF ExpireQueuedEnvelopes, Dequeue
    <3>3. QED
      BY <1>4, <3>2
  <2>2. IsFiniteSet(active) /\ \A e \in active : d.rows[e].req.size \in Nat
    <3>1. IsFiniteSet(Queued(d)) /\ \A e \in Queued(d) : d.rows[e].req.size \in Nat
      BY <1>1, QueueSizes DEF Sound
    <3> HIDE DEF active, d
    <3>2. QED
      BY <1>3, <3>1, FS_Subset
  <2> HIDE DEF active, d, r
  <2>3. QED
    BY <2>1, <2>2, SizeSame
<1>8. Exact(r)
  <2>1. DbOK(r)
    <3>1. s.rows \in [Event -> Row]
      BY <1>2 DEF Sound, DbOK
    <3> HIDE DEF s, r, active
    <3>2. QED
      BY <1>4, <1>5, <3>1 DEF DbOK
  <2> HIDE DEF r, active, d
  <2>2. Counted(r)
    BY <1>4, <1>5, <1>6, <1>7 DEF Counted
  <2>3. QED
    BY <1>3, <1>5, <1>6, <2>1, <2>2 DEF Exact, Sound, Covers
<1>9. gen \in Nat
  BY <1>1 DEF Sound, DbOK, Coordinator
<1>10. Exact(PromoteQueuedGroup(r, active, gen))
  <2> HIDE DEF r, active, gen
  <2> QED
    BY <1>6, <1>8, <1>9, PromoteExact
<1>11. SweepRecovered = PromoteQueuedGroup(r, active, gen)
  BY DEF SweepRecovered
<1>12. QED
  BY <1>10, <1>11

\* Both ends of a turn.
LEMMA TakeExact ==
  ASSUME NEW d, Exact(d), NEW gen \in Nat
  PROVE  LET page == QueuedPage(d)
         IN  /\ Exact(PromoteQueuedGroup(Swept(d), page \ Due(d, page), gen))
             /\ Exact([Swept(d) EXCEPT
                        !.coord = [Cleared(@) EXCEPT !.ownerTaskId = NoTask]])
<1> DEFINE page == QueuedPage(d)
           s == Swept(d)
           A == page \ Due(d, page)
           h == [s EXCEPT !.coord = [Cleared(@) EXCEPT !.ownerTaskId = NoTask]]
<1>1. Exact(s) /\ Queued(s) = A
  BY SweptExact
<1>2. Exact(PromoteQueuedGroup(s, A, gen))
  <2> HIDE DEF s, A
  <2> QED
    BY <1>1, PromoteExact
<1>3. DbOK(s) /\ Counted(s)
  BY <1>1 DEF Exact, Sound
<1>4. Sound(h)
  BY TakeSound DEF Exact
<1>5. /\ h.rows = s.rows /\ h.bytes = s.bytes
      /\ h.coord = [Cleared(s.coord) EXCEPT !.ownerTaskId = NoTask]
  BY <1>3 DEF DbOK
<1>6. h.coord.queuedCount = s.coord.queuedCount
  BY <1>3, <1>5, ClearedType DEF DbOK
<1> HIDE DEF h, s
<1>7. Queued(h) = Queued(s)
  BY <1>5 DEF Queued
<1>8. Counted(h)
  BY <1>3, <1>5, <1>6, <1>7, CountedCarries
<1>9. Exact(h)
  BY <1>4, <1>8 DEF Exact
<1>10. QED
  BY <1>2, <1>9 DEF h, s

-----------------------------------------------------------------------------
(* Every action.                                                           *)

LEMMA ExactNow == Inv /\ CountExact <=> Inv /\ Exact(Db)
BY InvSound DEF Exact, Counted, CountExact, Db

LEMMA WriteExact ==
  ASSUME NEW d, Exact(d), Write(d)
  PROVE  CountExact'
<1>1. coord' = d.coord /\ queuedBytes' = d.bytes /\ rows' = d.rows
  BY DEF Write
<1>2. Queued(Db)' = Queued(d)
  BY <1>1 DEF Queued, Db
<1>3. SizeOf(Db, Queued(Db))' = SizeOf(d, Queued(d))
  <2>1. Db' = d
    BY <1>1 DEF Db, Exact, Sound, DbOK
  <2>2. QED
    BY <1>2, <2>1
<1>4. QED
  BY <1>1, <1>2, <1>3 DEF CountExact, Exact, Counted

LEMMA CommitExact ==
  ASSUME NEW d, Exact(d), Commit(d)
  PROVE  CountExact'
BY WriteExact DEF Commit, Write

\* The counters and the queue stay when only the owner's fields, the clock or
\* the fields of rows that no sum reads are written.
LEMMA StaysExact ==
  ASSUME Inv, CountExact, coord'.queuedCount = coord.queuedCount,
         UNCHANGED queuedBytes,
         \A e \in Event : /\ rows'[e].status = rows[e].status
                          /\ rows'[e].req = rows[e].req
  PROVE  CountExact'
<1> DEFINE h == [coord |-> coord', bytes |-> queuedBytes', rows |-> rows']
<1>1. Exact(Db) /\ DbOK(Db) /\ Counted(Db)
  BY ExactNow DEF Exact, Sound
<1>2. /\ h.coord.queuedCount = Db.coord.queuedCount /\ h.bytes = Db.bytes
      /\ \A e \in Event : /\ h.rows[e].status = Db.rows[e].status
                          /\ h.rows[e].req = Db.rows[e].req
  BY DEF Db
<1>3. Db' = h
  BY DEF Db
<1>4. coord' = h.coord /\ queuedBytes' = h.bytes
  OBVIOUS
<1> HIDE DEF h
<1>5. Queued(h) = Queued(Db) /\ \A e \in Queued(Db) : h.rows[e].req = Db.rows[e].req
  BY <1>2 DEF Queued
<1>6. Counted(h)
  BY <1>1, <1>2, <1>5, CountedCarries
<1>7. Queued(Db)' = Queued(h)
  BY <1>3
<1>8. SizeOf(Db, Queued(Db))' = SizeOf(h, Queued(h))
  BY <1>3, <1>7
<1>9. QED
  BY <1>4, <1>6, <1>7, <1>8 DEF CountExact, Counted

LEMMA InitExact == Init => CountExact
<1> SUFFICES ASSUME Init PROVE CountExact
  OBVIOUS
<1>1. Queued(Db) = {}
  BY DEF Init, Queued, Db, NoRow
<1>2. SizeOf(Db, {}) = 0 /\ Cardinality({}) = 0
  BY SizeOfFew, FS_EmptySet
<1>3. coord.queuedCount = 0 /\ queuedBytes = 0
  BY DEF Init
<1>4. QED
  BY <1>1, <1>2, <1>3 DEF CountExact

LEMMA AdmissionExact ==
  ASSUME Inv, CountExact, OwnerDoesNotWait, Admission
  PROVE  CountExact'
<1>1. Exact(Db) /\ Sound(Db)
  BY ExactNow DEF Exact
<1>2. ASSUME NEW q \in Requests, AcceptAnswered(q) PROVE CountExact'
  BY <1>1, <1>2, ForgetExact, CommitExact DEF AcceptAnswered
<1>3. ASSUME NEW q \in Requests, AcceptRefused(q) PROVE CountExact'
  BY <1>1, <1>3, RecoveredExact, CommitExact DEF AcceptRefused
<1>4. ASSUME NEW q \in Requests, AcceptQueued(q) PROVE CountExact'
  <2>1. ~Answered(q) /\ Commit(Enqueue(Recovered(q), q))
    BY <1>4 DEF AcceptQueued
  <2>2. Exact(Enqueue(Recovered(q), q))
    BY <1>1, <2>1, RecoveredExact, ArrivalIsNew, EnqueueExact
  <2>3. QED
    BY <2>1, <2>2, CommitExact
<1>5. ASSUME NEW q \in Requests, AcceptOwner(q) PROVE CountExact'
  <2>1. ~Answered(q) /\ Commit(Own(Recovered(q), q))
    BY <1>5 DEF AcceptOwner
  <2>2. Exact(Own(Recovered(q), q))
    BY <1>1, <2>1, RecoveredExact, ArrivalIsNew, OwnExact
  <2>3. QED
    BY <2>1, <2>2, CommitExact
<1>6. ASSUME AcquireClear PROVE CountExact'
  <2> DEFINE d == ExpireQueuedEnvelopes(Db, QueuedPage(Db))
             h == [d EXCEPT !.coord = Acquire(@, ClearEvent, @.ownerTaskId,
                                              @.ownerGeneration + 1)]
             task == d.coord.ownerTaskId
             gen == d.coord.ownerGeneration + 1
  <2>1. Exact(d)
    BY <1>1, PageIsQueue, ExpireExact
  <2>2. DbOK(d) /\ Counted(d) /\ Sound(d)
    BY <2>1 DEF Exact, Sound
  <2> HIDE DEF d
  <2>3. /\ h = [coord |-> h.coord, bytes |-> h.bytes, rows |-> d.rows]
        /\ h.coord = Acquire(d.coord, ClearEvent, task, gen)
        /\ h.rows = d.rows /\ h.bytes = d.bytes
    BY <2>2 DEF DbOK
  <2>4. /\ h.coord \in Coordinator /\ h.coord.lease \in -1 .. LeaseTtl
        /\ h.coord.queuedCount = d.coord.queuedCount
    <3>1. /\ d.coord \in Coordinator /\ ClearEvent \in Owners
          /\ task \in Task \cup {NoTask} /\ gen \in Nat
      BY <2>2 DEF DbOK, Coordinator, Owners
    <3> HIDE DEF h, task, gen
    <3>2. QED
      BY <2>3, <3>1, AcquireType
  <2> HIDE DEF h
  <2>5. Exact(h)
    <3>1. Queued(h) = Queued(d)
      BY <2>3 DEF Queued
    <3>2. Counted(h)
      BY <2>2, <2>3, <2>4, <3>1, CountedCarries
    <3>3. h.coord.queuedCount >= d.coord.queuedCount
      BY <2>2, <2>4, CountType
    <3>4. Sound(h)
      BY <2>2, <2>3, <2>4, <3>3, CoordSound
    <3>5. QED
      BY <3>2, <3>4 DEF Exact
  <2>6. Commit(d) \/ Commit(h)
    BY <1>6 DEF AcquireClear, d, h
  <2>7. QED
    BY <2>1, <2>5, <2>6, CommitExact
<1>7. QED
  BY <1>2, <1>3, <1>4, <1>5, <1>6 DEF Admission

LEMMA WorkerExact ==
  ASSUME Inv, CountExact, Worker
  PROVE  CountExact'
<1>1. Exact(Db) /\ Sound(Db)
  BY ExactNow DEF Exact
<1>2. PICK g \in 1 .. Len(turns) :
        \/ \E told \in SUBSET Result :
             \/ AppendConversationEvent(g, told)
             \/ \E claim \in BOOLEAN : StepBoundary(g, told, claim)
             \/ \E outcome \in {"completed", "failed"} : Settle(g, outcome, told)
             \/ \E outcome \in {"none", "completed", "failed"} :
                  TakeNext(g, outcome, told)
        \/ \E textOnly \in BOOLEAN : ApplySteering(g, textOnly)
        \/ RenewOwner(g)
        \/ Interrupt(g)
        \/ ReleaseOwner(g)
  BY DEF Worker
<1>3. g \in Nat
  BY DEF Inv, TypeOK
<1>4. ASSUME NEW told PROVE Exact(InsertOwnedEvents(Db, told))
  BY <1>1, InsertEventsExact
<1>5. ASSUME NEW told \in SUBSET Result, AppendConversationEvent(g, told)
      PROVE  CountExact'
  BY <1>4, <1>5, WriteExact DEF AppendConversationEvent, InTurn
<1>6. ASSUME NEW told \in SUBSET Result, NEW claim \in BOOLEAN,
             StepBoundary(g, told, claim)
      PROVE  CountExact'
  <2> DEFINE d == InsertOwnedEvents(Db, told)
             steers == IF claim /\ ~Stopped(d, g) THEN Steers(d, FALSE) ELSE {}
             h == CASE Stopped(d, g) -> d
                    [] steers # {}   -> Claimed(d, steers)
                    [] OTHER -> RenewHeldLease(IF claim THEN Unclaimed(d) ELSE d)
  <2>1. Write(h)
    BY <1>6 DEF StepBoundary, InTurn
  <2>2. Exact(d)
    BY <1>4
  <2>3. Exact(h)
    <3> HIDE DEF d
    <3>1. steers \in SUBSET (QueuedPage(d) \ Due(d, QueuedPage(d)))
      BY SteersInPage
    <3>2. Exact(Claimed(d, steers))
      BY <2>2, <3>1, ClaimedExact
    <3>3. Exact(RenewHeldLease(IF claim THEN Unclaimed(d) ELSE d))
      BY <2>2, UnclaimedExact, RenewExact
    <3>4. QED
      BY <2>2, <3>2, <3>3
  <2> HIDE DEF h
  <2>4. QED
    BY <2>1, <2>3, WriteExact
<1>7. ASSUME NEW told \in SUBSET Result, NEW outcome \in {"completed", "failed"},
             Settle(g, outcome, told)
      PROVE  CountExact'
  <2>1. Write(SettleAppliedEnvelopes(InsertOwnedEvents(Db, told), outcome))
    BY <1>7 DEF Settle, InTurn
  <2>2. QED
    BY <1>4, <2>1, SettleExact, WriteExact
<1>8. ASSUME NEW told \in SUBSET Result,
             NEW outcome \in {"none", "completed", "failed"},
             TakeNext(g, outcome, told)
      PROVE  CountExact'
  <2> DEFINE w == InsertOwnedEvents(Db, told)
             d == IF outcome \in Terminal THEN SettleAppliedEnvelopes(w, outcome)
                  ELSE w
             page == QueuedPage(d)
             next == PromoteQueuedGroup(Swept(d), page \ Due(d, page), g + 1)
             freed == [Swept(d) EXCEPT
                        !.coord = [Cleared(@) EXCEPT !.ownerTaskId = NoTask]]
  <2>1. Exact(d)
    <3>1. Exact(w)
      BY <1>4
    <3>2. outcome \in Terminal => outcome \in {"completed", "failed"}
      BY DEF Terminal
    <3> HIDE DEF w
    <3>3. QED
      BY <3>1, <3>2, SettleExact
  <2>2. Commit(next) \/ Commit(freed)
    BY <1>8 DEF TakeNext
  <2>3. g + 1 \in Nat
    BY <1>3
  <2> HIDE DEF d
  <2>4. Exact(next) /\ Exact(freed)
    BY <2>1, <2>3, TakeExact
  <2> HIDE DEF next, freed
  <2>5. QED
    BY <2>2, <2>4, CommitExact
<1>9. ASSUME NEW textOnly \in BOOLEAN, ApplySteering(g, textOnly) PROVE CountExact'
  <2>1. Write(Db) \/ Write(ClaimSteering(Db, textOnly))
    BY <1>9 DEF ApplySteering, InTurn
  <2>2. QED
    BY <1>1, <2>1, ClaimExact, WriteExact
<1>10. ASSUME RenewOwner(g) PROVE CountExact'
  BY <1>1, <1>10, RenewExact, WriteExact DEF RenewOwner
<1>11. ASSUME Interrupt(g) PROVE CountExact'
  BY <1>1, <1>11, SettleExact, WriteExact DEF Interrupt, InTurn
<1>12. ASSUME ReleaseOwner(g) PROVE CountExact'
  <2>1. coord' = Cleared(coord) /\ UNCHANGED <<queuedBytes, rows>>
    BY <1>12 DEF ReleaseOwner
  <2>2. coord'.queuedCount = coord.queuedCount
    BY <2>1 DEF Cleared, Inv, TypeOK, Coordinator
  <2>3. QED
    BY <2>1, <2>2, StaysExact
<1>13. QED
  BY <1>2, <1>5, <1>6, <1>7, <1>8, <1>9, <1>10, <1>11, <1>12

LEMMA AgedKeeps ==
  ASSUME Inv, NEW e \in Event
  PROVE  /\ Aged(e).status = rows[e].status /\ Aged(e).req = rows[e].req
         /\ Aged(e).generation = rows[e].generation
         /\ Aged(e).appliedTo = rows[e].appliedTo
BY DEF Aged, Inv, TypeOK, Row, Admitted, NoRow

LEMMA CountStep ==
  Inv /\ CountExact /\ OwnerDoesNotWait /\ [Next]_vars => CountExact'
<1> SUFFICES ASSUME Inv, CountExact, OwnerDoesNotWait, [Next]_vars
             PROVE  CountExact'
  OBVIOUS
<1>1. Exact(Db) /\ Sound(Db)
  BY ExactNow DEF Exact
<1>2. ASSUME NEW expected \in Task \cup {NoTask}, StopOwner(expected)
      PROVE  CountExact'
  <2>1. coord'.queuedCount = coord.queuedCount /\ UNCHANGED <<queuedBytes, rows>>
    BY <1>2 DEF StopOwner, Inv, TypeOK, Coordinator
  <2>2. QED
    BY <2>1, StaysExact
<1>3. ASSUME Maintain PROVE CountExact'
  BY <1>1, <1>3, MaintainedExact, CommitExact DEF Maintain
<1>4. ASSUME RecoverQueued PROVE CountExact'
  BY <1>1, <1>4, SweepExact, CommitExact DEF RecoverQueued
<1>5. ASSUME Tick PROVE CountExact'
  <2>1. coord'.queuedCount = coord.queuedCount
    BY <1>5 DEF Tick, Inv, TypeOK, Coordinator
  <2>2. \A e \in Event : rows'[e].status = rows[e].status /\ rows'[e].req = rows[e].req
    BY <1>5, AgedKeeps DEF Tick
  <2>3. UNCHANGED queuedBytes
    BY <1>5 DEF Tick
  <2>4. QED
    BY <2>1, <2>2, <2>3, StaysExact
<1>6. ASSUME UNCHANGED vars PROVE CountExact'
  BY <1>6, StaysExact DEF vars
<1>7. QED
  BY <1>2, <1>3, <1>4, <1>5, <1>6, AdmissionExact, WorkerExact DEF Next

\* The counters the capacity test and the empty-queue test read are the number
\* and the bytes of the queued rows, on every path that moves a row into or out
\* of the queue, as long as no owner whose lease lapsed waits in the queue
\* itself.  (patchQueueCounters, expireStaleOwner.)
THEOREM CountersAreExact == Spec /\ []OwnerDoesNotWait => []CountExact
BY InvHolds, InitExact, CountStep, PTL DEF Spec

-----------------------------------------------------------------------------
(* When the condition holds.  An owner's row is in the way of a readmission  *)
(* unless it was given back, and only a resume that told nothing gives its   *)
(* row back while the row is kept.                                         *)

\* The event that owns the conversation does not name a resume that ended
\* without telling its result.
OwnersTell ==
  coord.ownerEventId \in Event => ~UndeliveredResume(coord.ownerEventId)

\* How much longer than it waits a row is kept.
Spare == StatusTtl - EnvelopeTtl

LEMMA SpareTime == Spare \in Nat /\ Spare > 0 /\ StatusTtl = Spare + EnvelopeTtl
BY BoundsAssumption DEF Spare

\* A row that may still start is kept that much longer.
WaitsBeforeItGoes(d) ==
  \A e \in Event : d.rows[e].status = "queued" /\ d.rows[e].ttl > 0
                   => d.rows[e].ttl + Spare <= d.rows[e].retain

\* The owner's row is out of the queue, and has that time left as long as the
\* lease lasts.
OwnerIsThere(d) ==
  LET owner == d.coord.ownerEventId
  IN  owner \in Event =>
        /\ d.rows[owner].status # "queued"
        /\ HasActiveOwner(d.coord) =>
             /\ d.rows[owner].generation = d.coord.ownerGeneration
             /\ d.rows[owner].retain > Spare

Lasting(d) == WaitsBeforeItGoes(d) /\ OwnerIsThere(d)

LastingInv == Lasting(Db)

\* Nothing joins the queue, and the owner's row stays its owner's.
Quiet(d, h) ==
  /\ \A e \in Event : h.rows[e].status = "queued" => h.rows[e] = d.rows[e]
  /\ h.coord.ownerEventId = d.coord.ownerEventId
  /\ h.coord.ownerGeneration = d.coord.ownerGeneration
  /\ HasActiveOwner(h.coord) => HasActiveOwner(d.coord)
  /\ d.coord.ownerEventId \in Event =>
       /\ h.rows[d.coord.ownerEventId].generation
            = d.rows[d.coord.ownerEventId].generation
       /\ h.rows[d.coord.ownerEventId].retain
            = d.rows[d.coord.ownerEventId].retain

LEMMA QuietOn ==
  ASSUME NEW d, NEW x, NEW h, Quiet(d, x), Quiet(x, h)
  PROVE  Quiet(d, h)
BY DEF Quiet

LEMMA QuietStill ==
  ASSUME NEW d
  PROVE  Quiet(d, d)
BY DEF Quiet

LEMMA QuietLasts ==
  ASSUME NEW d, NEW h, Lasting(d), Quiet(d, h)
  PROVE  Lasting(h)
<1>1. WaitsBeforeItGoes(h)
  BY DEF Quiet, Lasting, WaitsBeforeItGoes
<1>2. OwnerIsThere(h)
  BY DEF Quiet, Lasting, OwnerIsThere
<1>3. QED
  BY <1>1, <1>2 DEF Lasting

LEMMA QuietPlaced ==
  ASSUME NEW d, NEW h, Quiet(d, h), Placed(d, Queued(d))
  PROVE  Placed(h, Queued(h))
BY DEF Quiet, Placed, Queued

LEMMA WanesQuiet ==
  ASSUME NEW d, DbOK(d), NEW h, Wanes(d, h),
         d.coord.ownerEventId \in Event =>
           /\ h.rows[d.coord.ownerEventId].generation
                = d.rows[d.coord.ownerEventId].generation
           /\ h.rows[d.coord.ownerEventId].retain
                = d.rows[d.coord.ownerEventId].retain
  PROVE  Quiet(d, h)
BY WanesOwner DEF Wanes, Quiet

LEMMA DequeueQuiet ==
  ASSUME NEW d, DbOK(d), NEW S \in SUBSET Queued(d), NEW status \in Terminal
  PROVE  Quiet(d, Dequeue(d, S, Marked(d, status)))
<1> DEFINE h == Dequeue(d, S, Marked(d, status))
           owner == d.coord.ownerEventId
<1>1. Wanes(d, h)
  BY DequeueWanes
<1>2. ASSUME owner \in Event
      PROVE  /\ h.rows[owner].generation = d.rows[owner].generation
             /\ h.rows[owner].retain = d.rows[owner].retain
  <2>1. CASE owner \in S
    <3>1. h.rows[owner] = [d.rows[owner] EXCEPT !.status = status]
      BY <1>2, <2>1 DEF Dequeue, Marked
    <3>2. d.rows[owner] \in Admitted
      BY <1>2, <2>1, AdmittedRow DEF Queued
    <3> HIDE DEF h
    <3>3. QED
      BY <3>1, <3>2 DEF Admitted
  <2>2. CASE owner \notin S
    BY <1>2, <2>2 DEF Dequeue
  <2>3. QED
    BY <2>1, <2>2
<1> HIDE DEF h
<1>3. Quiet(d, h)
  BY <1>1, <1>2, WanesQuiet
<1>4. QED
  BY <1>3 DEF h

LEMMA ExpireQuiet ==
  ASSUME NEW d, DbOK(d), NEW page \in SUBSET Queued(d)
  PROVE  Quiet(d, ExpireQueuedEnvelopes(d, page))
BY DequeueQuiet DEF ExpireQueuedEnvelopes, Due, Terminal

LEMMA InsertEventsQuiet ==
  ASSUME NEW d, Sound(d), NEW told
  PROVE  Quiet(d, InsertOwnedEvents(d, told))
<1> DEFINE S == {e \in QueuedPage(d) : d.rows[e].req.result \in told}
<1>1. S \in SUBSET Queued(d) /\ DbOK(d)
  BY PageIsQueue DEF Sound
<1>2. InsertOwnedEvents(d, told) = Dequeue(d, S, Marked(d, "completed"))
  BY DEF InsertOwnedEvents
<1> HIDE DEF S
<1>3. QED
  BY <1>1, <1>2, DequeueQuiet DEF Terminal

LEMMA StaleOwnerQuiet ==
  ASSUME NEW d, Sound(d)
  PROVE  Quiet(d, ExpireStaleOwner(d))
<1> DEFINE h == ExpireStaleOwner(d)
           owner == d.coord.ownerEventId
<1>1. Wanes(d, h) /\ DbOK(d)
  BY StaleOwnerWanes DEF Sound
<1>2. ASSUME owner \in Event
      PROVE  /\ h.rows[owner].generation = d.rows[owner].generation
             /\ h.rows[owner].retain = d.rows[owner].retain
  <2>1. h.rows[owner] \in {d.rows[owner], Expired(d.rows[owner])}
    BY <1>2, StaleOwnerWanes
  <2>2. /\ Expired(d.rows[owner]).generation = d.rows[owner].generation
        /\ Expired(d.rows[owner]).retain = d.rows[owner].retain
    BY <1>1, <1>2 DEF Expired, DbOK, Row, Admitted, NoRow
  <2> HIDE DEF h
  <2>3. QED
    BY <2>1, <2>2
<1> HIDE DEF h
<1>3. Quiet(d, h)
  BY <1>1, <1>2, WanesQuiet
<1>4. QED
  BY <1>3 DEF h

LEMMA SettleQuiet ==
  ASSUME NEW d, Sound(d), NEW outcome \in {"completed", "failed"}
  PROVE  Quiet(d, SettleAppliedEnvelopes(d, outcome))
<1> DEFINE h == SettleAppliedEnvelopes(d, outcome)
           owner == d.coord.ownerEventId
<1>1. Wanes(d, h) /\ DbOK(d)
  BY SettleWanes DEF Sound
<1>2. ASSUME owner \in Event
      PROVE  /\ h.rows[owner].generation = d.rows[owner].generation
             /\ h.rows[owner].retain = d.rows[owner].retain
  <2>1. d.rows[owner] \in Row
    BY <1>1, <1>2 DEF DbOK
  <2>2. \/ h.rows[owner] = d.rows[owner]
        \/ \E b : h.rows[owner] = [d.rows[owner] EXCEPT !.status = outcome,
                                                        !.stoppedByUser = b]
    BY <1>1, <1>2 DEF SettleAppliedEnvelopes, DbOK
  <2> HIDE DEF h
  <2>3. QED
    BY <2>1, <2>2 DEF Row, Admitted, NoRow
<1> HIDE DEF h
<1>3. Quiet(d, h)
  BY <1>1, <1>2, WanesQuiet
<1>4. QED
  BY <1>3 DEF h

LEMMA LeaseQuiet ==
  ASSUME NEW d, DbOK(d), HasActiveOwner(d.coord)
  PROVE  Quiet(d, [d EXCEPT !.coord.lease = LeaseTtl])
BY LeaseFields DEF Quiet

\* An operator of a running turn keeps the lease it found.
LEMMA SweptQuiet ==
  ASSUME NEW d, Sound(d)
  PROVE  /\ Quiet(d, Swept(d))
         /\ HasActiveOwner(Swept(d).coord) = HasActiveOwner(d.coord)
<1>1. QueuedPage(d) \in SUBSET Queued(d) /\ DbOK(d)
  BY PageIsQueue DEF Sound
<1>2. Quiet(d, Swept(d))
  BY <1>1, ExpireQuiet DEF Swept
<1>3. QED
  BY <1>1, <1>2, SweptWanes, WanesOwner

LEMMA RenewQuiet ==
  ASSUME NEW d, DbOK(d), HasActiveOwner(d.coord)
  PROVE  Quiet(d, RenewHeldLease(d))
BY LeaseQuiet, QuietStill DEF RenewHeldLease

LEMMA UnclaimedQuiet ==
  ASSUME NEW d, Sound(d), HasActiveOwner(d.coord)
  PROVE  Quiet(d, Unclaimed(d)) /\ HasActiveOwner(Unclaimed(d).coord)
<1> DEFINE w == Swept(d)
           h == [w EXCEPT !.coord.lease = LeaseTtl]
<1>1. DbOK(w) /\ Quiet(d, w) /\ HasActiveOwner(w.coord)
  BY SweptSound, SweptQuiet DEF Sound
<1> HIDE DEF w
<1>2. Quiet(w, h)
  BY <1>1, LeaseQuiet
<1>3. HasActiveOwner(h.coord)
  <2>1. h.coord.ownerEventId = w.coord.ownerEventId /\ h.coord.lease = LeaseTtl
    BY <1>1, LeaseFields
  <2> HIDE DEF h
  <2>2. QED
    BY <1>1, <2>1, BoundsAssumption DEF HasActiveOwner
<1> HIDE DEF h
<1>4. Quiet(d, h)
  BY <1>1, <1>2, QuietOn
<1>5. Unclaimed(d) \in {d, h}
  BY DEF Unclaimed, w, h
<1>6. QED
  BY <1>3, <1>4, <1>5, QuietStill

LEMMA ClaimedQuiet ==
  ASSUME NEW d, Sound(d), HasActiveOwner(d.coord), OwnerIsThere(d),
         NEW S \in SUBSET (QueuedPage(d) \ Due(d, QueuedPage(d)))
  PROVE  Quiet(d, Claimed(d, S))
<1> DEFINE w == Swept(d)
           h == Claimed(d, S)
           owner == d.coord.ownerEventId
<1>1. Quiet(d, w) /\ S \in SUBSET Queued(w) /\ S \in SUBSET Queued(d)
  BY SweptQuiet, SweptSound, PageIsQueue
<1>2. Joined(d, S, h)
  BY <1>1, ClaimedMoves
<1> HIDE DEF h
<1>3. /\ \A e \in Event \ S : h.rows[e] = w.rows[e]
      /\ \A e \in S : h.rows[e].status = "processing"
      /\ h.coord.ownerEventId = owner
      /\ h.coord.ownerGeneration = d.coord.ownerGeneration
  BY <1>2 DEF Joined
<1> HIDE DEF w
<1>4. owner \in Event => owner \notin S
  BY <1>1 DEF OwnerIsThere, Queued
<1>5. Quiet(d, h)
  BY <1>1, <1>3, <1>4 DEF Quiet
<1>6. QED
  BY <1>5 DEF h

\* The row a turn begins with had not come to the end of its wait.
LEMMA PromoteLasts ==
  ASSUME NEW d, DbOK(d), Lasting(d), NEW A \in SUBSET Queued(d),
         Placed(d, Queued(d)), \A e \in A : d.rows[e].ttl > 0, NEW gen \in Nat
  PROVE  Lasting(PromoteQueuedGroup(d, A, gen))
<1>1. CASE A = {}
  BY <1>1 DEF PromoteQueuedGroup
<1>2. CASE A # {}
  <2> DEFINE h == PromoteQueuedGroup(d, A, gen)
             first == Oldest(d, A)
             S == NextGroup(d, A)
             m == Apply(d, S, first, gen)
  <2>1. A \in SUBSET Event /\ \A e \in A : d.rows[e].status = "queued"
    BY DEF Queued
  <2>2. Promoted(d, A, gen, h)
    BY <1>2, <2>1, PromoteMoves
  <2>3. first \in S
    <3>1. Placed(d, A)
      BY DEF Placed
    <3>2. QED
      BY <1>2, <2>1, <3>1, FirstInGroup
  <2>4. first \in A /\ first \in Event /\ d.rows[first] \in Admitted
    BY <1>2, <2>1, OldestExists, AdmittedRow
  <2>5. h.rows[first].retain = d.rows[first].retain
    <3>1. h.rows = m.rows
      <4>1. h = [m EXCEPT !.coord = Acquire(@, first, d.rows[first].req.task, gen)]
        BY <1>2 DEF PromoteQueuedGroup
      <4>2. m = [coord |-> m.coord, bytes |-> m.bytes, rows |-> m.rows]
        BY DEF Apply, Dequeue
      <4> HIDE DEF m
      <4>3. QED
        BY <4>1, <4>2
    <3>2. m.rows[first] = [d.rows[first] EXCEPT !.status = "processing",
                             !.appliedTo = first, !.generation = gen]
      BY <2>3, <2>4 DEF Apply, Dequeue
    <3> HIDE DEF m, h
    <3>3. QED
      BY <2>4, <3>1, <3>2 DEF Admitted
  <2> HIDE DEF h
  <2>6. d.rows[first].retain > Spare
    <3>1. /\ d.rows[first].ttl > 0
          /\ d.rows[first].ttl + Spare <= d.rows[first].retain
      BY <2>1, <2>4 DEF Lasting, WaitsBeforeItGoes
    <3>2. d.rows[first].ttl \in Nat /\ d.rows[first].retain \in Nat
      BY <2>4 DEF Admitted
    <3>3. QED
      BY <3>1, <3>2, SpareTime
  <2>7. OwnerIsThere(h)
    BY <2>2, <2>3, <2>5, <2>6 DEF Promoted, OwnerIsThere
  <2>8. WaitsBeforeItGoes(h)
    <3>1. \A e \in Event : h.rows[e].status = "queued" => h.rows[e] = d.rows[e]
      BY <2>2 DEF Promoted
    <3>2. QED
      BY <3>1 DEF Lasting, WaitsBeforeItGoes
  <2>9. QED
    BY <2>7, <2>8 DEF Lasting, h
<1>3. QED
  BY <1>1, <1>2

\* The rows a page leaves when its due ones expired still have time.
LEMMA PageLasts ==
  ASSUME NEW d, DbOK(d), NEW page \in SUBSET Queued(d), NEW e \in page \ Due(d, page)
  PROVE  /\ ExpireQueuedEnvelopes(d, page).rows[e] = d.rows[e]
         /\ d.rows[e].ttl > 0
<1>1. e \in Event /\ d.rows[e].status = "queued"
  BY DEF Queued
<1>2. d.rows[e].ttl \in Nat
  BY <1>1, AdmittedRow DEF Admitted
<1>3. ExpireQueuedEnvelopes(d, page).rows[e] = d.rows[e]
  BY <1>1 DEF ExpireQueuedEnvelopes, Dequeue
<1>4. ~(d.rows[e].ttl <= 0)
  BY DEF Due
<1>5. QED
  BY <1>2, <1>3, <1>4

LEMMA ForgetQuiet ==
  ASSUME NEW q, Sound(Db), OwnersTell
  PROVE  Quiet(Db, Forget(q))
<1> DEFINE h == Forget(q)
<1>1. /\ h.coord = coord /\ Db.coord = coord /\ Db.rows = rows
      /\ \A e \in Event : h.rows[e] = IF e \in Forgotten(q) THEN NoRow ELSE rows[e]
  BY DEF Forget, Db
<1>2. coord.ownerEventId \in Event => coord.ownerEventId \notin Forgotten(q)
  BY DEF OwnersTell, Forgotten
<1> HIDE DEF h
<1>3. Quiet(Db, h)
  BY <1>1, <1>2 DEF Quiet, NoRow
<1>4. QED
  BY <1>3 DEF h

LEMMA PreparedLasts ==
  ASSUME NEW q, Sound(Db), OwnersTell, LastingInv
  PROVE  /\ Quiet(Db, Prepared(q))
         /\ LET d == Forget(q)
                A == QueuedPage(d) \ Due(d, QueuedPage(d))
            IN  /\ A \in SUBSET Queued(Prepared(q))
                /\ \A e \in A : Prepared(q).rows[e].ttl > 0
<1> DEFINE d == Forget(q)
           page == QueuedPage(d)
           A == page \ Due(d, page)
           x == ExpireQueuedEnvelopes(d, page)
           h == ExpireStaleOwner(x)
           owner == x.coord.ownerEventId
<1>1. Sound(d) /\ DbOK(d) /\ Quiet(Db, d)
  BY ForgetSound, ForgetQuiet DEF Sound
<1>2. page = Queued(d)
  BY <1>1, PageIsQueue
<1>3. /\ Sound(x) /\ DbOK(x) /\ Queued(x) = A /\ Quiet(d, x)
      /\ \A e \in A : x.rows[e].ttl > 0
  BY <1>1, <1>2, ExpireSound, ExpireQuiet, PageLasts DEF Sound
<1>4. Quiet(Db, x) /\ Lasting(x)
  <2> HIDE DEF d, x
  <2> QED
    BY <1>1, <1>3, QuietOn, QuietLasts DEF LastingInv
<1>5. Quiet(Db, h)
  <2>1. Quiet(x, h)
    BY <1>3, StaleOwnerQuiet
  <2> HIDE DEF x, h
  <2>2. QED
    BY <1>4, <2>1, QuietOn
<1>6. ASSUME NEW e \in A PROVE h.rows[e] = x.rows[e]
  <2>1. e \in Event /\ x.rows[e].status = "queued"
    BY <1>3 DEF Queued
  <2>2. owner \in Event => e # owner
    BY <1>4, <2>1 DEF Lasting, OwnerIsThere
  <2>3. \/ h = x
        \/ owner \in Event /\ h = [x EXCEPT !.rows[owner] = Expired(@)]
    BY DEF ExpireStaleOwner
  <2>4. x.rows \in [Event -> Row] /\ x = [coord |-> x.coord, bytes |-> x.bytes, rows |-> x.rows]
    BY <1>3 DEF DbOK
  <2> HIDE DEF h, x
  <2>5. QED
    BY <2>1, <2>2, <2>3, <2>4
<1>7. h = Prepared(q)
  BY DEF Prepared
<1> HIDE DEF h, x
<1>8. A \in SUBSET Queued(h) /\ \A e \in A : h.rows[e].ttl > 0
  BY <1>3, <1>6 DEF Queued
<1>9. QED
  BY <1>5, <1>7, <1>8

LEMMA RecoveredLasts ==
  ASSUME NEW q, Sound(Db), OwnersTell, LastingInv, Placed(Db, Queued(Db))
  PROVE  Lasting(Recovered(q))
<1> DEFINE page == QueuedPage(Forget(q))
           A    == page \ Due(Forget(q), page)
           p    == Prepared(q)
           gen  == p.coord.ownerGeneration + 1
<1>1. /\ Quiet(Db, p) /\ A \in SUBSET Queued(p)
      /\ \A e \in A : p.rows[e].ttl > 0
  BY PreparedLasts
<1>2. DbOK(p) /\ gen \in Nat
  <2>1. Sound(p)
    BY PreparedSound
  <2>2. QED
    BY <2>1 DEF Sound, DbOK, Coordinator
<1>3. Recovered(q) \in {p, PromoteQueuedGroup(p, A, gen)}
  BY DEF Recovered
<1> HIDE DEF A, p, gen
<1>4. Lasting(p) /\ Placed(p, Queued(p))
  BY <1>1, QuietLasts, QuietPlaced DEF LastingInv
<1>5. Lasting(PromoteQueuedGroup(p, A, gen))
  BY <1>1, <1>2, <1>4, PromoteLasts
<1>6. QED
  BY <1>3, <1>4, <1>5

LEMMA EnqueueLasts ==
  ASSUME NEW d, DbOK(d), Lasting(d), HasActiveOwner(d.coord), NEW q \in Requests,
         d.rows[q.event].status = "none"
  PROVE  Lasting(Enqueue(d, q))
<1> DEFINE h == Enqueue(d, q)
           n == q.event
<1>1. /\ \A e \in Event \ {n} : h.rows[e] = d.rows[e]
      /\ h.coord.ownerEventId = d.coord.ownerEventId
      /\ h.coord.ownerGeneration = d.coord.ownerGeneration
      /\ n \in Event
  BY EnqueueMoves, EventOf
<1>2. h.rows[n].ttl = EnvelopeTtl /\ h.rows[n].retain = StatusTtl
  BY <1>1 DEF Enqueue, NewRow, NoRow, DbOK
<1>3. d.rows[n] = NoRow
  BY <1>1 DEF DbOK, Row, Admitted
<1>4. d.coord.ownerEventId \in Event => d.coord.ownerEventId # n
  BY <1>3, SpareTime DEF Lasting, OwnerIsThere, NoRow
<1> HIDE DEF h, n
<1>5. WaitsBeforeItGoes(h)
  <2>1. EnvelopeTtl + Spare <= StatusTtl
    BY SpareTime, BoundsAssumption
  <2>2. QED
    BY <1>1, <1>2, <2>1 DEF Lasting, WaitsBeforeItGoes
<1>6. OwnerIsThere(h)
  BY <1>1, <1>4 DEF Lasting, OwnerIsThere
<1>7. QED
  BY <1>5, <1>6 DEF Lasting, h

LEMMA OwnLasts ==
  ASSUME NEW d, DbOK(d), Lasting(d), NEW q \in Requests
  PROVE  Lasting(Own(d, q))
<1> DEFINE h == Own(d, q)
           n == q.event
<1>1. /\ \A e \in Event \ {n} : h.rows[e] = d.rows[e]
      /\ h.rows[n].status = "processing"
      /\ h.rows[n].generation = d.coord.ownerGeneration + 1
      /\ h.coord.ownerEventId = n
      /\ h.coord.ownerGeneration = d.coord.ownerGeneration + 1
      /\ n \in Event
  BY OwnMoves, EventOf
<1>2. h.rows[n].retain = StatusTtl
  BY <1>1 DEF Own, NewRow, NoRow, DbOK
<1>3. StatusTtl > Spare
  BY SpareTime, BoundsAssumption
<1> HIDE DEF h, n
<1>4. WaitsBeforeItGoes(h) /\ OwnerIsThere(h)
  BY <1>1, <1>2, <1>3 DEF Lasting, WaitsBeforeItGoes, OwnerIsThere
<1>5. QED
  BY <1>4 DEF Lasting, h

\* The cron keeps the row of a turn that holds the lease: it is not at its end.
LEMMA MaintainedLasts ==
  ASSUME NEW d, Sound(d), Lasting(d)
  PROVE  Lasting(Maintained(d))
<1> DEFINE s == ExpireQueuedEnvelopes(d, Queued(d))
           due == Due(d, {e \in Event : d.rows[e].status = "processing"})
           h == Maintained(d)
<1>1. DbOK(d) /\ DbOK(s) /\ Quiet(d, s) /\ Lasting(s)
  BY ExpireSound, ExpireQuiet, QuietLasts DEF Sound
<1>2. \/ h.coord = s.coord
      \/ h.coord.ownerEventId = NoEvent
  BY <1>1 DEF Maintained, DbOK, Coordinator
<1>3. ASSUME NEW e \in Event
      PROVE  /\ h.rows[e].status = "queued" => h.rows[e] = s.rows[e]
             /\ s.rows[e].retain > 0 => /\ h.rows[e].retain = s.rows[e].retain
                                        /\ h.rows[e].generation = s.rows[e].generation
  <2>1. s.rows[e] \in Row /\ (s.rows[e].retain > 0 => s.rows[e] \in Admitted)
    BY <1>1 DEF DbOK, Row, NoRow
  <2>2. CASE e \in due
    <3>1. d.rows[e].status = "processing"
      BY <2>2 DEF Due
    <3>2. s.rows[e] = d.rows[e]
      BY <3>1 DEF ExpireQueuedEnvelopes, Dequeue, Due, Queued
    <3>3. s.rows[e] \in Admitted /\ s.rows[e].status = "processing"
      BY <1>1, <3>1, <3>2, AdmittedRow
    <3>4. PICK r : /\ \/ r = Expired(s.rows[e])
                      \/ r = [s.rows[e] EXCEPT !.ttl = d.coord.lease]
                   /\ h.rows[e] = IF r.status \in Terminal /\ r.retain <= 0
                                  THEN NoRow ELSE r
      BY <2>2 DEF Maintained
    <3> HIDE DEF h, s
    <3>5. /\ r.retain = s.rows[e].retain /\ r.generation = s.rows[e].generation
          /\ r.status # "queued"
      BY <3>3, <3>4 DEF Expired, Admitted
    <3>6. s.rows[e].retain > 0 => ~(r.retain <= 0)
      BY <3>3, <3>5 DEF Admitted
    <3>7. QED
      BY <3>4, <3>5, <3>6 DEF NoRow
  <2>3. CASE e \notin due
    <3>1. h.rows[e] = IF s.rows[e].status \in Terminal /\ s.rows[e].retain <= 0
                      THEN NoRow ELSE s.rows[e]
      BY <2>3 DEF Maintained
    <3> HIDE DEF h, s
    <3>2. s.rows[e].retain > 0 => ~(s.rows[e].retain <= 0)
      BY <2>1 DEF Admitted
    <3>3. QED
      BY <3>1, <3>2 DEF NoRow
  <2>4. QED
    BY <2>2, <2>3
<1> HIDE DEF h, s
<1>4. WaitsBeforeItGoes(h)
  BY <1>1, <1>3 DEF Lasting, WaitsBeforeItGoes
<1>5. OwnerIsThere(h)
  <2>1. CASE h.coord.ownerEventId = NoEvent
    BY <2>1, NamesAssumption DEF OwnerIsThere
  <2>2. CASE h.coord = s.coord
    <3>1. \A e \in Event : s.rows[e].retain > Spare => s.rows[e].retain > 0
      BY <1>1, SpareTime DEF DbOK, Row, Admitted, NoRow
    <3>2. QED
      BY <1>1, <1>3, <2>2, <3>1 DEF Lasting, OwnerIsThere
  <2>3. QED
    BY <1>2, <2>1, <2>2
<1>6. QED
  BY <1>4, <1>5 DEF Lasting, h

LEMMA SweepLasts ==
  ASSUME Sound(Db), LastingInv, Placed(Db, Queued(Db))
  PROVE  Lasting(SweepRecovered)
<1> DEFINE d == ExpireStaleOwner(Db)
           page == Queued(d)
           A == page \ Due(d, page)
           s == ExpireQueuedEnvelopes(d, page)
           gen == d.coord.ownerGeneration + 1
           r == [coord |-> [s.coord EXCEPT !.queuedCount = Cardinality(A)],
                 bytes |-> SizeOf(d, A),
                 rows  |-> s.rows]
<1>1. Sound(d) /\ DbOK(d) /\ Quiet(Db, d)
  BY StaleOwnerSound, StaleOwnerQuiet DEF Sound
<1>2. Sound(s) /\ DbOK(s) /\ Queued(s) = A /\ Quiet(d, s)
  BY <1>1, ExpireSound, ExpireQuiet DEF Sound
<1>3. Lasting(s) /\ Placed(s, Queued(s))
  <2> HIDE DEF d, s
  <2> QED
    BY <1>1, <1>2, QuietLasts, QuietPlaced DEF LastingInv
<1>4. /\ r.rows = s.rows
      /\ r.coord = [s.coord EXCEPT !.queuedCount = Cardinality(A)]
      /\ r = [coord |-> r.coord, bytes |-> r.bytes, rows |-> r.rows]
  OBVIOUS
<1>5. /\ r.coord \in Coordinator /\ r.coord.lease = s.coord.lease
      /\ r.coord.ownerEventId = s.coord.ownerEventId
      /\ r.coord.ownerGeneration = s.coord.ownerGeneration
  <2>1. s.coord \in Coordinator
    BY <1>2 DEF DbOK
  <2>2. Cardinality(A) \in Nat
    BY QueuedFinite DEF Queued
  <2> HIDE DEF s, r, A
  <2>3. QED
    BY <1>4, <2>1, <2>2 DEF Coordinator
<1>6. \A e \in A : s.rows[e].ttl > 0
  BY <1>1, PageLasts
<1>7. gen \in Nat
  BY <1>1 DEF DbOK, Coordinator
<1> HIDE DEF r, s, A
<1>8. DbOK(r) /\ Lasting(r) /\ Placed(r, Queued(r))
  <2>1. DbOK(r)
    BY <1>2, <1>4, <1>5 DEF DbOK
  <2>2. Quiet(s, r)
    BY <1>4, <1>5 DEF Quiet, HasActiveOwner
  <2>3. QED
    BY <1>3, <2>1, <2>2, QuietLasts, QuietPlaced
<1>9. A \in SUBSET Queued(r) /\ \A e \in A : r.rows[e].ttl > 0
  BY <1>2, <1>4, <1>6 DEF Queued
<1> HIDE DEF gen
<1>10. Lasting(PromoteQueuedGroup(r, A, gen))
  BY <1>7, <1>8, <1>9, PromoteLasts
<1>11. SweepRecovered = PromoteQueuedGroup(r, A, gen)
  BY DEF SweepRecovered, r, A, s, gen
<1>12. QED
  BY <1>10, <1>11

LEMMA TakeLasts ==
  ASSUME NEW d, Sound(d), Lasting(d), Placed(d, Queued(d)), NEW gen \in Nat
  PROVE  LET page == QueuedPage(d)
         IN  /\ Lasting(PromoteQueuedGroup(Swept(d), page \ Due(d, page), gen))
             /\ Lasting([Swept(d) EXCEPT
                          !.coord = [Cleared(@) EXCEPT !.ownerTaskId = NoTask]])
<1> DEFINE page == QueuedPage(d)
           s == Swept(d)
           A == page \ Due(d, page)
           h == [s EXCEPT !.coord = [Cleared(@) EXCEPT !.ownerTaskId = NoTask]]
<1>1. /\ Sound(s) /\ DbOK(s) /\ Queued(s) = A
      /\ Lasting(s) /\ Placed(s, Queued(s))
  BY SweptSound, SweptQuiet, QuietLasts, QuietPlaced DEF Sound
<1>2. \A e \in A : s.rows[e].ttl > 0
  <2>1. page \in SUBSET Queued(d) /\ DbOK(d)
    BY PageIsQueue DEF Sound
  <2>2. QED
    BY <2>1, PageLasts DEF Swept
<1>3. Lasting(PromoteQueuedGroup(s, A, gen))
  <2> HIDE DEF s, A
  <2> QED
    BY <1>1, <1>2, PromoteLasts
<1>4. h.rows = s.rows /\ h.coord.ownerEventId = NoEvent
  BY <1>1 DEF DbOK, Cleared, Coordinator
<1> HIDE DEF h, s
<1>5. Lasting(h)
  BY <1>1, <1>4, NamesAssumption DEF Lasting, WaitsBeforeItGoes, OwnerIsThere
<1>6. QED
  BY <1>3, <1>5 DEF h, s

\* The row an arrival is stored in is nobody's.
LEMMA ArrivalHasNoRow ==
  ASSUME NEW q \in Requests, ~Answered(q), Sound(Db), OwnersTell, LastingInv
  PROVE  Recovered(q).rows[q.event].status = "none"
<1> DEFINE d == Forget(q)
           page == QueuedPage(d)
           A == page \ Due(d, page)
           x == ExpireQueuedEnvelopes(d, page)
           p == Prepared(q)
           gen == p.coord.ownerGeneration + 1
           n == q.event
<1>1. d.rows[n].status = "none" /\ n \in Event
  BY EventOf DEF Answered
<1>2. n \notin page
  <2>1. page \in SUBSET Queued(d)
    BY ForgetSound, PageIsQueue
  <2>2. QED
    BY <1>1, <2>1 DEF Queued
<1>3. x.rows[n].status = "none"
  BY <1>1, <1>2 DEF ExpireQueuedEnvelopes, Dequeue, Due
<1>4. p.rows[n].status = "none"
  <2>1. p = ExpireStaleOwner(x)
    BY DEF Prepared
  <2> HIDE DEF p, x
  <2>2. \/ p = x
        \/ /\ x.coord.ownerEventId \in Event
           /\ x.rows[x.coord.ownerEventId].status \in {"queued", "processing"}
           /\ p = [x EXCEPT !.rows[x.coord.ownerEventId] = Expired(@)]
    BY <2>1 DEF ExpireStaleOwner
  <2>3. /\ x = [coord |-> x.coord, bytes |-> x.bytes, rows |-> x.rows]
        /\ x.rows \in [Event -> Row]
    <3>1. DbOK(x)
      BY PreparedWanes DEF x
    <3>2. QED
      BY <3>1 DEF DbOK
  <2>4. \/ p.rows = x.rows
        \/ \E o \in Event : /\ x.rows[o].status \in {"queued", "processing"}
                            /\ p.rows = [x.rows EXCEPT ![o] = Expired(@)]
    BY <2>2, <2>3
  <2>5. QED
    BY <1>1, <1>3, <2>3, <2>4
<1>5. A \in SUBSET Queued(p)
  BY PreparedLasts
<1>6. DbOK(p) /\ gen \in Nat
  <2>1. Sound(p)
    BY PreparedSound
  <2>2. QED
    BY <2>1 DEF Sound, DbOK, Coordinator
<1>7. n \notin A
  BY <1>2
<1>8. Recovered(q) \in {p, PromoteQueuedGroup(p, A, gen)}
  BY DEF Recovered
<1> HIDE DEF p, A, n, gen
<1>9. PromoteQueuedGroup(p, A, gen).rows[n] = p.rows[n]
  <2>1. CASE A = {}
    BY <2>1 DEF PromoteQueuedGroup
  <2>2. CASE A # {}
    <3>1. A \in SUBSET Event /\ \A e \in A : p.rows[e].status # "none"
      BY <1>5 DEF Queued
    <3>2. Promoted(p, A, gen, PromoteQueuedGroup(p, A, gen))
      BY <1>6, <2>2, <3>1, PromoteMoves
    <3>3. QED
      BY <1>1, <1>7, <3>2 DEF Promoted
  <2>3. QED
    BY <2>1, <2>2
<1>10. Recovered(q).rows[n].status = "none"
  BY <1>4, <1>8, <1>9
<1>11. QED
  BY <1>10 DEF n

-----------------------------------------------------------------------------
(* The step.                                                               *)

LEMMA WriteLasts ==
  ASSUME NEW d, Lasting(d), Write(d)
  PROVE  LastingInv'
<1>1. coord' = d.coord /\ rows' = d.rows
  BY DEF Write
<1>2. WaitsBeforeItGoes(d) /\ OwnerIsThere(d)
  BY DEF Lasting
<1>3. WaitsBeforeItGoes(Db)'
  BY <1>1, <1>2 DEF WaitsBeforeItGoes, Db
<1>4. OwnerIsThere(Db)'
  BY <1>1, <1>2 DEF OwnerIsThere, Db, HasActiveOwner
<1>5. QED
  BY <1>3, <1>4 DEF LastingInv, Lasting

LEMMA CommitLasts ==
  ASSUME NEW d, Lasting(d), Commit(d)
  PROVE  LastingInv'
BY WriteLasts DEF Commit, Write

LEMMA WriteQuiet ==
  ASSUME NEW d, LastingInv, Quiet(Db, d), Write(d)
  PROVE  LastingInv'
BY QuietLasts, WriteLasts DEF LastingInv

\* The rows stay, and the owner goes or keeps what it holds.
LEMMA StaysLasts ==
  ASSUME LastingInv, UNCHANGED rows,
         \/ coord'.ownerEventId = NoEvent
         \/ /\ coord'.ownerEventId = coord.ownerEventId
            /\ coord'.ownerGeneration = coord.ownerGeneration
            /\ coord'.lease = coord.lease
  PROVE  LastingInv'
<1>1. WaitsBeforeItGoes(Db) /\ OwnerIsThere(Db)
  BY DEF LastingInv, Lasting
<1>2. WaitsBeforeItGoes(Db)'
  BY <1>1 DEF WaitsBeforeItGoes, Db
<1>3. OwnerIsThere(Db)'
  BY <1>1, NamesAssumption DEF OwnerIsThere, Db, HasActiveOwner
<1>4. QED
  BY <1>2, <1>3 DEF LastingInv, Lasting

LEMMA InitLasts == Init => LastingInv
<1> SUFFICES ASSUME Init PROVE LastingInv
  OBVIOUS
<1>1. coord.ownerEventId = NoEvent /\ \A e \in Event : rows[e].status = "none"
  BY DEF Init, NoRow
<1>2. QED
  BY <1>1, NamesAssumption
     DEF LastingInv, Lasting, WaitsBeforeItGoes, OwnerIsThere, Db

\* What the steps start from.
LEMMA LastingNow ==
  ASSUME NumberedInv, LastingInv
  PROVE  /\ Sound(Db) /\ DbOK(Db) /\ Lasting(Db) /\ Placed(Db, Queued(Db))
         /\ Db.coord = coord
<1>1. Sound(Db) /\ DbOK(Db) /\ RowsOK(Db) /\ Db.coord = coord
  BY InvSound DEF NumberedInv, Sound
<1>2. Placed(Db, Queued(Db))
  BY <1>1 DEF RowsOK, Placed, Queued
<1>3. QED
  BY <1>1, <1>2 DEF LastingInv

LEMMA AdmissionLasts ==
  ASSUME NumberedInv, LastingInv, OwnersTell, Admission
  PROVE  LastingInv'
<1>1. /\ Sound(Db) /\ DbOK(Db) /\ Lasting(Db) /\ Placed(Db, Queued(Db))
      /\ Db.coord = coord
  BY LastingNow
<1>2. ASSUME NEW q \in Requests PROVE DbOK(Recovered(q)) /\ Lasting(Recovered(q))
  BY <1>1, RecoveredSound, RecoveredLasts DEF Sound
<1>3. ASSUME NEW q \in Requests, AcceptAnswered(q) PROVE LastingInv'
  <2>1. Quiet(Db, Forget(q)) /\ Write(Forget(q))
    BY <1>1, <1>3, ForgetQuiet DEF AcceptAnswered, Commit, Write
  <2>2. QED
    BY <2>1, WriteQuiet
<1>4. ASSUME NEW q \in Requests, AcceptRefused(q) PROVE LastingInv'
  BY <1>2, <1>4, CommitLasts DEF AcceptRefused
<1>5. ASSUME NEW q \in Requests, AcceptQueued(q) PROVE LastingInv'
  <2>1. /\ ~Answered(q) /\ HasActiveOwner(Recovered(q).coord)
        /\ Commit(Enqueue(Recovered(q), q))
    BY <1>5 DEF AcceptQueued
  <2>2. Recovered(q).rows[q.event].status = "none"
    BY <1>1, <2>1, ArrivalHasNoRow
  <2>3. Lasting(Enqueue(Recovered(q), q))
    BY <1>2, <2>1, <2>2, EnqueueLasts
  <2>4. QED
    BY <2>1, <2>3, CommitLasts
<1>6. ASSUME NEW q \in Requests, AcceptOwner(q) PROVE LastingInv'
  BY <1>2, <1>6, OwnLasts, CommitLasts DEF AcceptOwner
<1>7. ASSUME AcquireClear PROVE LastingInv'
  <2> DEFINE d == ExpireQueuedEnvelopes(Db, QueuedPage(Db))
             h == [d EXCEPT !.coord = Acquire(@, ClearEvent, @.ownerTaskId,
                                              @.ownerGeneration + 1)]
  <2>1. DbOK(d) /\ Lasting(d)
    <3>1. QueuedPage(Db) \in SUBSET Queued(Db) /\ QueuedPage(Db) = Queued(Db)
      BY <1>1, PageIsQueue
    <3>2. Sound(d) /\ Quiet(Db, d)
      BY <1>1, <3>1, ExpireSound, ExpireQuiet
    <3> HIDE DEF d
    <3>3. QED
      BY <1>1, <3>2, QuietLasts DEF Sound
  <2>2. Commit(d) \/ Commit(h)
    BY <1>7 DEF AcquireClear
  <2> HIDE DEF d
  <2>3. h.rows = d.rows /\ h.coord.ownerEventId = ClearEvent
    BY <2>1 DEF DbOK, Acquire, Coordinator
  <2> HIDE DEF h
  <2>4. Lasting(h)
    BY <2>1, <2>3, NamesAssumption DEF Lasting, WaitsBeforeItGoes, OwnerIsThere
  <2>5. QED
    BY <2>1, <2>2, <2>4, CommitLasts
<1>8. QED
  BY <1>3, <1>4, <1>5, <1>6, <1>7 DEF Admission

LEMMA ClaimLasts ==
  ASSUME NEW d, Sound(d), Lasting(d), HasActiveOwner(d.coord),
         NEW S \in SUBSET (QueuedPage(d) \ Due(d, QueuedPage(d)))
  PROVE  /\ Lasting(Claimed(d, S))
         /\ Lasting(Unclaimed(d))
         /\ Lasting(RenewHeldLease(d))
         /\ Lasting(RenewHeldLease(Unclaimed(d)))
<1>1. DbOK(d) /\ OwnerIsThere(d)
  BY DEF Sound, Lasting
<1>2. Quiet(d, Claimed(d, S))
  BY <1>1, ClaimedQuiet
<1>3. Quiet(d, Unclaimed(d)) /\ HasActiveOwner(Unclaimed(d).coord)
  BY UnclaimedQuiet
<1>4. DbOK(Unclaimed(d))
  BY UnclaimedSound DEF Sound
<1>5. Quiet(d, RenewHeldLease(d))
  BY <1>1, RenewQuiet
<1>6. Quiet(Unclaimed(d), RenewHeldLease(Unclaimed(d)))
  BY <1>3, <1>4, RenewQuiet
<1>7. Lasting(Unclaimed(d))
  BY <1>3, QuietLasts
<1>8. QED
  BY <1>2, <1>5, <1>6, <1>7, QuietLasts

LEMMA WorkerLasts ==
  ASSUME NumberedInv, LastingInv, Worker
  PROVE  LastingInv'
<1>1. /\ Sound(Db) /\ DbOK(Db) /\ Lasting(Db) /\ Placed(Db, Queued(Db))
      /\ Db.coord = coord
  BY LastingNow
<1>2. PICK g \in 1 .. Len(turns) :
        \/ \E told \in SUBSET Result :
             \/ AppendConversationEvent(g, told)
             \/ \E claim \in BOOLEAN : StepBoundary(g, told, claim)
             \/ \E outcome \in {"completed", "failed"} : Settle(g, outcome, told)
             \/ \E outcome \in {"none", "completed", "failed"} :
                  TakeNext(g, outcome, told)
        \/ \E textOnly \in BOOLEAN : ApplySteering(g, textOnly)
        \/ RenewOwner(g)
        \/ Interrupt(g)
        \/ ReleaseOwner(g)
  BY DEF Worker
<1>3. g + 1 \in Nat
  BY DEF NumberedInv, Inv, TypeOK
<1>4. RunsTurn(g) => HasActiveOwner(Db.coord)
  BY <1>1 DEF RunsTurn, RequireOwner
<1>5. ASSUME NEW told
      PROVE  LET d == InsertOwnedEvents(Db, told)
             IN  /\ Sound(d) /\ Lasting(d) /\ Placed(d, Queued(d)) /\ Quiet(Db, d)
                 /\ RunsTurn(g) => HasActiveOwner(d.coord)
  <2> DEFINE d == InsertOwnedEvents(Db, told)
  <2>1. Sound(d) /\ Quiet(Db, d) /\ Wanes(Db, d)
    BY <1>1, InsertEventsSound, InsertEventsQuiet, InsertEventsWanes
  <2> HIDE DEF d
  <2>2. Lasting(d) /\ Placed(d, Queued(d))
    BY <1>1, <2>1, QuietLasts, QuietPlaced
  <2>3. RunsTurn(g) => HasActiveOwner(d.coord)
    BY <1>1, <1>4, <2>1, WanesOwner
  <2>4. QED
    BY <2>1, <2>2, <2>3 DEF d
<1>6. ASSUME NEW told \in SUBSET Result, AppendConversationEvent(g, told)
      PROVE  LastingInv'
  BY <1>5, <1>6, WriteLasts DEF AppendConversationEvent, InTurn
<1>7. ASSUME NEW told \in SUBSET Result, NEW claim \in BOOLEAN,
             StepBoundary(g, told, claim)
      PROVE  LastingInv'
  <2> DEFINE d == InsertOwnedEvents(Db, told)
             steers == IF claim /\ ~Stopped(d, g) THEN Steers(d, FALSE) ELSE {}
             h == CASE Stopped(d, g) -> d
                    [] steers # {}   -> Claimed(d, steers)
                    [] OTHER -> RenewHeldLease(IF claim THEN Unclaimed(d) ELSE d)
  <2>1. Write(h) /\ RunsTurn(g)
    BY <1>7 DEF StepBoundary, InTurn
  <2>2. Sound(d) /\ Lasting(d) /\ HasActiveOwner(d.coord)
    BY <1>5, <2>1
  <2>3. Lasting(h)
    <3> HIDE DEF d
    <3>1. steers \in SUBSET (QueuedPage(d) \ Due(d, QueuedPage(d)))
      BY SteersInPage
    <3>2. /\ Lasting(Claimed(d, steers))
          /\ Lasting(RenewHeldLease(IF claim THEN Unclaimed(d) ELSE d))
      BY <2>2, <3>1, ClaimLasts
    <3>3. QED
      BY <2>2, <3>2
  <2> HIDE DEF h
  <2>4. QED
    BY <2>1, <2>3, WriteLasts
<1>8. ASSUME NEW told \in SUBSET Result, NEW outcome \in {"completed", "failed"},
             Settle(g, outcome, told)
      PROVE  LastingInv'
  <2> DEFINE d == InsertOwnedEvents(Db, told)
  <2>1. Write(SettleAppliedEnvelopes(d, outcome))
    BY <1>8 DEF Settle, InTurn
  <2>2. Sound(d) /\ Lasting(d)
    BY <1>5
  <2> HIDE DEF d
  <2>3. QED
    BY <2>1, <2>2, SettleQuiet, QuietLasts, WriteLasts
<1>9. ASSUME NEW told \in SUBSET Result,
             NEW outcome \in {"none", "completed", "failed"},
             TakeNext(g, outcome, told)
      PROVE  LastingInv'
  <2> DEFINE w == InsertOwnedEvents(Db, told)
             d == IF outcome \in Terminal THEN SettleAppliedEnvelopes(w, outcome)
                  ELSE w
             page == QueuedPage(d)
             next == PromoteQueuedGroup(Swept(d), page \ Due(d, page), g + 1)
             freed == [Swept(d) EXCEPT
                        !.coord = [Cleared(@) EXCEPT !.ownerTaskId = NoTask]]
  <2>1. Commit(next) \/ Commit(freed)
    BY <1>9 DEF TakeNext
  <2>2. Sound(d) /\ Lasting(d) /\ Placed(d, Queued(d))
    <3>1. Sound(w) /\ Lasting(w) /\ Placed(w, Queued(w))
      BY <1>5
    <3>2. outcome \in Terminal => outcome \in {"completed", "failed"}
      BY DEF Terminal
    <3> HIDE DEF w
    <3>3. ASSUME outcome \in Terminal
          PROVE  /\ Sound(SettleAppliedEnvelopes(w, outcome))
                 /\ Quiet(w, SettleAppliedEnvelopes(w, outcome))
      BY <3>1, <3>2, <3>3, SettleSound, SettleQuiet
    <3>4. QED
      BY <3>1, <3>3, QuietLasts, QuietPlaced
  <2> HIDE DEF d
  <2>3. Lasting(next) /\ Lasting(freed)
    BY <1>3, <2>2, TakeLasts
  <2> HIDE DEF next, freed
  <2>4. QED
    BY <2>1, <2>3, CommitLasts
<1>10. ASSUME NEW textOnly \in BOOLEAN, ApplySteering(g, textOnly)
       PROVE  LastingInv'
  <2>1. Write(Db) \/ Write(ClaimSteering(Db, textOnly))
    BY <1>10 DEF ApplySteering, InTurn
  <2>2. RunsTurn(g)
    BY <1>10 DEF ApplySteering
  <2>3. Lasting(ClaimSteering(Db, textOnly))
    BY <1>1, <1>4, <2>2, SteersInPage, ClaimLasts DEF ClaimSteering
  <2>4. QED
    BY <1>1, <2>1, <2>3, WriteLasts
<1>11. ASSUME RenewOwner(g) PROVE LastingInv'
  BY <1>1, <1>4, <1>11, RenewQuiet, WriteQuiet DEF RenewOwner
<1>12. ASSUME Interrupt(g) PROVE LastingInv'
  BY <1>1, <1>12, SettleQuiet, WriteQuiet DEF Interrupt, InTurn
<1>13. ASSUME ReleaseOwner(g) PROVE LastingInv'
  <2>1. coord' = Cleared(coord) /\ UNCHANGED rows
    BY <1>13 DEF ReleaseOwner
  <2>2. coord'.ownerEventId = NoEvent
    BY <1>1, <2>1 DEF Cleared, DbOK, Coordinator
  <2>3. QED
    BY <2>1, <2>2, StaysLasts
<1>14. QED
  BY <1>2, <1>6, <1>7, <1>8, <1>9, <1>10, <1>11, <1>12, <1>13

\* A wait grows shorter with the time a row is kept, and a turn that holds the
\* lease does not come to the end of its row.
LEMMA TickLasts ==
  ASSUME NumberedInv, LastingInv, Tick
  PROVE  LastingInv'
<1>1. /\ DbOK(Db) /\ Db.coord = coord /\ Db.rows = rows
      /\ WaitsBeforeItGoes(Db) /\ OwnerIsThere(Db)
  BY LastingNow DEF Lasting, Db
<1>2. /\ coord' = [coord EXCEPT !.lease = IF @ >= 0 THEN @ - 1 ELSE @]
      /\ \A e \in Event : rows'[e] = Aged(e)
  BY DEF Tick
<1>3. /\ coord'.ownerEventId = coord.ownerEventId
      /\ coord'.ownerGeneration = coord.ownerGeneration
      /\ HasActiveOwner(coord') => HasActiveOwner(coord)
  <2>1. coord \in Coordinator /\ coord.lease \in Int
    BY <1>1 DEF DbOK, Coordinator
  <2>2. /\ coord'.ownerEventId = coord.ownerEventId
        /\ coord'.ownerGeneration = coord.ownerGeneration
        /\ coord'.lease = IF coord.lease >= 0 THEN coord.lease - 1 ELSE coord.lease
    BY <1>2, <2>1 DEF Coordinator
  <2>3. QED
    BY <2>1, <2>2 DEF HasActiveOwner
<1>4. ASSUME NEW e \in Event, Aged(e).status = "queued", Aged(e).ttl > 0
      PROVE  Aged(e).ttl + Spare <= Aged(e).retain
  <2>1. rows[e].status = "queued"
    BY <1>4, AgedKeeps DEF NumberedInv
  <2>2. rows[e] \in Admitted
    BY <1>1, <2>1, AdmittedRow
  <2>3. PICK m, n \in Nat : rows[e].ttl = m /\ rows[e].retain = n
    BY <2>2 DEF Admitted
  <2>4. /\ Aged(e).ttl = Less(m)
        /\ Aged(e).retain = n \/ Aged(e).retain = Less(n)
    BY <2>1, <2>2, <2>3 DEF Aged, Live, Admitted
  <2>5. m > 0 => m + Spare <= n
    BY <1>1, <2>1, <2>3 DEF WaitsBeforeItGoes
  <2>6. QED
    BY <1>4, <2>3, <2>4, <2>5, SpareTime DEF Less
<1>5. WaitsBeforeItGoes(Db)'
  BY <1>2, <1>4 DEF WaitsBeforeItGoes, Db
<1>6. ASSUME coord.ownerEventId \in Event
      PROVE  LET o == coord.ownerEventId
             IN  /\ Aged(o).status # "queued"
                 /\ HasActiveOwner(coord) =>
                      /\ Aged(o).generation = coord.ownerGeneration
                      /\ Aged(o).retain > Spare
  <2> DEFINE o == coord.ownerEventId
  <2>1. /\ rows[o].status # "queued"
        /\ HasActiveOwner(coord) => /\ rows[o].generation = coord.ownerGeneration
                                    /\ rows[o].retain > Spare
    BY <1>1, <1>6 DEF OwnerIsThere
  <2>2. /\ Aged(o).status = rows[o].status /\ Aged(o).generation = rows[o].generation
        /\ rows[o] \in Row
    BY <1>1, <1>6, AgedKeeps DEF NumberedInv, DbOK
  <2>3. OfLiveTurn(Db, o) => Aged(o).retain = rows[o].retain
    BY <2>2 DEF Aged, Row, Admitted, NoRow
  <2>4. QED
    BY <1>1, <2>1, <2>2, <2>3 DEF OfLiveTurn
<1>7. OwnerIsThere(Db)'
  BY <1>2, <1>3, <1>6 DEF OwnerIsThere, Db
<1>8. QED
  BY <1>5, <1>7 DEF LastingInv, Lasting

LEMMA LastingStep ==
  NumberedInv /\ LastingInv /\ OwnersTell /\ [Next]_vars => LastingInv'
<1> SUFFICES ASSUME NumberedInv, LastingInv, OwnersTell, [Next]_vars
             PROVE  LastingInv'
  OBVIOUS
<1>1. /\ Sound(Db) /\ DbOK(Db) /\ Lasting(Db) /\ Placed(Db, Queued(Db))
      /\ Db.coord = coord
  BY LastingNow
<1>2. ASSUME NEW expected \in Task \cup {NoTask}, StopOwner(expected)
      PROVE  LastingInv'
  <2>1. /\ coord'.ownerEventId = coord.ownerEventId
        /\ coord'.ownerGeneration = coord.ownerGeneration
        /\ coord'.lease = coord.lease /\ UNCHANGED rows
    BY <1>1, <1>2 DEF StopOwner, DbOK, Coordinator
  <2>2. QED
    BY <2>1, StaysLasts
<1>3. ASSUME Maintain PROVE LastingInv'
  BY <1>1, <1>3, MaintainedLasts, CommitLasts DEF Maintain
<1>4. ASSUME RecoverQueued PROVE LastingInv'
  <2>1. Lasting(SweepRecovered)
    BY <1>1, SweepLasts
  <2>2. QED
    BY <1>4, <2>1, CommitLasts DEF RecoverQueued
<1>5. ASSUME UNCHANGED vars PROVE LastingInv'
  BY <1>5, StaysLasts DEF vars
<1>6. QED
  BY <1>2, <1>3, <1>4, <1>5, AdmissionLasts, WorkerLasts, TickLasts DEF Next

LEMMA LastingHolds == Spec /\ []OwnersTell => []LastingInv
<1>1. Spec => []NumberedInv
  BY NumberedHolds
<1>2. QED
  BY <1>1, InitLasts, LastingStep, PTL DEF Spec

\* A lapsed owner does not wait, and an interrupted turn keeps its row.
LEMMA LastingGives ==
  LastingInv => OwnerDoesNotWait /\ InterruptedKept
BY DEF LastingInv, Lasting, OwnerIsThere, OwnerDoesNotWait, InterruptedKept, Db

\* The counters are exact as long as no conversation is owned by a resume that
\* ended without telling its result: whatever else lapses, is refused, expires,
\* merges or is swept, each row that leaves the queue is counted out of it.
\* (undeliveredResume drops such an owner's row, and the retry waits under it.)
THEOREM ExactUnlessUndelivered == Spec /\ []OwnersTell => []CountExact
BY LastingHolds, LastingGives, CountersAreExact, PTL

\* As long as that holds, a turn is also one person's, interrupted or not.
\* (claimSteering reads the sender off the owner's row.)
THEOREM OneSenderUnlessUndelivered == Spec /\ []OwnersTell => []TurnsAreOneSenders
BY LastingHolds, LastingGives, OneSenderPerTurn, PTL

\* Nobody comes back with the result of an earlier run.
NoLateResults == \A q \in Requests : q.result = NoResult

\* Without late results no row is given back.
LEMMA NothingForgotten ==
  ASSUME NoLateResults, Inv
  PROVE  /\ \A e \in Event : ~UndeliveredResume(e)
         /\ OwnersTell
         /\ \A q : Forget(q).rows = rows
<1>1. ASSUME NEW e \in Event, UndeliveredResume(e) PROVE FALSE
  <2>1. rows[e] \in Row /\ rows[e].status \in Terminal
    BY <1>1 DEF Inv, TypeOK, UndeliveredResume
  <2>2. rows[e].req \in Requests
    BY <2>1 DEF Row, Admitted, NoRow, Terminal
  <2>3. QED
    BY <1>1, <2>2 DEF UndeliveredResume, NoLateResults
<1>2. \A q : Forgotten(q) = {}
  BY <1>1 DEF Forgotten, SameIdentity
<1>3. rows \in [Event -> Row]
  BY DEF Inv, TypeOK
<1>4. \A q : Forget(q).rows = rows
  BY <1>2, <1>3 DEF Forget, Db
<1>5. QED
  BY <1>1, <1>4 DEF OwnersTell

\* In a conversation without late results no row is given back before its time,
\* so the counters are exact and a turn is one sender's whatever its workers do.
\* (undeliveredResume is the only way a row leaves early.)
THEOREM PlainConversation ==
  ASSUME NoLateResults
  PROVE  Spec => [](CountExact /\ TurnsAreOneSenders)
<1>1. Inv => OwnersTell
  BY NothingForgotten
<1>2. QED
  BY <1>1, InvHolds, ExactUnlessUndelivered, OneSenderUnlessUndelivered, PTL

-----------------------------------------------------------------------------
(* Outcomes.  settleAppliedEnvelopes goes by the owner event; the rows it    *)
(* finds are those of the turn as long as they run in their owner's turn.    *)

\* The row a processing row is applied to runs, or ran, in the same turn.
RowsKeepTheirOwner ==
  \A e \in Event :
    rows[e].status = "processing" /\ rows[e].appliedTo \in Event
    => rows[rows[e].appliedTo].generation = rows[e].generation

\* A row that runs, or is over without an outcome.
Undecided(row) == row.status \in {"none", "processing", "expired"}

\* No row that ran gets an outcome.
Unsettled(d, h) ==
  \A e \in Event : Undecided(d.rows[e]) => Undecided(h.rows[e])

LEMMA UnsettledOn ==
  ASSUME NEW d, NEW x, NEW h, Unsettled(d, x), Unsettled(x, h)
  PROVE  Unsettled(d, h)
BY DEF Unsettled

\* Only rows of the queue are written.
LEMMA DequeueUnsettled ==
  ASSUME NEW d, NEW S, S \subseteq Queued(d), NEW moved
  PROVE  /\ Unsettled(d, Dequeue(d, S, moved))
         /\ \A e \in Event : d.rows[e].status = "processing"
                             => Dequeue(d, S, moved).rows[e] = d.rows[e]
BY DEF Unsettled, Undecided, Dequeue, Queued

LEMMA ExpireUnsettled ==
  ASSUME NEW d, NEW page, page \subseteq Queued(d)
  PROVE  Unsettled(d, ExpireQueuedEnvelopes(d, page))
BY DequeueUnsettled DEF ExpireQueuedEnvelopes, Due

LEMMA InsertEventsUnsettled ==
  ASSUME NEW d, Sound(d), NEW told
  PROVE  /\ Unsettled(d, InsertOwnedEvents(d, told))
         /\ \A e \in Event : d.rows[e].status = "processing"
                             => InsertOwnedEvents(d, told).rows[e] = d.rows[e]
BY PageIsQueue, DequeueUnsettled DEF InsertOwnedEvents

\* A change of the coordinator row leaves the rows.
LEMMA RowsUnsettled ==
  ASSUME NEW d, NEW h, h.rows = d.rows
  PROVE  Unsettled(d, h)
BY DEF Unsettled

LEMMA StaleOwnerUnsettled ==
  ASSUME NEW d, Sound(d)
  PROVE  Unsettled(d, ExpireStaleOwner(d))
<1>1. \A e \in Event : \/ ExpireStaleOwner(d).rows[e] = d.rows[e]
                       \/ ExpireStaleOwner(d).rows[e] = Expired(d.rows[e])
  BY StaleOwnerWanes
<1>2. \A e \in Event : Undecided(Expired(d.rows[e]))
  BY DEF Undecided, Expired, Sound, DbOK, Row, Admitted, NoRow
<1>3. QED
  BY <1>1, <1>2 DEF Unsettled

LEMMA PromoteUnsettled ==
  ASSUME NEW d, DbOK(d), NEW A \in SUBSET Event, NEW gen \in Nat,
         \A e \in A : d.rows[e].status # "none"
  PROVE  Unsettled(d, PromoteQueuedGroup(d, A, gen))
<1>1. CASE A = {}
  BY <1>1 DEF PromoteQueuedGroup, Unsettled
<1>2. CASE A # {}
  <2>1. Promoted(d, A, gen, PromoteQueuedGroup(d, A, gen))
    BY <1>2, PromoteMoves
  <2>2. QED
    BY <2>1 DEF Promoted, Unsettled, Undecided
<1>3. QED
  BY <1>1, <1>2

LEMMA RecoveredUnsettled ==
  ASSUME NEW q, Sound(Db)
  PROVE  Unsettled(Db, Forget(q)) /\ Unsettled(Db, Recovered(q))
<1> DEFINE d == Forget(q)
           page == QueuedPage(d)
           A == page \ Due(d, page)
           x == ExpireQueuedEnvelopes(d, page)
           p == Prepared(q)
           gen == p.coord.ownerGeneration + 1
<1>1. Unsettled(Db, d)
  BY DEF Unsettled, Undecided, Forget, NoRow, Db
<1>2. Unsettled(d, x)
  BY ForgetSound, PageIsQueue, ExpireUnsettled
<1>3. Sound(x) /\ p = ExpireStaleOwner(x)
  BY ForgetSound, PageIsQueue, ExpireSound DEF Prepared
<1>4. /\ DbOK(p) /\ A \in SUBSET Event /\ \A e \in A : p.rows[e].status # "none"
      /\ gen \in Nat
  <2>1. /\ Sound(p) /\ A \subseteq Event
        /\ \A e \in A : p.rows[e].status # "none"
    BY PreparedSound
  <2>2. QED
    BY <2>1 DEF Sound, DbOK, Coordinator
<1>5. Recovered(q) \in {p, PromoteQueuedGroup(p, A, gen)}
  BY DEF Recovered
<1> HIDE DEF d, x, p, A, gen
<1>6. Unsettled(x, p)
  BY <1>3, StaleOwnerUnsettled
<1>7. Unsettled(p, PromoteQueuedGroup(p, A, gen))
  BY <1>4, PromoteUnsettled
<1>8. Unsettled(Db, p)
  BY <1>1, <1>2, <1>6, UnsettledOn
<1>9. Unsettled(Db, Recovered(q))
  BY <1>5, <1>7, <1>8, UnsettledOn
<1>10. QED
  BY <1>1, <1>9 DEF d

LEMMA SweptUnsettled ==
  ASSUME NEW d, Sound(d)
  PROVE  Unsettled(d, Swept(d))
BY PageIsQueue, ExpireUnsettled DEF Swept

LEMMA UnclaimedUnsettled ==
  ASSUME NEW d, Sound(d)
  PROVE  Unsettled(d, Unclaimed(d))
<1> DEFINE w == Swept(d)
           h == [w EXCEPT !.coord.lease = LeaseTtl]
<1>1. Sound(w) /\ Unsettled(d, w)
  BY SweptSound, SweptUnsettled
<1>2. h.rows = w.rows
  OBVIOUS
<1>3. Unclaimed(d) \in {d, h}
  BY DEF Unclaimed
<1> HIDE DEF w, h
<1>4. Unsettled(d, h)
  BY <1>1, <1>2, RowsUnsettled, UnsettledOn
<1>5. QED
  BY <1>3, <1>4, RowsUnsettled

LEMMA RenewUnsettled ==
  ASSUME NEW d
  PROVE  RenewHeldLease(d).rows = d.rows /\ Unsettled(d, RenewHeldLease(d))
<1>1. [d EXCEPT !.coord.lease = LeaseTtl].rows = d.rows
  OBVIOUS
<1>2. RenewHeldLease(d).rows = d.rows
  BY <1>1 DEF RenewHeldLease
<1>3. QED
  BY <1>2, RowsUnsettled

LEMMA ClaimedUnsettled ==
  ASSUME NEW d, Sound(d), NEW S \in SUBSET (QueuedPage(d) \ Due(d, QueuedPage(d)))
  PROVE  Unsettled(d, Claimed(d, S))
<1> DEFINE w == Swept(d)
           m == Apply(w, S, d.coord.ownerEventId, d.coord.ownerGeneration)
<1>1. Unsettled(d, w) /\ S \subseteq Queued(w)
  BY SweptUnsettled, SweptSound
<1>2. Unsettled(w, m)
  BY <1>1, DequeueUnsettled DEF Apply
<1>3. Claimed(d, S).rows = m.rows
  BY DEF Claimed
<1> HIDE DEF w, m
<1>4. QED
  BY <1>1, <1>2, <1>3, RowsUnsettled, UnsettledOn

\* Of what runs, a settle decides the owner's row and what was applied to it.
LEMMA SettleDecides ==
  ASSUME NEW d, NEW outcome, NEW e \in Event, d.rows[e].status = "processing",
         e # d.coord.ownerEventId, d.rows[e].appliedTo # d.coord.ownerEventId
  PROVE  SettleAppliedEnvelopes(d, outcome).rows[e] = d.rows[e]
<1> DEFINE R == SettleAppliedEnvelopes(d, outcome).rows
<1>1. PICK f : R = [x \in Event |->
                     IF x \in {y \in Event : /\ d.rows[y].status = "processing"
                                             /\ \/ y = d.coord.ownerEventId
                                                \/ d.rows[y].appliedTo
                                                     = d.coord.ownerEventId}
                     THEN f[x] ELSE d.rows[x]]
  <2> DEFINE stopped == /\ outcome = "failed"
                        /\ d.coord.stopRequestedGeneration = d.coord.ownerGeneration
                        /\ ~d.coord.stopRequestedByParent
             g == [x \in Event |-> [d.rows[x] EXCEPT !.status = outcome,
                                                     !.stoppedByUser = @ \/ stopped]]
  <2>1. R = [x \in Event |->
              IF x \in {y \in Event : /\ d.rows[y].status = "processing"
                                      /\ \/ y = d.coord.ownerEventId
                                         \/ d.rows[y].appliedTo = d.coord.ownerEventId}
              THEN g[x] ELSE d.rows[x]]
    BY DEF SettleAppliedEnvelopes
  <2> HIDE DEF g, R
  <2>2. QED
    BY <2>1
<1> HIDE DEF R
<1>2. R[e] = d.rows[e]
  BY <1>1
<1>3. QED
  BY <1>2 DEF R

\* A row of the owner that holds the conversation, or one applied to it.
OfOwner(e) ==
  /\ HasActiveOwner(coord) /\ coord.ownerEventId \in Event
  /\ e = coord.ownerEventId \/ rows[e].appliedTo = coord.ownerEventId

\* A settle that follows a history write, whatever comes after it.
LEMMA SettleAfterWrite ==
  ASSUME NumberedInv, NEW told, NEW outcome, NEW e \in Event,
         rows[e].status = "processing",
         e # coord.ownerEventId, rows[e].appliedTo # coord.ownerEventId
  PROVE  SettleAppliedEnvelopes(InsertOwnedEvents(Db, told), outcome).rows[e]
           = rows[e]
<1> DEFINE w == InsertOwnedEvents(Db, told)
<1>1. Sound(Db) /\ DbOK(Db) /\ Db.coord = coord /\ Db.rows = rows
  BY InvSound DEF NumberedInv, Sound, Db
<1>2. w.rows[e] = rows[e]
  BY <1>1, InsertEventsUnsettled
<1>3. w.coord.ownerEventId = coord.ownerEventId
  <2>1. Wanes(Db, w)
    BY <1>1, InsertEventsWanes
  <2> HIDE DEF w
  <2>2. QED
    BY <1>1, <2>1, WanesOwner
<1> HIDE DEF w
<1>4. SettleAppliedEnvelopes(w, outcome).rows[e] = w.rows[e]
  BY <1>2, <1>3, SettleDecides
<1>5. QED
  BY <1>2, <1>4 DEF w

LEMMA AdmissionSettlesNothing ==
  ASSUME NumberedInv, Admission, NEW e \in Event, rows[e].status = "processing"
  PROVE  Undecided(rows'[e])
<1>1. Sound(Db) /\ DbOK(Db) /\ Db.coord = coord /\ Db.rows = rows
  BY InvSound DEF NumberedInv, Sound, Db
<1>2. ASSUME NEW d, Unsettled(Db, d), Commit(d) PROVE Undecided(rows'[e])
  BY <1>1, <1>2 DEF Unsettled, Undecided, Commit
<1>3. ASSUME NEW q \in Requests, NEW d, Unsettled(Db, d), ~Answered(q), DbOK(d),
             Commit(Enqueue(d, q)) \/ Commit(Own(d, q))
      PROVE  Undecided(rows'[e])
  <2>1. e # q.event
    BY <1>3, AdmissionFacts DEF Live
  <2>2. rows'[e] = d.rows[e]
    BY <1>3, <2>1, EnqueueMoves, OwnMoves DEF Commit
  <2>3. QED
    BY <1>1, <1>3, <2>2 DEF Unsettled, Undecided
<1>4. ASSUME NEW q \in Requests
      PROVE  /\ Unsettled(Db, Forget(q)) /\ Unsettled(Db, Recovered(q))
             /\ DbOK(Recovered(q))
  BY <1>1, RecoveredUnsettled, RecoveredSound DEF Sound
<1>5. ASSUME NEW q \in Requests,
             \/ AcceptAnswered(q) \/ AcceptRefused(q) \/ AcceptQueued(q) \/ AcceptOwner(q)
      PROVE  Undecided(rows'[e])
  BY <1>2, <1>3, <1>4, <1>5
     DEF AcceptAnswered, AcceptRefused, AcceptQueued, AcceptOwner
<1>6. ASSUME AcquireClear PROVE Undecided(rows'[e])
  <2> DEFINE d == ExpireQueuedEnvelopes(Db, QueuedPage(Db))
             h == [d EXCEPT !.coord = Acquire(@, ClearEvent, @.ownerTaskId,
                                              @.ownerGeneration + 1)]
  <2>1. Unsettled(Db, d)
    BY <1>1, PageIsQueue, ExpireUnsettled
  <2>2. Commit(d) \/ Commit(h)
    BY <1>6 DEF AcquireClear
  <2>3. h.rows = d.rows
    OBVIOUS
  <2> HIDE DEF d, h
  <2>4. QED
    BY <1>2, <2>1, <2>2, <2>3, RowsUnsettled, UnsettledOn
<1>7. QED
  BY <1>5, <1>6 DEF Admission

LEMMA WorkerSettles ==
  ASSUME NumberedInv, Worker, NEW e \in Event, rows[e].status = "processing"
  PROVE  Undecided(rows'[e]) \/ OfOwner(e)
<1>1. Sound(Db) /\ DbOK(Db) /\ Db.coord = coord /\ Db.rows = rows
  BY InvSound DEF NumberedInv, Sound, Db
<1>2. PICK g \in 1 .. Len(turns) :
        \/ \E told \in SUBSET Result :
             \/ AppendConversationEvent(g, told)
             \/ \E claim \in BOOLEAN : StepBoundary(g, told, claim)
             \/ \E outcome \in {"completed", "failed"} : Settle(g, outcome, told)
             \/ \E outcome \in {"none", "completed", "failed"} :
                  TakeNext(g, outcome, told)
        \/ \E textOnly \in BOOLEAN : ApplySteering(g, textOnly)
        \/ RenewOwner(g)
        \/ Interrupt(g)
        \/ ReleaseOwner(g)
  BY DEF Worker
<1>3. g + 1 \in Nat
  BY DEF NumberedInv, Inv, TypeOK
<1>4. ASSUME NEW d, Unsettled(Db, d), Write(d) \/ Commit(d) PROVE Undecided(rows'[e])
  BY <1>1, <1>4 DEF Unsettled, Undecided, Write, Commit
<1>5. ASSUME NEW told
      PROVE  LET d == InsertOwnedEvents(Db, told)
             IN  Sound(d) /\ Unsettled(Db, d)
  BY <1>1, InsertEventsSound, InsertEventsUnsettled
<1>6. ASSUME RunsTurn(g), ~OfOwner(e)
      PROVE  e # coord.ownerEventId /\ rows[e].appliedTo # coord.ownerEventId
  BY <1>6 DEF RunsTurn, RequireOwner, OfOwner
<1>7. ASSUME NEW told \in SUBSET Result, AppendConversationEvent(g, told)
      PROVE  Undecided(rows'[e])
  BY <1>4, <1>5, <1>7 DEF AppendConversationEvent, InTurn
<1>8. ASSUME NEW told \in SUBSET Result, NEW claim \in BOOLEAN,
             StepBoundary(g, told, claim)
      PROVE  Undecided(rows'[e])
  <2> DEFINE d == InsertOwnedEvents(Db, told)
             steers == IF claim /\ ~Stopped(d, g) THEN Steers(d, FALSE) ELSE {}
             h == CASE Stopped(d, g) -> d
                    [] steers # {}   -> Claimed(d, steers)
                    [] OTHER -> RenewHeldLease(IF claim THEN Unclaimed(d) ELSE d)
  <2>1. Write(h)
    BY <1>8 DEF StepBoundary, InTurn
  <2>2. Sound(d) /\ Unsettled(Db, d)
    BY <1>5
  <2>3. Unsettled(d, h)
    <3> HIDE DEF d
    <3>1. steers \in SUBSET (QueuedPage(d) \ Due(d, QueuedPage(d)))
      BY SteersInPage
    <3>2. Unsettled(d, Claimed(d, steers)) /\ Unsettled(d, Unclaimed(d))
      BY <2>2, <3>1, ClaimedUnsettled, UnclaimedUnsettled
    <3>3. Unsettled(d, d)
      BY RowsUnsettled
    <3>4. Unsettled(d, RenewHeldLease(IF claim THEN Unclaimed(d) ELSE d))
      BY <3>2, <3>3, RenewUnsettled, UnsettledOn
    <3>5. QED
      BY <3>2, <3>3, <3>4
  <2> HIDE DEF d, h
  <2>4. QED
    BY <1>4, <2>1, <2>2, <2>3, UnsettledOn
<1>9. ASSUME NEW told \in SUBSET Result, NEW outcome \in {"completed", "failed"},
             Settle(g, outcome, told), ~OfOwner(e)
      PROVE  Undecided(rows'[e])
  <2>1. /\ Write(SettleAppliedEnvelopes(InsertOwnedEvents(Db, told), outcome))
        /\ RunsTurn(g)
    BY <1>9 DEF Settle, InTurn
  <2>2. rows'[e] = rows[e]
    BY <1>6, <1>9, <2>1, SettleAfterWrite DEF Write
  <2>3. QED
    BY <2>2 DEF Undecided
<1>10. ASSUME NEW told \in SUBSET Result,
              NEW outcome \in {"none", "completed", "failed"},
              TakeNext(g, outcome, told), ~OfOwner(e)
       PROVE  Undecided(rows'[e])
  <2> DEFINE w == InsertOwnedEvents(Db, told)
             d == IF outcome \in Terminal THEN SettleAppliedEnvelopes(w, outcome)
                  ELSE w
             page == QueuedPage(d)
             A == page \ Due(d, page)
             s == Swept(d)
             next == PromoteQueuedGroup(s, A, g + 1)
             freed == [s EXCEPT
                        !.coord = [Cleared(@) EXCEPT !.ownerTaskId = NoTask]]
  <2>1. RunsTurn(g) /\ (Commit(next) \/ Commit(freed))
    BY <1>10 DEF TakeNext
  <2>2. d.rows[e] = rows[e]
    <3>1. w.rows[e] = rows[e]
      BY <1>1, InsertEventsUnsettled
    <3>2. SettleAppliedEnvelopes(w, outcome).rows[e] = rows[e]
      BY <1>6, <1>10, <2>1, SettleAfterWrite
    <3> HIDE DEF w
    <3>3. QED
      BY <3>1, <3>2
  <2>3. Sound(d)
    <3>1. Sound(w)
      BY <1>5
    <3>2. outcome \in Terminal => outcome \in {"completed", "failed"}
      BY DEF Terminal
    <3> HIDE DEF w
    <3>3. QED
      BY <3>1, <3>2, SettleSound
  <2> HIDE DEF d
  <2>4. Sound(s) /\ DbOK(s) /\ Unsettled(d, s) /\ Queued(s) = A
    BY <2>3, SweptSound, SweptUnsettled DEF Sound
  <2>5. freed.rows = s.rows
    OBVIOUS
  <2> HIDE DEF s, A
  <2>6. A \in SUBSET Event /\ \A x \in A : s.rows[x].status # "none"
    BY <2>4 DEF Queued
  <2>7. Unsettled(s, next)
    BY <1>3, <2>4, <2>6, PromoteUnsettled
  <2>8. Undecided(s.rows[e])
    BY <2>2, <2>4 DEF Unsettled, Undecided
  <2> HIDE DEF next, freed
  <2>9. Undecided(next.rows[e]) /\ Undecided(freed.rows[e])
    BY <2>5, <2>7, <2>8 DEF Unsettled
  <2>10. QED
    BY <2>1, <2>9 DEF Commit
<1>11. ASSUME NEW textOnly \in BOOLEAN, ApplySteering(g, textOnly)
       PROVE  Undecided(rows'[e])
  <2>1. Write(Db) \/ Write(ClaimSteering(Db, textOnly))
    BY <1>11 DEF ApplySteering, InTurn
  <2>2. Unsettled(Db, Claimed(Db, Steers(Db, textOnly)))
    BY <1>1, SteersInPage, ClaimedUnsettled
  <2>3. Unsettled(Db, ClaimSteering(Db, textOnly)) /\ Unsettled(Db, Db)
    BY <1>1, <2>2, UnclaimedUnsettled, RowsUnsettled DEF ClaimSteering
  <2>4. QED
    BY <1>4, <2>1, <2>3
<1>12. ASSUME RenewOwner(g) PROVE Undecided(rows'[e])
  BY <1>4, <1>12, RenewUnsettled DEF RenewOwner
<1>13. ASSUME Interrupt(g), ~OfOwner(e) PROVE Undecided(rows'[e])
  <2>1. Write(SettleAppliedEnvelopes(Db, "failed")) /\ RunsTurn(g)
    BY <1>13 DEF Interrupt, InTurn
  <2>2. rows'[e] = rows[e]
    BY <1>1, <1>6, <1>13, <2>1, SettleDecides DEF Write
  <2>3. QED
    BY <2>2 DEF Undecided
<1>14. ASSUME ReleaseOwner(g) PROVE Undecided(rows'[e])
  BY <1>14 DEF ReleaseOwner, Undecided
<1>15. QED
  BY <1>2, <1>7, <1>8, <1>9, <1>10, <1>11, <1>12, <1>13, <1>14

\* Whatever step gives a row that runs an outcome, the row is of the owner.
LEMMA NextSettles ==
  ASSUME NumberedInv, [Next]_vars, NEW e \in Event, rows[e].status = "processing"
  PROVE  Undecided(rows'[e]) \/ OfOwner(e)
<1>1. Sound(Db) /\ DbOK(Db) /\ Db.coord = coord /\ Db.rows = rows
  BY InvSound DEF NumberedInv, Sound, Db
<1>2. ASSUME NEW expected, StopOwner(expected) PROVE Undecided(rows'[e])
  BY <1>2 DEF StopOwner, Undecided
<1>3. ASSUME Maintain PROVE Undecided(rows'[e])
  <2> DEFINE s == ExpireQueuedEnvelopes(Db, Queued(Db))
             h == Maintained(Db)
  <2>1. s.rows[e] = rows[e] /\ rows[e] \in Admitted
    BY <1>1, DequeueUnsettled, AdmittedRow DEF ExpireQueuedEnvelopes, Due
  <2>2. PICK r : /\ \/ r = s.rows[e] \/ r = Expired(s.rows[e])
                    \/ r = [s.rows[e] EXCEPT !.ttl = Db.coord.lease]
                 /\ h.rows[e] = IF r.status \in Terminal /\ r.retain <= 0
                                THEN NoRow ELSE r
    BY DEF Maintained
  <2>3. Undecided(r)
    BY <2>1, <2>2 DEF Undecided, Expired, Admitted
  <2>4. rows'[e] = h.rows[e]
    BY <1>3 DEF Maintain, Commit
  <2> HIDE DEF h, s
  <2>5. QED
    BY <2>2, <2>3, <2>4 DEF Undecided, NoRow
<1>4. ASSUME RecoverQueued PROVE Undecided(rows'[e])
  <2> DEFINE d == ExpireStaleOwner(Db)
             page == Queued(d)
             A == page \ Due(d, page)
             s == ExpireQueuedEnvelopes(d, page)
             gen == d.coord.ownerGeneration + 1
             r == [coord |-> [s.coord EXCEPT !.queuedCount = Cardinality(A)],
                   bytes |-> SizeOf(d, A),
                   rows  |-> s.rows]
  <2>1. Unsettled(Db, d) /\ Sound(d)
    BY <1>1, StaleOwnerUnsettled, StaleOwnerSound
  <2>2. Unsettled(d, s) /\ Sound(s) /\ DbOK(s) /\ Queued(s) = A
    BY <2>1, ExpireUnsettled, ExpireSound DEF Sound
  <2>3. /\ r.rows = s.rows
        /\ r.coord = [s.coord EXCEPT !.queuedCount = Cardinality(A)]
        /\ r = [coord |-> r.coord, bytes |-> r.bytes, rows |-> r.rows]
    OBVIOUS
  <2>4. gen \in Nat
    BY <2>1 DEF Sound, DbOK, Coordinator
  <2>5. rows' = PromoteQueuedGroup(r, A, gen).rows
    BY <1>4 DEF RecoverQueued, Commit, SweepRecovered
  <2>6. DbOK(r)
    <3>1. Cardinality(A) \in Nat
      BY QueuedFinite DEF Queued
    <3>2. s.coord \in Coordinator /\ s.coord.lease \in -1 .. LeaseTtl
      BY <2>2 DEF DbOK
    <3> HIDE DEF s, r, A
    <3>3. r.coord \in Coordinator /\ r.coord.lease \in -1 .. LeaseTtl
      BY <2>3, <3>1, <3>2 DEF Coordinator
    <3>4. QED
      BY <2>2, <2>3, <3>3 DEF DbOK
  <2> HIDE DEF d, s, r, A, gen
  <2>7. A \in SUBSET Event /\ \A x \in A : r.rows[x].status # "none"
    BY <2>2, <2>3 DEF Queued
  <2>8. Unsettled(r, PromoteQueuedGroup(r, A, gen))
    BY <2>4, <2>6, <2>7, PromoteUnsettled
  <2>9. Undecided(r.rows[e])
    BY <1>1, <2>1, <2>2, <2>3 DEF Unsettled, Undecided
  <2>10. QED
    BY <2>5, <2>8, <2>9 DEF Unsettled
<1>5. ASSUME Tick PROVE Undecided(rows'[e])
  BY <1>5, AgedKeeps DEF Tick, Undecided, NumberedInv
<1>6. ASSUME UNCHANGED vars PROVE Undecided(rows'[e])
  BY <1>6 DEF vars, Undecided
<1>7. QED
  BY <1>2, <1>3, <1>4, <1>5, <1>6, AdmissionSettlesNothing, WorkerSettles DEF Next

\* Under a live lease the owner's row is of no other turn: it was handed to
\* this one, or is a later admission of the same event that did not start yet.
OwnersTurn(d) ==
  HasActiveOwner(d.coord) /\ d.coord.ownerEventId \in Event
  => d.rows[d.coord.ownerEventId].generation \in {0, d.coord.ownerGeneration}

LEMMA OwnersTurnStep ==
  ASSUME NumberedInv, OwnersTurn(Db), [Next]_vars
  PROVE  OwnersTurn(Db)'
<1>1. CASE UNCHANGED vars
  BY <1>1 DEF vars, OwnersTurn, Db, HasActiveOwner
<1>2. CASE Next
  <2>1. PICK h, S, n, told : Taken(h, S, n, told)
    BY <1>2, NextTakes DEF TakesStep
  <2>2. /\ coord' = h.coord /\ rows' = h.rows
        /\ RowsMove(h, S, n) /\ TurnMoves(h.coord)
    BY <2>1 DEF Taken, Step
  <2> DEFINE o == h.coord.ownerEventId
  <2>3. ASSUME HasActiveOwner(h.coord), o \in Event
        PROVE  h.rows[o].generation \in {0, h.coord.ownerGeneration}
    <3>1. CASE h.coord.ownerGeneration # coord.ownerGeneration
      BY <2>1, <2>3, <3>1, TurnBegins
    <3>2. CASE h.coord.ownerGeneration = coord.ownerGeneration
      <4>1. coord.ownerGeneration \in Nat
        BY Numbers
      <4>2. HasActiveOwner(coord) /\ coord.ownerEventId = o
        BY <2>2, <2>3, <3>2, <4>1 DEF TurnMoves
      <4>3. rows[o].generation \in {0, coord.ownerGeneration}
        BY <2>3, <4>2 DEF OwnersTurn, Db
      <4>4. QED
        BY <2>2, <2>3, <3>2, <4>1, <4>3, RowCases
           DEF Same, Ended, NoRow, Started, Arrived
    <3>3. QED
      BY <3>1, <3>2
  <2>4. QED
    BY <2>2, <2>3 DEF OwnersTurn, Db, HasActiveOwner
<1>3. QED
  BY <1>1, <1>2

LEMMA OwnersTurnHolds == Spec => []OwnersTurn(Db)
<1>1. Init => OwnersTurn(Db)
  BY NamesAssumption DEF Init, OwnersTurn, Db
<1>2. NumberedInv /\ OwnersTurn(Db) /\ [Next]_vars => OwnersTurn(Db)'
  BY OwnersTurnStep
<1>3. QED
  BY <1>1, <1>2, NumberedHolds, PTL DEF Spec

\* A step for PlainTurnsSettleTheirOwn: where what runs was applied to a row of
\* its own turn, going by the owner event is going by the turn.
LEMMA SettlesItsOwn == Spec /\ []RowsKeepTheirOwner => SettledByOwnTurn
<1>1. ASSUME NumberedInv, OwnersTurn(Db), RowsKeepTheirOwner, [Next]_vars
      PROVE  \A e \in Event :
               /\ rows[e].status = "processing"
               /\ rows'[e].status \in {"completed", "failed"}
               => rows[e].generation = coord.ownerGeneration
  <2> SUFFICES ASSUME NEW e \in Event, rows[e].status = "processing",
                      rows'[e].status \in {"completed", "failed"}
               PROVE  rows[e].generation = coord.ownerGeneration
    OBVIOUS
  <2>1. OfOwner(e)
    BY <1>1, NextSettles DEF Undecided
  <2>2. rows[coord.ownerEventId].generation \in {0, coord.ownerGeneration}
    BY <1>1, <2>1 DEF OwnersTurn, OfOwner, Db
  <2>3. rows[e].generation # 0
    BY <1>1 DEF NumberedInv, RowsOK, Db
  <2>4. rows[e].generation = rows[coord.ownerEventId].generation
    BY <1>1, <2>1 DEF OfOwner, RowsKeepTheirOwner
  <2>5. QED
    BY <2>2, <2>3, <2>4
<1>2. NumberedInv /\ OwnersTurn(Db) /\ RowsKeepTheirOwner /\ [Next]_vars
      => [\A e \in Event :
            /\ rows[e].status = "processing"
            /\ rows'[e].status \in {"completed", "failed"}
            => rows[e].generation = coord.ownerGeneration]_vars
  BY <1>1
<1>3. QED
  BY <1>2, NumberedHolds, OwnersTurnHolds, PTL DEF Spec, SettledByOwnTurn

-----------------------------------------------------------------------------
(* Without late results a row is deleted only when it was kept for its time, *)
(* and what was merged into its turn is over before that.                   *)

\* The clocks of row b are those of a, it is there if a is, live only if a is.
Timed(a, b) ==
  /\ b.ttl = a.ttl /\ b.retain = a.retain
  /\ a.status # "none" => b.status # "none"
  /\ Live(b) => Live(a)

AllTimed(d, h) == \A e \in Event : Timed(d.rows[e], h.rows[e])

LEMMA TimedOn ==
  ASSUME NEW d, NEW x, NEW h, AllTimed(d, x), AllTimed(x, h)
  PROVE  AllTimed(d, h)
BY DEF AllTimed, Timed

LEMMA RowsTimed ==
  ASSUME NEW d, NEW h, h.rows = d.rows
  PROVE  AllTimed(d, h)
BY DEF AllTimed, Timed

LEMMA DequeueTimed ==
  ASSUME NEW d, NEW S, S \subseteq Queued(d), NEW moved,
         \A e \in S : Timed(d.rows[e], moved[e])
  PROVE  AllTimed(d, Dequeue(d, S, moved))
BY DEF AllTimed, Dequeue, Timed

LEMMA MarkedTimed ==
  ASSUME NEW d, DbOK(d), NEW S, S \subseteq Queued(d), NEW status \in Terminal
  PROVE  AllTimed(d, Dequeue(d, S, Marked(d, status)))
<1>1. ASSUME NEW e \in S PROVE Timed(d.rows[e], Marked(d, status)[e])
  <2>1. e \in Event /\ d.rows[e].status = "queued"
    BY DEF Queued
  <2>2. d.rows[e] \in Admitted
    BY <2>1, AdmittedRow
  <2>3. Marked(d, status)[e] = [d.rows[e] EXCEPT !.status = status]
    BY <2>1 DEF Marked
  <2>4. QED
    BY <2>1, <2>2, <2>3 DEF Timed, Live, Terminal, Admitted
<1>2. QED
  BY <1>1, DequeueTimed

LEMMA ExpireTimed ==
  ASSUME NEW d, DbOK(d), NEW page, page \subseteq Queued(d)
  PROVE  AllTimed(d, ExpireQueuedEnvelopes(d, page))
BY MarkedTimed DEF ExpireQueuedEnvelopes, Due, Terminal

LEMMA InsertEventsTimed ==
  ASSUME NEW d, Sound(d), NEW told
  PROVE  AllTimed(d, InsertOwnedEvents(d, told))
<1>1. {e \in QueuedPage(d) : d.rows[e].req.result \in told} \subseteq Queued(d)
  BY PageIsQueue
<1>2. QED
  BY <1>1, MarkedTimed DEF InsertOwnedEvents, Sound, Terminal

LEMMA StaleOwnerTimed ==
  ASSUME NEW d, Sound(d)
  PROVE  AllTimed(d, ExpireStaleOwner(d))
<1> DEFINE h == ExpireStaleOwner(d)
<1>1. \A e \in Event : h.rows[e] = d.rows[e] \/ h.rows[e] = Expired(d.rows[e])
  BY StaleOwnerWanes
<1>2. \A e \in Event : Timed(d.rows[e], Expired(d.rows[e]))
  BY DEF Timed, Live, Expired, Sound, DbOK, Row, Admitted, NoRow
<1> HIDE DEF h
<1>3. AllTimed(d, h)
  BY <1>1, <1>2 DEF AllTimed, Timed
<1>4. QED
  BY <1>3 DEF h

LEMMA ApplyTimed ==
  ASSUME NEW d, DbOK(d), NEW S, S \subseteq Queued(d), NEW owner, NEW gen
  PROVE  AllTimed(d, Apply(d, S, owner, gen))
<1> DEFINE moved == [e \in Event |-> [d.rows[e] EXCEPT !.status = "processing",
                                                       !.appliedTo = owner,
                                                       !.generation = gen]]
<1>1. ASSUME NEW e \in S PROVE Timed(d.rows[e], moved[e])
  <2>1. e \in Event /\ d.rows[e].status = "queued"
    BY DEF Queued
  <2>2. d.rows[e] \in Admitted
    BY <2>1, AdmittedRow
  <2>3. moved[e] = [d.rows[e] EXCEPT !.status = "processing", !.appliedTo = owner,
                                     !.generation = gen]
    BY <2>1
  <2> HIDE DEF moved
  <2>4. QED
    BY <2>1, <2>2, <2>3 DEF Timed, Live, Admitted
<1>2. Apply(d, S, owner, gen) = Dequeue(d, S, moved)
  BY DEF Apply
<1> HIDE DEF moved
<1>3. QED
  BY <1>1, <1>2, DequeueTimed

LEMMA PromoteTimed ==
  ASSUME NEW d, DbOK(d), NEW A, A \subseteq Queued(d), NEW gen \in Nat
  PROVE  AllTimed(d, PromoteQueuedGroup(d, A, gen))
<1>1. CASE A = {}
  BY <1>1, RowsTimed DEF PromoteQueuedGroup
<1>2. CASE A # {}
  <2> DEFINE first == Oldest(d, A)
             m == Apply(d, NextGroup(d, A), first, gen)
             h == [m EXCEPT !.coord = Acquire(@, first, d.rows[first].req.task, gen)]
  <2>1. A \in SUBSET Event /\ \A e \in A : d.rows[e].status # "none"
    BY DEF Queued
  <2>2. NextGroup(d, A) \subseteq A
    BY <1>2, <2>1, PromoteMoves DEF Promoted
  <2>3. AllTimed(d, m)
    BY <2>2, ApplyTimed
  <2>4. h.rows = m.rows
    OBVIOUS
  <2>5. PromoteQueuedGroup(d, A, gen) = h
    BY <1>2 DEF PromoteQueuedGroup
  <2> HIDE DEF m, h
  <2>6. QED
    BY <2>3, <2>4, <2>5, RowsTimed, TimedOn
<1>3. QED
  BY <1>1, <1>2

LEMMA SettleTimed ==
  ASSUME NEW d, DbOK(d), NEW outcome \in {"completed", "failed"}
  PROVE  AllTimed(d, SettleAppliedEnvelopes(d, outcome))
<1> DEFINE h == SettleAppliedEnvelopes(d, outcome)
<1>1. ASSUME NEW e \in Event PROVE Timed(d.rows[e], h.rows[e])
  <2>1. d.rows[e] \in Row
    BY DEF DbOK
  <2>2. \/ h.rows[e] = d.rows[e]
        \/ /\ d.rows[e].status = "processing"
           /\ \E b : h.rows[e] = [d.rows[e] EXCEPT !.status = outcome,
                                                   !.stoppedByUser = b]
    BY DEF SettleAppliedEnvelopes, DbOK
  <2> HIDE DEF h
  <2>3. QED
    BY <2>1, <2>2 DEF Timed, Live, Row, Admitted, NoRow
<1>2. QED
  BY <1>1 DEF AllTimed

LEMMA SweptTimed ==
  ASSUME NEW d, Sound(d)
  PROVE  AllTimed(d, Swept(d))
BY PageIsQueue, ExpireTimed DEF Swept, Sound

LEMMA ClaimedTimed ==
  ASSUME NEW d, Sound(d), NEW S \in SUBSET (QueuedPage(d) \ Due(d, QueuedPage(d)))
  PROVE  /\ AllTimed(d, Claimed(d, S))
         /\ AllTimed(d, Unclaimed(d))
         /\ AllTimed(d, RenewHeldLease(d))
         /\ AllTimed(d, RenewHeldLease(Unclaimed(d)))
<1> DEFINE w == Swept(d)
           m == Apply(w, S, d.coord.ownerEventId, d.coord.ownerGeneration)
           u == [w EXCEPT !.coord.lease = LeaseTtl]
<1>1. AllTimed(d, w) /\ S \subseteq Queued(w) /\ DbOK(w)
  BY SweptTimed, SweptSound DEF Sound
<1>2. AllTimed(w, m)
  BY <1>1, ApplyTimed
<1>3. Claimed(d, S).rows = m.rows /\ u.rows = w.rows
  BY DEF Claimed
<1>4. Unclaimed(d) \in {d, u}
  BY DEF Unclaimed
<1> HIDE DEF w, m, u
<1>5. AllTimed(d, Claimed(d, S))
  BY <1>1, <1>2, <1>3, RowsTimed, TimedOn
<1>6. AllTimed(d, Unclaimed(d))
  BY <1>1, <1>3, <1>4, RowsTimed, TimedOn
<1>7. /\ AllTimed(d, RenewHeldLease(d))
      /\ AllTimed(Unclaimed(d), RenewHeldLease(Unclaimed(d)))
  BY RenewUnsettled, RowsTimed
<1>8. QED
  BY <1>5, <1>6, <1>7, TimedOn

LEMMA RecoveredTimed ==
  ASSUME NoLateResults, Inv, LastingInv, NEW q
  PROVE  AllTimed(Db, Recovered(q))
<1> DEFINE d == Forget(q)
           page == QueuedPage(d)
           A == page \ Due(d, page)
           x == ExpireQueuedEnvelopes(d, page)
           p == Prepared(q)
           gen == p.coord.ownerGeneration + 1
<1>1. Sound(d) /\ DbOK(d) /\ page = Queued(d)
  BY InvSound, ForgetSound, PageIsQueue DEF Sound
<1>2. AllTimed(Db, d)
  BY NothingForgotten, RowsTimed DEF Db
<1>3. AllTimed(d, x) /\ Sound(x) /\ p = ExpireStaleOwner(x) /\ Queued(x) = A
  BY <1>1, ExpireTimed, ExpireSound DEF Prepared
<1>4. Recovered(q) \in {p, PromoteQueuedGroup(p, A, gen)}
  BY DEF Recovered
<1>5. DbOK(p) /\ gen \in Nat
  <2>1. Sound(p)
    BY InvSound, PreparedSound
  <2>2. QED
    BY <2>1 DEF Sound, DbOK, Coordinator
<1>6. A \subseteq Queued(p)
  BY InvSound, NothingForgotten, PreparedLasts
<1> HIDE DEF d, x, p, A, gen
<1>7. AllTimed(x, p)
  BY <1>3, StaleOwnerTimed
<1>8. AllTimed(Db, p)
  BY <1>2, <1>3, <1>7, TimedOn
<1>9. AllTimed(p, PromoteQueuedGroup(p, A, gen))
  BY <1>5, <1>6, PromoteTimed
<1>10. QED
  BY <1>4, <1>8, <1>9, TimedOn

\* The step keeps the clocks, but for those of a row it admits where none is.
KeepsTime ==
  \E n : /\ \A e \in Event \ {n} : Timed(rows[e], rows'[e])
         /\ n \in Event => rows[n].status = "none" /\ rows'[n].ttl = EnvelopeTtl

LEMMA TimedKeeps ==
  ASSUME NEW d, AllTimed(Db, d), rows' = d.rows
  PROVE  KeepsTime
<1>1. \A e \in Event \ {NoEvent} : Timed(rows[e], rows'[e])
  BY DEF AllTimed, Db
<1>2. NoEvent \notin Event
  BY NamesAssumption
<1>3. QED
  BY <1>1, <1>2 DEF KeepsTime

LEMMA AdmissionKeepsTime ==
  ASSUME NoLateResults, NumberedInv, LastingInv, Admission
  PROVE  KeepsTime
<1>1. /\ Inv /\ Sound(Db) /\ DbOK(Db) /\ Db.rows = rows
      /\ OwnersTell /\ \A q : Forget(q).rows = rows
  BY InvSound, NothingForgotten DEF NumberedInv, Sound, Db
<1>2. ASSUME NEW d, AllTimed(Db, d), Commit(d) PROVE KeepsTime
  BY <1>2, TimedKeeps DEF Commit
<1>3. ASSUME NEW q \in Requests, ~Answered(q), NEW h,
             h \in {Enqueue(Recovered(q), q), Own(Recovered(q), q)}, Commit(h)
      PROVE  KeepsTime
  <2> DEFINE d == Recovered(q)
             n == q.event
  <2>1. AllTimed(Db, d) /\ n \in Event /\ DbOK(d)
    BY <1>1, RecoveredTimed, RecoveredSound, EventOf DEF Sound
  <2>2. rows[n].status = "none"
    BY <1>1, <1>3, <2>1 DEF Answered
  <2> DEFINE waits == [NewRow(d, q) EXCEPT !.status = "queued"]
             runs == [NewRow(d, q) EXCEPT !.status = "processing", !.appliedTo = n,
                                          !.generation = d.coord.ownerGeneration + 1]
  <2>3. PICK row : h.rows = [d.rows EXCEPT ![n] = row] /\ row.ttl = EnvelopeTtl
    <3>1. waits.ttl = EnvelopeTtl /\ runs.ttl = EnvelopeTtl
      BY DEF NewRow, NoRow
    <3>2. \/ h.rows = [d.rows EXCEPT ![n] = waits]
          \/ h.rows = [d.rows EXCEPT ![n] = runs]
      BY <1>3 DEF Enqueue, Own
    <3> HIDE DEF waits, runs
    <3>3. QED
      BY <3>1, <3>2
  <2> HIDE DEF d
  <2>4. \A e \in Event \ {n} : rows'[e] = d.rows[e]
    BY <1>3, <2>1, <2>3 DEF Commit, DbOK
  <2>5. rows'[n].ttl = EnvelopeTtl
    BY <1>3, <2>1, <2>3 DEF Commit, DbOK
  <2>6. \A e \in Event \ {n} : Timed(rows[e], rows'[e])
    BY <1>1, <2>1, <2>4 DEF AllTimed
  <2>7. QED
    BY <2>2, <2>5, <2>6 DEF KeepsTime
<1>4. ASSUME NEW q \in Requests
      PROVE  AllTimed(Db, Forget(q)) /\ AllTimed(Db, Recovered(q))
  BY <1>1, RowsTimed, RecoveredTimed
<1>5. ASSUME NEW q \in Requests,
             \/ AcceptAnswered(q) \/ AcceptRefused(q) \/ AcceptQueued(q) \/ AcceptOwner(q)
      PROVE  KeepsTime
  BY <1>2, <1>3, <1>4, <1>5
     DEF AcceptAnswered, AcceptRefused, AcceptQueued, AcceptOwner
<1>6. ASSUME AcquireClear PROVE KeepsTime
  <2> DEFINE d == ExpireQueuedEnvelopes(Db, QueuedPage(Db))
             h == [d EXCEPT !.coord = Acquire(@, ClearEvent, @.ownerTaskId,
                                              @.ownerGeneration + 1)]
  <2>1. AllTimed(Db, d)
    BY <1>1, PageIsQueue, ExpireTimed
  <2>2. Commit(d) \/ Commit(h)
    BY <1>6 DEF AcquireClear
  <2>3. h.rows = d.rows
    OBVIOUS
  <2> HIDE DEF d, h
  <2>4. QED
    BY <1>2, <2>1, <2>2, <2>3, RowsTimed, TimedOn
<1>7. QED
  BY <1>5, <1>6 DEF Admission

LEMMA TakeNextKeepsTime ==
  ASSUME NumberedInv, LastingInv, NEW g \in 1 .. Len(turns), NEW told,
         NEW outcome \in {"none", "completed", "failed"}, TakeNext(g, outcome, told)
  PROVE  KeepsTime
<1> DEFINE w == InsertOwnedEvents(Db, told)
           d == IF outcome \in Terminal THEN SettleAppliedEnvelopes(w, outcome)
                ELSE w
           page == QueuedPage(d)
           A == page \ Due(d, page)
           s == Swept(d)
           next == PromoteQueuedGroup(s, A, g + 1)
           freed == [s EXCEPT
                      !.coord = [Cleared(@) EXCEPT !.ownerTaskId = NoTask]]
<1>1. Commit(next) \/ Commit(freed)
  BY DEF TakeNext
<1>2. Sound(w) /\ DbOK(w) /\ AllTimed(Db, w)
  BY InvSound, InsertEventsSound, InsertEventsTimed DEF NumberedInv, Sound
<1>3. g + 1 \in Nat
  BY DEF NumberedInv, Inv, TypeOK
<1>4. Sound(d) /\ AllTimed(Db, d)
  <2>1. outcome \in Terminal => outcome \in {"completed", "failed"}
    BY DEF Terminal
  <2> HIDE DEF w
  <2>2. outcome \in {"completed", "failed"}
        => /\ Sound(SettleAppliedEnvelopes(w, outcome))
           /\ AllTimed(Db, SettleAppliedEnvelopes(w, outcome))
    BY <1>2, SettleSound, SettleTimed, TimedOn
  <2>3. QED
    BY <1>2, <2>1, <2>2
<1> HIDE DEF d
<1>5. DbOK(s) /\ AllTimed(d, s) /\ Queued(s) = A
  BY <1>4, SweptSound, SweptTimed DEF Sound
<1>6. freed.rows = s.rows
  OBVIOUS
<1> HIDE DEF s, A
<1>7. AllTimed(s, next)
  BY <1>3, <1>5, PromoteTimed
<1> HIDE DEF next, freed
<1>8. AllTimed(Db, next) /\ AllTimed(Db, freed)
  BY <1>4, <1>5, <1>6, <1>7, RowsTimed, TimedOn
<1>9. QED
  BY <1>1, <1>8, TimedKeeps DEF Commit

LEMMA WorkerKeepsTime ==
  ASSUME NumberedInv, LastingInv, Worker
  PROVE  KeepsTime
<1>1. Sound(Db) /\ DbOK(Db) /\ AllTimed(Db, Db)
  BY InvSound, RowsTimed DEF NumberedInv, Sound
<1>2. PICK g \in 1 .. Len(turns) :
        \/ \E told \in SUBSET Result :
             \/ AppendConversationEvent(g, told)
             \/ \E claim \in BOOLEAN : StepBoundary(g, told, claim)
             \/ \E outcome \in {"completed", "failed"} : Settle(g, outcome, told)
             \/ \E outcome \in {"none", "completed", "failed"} :
                  TakeNext(g, outcome, told)
        \/ \E textOnly \in BOOLEAN : ApplySteering(g, textOnly)
        \/ RenewOwner(g)
        \/ Interrupt(g)
        \/ ReleaseOwner(g)
  BY DEF Worker
<1>3. ASSUME NEW d, AllTimed(Db, d), Write(d) PROVE KeepsTime
  BY <1>3, TimedKeeps DEF Write
<1>4. ASSUME NEW told
      PROVE  LET d == InsertOwnedEvents(Db, told)
             IN  Sound(d) /\ DbOK(d) /\ AllTimed(Db, d)
  BY <1>1, InsertEventsSound, InsertEventsTimed DEF Sound
<1>5. ASSUME NEW told \in SUBSET Result, AppendConversationEvent(g, told)
      PROVE  KeepsTime
  BY <1>3, <1>4, <1>5 DEF AppendConversationEvent, InTurn
<1>6. ASSUME NEW told \in SUBSET Result, NEW claim \in BOOLEAN,
             StepBoundary(g, told, claim)
      PROVE  KeepsTime
  <2> DEFINE d == InsertOwnedEvents(Db, told)
             steers == IF claim /\ ~Stopped(d, g) THEN Steers(d, FALSE) ELSE {}
             h == CASE Stopped(d, g) -> d
                    [] steers # {}   -> Claimed(d, steers)
                    [] OTHER -> RenewHeldLease(IF claim THEN Unclaimed(d) ELSE d)
  <2>1. Write(h)
    BY <1>6 DEF StepBoundary, InTurn
  <2>2. Sound(d) /\ AllTimed(Db, d)
    BY <1>4
  <2>3. AllTimed(d, h)
    <3> HIDE DEF d
    <3>1. steers \in SUBSET (QueuedPage(d) \ Due(d, QueuedPage(d)))
      BY SteersInPage
    <3>2. /\ AllTimed(d, Claimed(d, steers)) /\ AllTimed(d, RenewHeldLease(d))
          /\ AllTimed(d, RenewHeldLease(Unclaimed(d)))
      BY <2>2, <3>1, ClaimedTimed
    <3>3. AllTimed(d, d)
      BY RowsTimed
    <3>4. QED
      BY <3>2, <3>3
  <2> HIDE DEF d, h
  <2>4. QED
    BY <1>3, <2>1, <2>2, <2>3, TimedOn
<1>7. ASSUME NEW told \in SUBSET Result, NEW outcome \in {"completed", "failed"},
             Settle(g, outcome, told)
      PROVE  KeepsTime
  <2> DEFINE d == InsertOwnedEvents(Db, told)
  <2>1. Write(SettleAppliedEnvelopes(d, outcome))
    BY <1>7 DEF Settle, InTurn
  <2>2. DbOK(d) /\ AllTimed(Db, d)
    BY <1>4
  <2> HIDE DEF d
  <2>3. QED
    BY <1>3, <2>1, <2>2, SettleTimed, TimedOn
<1>8. ASSUME NEW textOnly \in BOOLEAN, ApplySteering(g, textOnly)
      PROVE  KeepsTime
  <2>1. Write(Db) \/ Write(ClaimSteering(Db, textOnly))
    BY <1>8 DEF ApplySteering, InTurn
  <2>2. /\ AllTimed(Db, Claimed(Db, Steers(Db, textOnly)))
        /\ AllTimed(Db, Unclaimed(Db))
    BY <1>1, SteersInPage, ClaimedTimed
  <2>3. AllTimed(Db, ClaimSteering(Db, textOnly))
    BY <2>2 DEF ClaimSteering
  <2>4. QED
    BY <1>1, <1>3, <2>1, <2>3
<1>9. ASSUME RenewOwner(g) PROVE KeepsTime
  BY <1>3, <1>9, RenewUnsettled, RowsTimed DEF RenewOwner
<1>10. ASSUME Interrupt(g) PROVE KeepsTime
  BY <1>1, <1>3, <1>10, SettleTimed DEF Interrupt, InTurn
<1>11. ASSUME ReleaseOwner(g) PROVE KeepsTime
  BY <1>1, <1>11, TimedKeeps DEF ReleaseOwner, Db
<1>12. QED
  BY <1>2, <1>5, <1>6, <1>7, <1>8, <1>9, <1>10, <1>11, TakeNextKeepsTime

\* Of all steps only the cron and the clock move a row's times.
LEMMA NextKeepsTime ==
  ASSUME NoLateResults, NumberedInv, LastingInv, Next
  PROVE  KeepsTime \/ Maintain \/ Tick
<1>1. Sound(Db) /\ DbOK(Db) /\ AllTimed(Db, Db) /\ Db.rows = rows
  BY InvSound, RowsTimed DEF NumberedInv, Sound, Db
<1>2. ASSUME NEW expected, StopOwner(expected) PROVE KeepsTime
  BY <1>1, <1>2, TimedKeeps DEF StopOwner
<1>3. ASSUME RecoverQueued PROVE KeepsTime
  <2> DEFINE d == ExpireStaleOwner(Db)
             page == Queued(d)
             A == page \ Due(d, page)
             s == ExpireQueuedEnvelopes(d, page)
             gen == d.coord.ownerGeneration + 1
             r == [coord |-> [s.coord EXCEPT !.queuedCount = Cardinality(A)],
                   bytes |-> SizeOf(d, A),
                   rows  |-> s.rows]
  <2>1. AllTimed(Db, d) /\ Sound(d) /\ DbOK(d)
    BY <1>1, StaleOwnerTimed, StaleOwnerSound DEF Sound
  <2>2. AllTimed(d, s) /\ Sound(s) /\ DbOK(s) /\ Queued(s) = A
    BY <2>1, ExpireTimed, ExpireSound DEF Sound
  <2>3. /\ r.rows = s.rows
        /\ r.coord = [s.coord EXCEPT !.queuedCount = Cardinality(A)]
        /\ r = [coord |-> r.coord, bytes |-> r.bytes, rows |-> r.rows]
    OBVIOUS
  <2>4. gen \in Nat
    BY <2>1 DEF DbOK, Coordinator
  <2>5. rows' = PromoteQueuedGroup(r, A, gen).rows
    BY <1>3 DEF RecoverQueued, Commit, SweepRecovered
  <2>6. DbOK(r)
    <3>1. Cardinality(A) \in Nat
      BY QueuedFinite DEF Queued
    <3>2. s.coord \in Coordinator /\ s.coord.lease \in -1 .. LeaseTtl
      BY <2>2 DEF DbOK
    <3> HIDE DEF s, r, A
    <3>3. r.coord \in Coordinator /\ r.coord.lease \in -1 .. LeaseTtl
      BY <2>3, <3>1, <3>2 DEF Coordinator
    <3>4. QED
      BY <2>2, <2>3, <3>3 DEF DbOK
  <2> HIDE DEF d, s, r, A, gen
  <2>7. A \subseteq Queued(r)
    BY <2>2, <2>3 DEF Queued
  <2>8. AllTimed(r, PromoteQueuedGroup(r, A, gen))
    BY <2>4, <2>6, <2>7, PromoteTimed
  <2>9. AllTimed(Db, r)
    BY <2>1, <2>2, <2>3, RowsTimed, TimedOn
  <2>10. QED
    BY <2>5, <2>8, <2>9, TimedOn, TimedKeeps
<1>4. QED
  BY <1>2, <1>3, AdmissionKeepsTime, WorkerKeepsTime DEF Next

-----------------------------------------------------------------------------
(* The owner's row outlasts what runs in its turn.                         *)

\* Past its wait a row is kept as long as another waits, and as a lease lasts:
\* seven days against minutes.
LongKept == EnvelopeTtl <= Spare /\ LeaseTtl <= Spare

WaitsInTime ==
  \A e \in Event : rows[e].status = "queued" => rows[e].ttl <= EnvelopeTtl

\* A row runs in the turn of the row it is applied to, which goes after it.
OwnersOutlast ==
  \A e \in Event :
    rows[e].status = "processing" /\ rows[e].appliedTo \in Event
    => /\ rows[rows[e].appliedTo].generation = rows[e].generation
       /\ rows[e].ttl > 0 => rows[e].ttl < rows[rows[e].appliedTo].retain

\* What runs in the turn that holds the conversation is applied to its owner.
TurnNamesOwner ==
  HasActiveOwner(coord)
  => \A e \in Event :
       rows[e].status = "processing" /\ rows[e].generation = coord.ownerGeneration
       => rows[e].appliedTo = coord.ownerEventId

OutlastInv == WaitsInTime /\ OwnersOutlast /\ TurnNamesOwner

LEMMA OutlastInit == Init => OutlastInv
<1> SUFFICES ASSUME Init PROVE OutlastInv
  OBVIOUS
<1>1. \A e \in Event : rows[e].status = "none"
  BY DEF Init, NoRow
<1>2. QED
  BY <1>1 DEF OutlastInv, WaitsInTime, OwnersOutlast, TurnNamesOwner

\* The times of a row.
LEMMA Times ==
  ASSUME NumberedInv, NEW e \in Event
  PROVE  /\ rows[e].ttl \in Nat /\ rows[e].retain \in Nat
         /\ rows[e].status = "none" => rows[e] = NoRow
         /\ rows[e].status # "none" => rows[e] \in Admitted
BY DEF NumberedInv, Inv, TypeOK, Row, Admitted, NoRow

\* A step that takes rows names the owner of those it starts.
LEMMA NamesOwnerStep ==
  ASSUME NumberedInv, TurnNamesOwner, Next
  PROVE  TurnNamesOwner'
<1>1. PICK h, S, n, told : Taken(h, S, n, told)
  BY NextTakes DEF TakesStep
<1>2. coord' = h.coord /\ rows' = h.rows /\ TurnMoves(h.coord)
  BY <1>1 DEF Taken, Step
<1>3. coord.ownerGeneration \in Nat
  BY Numbers
<1>4. ASSUME HasActiveOwner(h.coord), NEW e \in Event,
             h.rows[e].status = "processing",
             h.rows[e].generation = h.coord.ownerGeneration
      PROVE  h.rows[e].appliedTo = h.coord.ownerEventId
  <2>1. CASE /\ Same(rows[e], h.rows[e]) /\ rows[e].status = "processing"
             /\ rows[e].generation \in 1 .. coord.ownerGeneration
    <3>1. h.coord.ownerGeneration = coord.ownerGeneration
      BY <1>2, <1>3, <1>4, <2>1 DEF Same, TurnMoves
    <3>2. HasActiveOwner(coord) /\ h.coord.ownerEventId = coord.ownerEventId
      BY <1>2, <1>3, <1>4, <3>1 DEF TurnMoves
    <3>3. QED
      BY <1>4, <2>1, <3>1, <3>2 DEF Same, TurnNamesOwner
  <2>2. QED
    BY <1>1, <1>4, <2>1, ProcessingCases
<1>5. QED
  BY <1>2, <1>4 DEF TurnNamesOwner, HasActiveOwner

\* A step that keeps the clocks.
LEMMA OutlastKept ==
  ASSUME LongKept, NumberedInv, OutlastInv, LastingInv', Next, KeepsTime
  PROVE  WaitsInTime' /\ OwnersOutlast'
<1>1. PICK h, S, n, told : Taken(h, S, n, told)
  BY NextTakes DEF TakesStep
<1>2. /\ coord' = h.coord /\ rows' = h.rows /\ RowsMove(h, S, n)
      /\ TurnMoves(h.coord) /\ StartsRight(h, S, n)
  BY <1>1 DEF Taken, Step
<1>3. PICK m : /\ \A e \in Event \ {m} : Timed(rows[e], h.rows[e])
               /\ m \in Event => rows[m].status = "none"
                                 /\ h.rows[m].ttl = EnvelopeTtl
  BY <1>2 DEF KeepsTime
<1>4. ASSUME NEW e \in Event, h.rows[e].status = "queued"
      PROVE  h.rows[e].ttl <= EnvelopeTtl
  <2>1. CASE e = m
    BY <1>3, <2>1, BoundsAssumption
  <2>2. CASE e # m
    <3>1. Timed(rows[e], h.rows[e])
      BY <1>3, <2>2
    <3>2. Live(rows[e])
      BY <1>4, <3>1 DEF Timed, Live
    <3>3. rows[e].status = "queued"
      BY <1>2, <1>4, <3>2, RowCases
         DEF Same, Ended, Terminal, NoRow, Started, Arrived
    <3>4. QED
      BY <3>1, <3>3 DEF Timed, OutlastInv, WaitsInTime
  <2>3. QED
    BY <2>1, <2>2
<1>5. ASSUME NEW e \in Event, h.rows[e].status = "processing",
             h.rows[e].appliedTo \in Event
      PROVE  LET o == h.rows[e].appliedTo
             IN  /\ h.rows[o].generation = h.rows[e].generation
                 /\ h.rows[e].ttl > 0 => h.rows[e].ttl < h.rows[o].retain
  <2> DEFINE o == h.rows[e].appliedTo
  <2>1. CASE /\ Same(rows[e], h.rows[e]) /\ rows[e].status = "processing"
             /\ rows[e].generation \in 1 .. coord.ownerGeneration
    <3>1. /\ rows[e].appliedTo = o /\ rows[o].generation = rows[e].generation
          /\ rows[e].ttl > 0 => rows[e].ttl < rows[o].retain
      BY <1>5, <2>1 DEF Same, OutlastInv, OwnersOutlast
    <3>2. rows[o].generation # 0
      <4>1. rows[e].generation # 0
        BY <2>1, Numbers
      <4>2. QED
        BY <3>1, <4>1
    <3>3. rows[o].status \notin {"none", "queued"}
      BY <1>5, <3>2, Times DEF NoRow, NumberedInv, RowsOK, Db
    <3>4. Timed(rows[o], h.rows[o]) /\ Timed(rows[e], h.rows[e])
      BY <1>3, <1>5, <2>1, <3>3
    <3>5. h.rows[o].generation = rows[o].generation
      <4>1. h.rows[o].status # "none"
        BY <3>3, <3>4 DEF Timed
      <4>2. CASE o = n
        BY <1>2, <1>5, <3>4, <4>2 DEF RowsMove, Arrived, Timed, Live
      <4>3. CASE o # n
        BY <1>2, <1>5, <3>3, <4>1, <4>3, RowCases
           DEF Same, Ended, NoRow, Started
      <4>4. QED
        BY <4>2, <4>3
    <3>6. QED
      BY <2>1, <3>1, <3>4, <3>5 DEF Same, Timed
  <2>2. CASE /\ e \in S \cup {n}
             /\ h.rows[e].generation = h.coord.ownerGeneration
             /\ o = h.coord.ownerEventId
             /\ h.coord.ownerGeneration = coord.ownerGeneration => e \in S
    <3>1. HasActiveOwner(h.coord)
      <4>1. CASE h.coord.ownerGeneration = coord.ownerGeneration
        BY <1>2, <2>2, <4>1 DEF StartsRight
      <4>2. CASE h.coord.ownerGeneration # coord.ownerGeneration
        BY <1>2, <4>2 DEF TurnMoves
      <4>3. QED
        BY <4>1, <4>2
    <3>2. OwnerIsThere(h)
      BY <1>2 DEF LastingInv, Lasting, OwnerIsThere, Db, HasActiveOwner
    <3>3. h.rows[o].generation = h.coord.ownerGeneration /\ h.rows[o].retain > Spare
      BY <1>5, <2>2, <3>1, <3>2 DEF OwnerIsThere
    <3>4. h.rows[e].ttl <= EnvelopeTtl /\ h.rows[e].ttl \in Nat
      <4>1. CASE e = m
        BY <1>3, <1>5, <4>1, BoundsAssumption
      <4>2. CASE e # m
        <5>1. Timed(rows[e], h.rows[e])
          BY <1>3, <1>5, <4>2
        <5>2. Live(rows[e])
          BY <1>5, <5>1 DEF Timed, Live
        <5>3. rows[e].status = "queued"
          BY <1>2, <2>2, <5>2 DEF RowsMove, Started, Arrived
        <5>4. QED
          BY <1>5, <5>1, <5>3, Times DEF Timed, OutlastInv, WaitsInTime
      <4>3. QED
        BY <4>1, <4>2
    <3>5. h.rows[o].retain \in Nat
      <4>1. Inv'
        BY StepInv DEF NumberedInv
      <4>2. rows' \in [Event -> Row]
        BY <4>1 DEF Inv, TypeOK
      <4>3. h.rows[o] \in Row
        BY <1>2, <1>5, <4>2
      <4>4. QED
        BY <4>3 DEF Row, Admitted, NoRow
    <3>6. h.rows[e].ttl < h.rows[o].retain
      BY <3>3, <3>4, <3>5, SpareTime, BoundsAssumption DEF LongKept
    <3>7. QED
      BY <2>2, <3>3, <3>6
  <2>3. QED
    BY <1>1, <1>5, <2>1, <2>2, ProcessingCases
<1>6. WaitsInTime'
  BY <1>2, <1>4 DEF WaitsInTime
<1>7. OwnersOutlast'
  BY <1>2, <1>5 DEF OwnersOutlast
<1>8. QED
  BY <1>6, <1>7

\* The clock: a row that runs loses no less than the row it is applied to.
LEMMA OutlastTick ==
  ASSUME NumberedInv, OutlastInv, Tick
  PROVE  WaitsInTime' /\ OwnersOutlast'
<1>1. \A e \in Event : rows'[e] = Aged(e)
  BY DEF Tick
<1>2. ASSUME NEW e \in Event
      PROVE  /\ Live(rows[e]) => Aged(e).ttl = Less(rows[e].ttl)
             /\ Aged(e).retain \in {rows[e].retain, Less(rows[e].retain)}
  BY Times DEF Aged, Admitted, NoRow, Live
<1>3. WaitsInTime'
  <2>1. ASSUME NEW e \in Event, Aged(e).status = "queued"
        PROVE  Aged(e).ttl <= EnvelopeTtl
    <3>1. rows[e].status = "queued"
      BY <2>1, AgedKeeps DEF NumberedInv
    <3>2. rows[e].ttl <= EnvelopeTtl /\ Aged(e).ttl = Less(rows[e].ttl)
      BY <1>2, <3>1 DEF Live, OutlastInv, WaitsInTime
    <3>3. QED
      BY <3>2, Times, BoundsAssumption DEF Less
  <2>2. QED
    BY <1>1, <2>1 DEF WaitsInTime
<1>4. OwnersOutlast'
  <2>1. ASSUME NEW e \in Event, Aged(e).status = "processing",
               Aged(e).appliedTo \in Event
        PROVE  LET o == Aged(e).appliedTo
               IN  /\ Aged(o).generation = Aged(e).generation
                   /\ Aged(e).ttl > 0 => Aged(e).ttl < Aged(o).retain
    <3> DEFINE o == Aged(e).appliedTo
    <3>1. /\ rows[e].status = "processing" /\ rows[e].appliedTo = o
          /\ Aged(e).generation = rows[e].generation
          /\ Aged(o).generation = rows[o].generation
      BY <2>1, AgedKeeps DEF NumberedInv
    <3>2. /\ rows[o].generation = rows[e].generation
          /\ rows[e].ttl > 0 => rows[e].ttl < rows[o].retain
      BY <2>1, <3>1 DEF OutlastInv, OwnersOutlast
    <3>3. /\ Aged(e).ttl = Less(rows[e].ttl)
          /\ Aged(o).retain \in {rows[o].retain, Less(rows[o].retain)}
          /\ rows[e].ttl \in Nat /\ rows[o].retain \in Nat
      BY <1>2, <2>1, <3>1, Times DEF Live
    <3> HIDE DEF o
    <3>4. Aged(e).ttl > 0 => Aged(e).ttl < Aged(o).retain
      BY <3>2, <3>3 DEF Less
    <3>5. QED
      BY <3>1, <3>2, <3>4 DEF o
  <2>2. QED
    BY <1>1, <2>1 DEF OwnersOutlast
<1>5. QED
  BY <1>3, <1>4

\* What the cron makes of a row: it deletes none that is kept, lets what waits
\* wait, and gives a row only as much time as its live turn has.
LEMMA MaintainedRow ==
  ASSUME NumberedInv, NEW e \in Event
  PROVE  LET r == Maintained(Db).rows[e]
         IN  /\ rows[e].retain > 0 => /\ r.retain = rows[e].retain
                                      /\ r.generation = rows[e].generation
             /\ r.status = "queued" => rows[e].status = "queued" /\ r.ttl = rows[e].ttl
             /\ r.status = "processing" =>
                  /\ rows[e].status = "processing"
                  /\ r.appliedTo = rows[e].appliedTo
                  /\ r.generation = rows[e].generation
                  /\ \/ r.ttl = rows[e].ttl /\ rows[e].ttl > 0
                     \/ r.ttl = coord.lease /\ OfLiveTurn(Db, e)
<1> DEFINE s == ExpireQueuedEnvelopes(Db, Queued(Db))
           due == Due(Db, {x \in Event : Db.rows[x].status = "processing"})
           r == Maintained(Db).rows[e]
<1>1. DbOK(Db) /\ Db.rows = rows /\ Db.coord = coord
  BY InvSound DEF NumberedInv, Sound, Db
<1>2. \/ s.rows[e] = rows[e]
      \/ rows[e].status = "queued" /\ s.rows[e] = Expired(rows[e])
  BY <1>1 DEF ExpireQueuedEnvelopes, Dequeue, Due, Queued, Marked, Expired
<1>3. CASE e \in due
  <2>1. rows[e].status = "processing" /\ s.rows[e] = rows[e]
    BY <1>1, <1>2, <1>3 DEF Due
  <2>2. PICK x : /\ \/ x = Expired(s.rows[e])
                    \/ /\ OfLiveTurn(Db, e)
                       /\ x = [s.rows[e] EXCEPT !.ttl = Db.coord.lease]
                 /\ r = IF x.status \in Terminal /\ x.retain <= 0 THEN NoRow ELSE x
    BY <1>3 DEF Maintained
  <2>3. rows[e] \in Admitted
    BY <2>1, Times
  <2> HIDE DEF r, s
  <2>4. /\ x.retain = rows[e].retain /\ x.generation = rows[e].generation
        /\ x.appliedTo = rows[e].appliedTo
        /\ \/ x.status = "expired"
           \/ x.status = "processing" /\ x.ttl = coord.lease /\ OfLiveTurn(Db, e)
    BY <1>1, <2>1, <2>2, <2>3 DEF Expired, Admitted
  <2>5. rows[e].retain > 0 => ~(x.retain <= 0)
    BY <2>3, <2>4 DEF Admitted
  <2>6. QED
    BY <2>1, <2>2, <2>4, <2>5 DEF NoRow, r
<1>4. CASE e \notin due
  <2>1. r = IF s.rows[e].status \in Terminal /\ s.rows[e].retain <= 0
            THEN NoRow ELSE s.rows[e]
    BY <1>4 DEF Maintained
  <2>2. rows[e].status = "processing" => rows[e].ttl > 0
    BY <1>1, <1>4, Times DEF Due, Admitted
  <2>3. rows[e].status = "queued" => rows[e] \in Admitted
    BY Times
  <2> HIDE DEF r, s
  <2>4. s.rows[e].retain = rows[e].retain /\ s.rows[e].generation = rows[e].generation
    BY <1>2, <2>3 DEF Expired, Admitted
  <2>5. rows[e].retain > 0 => ~(s.rows[e].retain <= 0)
    BY <2>4, Times
  <2>6. s.rows[e].status \in {"queued", "processing"} => s.rows[e] = rows[e]
    BY <1>2, <2>3 DEF Expired, Admitted
  <2>7. QED
    BY <2>1, <2>2, <2>4, <2>5, <2>6 DEF NoRow, r
<1>5. QED
  BY <1>3, <1>4

LEMMA OutlastMaintained ==
  ASSUME LongKept, NumberedInv, OutlastInv, LastingInv, Maintain
  PROVE  WaitsInTime' /\ OwnersOutlast'
<1> DEFINE R == Maintained(Db).rows
<1>1. rows' = R
  BY DEF Maintain, Commit
<1>2. ASSUME NEW e \in Event, R[e].status = "processing", R[e].appliedTo \in Event
      PROVE  /\ R[R[e].appliedTo].generation = R[e].generation
             /\ R[e].ttl > 0 => R[e].ttl < R[R[e].appliedTo].retain
  <2> DEFINE o == rows[e].appliedTo
  <2>1. /\ rows[e].status = "processing" /\ R[e].appliedTo = o /\ o \in Event
        /\ R[e].generation = rows[e].generation
        /\ \/ R[e].ttl = rows[e].ttl /\ rows[e].ttl > 0
           \/ R[e].ttl = coord.lease /\ OfLiveTurn(Db, e)
    BY <1>2, MaintainedRow
  <2>2. /\ rows[o].generation = rows[e].generation
        /\ rows[e].ttl > 0 => rows[e].ttl < rows[o].retain
    BY <2>1 DEF OutlastInv, OwnersOutlast
  <2>3. rows[o].retain > 0 => /\ R[o].retain = rows[o].retain
                              /\ R[o].generation = rows[o].generation
    BY <2>1, MaintainedRow
  <2> HIDE DEF R
  <2>4. CASE R[e].ttl = rows[e].ttl /\ rows[e].ttl > 0
    <3>1. rows[e].ttl \in Nat /\ rows[o].retain \in Nat
      BY <2>1, Times
    <3>2. QED
      BY <2>1, <2>2, <2>3, <2>4, <3>1
  <2>5. CASE R[e].ttl = coord.lease /\ OfLiveTurn(Db, e)
    <3>1. HasActiveOwner(coord) /\ rows[e].generation = coord.ownerGeneration
      BY <2>5 DEF OfLiveTurn, Db
    <3>2. o = coord.ownerEventId
      BY <2>1, <3>1 DEF OutlastInv, TurnNamesOwner
    <3>3. rows[o].retain > Spare
      BY <2>1, <3>1, <3>2 DEF LastingInv, Lasting, OwnerIsThere, Db
    <3>4. coord.lease \in -1 .. LeaseTtl /\ rows[o].retain \in Nat
      BY <2>1, Times DEF NumberedInv, Inv, TypeOK
    <3>5. rows[o].retain > 0 /\ coord.lease < rows[o].retain
      BY <3>3, <3>4, SpareTime, BoundsAssumption DEF LongKept
    <3>6. QED
      BY <2>1, <2>2, <2>3, <2>5, <3>5
  <2>6. QED
    BY <2>1, <2>4, <2>5
<1>3. ASSUME NEW e \in Event, R[e].status = "queued"
      PROVE  R[e].ttl <= EnvelopeTtl
  BY <1>3, MaintainedRow DEF OutlastInv, WaitsInTime
<1> HIDE DEF R
<1>4. WaitsInTime' /\ OwnersOutlast'
  BY <1>1, <1>2, <1>3 DEF WaitsInTime, OwnersOutlast
<1>5. QED
  BY <1>4

LEMMA OutlastStep ==
  ASSUME NoLateResults, LongKept, NumberedInv, OutlastInv, LastingInv, LastingInv',
         [Next]_vars
  PROVE  OutlastInv'
<1>1. CASE UNCHANGED vars
  BY <1>1 DEF vars, OutlastInv, WaitsInTime, OwnersOutlast, TurnNamesOwner,
              HasActiveOwner
<1>2. CASE Next
  <2>1. KeepsTime \/ Maintain \/ Tick
    BY <1>2, NextKeepsTime
  <2>2. WaitsInTime' /\ OwnersOutlast'
    BY <1>2, <2>1, OutlastKept, OutlastMaintained, OutlastTick
  <2>3. TurnNamesOwner'
    BY <1>2, NamesOwnerStep DEF OutlastInv
  <2>4. QED
    BY <2>2, <2>3 DEF OutlastInv
<1>3. QED
  BY <1>1, <1>2

\* In a conversation without late results every row that runs keeps the row it
\* is applied to, so every turn decides its own rows and no others: a lapsed
\* turn's steers are not completed by the turn that came after it, though the
\* settle names no generation and event ids come back once their rows are gone.
\* (settleAppliedEnvelopes; statusTtlMs against envelopeTtlMs and leaseTtlMs.)
THEOREM PlainTurnsSettleTheirOwn ==
  ASSUME NoLateResults, LongKept
  PROVE  Spec => SettledByOwnTurn
<1>1. NumberedInv => OwnersTell
  BY NothingForgotten DEF NumberedInv
<1>2. NumberedInv /\ OutlastInv /\ LastingInv /\ LastingInv' /\ [Next]_vars
      => OutlastInv'
  BY OutlastStep
<1>3. OutlastInv => RowsKeepTheirOwner
  BY DEF OutlastInv, OwnersOutlast, RowsKeepTheirOwner
<1>4. Spec => []LastingInv
  BY <1>1, NumberedHolds, LastingHolds, PTL
<1>5. Spec => []OutlastInv
  BY <1>2, <1>4, OutlastInit, NumberedHolds, PTL DEF Spec
<1>6. QED
  BY <1>3, <1>5, SettlesItsOwn, PTL

=============================================================================
