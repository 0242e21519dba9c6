-------------------------- MODULE LateResultsProofs --------------------------
(***************************************************************************)
(* Theorems about LateResults, for every set of children, every window and  *)
(* every number of failures.                                               *)
(*                                                                         *)
(* First what the queues of messages hold, then the parts of the invariant   *)
(* (what a child's row may be at each stage of its turn, what its messages   *)
(* say, and when its result is in the history), then each action; last, what *)
(* the parent's history tells of each child.                               *)
(***************************************************************************)
EXTENDS LateResults, FiniteSetTheorems, SequenceTheorems, TLAPS

-----------------------------------------------------------------------------
(* Queues of messages.                                                     *)

LEMMA ToSetFacts ==
  ASSUME NEW S, NEW s \in Seq(S)
  PROVE  /\ ToSet(s) \subseteq S
         /\ \A x : x \in ToSet(s) <=> \E i \in 1 .. Len(s) : x = s[i]
         /\ ToSet(<< >>) = {}
<1>1. Len(s) \in Nat /\ DOMAIN s = 1 .. Len(s) /\ s \in [1 .. Len(s) -> S]
  BY LenProperties
<1>2. ToSet(<< >>) = {}
  BY DEF ToSet
<1>3. QED
  BY <1>1, <1>2 DEF ToSet

LEMMA ToSetAppend ==
  ASSUME NEW S, NEW s \in Seq(S), NEW e \in S
  PROVE  Append(s, e) \in Seq(S) /\ ToSet(Append(s, e)) = ToSet(s) \cup {e}
<1>1. /\ Append(s, e) \in Seq(S) /\ Len(Append(s, e)) = Len(s) + 1
      /\ \A i \in 1 .. Len(s) : Append(s, e)[i] = s[i]
      /\ Append(s, e)[Len(s) + 1] = e
      /\ Len(s) \in Nat
  BY AppendProperties, LenProperties
<1>2. /\ \A x : x \in ToSet(s) <=> \E i \in 1 .. Len(s) : x = s[i]
      /\ \A x : x \in ToSet(Append(s, e)) <=>
                 \E i \in 1 .. Len(Append(s, e)) : x = Append(s, e)[i]
  BY <1>1, ToSetFacts
<1>3. 1 .. Len(s) + 1 = (1 .. Len(s)) \cup {Len(s) + 1}
  BY <1>1
<1>4. QED
  BY <1>1, <1>2, <1>3

LEMMA ToSetTail ==
  ASSUME NEW S, NEW s \in Seq(S), s # << >>
  PROVE  /\ Head(s) \in S /\ Head(s) \in ToSet(s)
         /\ Tail(s) \in Seq(S) /\ ToSet(Tail(s)) \subseteq ToSet(s)
<1>1. /\ Len(s) \in Nat \ {0} /\ Head(s) = s[1] /\ Head(s) \in S
      /\ Tail(s) \in Seq(S) /\ Len(Tail(s)) = Len(s) - 1
      /\ \A i \in 1 .. Len(Tail(s)) : Tail(s)[i] = s[i + 1]
  BY HeadTailProperties, EmptySeq
<1>2. /\ \A x : x \in ToSet(s) <=> \E i \in 1 .. Len(s) : x = s[i]
      /\ \A x : x \in ToSet(Tail(s)) <=>
                 \E i \in 1 .. Len(Tail(s)) : x = Tail(s)[i]
  <2>1. Tail(s) \in Seq(S)
    BY <1>1
  <2> HIDE <1>1
  <2>2. QED
    BY <2>1, ToSetFacts
<1>3. QED
  BY <1>1, <1>2

LEMMA ToSetConcat ==
  ASSUME NEW S, NEW s \in Seq(S), NEW t \in Seq(S)
  PROVE  s \o t \in Seq(S) /\ ToSet(s \o t) \subseteq ToSet(s) \cup ToSet(t)
<1>1. /\ s \o t \in Seq(S) /\ Len(s \o t) = Len(s) + Len(t)
      /\ \A i \in 1 .. Len(s) + Len(t) :
           (s \o t)[i] = IF i <= Len(s) THEN s[i] ELSE t[i - Len(s)]
      /\ Len(s) \in Nat /\ Len(t) \in Nat
  BY ConcatProperties, LenProperties
<1>2. /\ \A x : x \in ToSet(s \o t) <=>
                 \E i \in 1 .. Len(s \o t) : x = (s \o t)[i]
      /\ \A x : x \in ToSet(s) <=> \E i \in 1 .. Len(s) : x = s[i]
      /\ \A x : x \in ToSet(t) <=> \E i \in 1 .. Len(t) : x = t[i]
  BY <1>1, ToSetFacts
<1>3. QED
  BY <1>1, <1>2

Increases(f, n) == \A i, j \in 1 .. n : i < j => f[i] < f[j]

\* Any set of positions has an enumeration in order: that of the set without its
\* greatest, with the greatest at the end.
LEMMA OrderExtends ==
  ASSUME NEW m \in Nat, NEW S \in SUBSET (1 .. m + 1), m + 1 \in S,
         \E f \in [1 .. Cardinality(S \ {m + 1}) -> S \ {m + 1}] :
           Increases(f, Cardinality(S \ {m + 1}))
  PROVE  \E f \in [1 .. Cardinality(S) -> S] : Increases(f, Cardinality(S))
<1> DEFINE T == S \ {m + 1}
           n == Cardinality(T)
<1>1. IsFiniteSet(S) /\ Cardinality(S) \in Nat
  <2>1. IsFiniteSet(1 .. m + 1)
    BY FS_Interval
  <2>2. QED
    BY <2>1, FS_Subset, FS_CardinalityType
<1>2. IsFiniteSet(T) /\ n \in Nat /\ Cardinality(S) = n + 1
  <2>1. IsFiniteSet(T) /\ n = Cardinality(S) - 1
    BY <1>1, FS_RemoveElement
  <2>2. QED
    BY <1>1, <2>1, FS_CardinalityType
<1>3. PICK f \in [1 .. n -> T] : Increases(f, n)
  OBVIOUS
<1> DEFINE g == [i \in 1 .. n + 1 |-> IF i = n + 1 THEN m + 1 ELSE f[i]]
<1> HIDE DEF n, T
<1>4. g \in [1 .. n + 1 -> S]
  BY <1>2, <1>3 DEF T
<1>5. \A i \in 1 .. n : f[i] < m + 1
  <2>1. \A k \in T : k < m + 1
    BY DEF T
  <2>2. QED
    BY <1>3, <2>1
<1>6. Increases(g, n + 1)
  BY <1>2, <1>3, <1>5 DEF Increases
<1>7. QED
  BY <1>2, <1>4, <1>6

LEMMA OrderExists ==
  ASSUME NEW n \in Nat, NEW S \in SUBSET (1 .. n)
  PROVE  \E f \in [1 .. Cardinality(S) -> S] : Increases(f, Cardinality(S))
<1> DEFINE Ordered(X) ==
             \E f \in [1 .. Cardinality(X) -> X] : Increases(f, Cardinality(X))
           Bad == {m \in Nat : \E X \in SUBSET (1 .. m) : ~Ordered(X)}
<1>1. SUFFICES Bad = {}
  OBVIOUS
<1>2. SUFFICES ASSUME Bad # {} PROVE FALSE
  OBVIOUS
<1>3. PICK m \in Bad : \A k \in Bad : ~(<<k, m>> \in OpToRel(<, Nat))
  <2> HIDE DEF Bad
  <2>1. Bad \subseteq Nat
    BY DEF Bad
  <2>2. QED
    BY <1>2, <2>1, NatLessThanWellFounded, WFMin
<1>4. m \in Nat /\ \A k \in Bad : ~(k < m)
  BY <1>3 DEF OpToRel
<1>5. PICK X \in SUBSET (1 .. m) : ~Ordered(X)
  OBVIOUS
<1>6. m # 0
  <2> SUFFICES ASSUME m = 0 PROVE FALSE
    OBVIOUS
  <2>1. X = {} /\ Cardinality(X) = 0
    <3>1. 1 .. m = {}
      OBVIOUS
    <3>2. QED
      BY <3>1, FS_EmptySet
  <2>2. << >> \in [1 .. 0 -> X] /\ Increases(<< >>, 0)
    BY DEF Increases
  <2>3. QED
    BY <1>5, <2>1, <2>2
<1>7. m - 1 \in Nat /\ m - 1 \notin Bad
  <2> HIDE DEF Bad
  <2>1. QED
    BY <1>4, <1>6
<1>8. \A Y \in SUBSET (1 .. m - 1) : Ordered(Y)
  BY <1>7
<1>9. m \in X
  <2> SUFFICES ASSUME m \notin X PROVE FALSE
    OBVIOUS
  <2>1. X \in SUBSET (1 .. m - 1)
    BY <1>4
  <2>2. QED
    BY <1>5, <1>8, <2>1
<1>10. X \ {m} \in SUBSET (1 .. m - 1)
  BY <1>4
<1>11. QED
  <2> DEFINE k == m - 1
  <2>1. k \in Nat /\ m = k + 1
    BY <1>7
  <2>2. Ordered(X \ {k + 1})
    BY <1>8, <1>10, <2>1
  <2>3. Ordered(X)
    <3> HIDE DEF k
    <3>1. X \in SUBSET (1 .. k + 1) /\ k + 1 \in X
      BY <1>9, <2>1
    <3>2. QED
      BY <2>1, <2>2, <3>1, OrderExtends
  <2>4. QED
    BY <1>5, <2>3

\* Dropping the stale notices of a queue leaves a queue of its messages.
LEMMA FreshFacts ==
  ASSUME NEW queue \in Seq(Message)
  PROVE  Fresh(queue) \in Seq(Message) /\ ToSet(Fresh(queue)) \subseteq ToSet(queue)
<1> DEFINE kept == Current(queue)
           n == Cardinality(kept)
<1>1. /\ Len(queue) \in Nat /\ queue \in [1 .. Len(queue) -> Message]
      /\ DOMAIN queue = 1 .. Len(queue)
  BY LenProperties
<1>2. kept \in SUBSET (1 .. Len(queue))
  BY <1>1 DEF Current
<1>3. n \in Nat
  <2>1. IsFiniteSet(1 .. Len(queue))
    BY <1>1, FS_Interval
  <2>2. QED
    BY <1>2, <2>1, FS_Subset, FS_CardinalityType
<1> HIDE DEF kept
<1>4. \E f \in [1 .. n -> kept] : \A i, j \in 1 .. n : i < j => f[i] < f[j]
  BY <1>1, <1>2, OrderExists DEF Increases
<1>5. InOrder(kept) \in [1 .. n -> kept]
  BY <1>4 DEF InOrder
<1> HIDE DEF n
<1>6. Fresh(queue) = [i \in 1 .. n |-> queue[InOrder(kept)[i]]]
  BY DEF Fresh, kept, n
<1>7. \A i \in 1 .. n : InOrder(kept)[i] \in 1 .. Len(queue)
  BY <1>2, <1>5
<1>8. Fresh(queue) \in [1 .. n -> Message]
  BY <1>1, <1>6, <1>7
<1>9. Fresh(queue) \in Seq(Message)
  BY <1>3, <1>8, SeqDef
<1>10. ToSet(Fresh(queue)) \subseteq ToSet(queue)
  BY <1>1, <1>6, <1>7 DEF ToSet
<1>11. QED
  BY <1>9, <1>10

LEMMA NoticesFacts ==
  ASSUME run.noting \subseteq Child
  PROVE  Notices \in Seq(Message) /\ \A m \in ToSet(Notices) : m.says = "running"
<1> DEFINE all == {[of |-> c, says |-> "running"] : c \in run.noting}
           n == Cardinality(all)
<1>1. IsFiniteSet(run.noting)
  BY LateResultsAssumption, FS_Subset
<1>2. IsFiniteSet(all)
  <2> DEFINE f == [c \in run.noting |-> [of |-> c, says |-> "running"]]
  <2>1. all = {f[c] : c \in run.noting}
    OBVIOUS
  <2>2. f \in Surjection(run.noting, all)
    BY <2>1 DEF Surjection
  <2>3. QED
    BY <1>1, <2>2, FS_Surjection
<1>3. all \subseteq Message /\ \A m \in all : m.says = "running"
  BY DEF Message, Said
<1> HIDE DEF all
<1>4. n \in Nat /\ ExistsBijection(1 .. n, all)
  BY <1>2, FS_CardinalityType
<1>5. \E f \in [1 .. n -> all] : IsInjective(f)
  BY <1>4 DEF ExistsBijection, Bijection, Injection, IsInjective
<1>6. Notices \in [1 .. n -> all]
  BY <1>5 DEF Notices, SetToSeq, all
<1> HIDE DEF n
<1>7. Notices \in [1 .. n -> Message]
  BY <1>3, <1>6
<1>8. Notices \in Seq(Message)
  BY <1>4, <1>7, SeqDef
<1>9. ToSet(Notices) \subseteq all
  BY <1>6 DEF ToSet
<1>10. QED
  BY <1>3, <1>8, <1>9

-----------------------------------------------------------------------------
(* The invariant: a turn and its row, its messages, its resume.             *)

\* Before the outcome of a child is settled, and after.
Early == {"idle", "running", "unrecorded"}
Late == {"finished", "emitting", "over"}

\* What a child's row and lists may be at each stage of its turn.  While it runs
\* its row is young, so no sweep has listed it.
ChildOK(c) ==
  /\ child[c] = "idle" => /\ row[c].status = "none" /\ row[c].age = 0
                         /\ c \notin pending \cup detached
  /\ child[c] = "running" => row[c].status = "processing" /\ row[c].age <= Budget
  /\ child[c] = "unrecorded" =>
       /\ faults > 0 /\ row[c].age <= Budget
       /\ answer[c] \in Outcome
       /\ row[c].status # "lost"
       /\ row[c].status # "processing" =>
            row[c].age = 0 /\ row[c].status \in Outcome
  /\ child[c] \in Late =>
       /\ answer[c] \in Outcome
       /\ row[c].status \in {"processing", "lost"} => faults > 0
  /\ child[c] = "dead" => faults > 0
  /\ child[c] # "idle" => row[c].status # "none"
  /\ child[c] \in Early =>
       /\ row[c].handback # "stored" /\ listed[c] = {}
       /\ resume[c].at = "none"
  /\ listed[c] \subseteq {"processing", row[c].status}

\* A message says what its child's turn came to.
MessageOK(m) ==
  m.says # "running" =>
    child[m.of] \in {"emitting", "over"} /\ m.says = answer[m.of]

Messages == ToSet(outbox) \cup ToSet(run.holds)

HoldsSome == run.at \in {"writing", "lastWrite", "handing"} => run.holds # << >>

\* A resume carries a result, and has the turn while it is processed.
ResumeOK(c) ==
  /\ resume[c].at # "none" => resume[c].says \in Outcome
  /\ resume[c].at = "processing" <=> turn = c

StageInv ==
  /\ TypeOK
  /\ \A c \in Child : ChildOK(c) /\ ResumeOK(c)
  /\ \A m \in Messages : MessageOK(m)
  /\ HoldsSome

-----------------------------------------------------------------------------
(* Rows and calls to Convex.                                                *)

LEMMA Names ==
  /\ Run \notin Child /\ Nobody \notin Child /\ Run # Nobody
  /\ Outcomes \subseteq Outcome \ {"lost"}
  /\ Early \cap Late = {} /\ "dead" \notin Early \cup Late
BY LateResultsAssumption DEF Run, Nobody, Outcome, Early, Late

LEMMA RowTypes ==
  ASSUME NEW r \in Rows, NEW to \in {"pending", "detached", "stored"},
         NEW status \in Outcome \cup {"processing"}
  PROVE  /\ Stored(r) \in Rows /\ Stored(r).status = r.status
         /\ Stored(r).handback = "stored" /\ Stored(r).age = 0
         /\ Recorded(r, status) \in Rows /\ Recorded(r, status).status = status
         /\ Recorded(r, status).handback = r.handback
         /\ Recorded(r, status).age = 0
<1>1. 0 \in 0 .. Hold
  BY LateResultsAssumption
<1>2. Stored(r) \in Rows /\ Stored(r).status = r.status
      /\ Stored(r).handback = "stored" /\ Stored(r).age = 0
  BY <1>1 DEF Rows, Stored
<1>3. Recorded(r, status) \in Rows /\ Recorded(r, status).status = status
      /\ Recorded(r, status).handback = r.handback /\ Recorded(r, status).age = 0
  BY <1>1 DEF Rows, Recorded
<1>4. QED
  BY <1>2, <1>3

LEMMA MarkedTypes ==
  ASSUME NEW r \in Rows, NEW to \in {"pending", "detached", "stored"}
  PROVE  /\ Marked(r, to) \in Rows /\ Marked(r, to).status = r.status
         /\ Marked(r, to).age \in {r.age, 0}
         /\ to = "detached" => Marked(r, to).age = r.age
         /\ r.handback = "stored" => Marked(r, to) = r
         /\ to = "detached" /\ r.handback # "stored" =>
              Marked(r, to).handback # "stored"
<1>1. CASE r.handback = "stored" \/ (to = "stored" /\ r.status = "processing")
  BY <1>1 DEF Marked
<1>2. CASE /\ ~(r.handback = "stored" \/ (to = "stored" /\ r.status = "processing"))
           /\ to = "stored"
  BY <1>2, RowTypes DEF Marked
<1>3. CASE ~(r.handback = "stored") /\ to # "stored"
  BY <1>3 DEF Marked, Rows
<1>4. QED
  BY <1>1, <1>2, <1>3

LEMMA LostTypes ==
  ASSUME NEW r \in Rows
  PROVE  /\ Lost(r) \in Rows
         /\ r.status # "processing" => Lost(r) = r
         /\ r.status = "processing" => Lost(r).status = "lost"
         /\ Lost(r).handback = "stored" <=> r.handback = "stored"
<1>1. CASE r.status # "processing"
  BY <1>1 DEF Lost
<1>2. CASE r.status = "processing"
  <2>1. Recorded(r, "lost") \in Rows /\ Recorded(r, "lost").handback = r.handback
        /\ Recorded(r, "lost").status = "lost"
    BY RowTypes DEF Outcome
  <2>2. QED
    BY <1>2, <2>1 DEF Lost, Rows
<1>3. QED
  BY <1>1, <1>2

\* What no call to Convex about a result does to a row: change its status, or
\* make it older.
RowQuiet(d) ==
  row'[d].status = row[d].status /\ row'[d].age \in {row[d].age, 0}

ConvexType ==
  /\ row \in [Child -> Rows]
  /\ told \in [Child -> Seq(Said)]
  /\ resume \in [Child -> [at : {"none", "queued", "processing", "ended"},
                           says : Said]]
  /\ turn \in Child \cup {Run, Nobody}

SameAt(d) ==
  row'[d] = row[d] /\ resume'[d] = resume[d] /\ told'[d] = told[d]

LEMMA AppendTold ==
  ASSUME ConvexType, NEW c \in Child, NEW says \in Said,
         told' = [told EXCEPT ![c] = Append(@, says)]
  PROVE  /\ told' \in [Child -> Seq(Said)]
         /\ \A d \in Child \ {c} : told'[d] = told[d]
         /\ told'[c] = Append(told[c], says)
<1>1. told[c] \in Seq(Said) /\ told'[c] = Append(told[c], says)
  BY DEF ConvexType
<1>2. Append(told[c], says) \in Seq(Said)
  BY <1>1, AppendProperties
<1>3. QED
  BY <1>1, <1>2 DEF ConvexType

LEMMA TellFrame ==
  ASSUME ConvexType, NEW c \in Child, NEW says \in Said, Tell(c, says)
  PROVE  /\ row' \in [Child -> Rows] /\ told' \in [Child -> Seq(Said)]
         /\ resume' \in [Child -> [at : {"none", "queued", "processing", "ended"},
                                   says : Said]]
         /\ \A d \in Child : RowQuiet(d)
         /\ \A d \in Child \ {c} : SameAt(d)
         /\ resume'[c].says = resume[c].says
         /\ \/ resume'[c].at = resume[c].at
            \/ resume[c].at = "queued" /\ resume'[c].at = "ended"
<1>1. CASE ~Untold(c, says)
  BY <1>1 DEF Tell, ConvexType, RowQuiet, SameAt
<1>2. CASE Untold(c, says) /\ says = "running"
  BY <1>2, AppendTold DEF Tell, ConvexType, RowQuiet, SameAt
<1>3. CASE Untold(c, says) /\ says # "running"
  <2>1. /\ told' = [told EXCEPT ![c] = Append(@, says)]
        /\ row' = [row EXCEPT ![c] = Stored(@)]
        /\ resume' = [resume EXCEPT ![c].at = IF @ = "queued" THEN "ended" ELSE @]
    BY <1>3 DEF Tell
  <2>2. told' \in [Child -> Seq(Said)] /\ \A d \in Child \ {c} : told'[d] = told[d]
    BY <2>1, AppendTold
  <2>3. row \in [Child -> Rows] /\ row[c] \in Rows
    BY DEF ConvexType
  <2>4. row' \in [Child -> Rows] /\ \A d \in Child : RowQuiet(d)
    BY <2>1, <2>3, RowTypes DEF RowQuiet
  <2>5. /\ resume' \in [Child -> [at : {"none", "queued", "processing", "ended"},
                                  says : Said]]
        /\ resume'[c].says = resume[c].says
        /\ \/ resume'[c].at = resume[c].at
           \/ resume[c].at = "queued" /\ resume'[c].at = "ended"
        /\ \A d \in Child \ {c} : resume'[d] = resume[d]
    BY <2>1 DEF ConvexType
  <2>6. \A d \in Child \ {c} : SameAt(d)
    BY <2>1, <2>2, <2>3, <2>5 DEF SameAt
  <2>7. QED
    BY <2>2, <2>4, <2>5, <2>6
<1>4. QED
  BY <1>1, <1>2, <1>3

\* Whether a resume was admitted or found a duplicate.
Admitted(c, says) ==
  /\ ~Duplicate(c)
  /\ resume' = [resume EXCEPT ![c] =
       [at |-> IF turn = Nobody THEN "processing" ELSE "queued", says |-> says]]
  /\ turn' = IF turn = Nobody THEN c ELSE turn
  /\ UNCHANGED <<row, told>>

LEMMA ResumeFrame ==
  ASSUME ConvexType, \A d \in Child : ResumeOK(d),
         NEW c \in Child, NEW says \in Outcome, Resume(c, says)
  PROVE  /\ ConvexType'
         /\ \A d \in Child : RowQuiet(d) /\ ResumeOK(d)'
         /\ \A d \in Child \ {c} : SameAt(d)
<1>1. CASE Duplicate(c)
  <2>1. /\ UNCHANGED <<resume, turn, told>>
        /\ row' = row \/ row' = [row EXCEPT ![c] = Stored(@)]
    BY <1>1 DEF Resume
  <2>2. row \in [Child -> Rows] /\ row[c] \in Rows
    BY DEF ConvexType
  <2>3. row' \in [Child -> Rows] /\ \A d \in Child : RowQuiet(d)
    BY <2>1, <2>2, RowTypes DEF RowQuiet
  <2>4. QED
    BY <2>1, <2>2, <2>3 DEF ConvexType, ResumeOK, SameAt
<1>2. CASE ~Duplicate(c)
  <2>1. Admitted(c, says)
    BY <1>2 DEF Resume, Admitted
  <2>2. resume[c].at \in {"none", "ended"}
    BY <1>2 DEF Duplicate, Readmitted
  <2>3. says \in Said
    BY DEF Said
  <2>4. ConvexType' /\ \A d \in Child : RowQuiet(d)
    BY <2>1, <2>3 DEF ConvexType, Admitted, RowQuiet
  <2>5. \A d \in Child \ {c} : SameAt(d)
    BY <2>1 DEF ConvexType, Admitted, SameAt
  <2>6. turn # c
    BY <2>2 DEF ResumeOK
  <2>7. resume'[c].says = says /\ (resume'[c].at = "processing" <=> turn' = c)
    BY <2>1, <2>6 DEF Admitted, ConvexType
  <2>8. \A d \in Child \ {c} : ResumeOK(d)'
    BY <2>1, <2>5, Names DEF ResumeOK, Admitted, SameAt
  <2>9. ResumeOK(c)'
    BY <2>7 DEF ResumeOK
  <2>10. QED
    BY <2>4, <2>5, <2>8, <2>9
<1>3. QED
  BY <1>1, <1>2

LEMMA TryResumeFrame ==
  ASSUME StageInv, NEW c \in Child, NEW says \in Outcome, TryResume(c, says)
  PROVE  /\ ConvexType' /\ faults' \in 0 .. Faults /\ faults' >= faults
         /\ \A d \in Child : RowQuiet(d) /\ ResumeOK(d)'
         /\ \A d \in Child \ {c} : SameAt(d)
<1>1. ConvexType /\ \A d \in Child : ResumeOK(d)
  BY DEF StageInv, TypeOK, ConvexType
<1>2. faults' \in 0 .. Faults /\ faults' >= faults
  BY LateResultsAssumption DEF TryResume, Fault, NoFault, StageInv, TypeOK
<1>3. CASE Resume(c, says)
  BY <1>1, <1>2, <1>3, ResumeFrame
<1>4. CASE UNCHANGED convex
  BY <1>1, <1>2, <1>4 DEF convex, ConvexType, RowQuiet, ResumeOK, SameAt
<1>5. QED
  BY <1>3, <1>4 DEF TryResume

-----------------------------------------------------------------------------
(* What keeps the parts of the invariant.                                   *)

\* A child whose turn does not move keeps its part.
Untouched(d) ==
  /\ RowQuiet(d) /\ child'[d] = child[d] /\ answer'[d] = answer[d]
  /\ listed'[d] \subseteq listed[d]
  /\ child[d] \in Early => row'[d].handback # "stored" /\ resume'[d].at = "none"
  /\ child[d] = "idle" => d \notin pending' \cup detached'

LEMMA ChildKept ==
  ASSUME StageInv, NEW d \in Child, Untouched(d), faults' >= faults,
         faults' \in Nat
  PROVE  ChildOK(d)'
<1>1. ChildOK(d) /\ row[d].age \in Nat /\ Budget \in Nat /\ faults \in Nat
  BY LateResultsAssumption DEF StageInv, TypeOK, Rows
<1>2. row'[d].status = row[d].status /\ row'[d].age \in {row[d].age, 0}
  BY DEF Untouched, RowQuiet
<1>3. row[d].age <= Budget => row'[d].age <= Budget
  BY <1>1, <1>2
<1>4. row[d].age = 0 => row'[d].age = 0
  BY <1>2
<1>5. faults > 0 => faults' > 0
  BY <1>1
<1>6. QED
  BY <1>1, <1>2, <1>3, <1>4, <1>5 DEF Untouched, ChildOK

\* The messages there are keep theirs.
LEMMA MessageKept ==
  ASSUME NEW m, MessageOK(m),
         m.says # "running" /\ child[m.of] \in {"emitting", "over"} =>
           child'[m.of] \in {"emitting", "over"} /\ answer'[m.of] = answer[m.of]
  PROVE  MessageOK(m)'
BY DEF MessageOK

LEMMA FaultType ==
  ASSUME StageInv, Fault \/ NoFault
  PROVE  faults' \in 0 .. Faults /\ faults' >= faults /\ faults' \in Nat
BY LateResultsAssumption DEF StageInv, TypeOK, Fault, NoFault

LEMMA MessagesTyped ==
  ASSUME StageInv
  PROVE  /\ Messages \subseteq Message
         /\ \A m \in Messages : m.of \in Child /\ m.says \in Said
<1>1. outbox \in Seq(Message) /\ run.holds \in Seq(Message)
  BY DEF StageInv, TypeOK
<1>2. Messages \subseteq Message
  BY <1>1, ToSetFacts DEF Messages
<1>3. QED
  BY <1>2 DEF Message

-----------------------------------------------------------------------------
(* The children's steps keep it.                                            *)

LEMMA DispatchStage ==
  ASSUME StageInv, NEW c \in Child, Dispatch(c)
  PROVE  StageInv'
<1>1. TypeOK /\ ChildOK(c) /\ ResumeOK(c) /\ row[c] \in Rows
  BY DEF StageInv, TypeOK
<1>2. row' = [row EXCEPT ![c].status = "processing"]
  BY DEF Dispatch
<1>3. [row[c] EXCEPT !.status = "processing"] \in Rows
  BY <1>1 DEF Rows
<1>4. row' \in [Child -> Rows] /\ row'[c] = [row[c] EXCEPT !.status = "processing"]
  BY <1>1, <1>2, <1>3 DEF TypeOK
<1>5. TypeOK'
  <2>1. child' \in [Child -> {"idle", "running", "unrecorded", "finished",
                              "emitting", "over", "dead"}]
    BY <1>1 DEF TypeOK, Dispatch
  <2>2. pending' \subseteq Child /\ pending' \cap detached' = {}
    BY <1>1 DEF TypeOK, Dispatch, ChildOK
  <2>3. QED
    BY <1>1, <1>4, <2>1, <2>2 DEF TypeOK, Dispatch
<1>6. \A d \in Child \ {c} : Untouched(d)
  BY <1>1, <1>2 DEF StageInv, ChildOK, TypeOK, Dispatch, Untouched, RowQuiet
<1>7. faults' >= faults /\ faults' \in Nat
  BY FaultType DEF Dispatch, NoFault
<1>8. \A d \in Child \ {c} : ChildOK(d)'
  BY <1>6, <1>7, ChildKept
<1>9. ChildOK(c)'
  <2>1. child[c] = "idle" /\ child'[c] = "running"
    BY <1>1 DEF TypeOK, Dispatch
  <2>2. row'[c].status = "processing" /\ row'[c].age = 0
        /\ row'[c].handback = row[c].handback
    BY <1>1, <1>4, <2>1 DEF ChildOK, Rows
  <2>3. listed'[c] = {} /\ row'[c].handback # "stored" /\ resume'[c].at = "none"
    BY <1>1, <2>1, <2>2 DEF ChildOK, Dispatch, Early
  <2>4. QED
    BY <2>1, <2>2, <2>3, LateResultsAssumption DEF ChildOK, Early, Late
<1>10. \A m \in Messages' : MessageOK(m)'
  <2>1. \A m \in Messages : m.of \in Child
    BY MessagesTyped
  <2>2. Messages' = Messages
    BY DEF Messages, Dispatch
  <2>3. \A d \in Child : child[d] \in {"emitting", "over"} => child'[d] = child[d]
    BY <1>1 DEF TypeOK, Dispatch
  <2>4. QED
    BY <2>1, <2>2, <2>3 DEF StageInv, MessageOK, Dispatch
<1>11. \A d \in Child : ResumeOK(d)'
  BY DEF StageInv, ResumeOK, Dispatch
<1>12. HoldsSome'
  BY DEF StageInv, HoldsSome, Dispatch
<1>13. QED
  BY <1>5, <1>8, <1>9, <1>10, <1>11, <1>12 DEF StageInv

LEMMA RowSet ==
  ASSUME row \in [Child -> Rows], NEW c \in Child, NEW r \in Rows,
         UNCHANGED row \/ row' = [row EXCEPT ![c] = r]
  PROVE  /\ row' \in [Child -> Rows] /\ \A d \in Child \ {c} : row'[d] = row[d]
         /\ row'[c] \in {row[c], r}
         /\ row' = [row EXCEPT ![c] = r] => row'[c] = r
<1>1. CASE UNCHANGED row
  BY <1>1
<1>2. CASE row' = [row EXCEPT ![c] = r]
  BY <1>2
<1>3. QED
  BY <1>1, <1>2

\* A step of one child's turn that leaves the queues as they are.
LEMMA StageOfOne ==
  ASSUME StageInv, TypeOK', NEW c \in Child, ChildOK(c)',
         \A d \in Child \ {c} : Untouched(d),
         UNCHANGED <<outbox, run, turn>>,
         \A d \in Child : ResumeOK(d)',
         faults' >= faults,
         child[c] \in {"emitting", "over"} =>
           child'[c] \in {"emitting", "over"} /\ answer'[c] = answer[c]
  PROVE  StageInv'
<1>1. faults' \in Nat
  BY DEF TypeOK
<1>2. \A d \in Child \ {c} : ChildOK(d)'
  BY <1>1, ChildKept
<1>3. \A m \in Messages' : MessageOK(m)'
  <2>1. Messages' = Messages /\ \A m \in Messages : m.of \in Child /\ MessageOK(m)
    BY MessagesTyped DEF Messages, StageInv
  <2>2. \A d \in Child : child[d] \in {"emitting", "over"} =>
           child'[d] \in {"emitting", "over"} /\ answer'[d] = answer[d]
    BY DEF Untouched
  <2>3. QED
    BY <2>1, <2>2, MessageKept
<1>4. HoldsSome'
  BY DEF StageInv, HoldsSome
<1>5. QED
  BY <1>2, <1>3, <1>4 DEF StageInv

LEMMA FinishStage ==
  ASSUME StageInv, NEW c \in Child, Finish(c)
  PROVE  StageInv'
<1>1. TypeOK /\ ChildOK(c) /\ row \in [Child -> Rows] /\ row[c] \in Rows
  BY DEF StageInv, TypeOK
<1>2. PICK out \in Outcomes :
        /\ answer' = [answer EXCEPT ![c] = out]
        /\ row' = [row EXCEPT ![c] = Recorded(@, out)]
  BY DEF Finish
<1>3. out \in Outcome \ {"lost"} /\ out # "processing" /\ out # "none"
  BY Names DEF Outcome
<1>4. /\ Recorded(row[c], out) \in Rows /\ Recorded(row[c], out).status = out
      /\ row' \in [Child -> Rows] /\ row'[c] = Recorded(row[c], out)
      /\ \A d \in Child \ {c} : row'[d] = row[d]
  <2>1. /\ Recorded(row[c], out) \in Rows /\ Recorded(row[c], out).status = out
    BY <1>1, <1>3, RowTypes
  <2>2. QED
    BY <1>1, <1>2, <2>1, RowSet
<1>5. child' = [child EXCEPT ![c] = "finished"] /\ child'[c] = "finished"
      /\ answer'[c] = out
  BY <1>1, <1>2 DEF Finish, TypeOK
<1>6. TypeOK'
  BY <1>1, <1>2, <1>3, <1>4, <1>5 DEF TypeOK, Finish
<1>7. \A d \in Child \ {c} : Untouched(d)
  BY <1>1, <1>2, <1>5 DEF TypeOK, StageInv, ChildOK, Finish, Untouched, RowQuiet
<1>8. listed'[c] = {} /\ child[c] = "running"
  BY <1>1 DEF ChildOK, Finish, Early
<1>9. ChildOK(c)'
  BY <1>3, <1>4, <1>5, <1>8 DEF ChildOK, Early, Late
<1>10. \A d \in Child : ResumeOK(d)'
  BY DEF StageInv, ResumeOK, Finish
<1>11. faults' >= faults
  BY <1>1 DEF TypeOK, Finish
<1>12. QED
  BY <1>6, <1>7, <1>8, <1>9, <1>10, <1>11, StageOfOne DEF Finish

LEMMA FinishUnrecordedStage ==
  ASSUME StageInv, NEW c \in Child, FinishUnrecorded(c)
  PROVE  StageInv'
<1>1. TypeOK /\ ChildOK(c) /\ row \in [Child -> Rows] /\ row[c] \in Rows /\ child[c] = "running"
  BY DEF StageInv, TypeOK, FinishUnrecorded
<1>2. PICK out \in Outcomes :
        /\ answer' = [answer EXCEPT ![c] = IF out = "stopped" THEN out ELSE "failed"]
        /\ \/ UNCHANGED row
           \/ row' = [row EXCEPT ![c] = Recorded(@, out)]
  BY DEF FinishUnrecorded
<1>3. out \in Outcome \ {"lost"} /\ out # "processing" /\ out # "none"
  BY Names DEF Outcome
<1>4. /\ Recorded(row[c], out) \in Rows /\ Recorded(row[c], out).status = out
      /\ Recorded(row[c], out).handback = row[c].handback
      /\ Recorded(row[c], out).age = 0
  BY <1>1, <1>3, RowTypes
<1>5. child' = [child EXCEPT ![c] = "unrecorded"] /\ child'[c] = "unrecorded"
  BY <1>1 DEF FinishUnrecorded, TypeOK
<1>6. answer'[c] \in Outcome /\ answer' \in [Child -> Outcome \cup {"none"}]
      /\ \A d \in Child \ {c} : answer'[d] = answer[d]
  BY <1>1, <1>2, <1>3 DEF TypeOK, Outcome
<1>7. /\ row' \in [Child -> Rows] /\ \A d \in Child \ {c} : row'[d] = row[d]
      /\ row'[c] \in {row[c], Recorded(row[c], out)}
  BY <1>1, <1>2, <1>4, RowSet
<1>8. faults' \in 0 .. Faults /\ faults' > 0 /\ faults' >= faults
  BY <1>1, LateResultsAssumption DEF TypeOK, FinishUnrecorded, Fault
<1>9. TypeOK'
  <2>1. UNCHANGED <<pending, detached, outbox, handled, run, turn, resume, told,
                    listed>>
    BY DEF FinishUnrecorded
  <2>2. child' \in [Child -> {"idle", "running", "unrecorded", "finished",
                              "emitting", "over", "dead"}]
    BY <1>1, <1>5 DEF TypeOK
  <2>3. QED
    BY <1>1, <1>6, <1>7, <1>8, <2>1, <2>2 DEF TypeOK
<1>10. \A d \in Child \ {c} : Untouched(d)
  BY <1>1, <1>5, <1>6, <1>7
  DEF TypeOK, StageInv, ChildOK, FinishUnrecorded, Untouched, RowQuiet
<1>11. /\ listed'[c] = {} /\ row'[c].handback # "stored" /\ resume'[c].at = "none"
       /\ row[c].status = "processing" /\ row[c].age <= Budget
  BY <1>1, <1>4, <1>7 DEF ChildOK, FinishUnrecorded, Early
<1>12. /\ row'[c].age <= Budget
       /\ row'[c].status # "processing" => row'[c].age = 0 /\ row'[c].status = out
  BY <1>4, <1>7, <1>11, LateResultsAssumption
<1>13. row'[c].status # "lost" /\ row'[c].status # "none"
  BY <1>3, <1>11, <1>12
<1>14. ChildOK(c)'
  BY <1>3, <1>5, <1>6, <1>8, <1>11, <1>12, <1>13 DEF ChildOK, Early, Late
<1>15. \A d \in Child : ResumeOK(d)'
  BY DEF StageInv, ResumeOK, FinishUnrecorded
<1>16. QED
  BY <1>1, <1>8, <1>9, <1>10, <1>14, <1>15, StageOfOne DEF FinishUnrecorded

LEMMA RecordFailureStage ==
  ASSUME StageInv, NEW c \in Child, RecordFailure(c)
  PROVE  StageInv'
<1>1. TypeOK /\ ChildOK(c) /\ row \in [Child -> Rows] /\ row[c] \in Rows /\ child[c] = "unrecorded"
  BY DEF StageInv, TypeOK, RecordFailure
<1>2. answer[c] \in Outcome /\ faults > 0 /\ listed[c] = {}
      /\ resume[c].at = "none" /\ row[c].status # "none"
  BY <1>1 DEF ChildOK, Early
<1>3. /\ Recorded(row[c], answer[c]) \in Rows
      /\ Recorded(row[c], answer[c]).status = answer[c]
  BY <1>1, <1>2, RowTypes
<1>4. child' = [child EXCEPT ![c] = "finished"] /\ child'[c] = "finished"
  BY <1>1 DEF RecordFailure, TypeOK
<1>5. /\ row' \in [Child -> Rows] /\ \A d \in Child \ {c} : row'[d] = row[d]
      /\ row'[c] \in {row[c], Recorded(row[c], answer[c])}
  <2>1. UNCHANGED row \/ row' = [row EXCEPT ![c] = Recorded(row[c], answer[c])]
    BY DEF RecordFailure
  <2>2. QED
    BY <1>1, <1>3, <2>1, RowSet
<1>6. faults' \in 0 .. Faults /\ faults' >= faults /\ faults' > 0
  BY <1>2, FaultType DEF RecordFailure, StageInv, TypeOK
<1>7. TypeOK'
  BY <1>1, <1>4, <1>5, <1>6 DEF TypeOK, RecordFailure
<1>8. \A d \in Child \ {c} : Untouched(d)
  <2>1. /\ UNCHANGED <<pending, detached, outbox, handled, run, turn, resume, told,
                       listed, answer>>
        /\ \A d \in Child \ {c} : child'[d] = child[d] /\ row'[d] = row[d]
    BY <1>1, <1>4, <1>5 DEF TypeOK, RecordFailure
  <2>2. ASSUME NEW d \in Child \ {c}
        PROVE  Untouched(d)
    <3>1. ChildOK(d)
      BY DEF StageInv
    <3>2. RowQuiet(d)
      BY <2>1 DEF RowQuiet
    <3>3. QED
      BY <2>1, <3>1, <3>2 DEF ChildOK, Untouched
  <2>3. QED
    BY <2>2
<1>9. ChildOK(c)'
  <2>1. row'[c].status # "none"
    BY <1>2, <1>3, <1>5 DEF Outcome
  <2>2. listed'[c] = {} /\ answer'[c] \in Outcome
    BY <1>2 DEF RecordFailure
  <2>3. QED
    BY <1>4, <1>6, <2>1, <2>2 DEF ChildOK, Early, Late
<1>10. \A d \in Child : ResumeOK(d)'
  BY DEF StageInv, ResumeOK, RecordFailure
<1>11. QED
  BY <1>1, <1>6, <1>7, <1>8, <1>9, <1>10, StageOfOne DEF RecordFailure

LEMMA OverStage ==
  ASSUME StageInv, NEW c \in Child, Over(c)
  PROVE  StageInv'
<1>1. TypeOK /\ ChildOK(c) /\ child[c] \in {"finished", "emitting"}
  BY DEF StageInv, TypeOK, Over
<1>2. child' = [child EXCEPT ![c] = "over"] /\ child'[c] = "over"
  BY <1>1 DEF Over, Forgotten, TypeOK
<1>3. faults' \in 0 .. Faults /\ faults' >= faults /\ faults' \in Nat /\ faults \in Nat
  BY FaultType DEF Over, StageInv, TypeOK
<1>4. TypeOK'
  BY <1>1, <1>2, <1>3 DEF TypeOK, Over, Forgotten, convex
<1>5. \A d \in Child \ {c} : Untouched(d)
  BY <1>1, <1>2
  DEF TypeOK, StageInv, ChildOK, Over, Forgotten, convex, Untouched, RowQuiet
<1>6. ChildOK(c)'
  BY <1>1, <1>2, <1>3 DEF ChildOK, Over, convex, Early, Late
<1>7. \A d \in Child : ResumeOK(d)'
  BY DEF StageInv, ResumeOK, Over, convex
<1>8. child'[c] \in {"emitting", "over"} /\ answer'[c] = answer[c]
  BY <1>2 DEF Over
<1>9. QED
  BY <1>3, <1>4, <1>5, <1>6, <1>7, <1>8, StageOfOne DEF Over, convex

LEMMA DeliverStage ==
  ASSUME StageInv, NEW c \in Child, Deliver(c)
  PROVE  StageInv'
<1>1. TypeOK /\ ChildOK(c) /\ ConvexType /\ child[c] = "finished"
  BY DEF StageInv, TypeOK, ConvexType, Deliver
<1>2. answer[c] \in Outcome /\ answer'[c] = answer[c]
  BY <1>1 DEF ChildOK, Late, Deliver
<1>3. child' = [child EXCEPT ![c] = "emitting"] /\ child'[c] = "emitting"
  BY <1>1 DEF Deliver, TypeOK
<1>4. /\ ConvexType' /\ \A d \in Child : RowQuiet(d) /\ ResumeOK(d)'
      /\ \A d \in Child \ {c} : SameAt(d)
      /\ faults' \in 0 .. Faults /\ faults' >= faults
  <2>1. CASE row' = [row EXCEPT ![c] = Marked(@, "stored")] /\ NoFault
             /\ UNCHANGED <<turn, resume, told>>
    BY <1>1, <2>1, MarkedTypes, FaultType
    DEF ConvexType, RowQuiet, ResumeOK, SameAt, StageInv
  <2>2. CASE UNCHANGED convex /\ NoFault
    BY <1>1, <2>2, FaultType
    DEF ConvexType, convex, RowQuiet, ResumeOK, SameAt, StageInv
  <2>3. CASE TryResume(c, answer[c])
    BY <1>2, <2>3, TryResumeFrame
  <2>4. QED
    BY <2>1, <2>2, <2>3 DEF Deliver
<1>5. /\ outbox' \in Seq(Message)
      /\ ToSet(outbox') \subseteq ToSet(outbox) \cup {[of |-> c, says |-> answer[c]]}
  <2>1. [of |-> c, says |-> answer[c]] \in Message /\ outbox \in Seq(Message)
    BY <1>1, <1>2 DEF Message, Said, TypeOK
  <2>2. CASE UNCHANGED outbox
    BY <2>1, <2>2
  <2>3. CASE outbox' = Append(outbox, [of |-> c, says |-> answer[c]])
    BY <2>1, <2>3, ToSetAppend
  <2>4. QED
    BY <2>2, <2>3 DEF Deliver, Post
<1>6. TypeOK'
  <2>1. /\ UNCHANGED <<answer, pending, detached, run, listed>>
        /\ handled' = handled \cup {c}
    BY DEF Deliver
  <2>2. child' \in [Child -> {"idle", "running", "unrecorded", "finished",
                              "emitting", "over", "dead"}]
    BY <1>1, <1>3 DEF TypeOK
  <2>3. QED
    BY <1>1, <1>4, <1>5, <2>1, <2>2 DEF TypeOK, ConvexType
<1>7. \A d \in Child \ {c} : Untouched(d)
  BY <1>1, <1>3, <1>4
  DEF TypeOK, StageInv, ChildOK, Deliver, Untouched, SameAt
<1>8. faults' \in Nat /\ faults \in Nat
  BY <1>1, <1>4 DEF TypeOK
<1>9. \A d \in Child \ {c} : ChildOK(d)'
  BY <1>4, <1>7, <1>8, ChildKept
<1>10. ChildOK(c)'
  BY <1>1, <1>2, <1>3, <1>4, <1>8 DEF ChildOK, Deliver, RowQuiet, Early, Late
<1>11. \A m \in Messages' : MessageOK(m)'
  <2>1. \A m \in Messages' :
          m \in Messages \/ m = [of |-> c, says |-> answer[c]]
    BY <1>5 DEF Messages, Deliver
  <2>2. \A m \in Messages : MessageOK(m)'
    <3>1. \A m \in Messages : m.of \in Child /\ MessageOK(m)
      BY MessagesTyped DEF StageInv
    <3>2. \A d \in Child : child[d] \in {"emitting", "over"} =>
            child'[d] \in {"emitting", "over"} /\ answer'[d] = answer[d]
      BY <1>1, <1>3 DEF Deliver, TypeOK
    <3>3. QED
      BY <3>1, <3>2, MessageKept
  <2>3. \A m : m = [of |-> c, says |-> answer[c]] => MessageOK(m)'
    BY <1>2, <1>3 DEF MessageOK
  <2>4. QED
    BY <2>1, <2>2, <2>3
<1>12. HoldsSome'
  BY DEF StageInv, HoldsSome, Deliver
<1>13. QED
  BY <1>4, <1>6, <1>9, <1>10, <1>11, <1>12 DEF StageInv

-----------------------------------------------------------------------------
(* The parent run's steps keep it.                                          *)

RunType ==
  [at : {"passing", "writing", "lastWrite", "detaching", "handing", "over",
         "dead"},
   closed : BOOLEAN, holds : Seq(Message),
   marking : SUBSET Child, noting : SUBSET Child,
   then : {"none", "passing", "drain", "handing"}]

\* A step of the run leaves the turns of its children alone; what it takes on
\* it had, or it says of a child only that it runs on.
LEMMA StageOfRun ==
  ASSUME StageInv,
         UNCHANGED <<child, answer, listed>>,
         pending' \cup detached' \subseteq pending \cup detached,
         pending' \cap detached' = {},
         outbox' \in Seq(Message), run' \in RunType, handled' = handled,
         \A m \in Messages' : m \in Messages \/ m.says = "running",
         HoldsSome',
         ConvexType',
         \A d \in Child : RowQuiet(d) /\ ResumeOK(d)',
         \A d \in Child : child[d] \in Early =>
           row'[d].handback # "stored" /\ resume'[d].at = "none",
         faults' \in 0 .. Faults, faults' >= faults
  PROVE  StageInv'
<1>1. TypeOK'
  BY DEF StageInv, TypeOK, ConvexType, RunType
<1>2. faults' \in Nat
  BY <1>1 DEF TypeOK
<1>3. \A d \in Child : Untouched(d)
  BY DEF Untouched, StageInv, ChildOK
<1>4. \A d \in Child : ChildOK(d)'
  BY <1>2, <1>3, ChildKept
<1>5. \A m \in Messages' : MessageOK(m)'
  BY DEF StageInv, MessageOK
<1>6. QED
  BY <1>1, <1>4, <1>5 DEF StageInv

\* With Convex left as it is.
LEMMA StageOfMemory ==
  ASSUME StageInv, UNCHANGED <<child, answer, listed, convex>>,
         pending' \cup detached' \subseteq pending \cup detached,
         pending' \cap detached' = {},
         outbox' \in Seq(Message), run' \in RunType, handled' = handled,
         \A m \in Messages' : m \in Messages \/ m.says = "running",
         HoldsSome', faults' \in 0 .. Faults, faults' >= faults
  PROVE  StageInv'
<1>1. ConvexType'
  BY DEF StageInv, TypeOK, ConvexType, convex
<1>2. \A d \in Child : RowQuiet(d) /\ ResumeOK(d)'
  BY DEF StageInv, ResumeOK, RowQuiet, convex
<1>3. \A d \in Child : child[d] \in Early =>
        row'[d].handback # "stored" /\ resume'[d].at = "none"
  BY DEF StageInv, ChildOK, convex
<1>4. QED
  BY <1>1, <1>2, <1>3, StageOfRun

LEMMA RunTyped ==
  ASSUME StageInv
  PROVE  /\ run \in RunType /\ outbox \in Seq(Message) /\ run.holds \in Seq(Message)
         /\ faults \in 0 .. Faults /\ faults \in Nat
         /\ ToSet(<< >>) = {} /\ << >> \in Seq(Message)
         /\ ToSet(outbox) \subseteq Messages /\ ToSet(run.holds) \subseteq Messages
         /\ pending \subseteq Child /\ detached \subseteq Child
         /\ pending \cap detached = {}
BY ToSetFacts, EmptySeq DEF StageInv, TypeOK, RunType, Messages

LEMMA TakingStage ==
  ASSUME StageInv, NEW at \in {"writing", "lastWrite"}, Taking(at),
         UNCHANGED <<child, answer, pending, detached, handled, convex, listed,
                     faults>>
  PROVE  StageInv'
<1>1. /\ Fresh(outbox) \in Seq(Message)
      /\ ToSet(Fresh(outbox)) \subseteq ToSet(outbox)
  BY RunTyped, FreshFacts
<1> DEFINE next == IF Fresh(outbox) = << >> THEN "passing" ELSE at
<1>2. next \in {"passing", "writing", "lastWrite"}
      /\ (Fresh(outbox) = << >> => next = "passing")
  OBVIOUS
<1>3. outbox' = << >> /\ run' = [run EXCEPT !.at = next, !.holds = Fresh(outbox)]
  BY DEF Taking
<1> HIDE DEF next
<1>4. run' \in RunType /\ run'.at = next /\ run'.holds = Fresh(outbox)
  BY <1>1, <1>2, <1>3, RunTyped DEF RunType
<1>5. HoldsSome'
  BY <1>2, <1>4 DEF HoldsSome
<1>6. \A m \in Messages' : m \in Messages
  BY <1>1, <1>3, <1>4, RunTyped DEF Messages
<1>7. faults' \in 0 .. Faults /\ faults' >= faults
  BY RunTyped
<1>8. QED
  BY <1>3, <1>4, <1>5, <1>6, <1>7, RunTyped, StageOfMemory

\* The child a run's first message is of has had its outcome settled.
LEMMA HeadSettled ==
  ASSUME StageInv, run.at \in {"writing", "lastWrite", "handing"}
  PROVE  LET m == Head(run.holds) IN
         /\ m.of \in Child /\ m.says \in Said /\ MessageOK(m)
         /\ run.holds # << >>
         /\ Tail(run.holds) \in Seq(Message)
         /\ ToSet(Tail(run.holds)) \subseteq ToSet(run.holds)
         /\ m.says # "running" =>
              /\ m.says \in Outcome /\ m.says = answer[m.of]
              /\ child[m.of] \notin Early /\ child[m.of] \in {"emitting", "over"}
<1> DEFINE m == Head(run.holds)
<1>1. run.holds # << >> /\ run.holds \in Seq(Message)
  BY RunTyped DEF StageInv, HoldsSome
<1>2. /\ m \in ToSet(run.holds) /\ Tail(run.holds) \in Seq(Message)
      /\ ToSet(Tail(run.holds)) \subseteq ToSet(run.holds)
  BY <1>1, ToSetTail
<1>3. m \in Messages /\ m.of \in Child /\ m.says \in Said /\ MessageOK(m)
  BY <1>2, MessagesTyped DEF Messages, StageInv
<1>4. m.says # "running" => m.says \in Outcome
  BY <1>3 DEF Said
<1>5. QED
  BY <1>1, <1>2, <1>3, <1>4 DEF MessageOK, Early

\* A message of a child still on its way to an outcome is a notice.
LEMMA TellStage ==
  ASSUME StageInv, run.at \in {"writing", "lastWrite"}, UNCHANGED turn,
         Tell(Head(run.holds).of, Head(run.holds).says)
         \/ UNCHANGED <<told, row, resume>>
  PROVE  /\ ConvexType'
         /\ \A d \in Child : RowQuiet(d) /\ ResumeOK(d)'
         /\ \A d \in Child : child[d] \in Early =>
              row'[d].handback # "stored" /\ resume'[d].at = "none"
<1>0. PICK c \in Child, says \in Said :
        /\ c = Head(run.holds).of /\ says = Head(run.holds).says
        /\ says # "running" => child[c] \notin Early
  BY HeadSettled
<1>1. ConvexType /\ \A d \in Child : ResumeOK(d) /\ ChildOK(d)
  BY DEF StageInv, TypeOK, ConvexType
<1>2. CASE UNCHANGED <<told, row, resume>>
  BY <1>1, <1>2 DEF ConvexType, RowQuiet, ResumeOK, ChildOK
<1>3. CASE Tell(c, says)
  <2>1. ConvexType' /\ \A d \in Child : RowQuiet(d)
    BY <1>1, <1>3, TellFrame DEF ConvexType
  <2>2. \A d \in Child : ResumeOK(d)'
    <3>1. \A d \in Child \ {c} : ResumeOK(d)'
      BY <1>1, <1>3, TellFrame DEF SameAt, ResumeOK
    <3>2. /\ resume'[c].says = resume[c].says
          /\ \/ resume'[c].at = resume[c].at
             \/ resume[c].at = "queued" /\ resume'[c].at = "ended"
      BY <1>1, <1>3, TellFrame
    <3>3. ResumeOK(c)'
      BY <1>1, <3>2 DEF ResumeOK
    <3>4. QED
      BY <3>1, <3>3
  <2>3. \A d \in Child : child[d] \in Early =>
          row'[d].handback # "stored" /\ resume'[d].at = "none"
    <3>1. ASSUME NEW d \in Child \ {c}, child[d] \in Early
          PROVE  row'[d].handback # "stored" /\ resume'[d].at = "none"
      <4>1. SameAt(d)
        BY <1>1, <1>3, TellFrame
      <4>2. ChildOK(d)
        BY <1>1
      <4>3. QED
        BY <3>1, <4>1, <4>2 DEF SameAt, ChildOK
    <3>2. ASSUME child[c] \in Early
          PROVE  row'[c].handback # "stored" /\ resume'[c].at = "none"
      <4>1. says = "running"
        BY <1>0, <3>2
      <4>2. UNCHANGED <<row, resume>>
        BY <1>3, <4>1 DEF Tell
      <4>3. QED
        BY <1>1, <3>2, <4>2 DEF ChildOK
    <3>3. QED
      BY <3>1, <3>2
  <2>4. QED
    BY <2>1, <2>2, <2>3
<1>4. QED
  BY <1>0, <1>2, <1>3

LEMMA PersistStage ==
  ASSUME StageInv, Persist
  PROVE  StageInv'
<1> DEFINE at == IF Tail(run.holds) = << >> THEN "passing" ELSE run.at
<1>1. /\ run.holds # << >> /\ Tail(run.holds) \in Seq(Message)
      /\ ToSet(Tail(run.holds)) \subseteq ToSet(run.holds)
      /\ run.at \in {"writing", "lastWrite"}
  BY HeadSettled DEF Persist, Writes
<1>2. run' = [run EXCEPT !.holds = Tail(run.holds), !.at = at]
  BY DEF Persist
<1>3. /\ run' \in RunType /\ run'.at = at /\ run'.holds = Tail(run.holds)
  BY <1>1, <1>2, RunTyped DEF RunType
<1>4. HoldsSome'
  BY <1>3 DEF HoldsSome
<1>5. \A m \in Messages' : m \in Messages
  BY <1>1, <1>3 DEF Messages, Persist
<1>6. faults' \in 0 .. Faults /\ faults' >= faults
  BY RunTyped DEF Persist
<1>7. /\ ConvexType'
      /\ \A d \in Child : RowQuiet(d) /\ ResumeOK(d)'
      /\ \A d \in Child : child[d] \in Early =>
           row'[d].handback # "stored" /\ resume'[d].at = "none"
  BY <1>1, TellStage DEF Persist
<1>8. QED
  BY <1>3, <1>4, <1>5, <1>6, <1>7, RunTyped, StageOfRun DEF Persist

\* What is detached was waited on, and what is waited on no more.
LEMMA DetachFrame ==
  ASSUME StageInv, NEW set \in SUBSET pending,
         NEW next \in {"passing", "drain", "handing"}, Detach(set, next)
  PROVE  /\ run' \in RunType /\ run'.at = "detaching" /\ run'.holds = << >>
         /\ HoldsSome'
         /\ detached' = detached \cup set
<1>1. run' = [run EXCEPT !.at = "detaching", !.marking = set \ handled,
                !.noting = IF next = "drain" THEN set ELSE {},
                !.then = next, !.holds = << >>]
  BY DEF Detach
<1>2. set \in SUBSET Child
  BY RunTyped
<1>3. run' \in RunType /\ run'.at = "detaching" /\ run'.holds = << >>
  BY <1>1, <1>2, RunTyped DEF RunType
<1>4. QED
  BY <1>3 DEF HoldsSome, Detach

LEMMA DetachPendingStage ==
  ASSUME StageInv, NEW queue \in Seq(Message), NEW next \in {"drain", "handing"},
         DetachPending(queue, next)
  PROVE  /\ run' \in RunType /\ run'.at = "detaching" /\ run'.holds = << >>
         /\ HoldsSome'
         /\ pending' \cup detached' \subseteq pending \cup detached
         /\ pending' \cap detached' = {}
<1> DEFINE set == {c \in pending : ~Answered(c, queue)}
<1>1. set \in SUBSET pending /\ Detach(set, next) /\ pending' = {}
  BY DEF DetachPending
<1> HIDE DEF set
<1>2. QED
  BY <1>1, DetachFrame

LEMMA PersistFailsStage ==
  ASSUME StageInv, PersistFails
  PROVE  StageInv'
<1>1. /\ run.holds \o outbox \in Seq(Message)
      /\ ToSet(run.holds \o outbox) \subseteq ToSet(run.holds) \cup ToSet(outbox)
      /\ outbox' = run.holds \o outbox
  BY RunTyped, ToSetConcat DEF PersistFails
<1>2. /\ run' \in RunType /\ run'.holds = << >> /\ HoldsSome'
      /\ pending' \cup detached' \subseteq pending \cup detached
      /\ pending' \cap detached' = {}
  <2>1. CASE run.at = "lastWrite"
    <3>1. DetachPending(run.holds \o outbox, "handing")
      BY <1>1, <2>1 DEF PersistFails
    <3>2. QED
      BY <1>1, <3>1, DetachPendingStage
  <2>2. CASE run.at # "lastWrite"
    <3>1. /\ run' = [run EXCEPT !.at = "passing", !.holds = << >>]
          /\ UNCHANGED <<pending, detached>>
      BY <2>2 DEF PersistFails
    <3>2. run' \in RunType /\ run'.at = "passing" /\ run'.holds = << >>
      BY <3>1, RunTyped DEF RunType
    <3>3. QED
      BY <3>1, <3>2, RunTyped DEF HoldsSome
  <2>3. QED
    BY <2>1, <2>2
<1>3. \A m \in Messages' : m \in Messages
  BY <1>1, <1>2, RunTyped DEF Messages
<1>4. run.at \in {"writing", "lastWrite"} /\ UNCHANGED turn
  BY DEF PersistFails, Writes
<1>5. faults' \in 0 .. Faults /\ faults' >= faults
  <2>1. Fault \/ NoFault
    BY DEF PersistFails
  <2>2. QED
    BY <2>1, FaultType
<1>6. /\ ConvexType'
      /\ \A d \in Child : RowQuiet(d) /\ ResumeOK(d)'
      /\ \A d \in Child : child[d] \in Early =>
           row'[d].handback # "stored" /\ resume'[d].at = "none"
  <2>1. Tell(Head(run.holds).of, Head(run.holds).says)
        \/ UNCHANGED <<told, row, resume>>
    BY DEF PersistFails
  <2>2. QED
    BY <1>4, <2>1, TellStage
<1>7. UNCHANGED <<child, answer, handled, listed>>
  BY DEF PersistFails
<1>8. QED
  BY <1>1, <1>2, <1>3, <1>5, <1>6, <1>7, StageOfRun

LEMMA DetachTaskStage ==
  ASSUME StageInv, NEW c \in Child, DetachTask(c)
  PROVE  StageInv'
<1>1. {c} \in SUBSET pending /\ Detach({c}, "passing") /\ pending' = pending \ {c}
  BY DEF DetachTask
<1>2. /\ run' \in RunType /\ run'.holds = << >> /\ HoldsSome'
      /\ detached' = detached \cup {c}
  BY <1>1, DetachFrame
<1>3. /\ outbox' \in Seq(Message)
      /\ ToSet(outbox') = ToSet(outbox) \cup {[of |-> c, says |-> "running"]}
  <2>1. [of |-> c, says |-> "running"] \in Message
    BY DEF Message, Said
  <2>2. outbox' = Append(outbox, [of |-> c, says |-> "running"])
    BY DEF DetachTask, Post
  <2>3. QED
    BY <2>1, <2>2, RunTyped, ToSetAppend
<1>4. \A m \in Messages' : m \in Messages \/ m.says = "running"
  BY <1>2, <1>3, RunTyped DEF Messages
<1>5. faults' \in 0 .. Faults /\ faults' >= faults
  BY RunTyped DEF DetachTask
<1>6. QED
  BY <1>1, <1>2, <1>3, <1>4, <1>5, RunTyped, StageOfMemory DEF DetachTask

LEMMA DetachAllStage ==
  ASSUME StageInv, DetachAll
  PROVE  StageInv'
<1>1. /\ run' \in RunType /\ run'.holds = << >> /\ HoldsSome'
      /\ pending' \cup detached' \subseteq pending \cup detached
      /\ pending' \cap detached' = {}
  BY RunTyped, DetachPendingStage DEF DetachAll
<1>2. \A m \in Messages' : m \in Messages
  BY <1>1, RunTyped DEF Messages, DetachAll
<1>3. faults' \in 0 .. Faults /\ faults' >= faults
  BY RunTyped DEF DetachAll
<1>4. QED
  BY <1>1, <1>2, <1>3, RunTyped, StageOfMemory DEF DetachAll

LEMMA ClosePassesStage ==
  ASSUME StageInv, ClosePasses
  PROVE  StageInv'
<1> DEFINE set == {c \in pending : ~Answered(c, outbox)}
<1>1. /\ detached' = detached \cup set /\ pending' = {}
      /\ run' = [run EXCEPT !.at = "detaching", !.closed = TRUE,
                    !.marking = set \ handled, !.then = "handing"]
  BY DEF ClosePasses
<1>2. set \subseteq pending
  OBVIOUS
<1> HIDE DEF set
<1>3. run' \in RunType /\ run'.at = "detaching" /\ run'.holds = run.holds
  <2>1. set \ handled \in SUBSET Child
    BY <1>2, RunTyped
  <2>2. QED
    BY <1>1, <2>1, RunTyped DEF RunType
<1>4. HoldsSome'
  BY <1>3 DEF HoldsSome
<1>5. \A m \in Messages' : m \in Messages
  BY <1>3, RunTyped DEF Messages, ClosePasses
<1>6. faults' \in 0 .. Faults /\ faults' >= faults
  BY RunTyped DEF ClosePasses
<1>7. QED
  BY <1>1, <1>2, <1>3, <1>4, <1>5, <1>6, RunTyped, StageOfMemory DEF ClosePasses

LEMMA MarksDoneStage ==
  ASSUME StageInv, MarksDone
  PROVE  StageInv'
<1>1. PassOn \in {"over", "passing"}
  BY DEF PassOn
<1>2. outbox' \in Seq(Message) /\ ToSet(outbox') \subseteq ToSet(outbox)
  <2>1. outbox' = outbox \/ outbox' = << >>
    BY DEF MarksDone
  <2>2. QED
    BY <2>1, RunTyped
<1>3. /\ run' \in RunType /\ HoldsSome'
      /\ \A m \in ToSet(run'.holds) : m \in Messages \/ m.says = "running"
  <2>1. CASE run' = [run EXCEPT !.at = PassOn, !.then = "none"]
    <3>1. run' \in RunType /\ run'.at = PassOn /\ run'.holds = run.holds
      BY <1>1, <2>1, RunTyped DEF RunType
    <3>2. QED
      BY <1>1, <3>1, RunTyped DEF HoldsSome
  <2>2. CASE run.then = "drain"
    <3> DEFINE queue == Fresh(outbox \o Notices)
               at == IF queue = << >> THEN "passing" ELSE "lastWrite"
    <3>1. /\ Notices \in Seq(Message) /\ \A m \in ToSet(Notices) : m.says = "running"
      BY RunTyped, NoticesFacts DEF RunType
    <3>2. /\ outbox \o Notices \in Seq(Message)
          /\ ToSet(outbox \o Notices) \subseteq ToSet(outbox) \cup ToSet(Notices)
      BY <3>1, RunTyped, ToSetConcat
    <3>3. queue \in Seq(Message) /\ ToSet(queue) \subseteq ToSet(outbox \o Notices)
      BY <3>2, FreshFacts
    <3>4. run' = [run EXCEPT !.holds = queue, !.noting = {}, !.then = "none",
                    !.at = at]
      BY <2>2 DEF MarksDone
    <3>5. at \in {"passing", "lastWrite"} /\ (queue = << >> => at = "passing")
      OBVIOUS
    <3> HIDE DEF queue, at
    <3>6. run' \in RunType /\ run'.at = at /\ run'.holds = queue
      BY <3>3, <3>4, <3>5, RunTyped DEF RunType
    <3>7. QED
      BY <3>1, <3>2, <3>3, <3>5, <3>6, RunTyped DEF HoldsSome
  <2>3. CASE run' = [run EXCEPT !.at = IF outbox = << >> THEN PassOn ELSE "handing",
                       !.holds = outbox, !.then = "none"]
    <3> DEFINE at == IF outbox = << >> THEN PassOn ELSE "handing"
    <3>1. at \in {"over", "passing", "handing"} /\ (outbox = << >> => at # "handing")
      BY <1>1
    <3> HIDE DEF at
    <3>2. run' \in RunType /\ run'.at = at /\ run'.holds = outbox
      BY <2>3, <3>1, RunTyped DEF RunType, at
    <3>3. QED
      BY <3>1, <3>2, RunTyped DEF HoldsSome
  <2>4. QED
    BY <2>1, <2>2, <2>3 DEF MarksDone
<1>4. \A m \in Messages' : m \in Messages \/ m.says = "running"
  BY <1>2, <1>3, RunTyped DEF Messages
<1>5. faults' \in 0 .. Faults /\ faults' >= faults
  BY RunTyped DEF MarksDone
<1>6. QED
  BY <1>2, <1>3, <1>4, <1>5, RunTyped, StageOfMemory DEF MarksDone

\* Marking a row `detached` never stores it.
LEMMA MarkStage ==
  ASSUME StageInv, NEW c \in Child, UNCHANGED <<turn, resume, told>>,
         row' = [row EXCEPT ![c] = Marked(@, "detached")] \/ UNCHANGED row
  PROVE  /\ ConvexType'
         /\ \A d \in Child : RowQuiet(d) /\ ResumeOK(d)'
         /\ \A d \in Child : child[d] \in Early =>
              row'[d].handback # "stored" /\ resume'[d].at = "none"
<1>1. /\ ConvexType /\ row \in [Child -> Rows] /\ row[c] \in Rows
      /\ \A d \in Child : ResumeOK(d) /\ ChildOK(d)
  BY DEF StageInv, TypeOK, ConvexType
<1>2. /\ Marked(row[c], "detached") \in Rows
      /\ Marked(row[c], "detached").status = row[c].status
      /\ Marked(row[c], "detached").age = row[c].age
      /\ row[c].handback # "stored" => Marked(row[c], "detached").handback # "stored"
  BY <1>1, MarkedTypes
<1>3. /\ row' \in [Child -> Rows] /\ \A d \in Child \ {c} : row'[d] = row[d]
      /\ row'[c] \in {row[c], Marked(row[c], "detached")}
  BY <1>1, <1>2, RowSet
<1>4. ConvexType' /\ \A d \in Child : RowQuiet(d)
  BY <1>1, <1>2, <1>3 DEF ConvexType, RowQuiet
<1>5. \A d \in Child : ResumeOK(d)'
  BY <1>1 DEF ResumeOK
<1>6. \A d \in Child : child[d] \in Early =>
        row'[d].handback # "stored" /\ resume'[d].at = "none"
  BY <1>1, <1>2, <1>3 DEF ChildOK
<1>7. QED
  BY <1>4, <1>5, <1>6

LEMMA MarkDetachedStage ==
  ASSUME StageInv, NEW c \in Child, MarkDetached(c)
  PROVE  StageInv'
<1>1. /\ ConvexType'
      /\ \A d \in Child : RowQuiet(d) /\ ResumeOK(d)'
      /\ \A d \in Child : child[d] \in Early =>
           row'[d].handback # "stored" /\ resume'[d].at = "none"
  BY MarkStage DEF MarkDetached
<1>2. /\ run' \in RunType /\ run'.at = "detaching" /\ run'.holds = run.holds
  <2>1. CASE run' = [run EXCEPT !.marking = @ \ {c}]
    BY <2>1, RunTyped DEF RunType, MarkDetached
  <2>2. CASE run' = [run EXCEPT !.marking = {}, !.noting = {}, !.then = "passing"]
    BY <2>2, RunTyped DEF RunType, MarkDetached
  <2>3. QED
    BY <2>1, <2>2 DEF MarkDetached
<1>3. HoldsSome' /\ \A m \in Messages' : m \in Messages
  BY <1>2, RunTyped DEF HoldsSome, Messages, MarkDetached
<1>4. faults' \in 0 .. Faults /\ faults' >= faults
  BY FaultType DEF MarkDetached
<1>5. QED
  BY <1>1, <1>2, <1>3, <1>4, RunTyped, StageOfRun DEF MarkDetached

\* A resume for a child whose outcome is settled.
LEMMA ResumeStage ==
  ASSUME StageInv, NEW c \in Child, child[c] \notin Early,
         NEW says \in Outcome, TryResume(c, says)
  PROVE  /\ ConvexType' /\ faults' \in 0 .. Faults /\ faults' >= faults
         /\ \A d \in Child : RowQuiet(d) /\ ResumeOK(d)'
         /\ \A d \in Child : child[d] \in Early =>
              row'[d].handback # "stored" /\ resume'[d].at = "none"
<1>1. \A d \in Child : ChildOK(d)
  BY DEF StageInv
<1>2. /\ ConvexType' /\ faults' \in 0 .. Faults /\ faults' >= faults
      /\ \A d \in Child : RowQuiet(d) /\ ResumeOK(d)'
      /\ \A d \in Child \ {c} : SameAt(d)
  BY TryResumeFrame
<1>3. \A d \in Child : child[d] \in Early =>
        row'[d].handback # "stored" /\ resume'[d].at = "none"
  BY <1>1, <1>2 DEF ChildOK, SameAt
<1>4. QED
  BY <1>2, <1>3

LEMMA HandOverStage ==
  ASSUME StageInv, HandOver
  PROVE  StageInv'
<1>0. PICK m : m = Head(run.holds)
  OBVIOUS
<1>1. /\ run.holds # << >> /\ Tail(run.holds) \in Seq(Message)
      /\ ToSet(Tail(run.holds)) \subseteq ToSet(run.holds)
      /\ m.of \in Child
      /\ m.says # "running" => m.says \in Outcome /\ child[m.of] \notin Early
      /\ run.at = "handing"
  BY <1>0, HeadSettled DEF HandOver
<1>2. PassOn \in {"over", "passing"}
  BY DEF PassOn
<1>3. ASSUME Handed
      PROVE  /\ run' \in RunType /\ HoldsSome'
             /\ ToSet(run'.holds) \subseteq ToSet(run.holds)
  <2> DEFINE at == IF Tail(run.holds) = << >> THEN PassOn ELSE run.at
  <2>1. run' = [run EXCEPT !.holds = Tail(run.holds), !.marking = {}, !.at = at]
    BY <1>3 DEF Handed
  <2>2. /\ at \in {"over", "passing", "handing"}
        /\ Tail(run.holds) = << >> => at # "handing"
    BY <1>1, <1>2
  <2> HIDE DEF at
  <2>3. run' \in RunType /\ run'.at = at /\ run'.holds = Tail(run.holds)
    BY <1>1, <2>1, <2>2, RunTyped DEF RunType
  <2>4. QED
    BY <1>1, <2>2, <2>3 DEF HoldsSome
<1>4. /\ run' \in RunType /\ HoldsSome'
      /\ ToSet(run'.holds) \subseteq ToSet(run.holds)
  <2>1. CASE Handed
    BY <1>3, <2>1
  <2>2. CASE run' = [run EXCEPT !.marking = {m.of}]
    <3>1. run' \in RunType /\ run'.at = run.at /\ run'.holds = run.holds
      BY <1>1, <2>2, RunTyped DEF RunType
    <3>2. QED
      BY <1>1, <3>1 DEF HoldsSome
  <2>3. CASE run' = [run EXCEPT !.holds = << >>, !.at = PassOn]
    <3>1. run' \in RunType /\ run'.at = PassOn /\ run'.holds = << >>
      BY <1>2, <2>3, RunTyped DEF RunType
    <3>2. QED
      BY <1>2, <3>1, RunTyped DEF HoldsSome
  <2>4. QED
    BY <1>0, <2>1, <2>2, <2>3 DEF HandOver
<1>5. /\ ConvexType' /\ faults' \in 0 .. Faults /\ faults' >= faults
      /\ \A d \in Child : RowQuiet(d) /\ ResumeOK(d)'
      /\ \A d \in Child : child[d] \in Early =>
           row'[d].handback # "stored" /\ resume'[d].at = "none"
  <2>1. CASE NoFault /\ UNCHANGED convex
    BY <1>1, <2>1, MarkStage, FaultType DEF convex
  <2>2. CASE /\ Fault \/ NoFault
             /\ row' = [row EXCEPT ![m.of] = Marked(@, "detached")] \/ UNCHANGED row
             /\ UNCHANGED <<turn, resume, told>>
    BY <1>1, <2>2, MarkStage, FaultType
  <2>3. CASE m.says # "running" /\ TryResume(m.of, m.says)
    BY <1>1, <2>3, ResumeStage
  <2>4. QED
    BY <1>0, <2>1, <2>2, <2>3 DEF HandOver
<1>6. \A n \in Messages' : n \in Messages
  BY <1>4 DEF Messages, HandOver
<1>7. QED
  BY <1>4, <1>5, <1>6, RunTyped, StageOfRun DEF HandOver

-----------------------------------------------------------------------------
(* The crash, the conversation, the sweep and the clock keep it.             *)

LEMMA CrashStage ==
  ASSUME StageInv, Crash
  PROVE  StageInv'
<1>1. /\ TypeOK /\ \A d \in Child : ChildOK(d) /\ ResumeOK(d)
      /\ UNCHANGED <<answer, row, turn, resume, told, listed>>
  BY DEF StageInv, Crash, convex
<1>2. faults' \in 0 .. Faults /\ faults' > 0 /\ faults' \in Nat
  BY <1>1, LateResultsAssumption DEF TypeOK, Crash, Fault
<1>3. /\ child' = [c \in Child |->
           IF child[c] \in {"idle", "over"} THEN child[c] ELSE "dead"]
      /\ pending' = {} /\ detached' = {} /\ handled' = {} /\ outbox' = << >>
  BY DEF Crash
<1>4. run' \in RunType /\ run'.at = "dead" /\ run'.holds = << >>
  BY RunTyped DEF Crash, RunType
<1>5. TypeOK'
  <2>1. child' \in [Child -> {"idle", "running", "unrecorded", "finished",
                              "emitting", "over", "dead"}]
    BY <1>3
  <2>2. QED
    BY <1>1, <1>2, <1>3, <1>4, <2>1, RunTyped DEF TypeOK, RunType
<1>6. \A d \in Child : ChildOK(d)'
  BY <1>1, <1>2, <1>3 DEF ChildOK, Early, Late
<1>7. \A d \in Child : ResumeOK(d)'
  BY <1>1 DEF ResumeOK
<1>8. HoldsSome' /\ Messages' = {}
  BY <1>3, <1>4, RunTyped DEF HoldsSome, Messages
<1>9. QED
  BY <1>5, <1>6, <1>7, <1>8 DEF StageInv

\* A step that leaves every turn and the process's memory alone.
LEMMA StageOfCall ==
  ASSUME StageInv, UNCHANGED memory, ConvexType',
         \A d \in Child : ChildOK(d)' /\ ResumeOK(d)',
         listed' \in [Child -> SUBSET (Outcome \cup {"processing"})],
         faults' \in 0 .. Faults
  PROVE  StageInv'
<1>1. TypeOK'
  BY DEF StageInv, TypeOK, ConvexType, memory
<1>2. HoldsSome' /\ Messages' = Messages
  BY DEF StageInv, HoldsSome, Messages, memory
<1>3. \A m \in Messages' : MessageOK(m)'
  BY <1>2 DEF StageInv, MessageOK, memory
<1>4. QED
  BY <1>1, <1>2, <1>3 DEF StageInv

LEMMA Parts ==
  ASSUME StageInv
  PROVE  /\ ConvexType /\ row \in [Child -> Rows]
         /\ \A d \in Child : ChildOK(d) /\ ResumeOK(d)
         /\ faults \in 0 .. Faults /\ faults \in Nat
         /\ listed \in [Child -> SUBSET (Outcome \cup {"processing"})]
         /\ resume \in [Child -> [at : {"none", "queued", "processing", "ended"},
                                  says : Said]]
BY LateResultsAssumption DEF StageInv, TypeOK, ConvexType

LEMMA TurnEndsStage ==
  ASSUME StageInv, TurnEnds
  PROVE  StageInv'
<1>1. faults' \in 0 .. Faults /\ faults' >= faults /\ faults' \in Nat
  BY FaultType DEF TurnEnds
<1>2. ConvexType'
  BY Parts DEF ConvexType, TurnEnds
<1>3. \A d \in Child : ResumeOK(d)'
  BY Parts, Names DEF ResumeOK, TurnEnds
<1>4. \A d \in Child : Untouched(d)
  BY Parts DEF TurnEnds, memory, Untouched, RowQuiet, ChildOK
<1>5. \A d \in Child : ChildOK(d)'
  BY <1>1, <1>4, ChildKept
<1>6. QED
  BY <1>1, <1>2, <1>3, <1>5, Parts, StageOfCall DEF TurnEnds

LEMMA PromoteStage ==
  ASSUME StageInv, NEW c \in Child, Promote(c)
  PROVE  StageInv'
<1>1. /\ resume' = [resume EXCEPT ![c].at = "processing"] /\ turn' = c
      /\ turn = Nobody /\ resume[c].at = "queued" /\ UNCHANGED <<row, told>>
  BY DEF Promote
<1>2. /\ resume' \in [Child -> [at : {"none", "queued", "processing", "ended"},
                                says : Said]]
      /\ resume'[c].at = "processing" /\ resume'[c].says = resume[c].says
      /\ \A d \in Child \ {c} : resume'[d] = resume[d]
  BY <1>1, Parts
<1>3. ConvexType'
  BY <1>1, <1>2, Parts DEF ConvexType
<1>4. \A d \in Child : ResumeOK(d)'
  <2>1. ResumeOK(c)'
    BY <1>1, <1>2, Parts DEF ResumeOK
  <2>2. \A d \in Child \ {c} : ResumeOK(d)'
    BY <1>1, <1>2, Parts, Names DEF ResumeOK
  <2>3. QED
    BY <2>1, <2>2
<1>5. \A d \in Child : Untouched(d)
  BY <1>1, <1>2, Parts DEF Promote, memory, Untouched, RowQuiet, ChildOK
<1>6. faults' \in 0 .. Faults /\ faults' >= faults /\ faults' \in Nat
  BY Parts DEF Promote
<1>7. \A d \in Child : ChildOK(d)'
  BY <1>5, <1>6, ChildKept
<1>8. QED
  BY <1>3, <1>4, <1>6, <1>7, Parts, StageOfCall DEF Promote

\* A resume that ends leaves the turn to nobody, if it had it.
LEMMA ResumeEnds ==
  ASSUME StageInv, NEW c \in Child, resume[c].at \in {"queued", "processing"},
         resume' = [resume EXCEPT ![c].at = "ended"],
         turn' = IF turn = c THEN Nobody ELSE turn
  PROVE  /\ resume' \in [Child -> [at : {"none", "queued", "processing", "ended"},
                                   says : Said]]
         /\ resume'[c].at = "ended"
         /\ \A d \in Child \ {c} : resume'[d] = resume[d]
         /\ \A d \in Child : ResumeOK(d)'
         /\ turn' \in Child \cup {Run, Nobody}
<1>1. /\ resume' \in [Child -> [at : {"none", "queued", "processing", "ended"},
                                says : Said]]
      /\ resume'[c].at = "ended" /\ resume'[c].says = resume[c].says
      /\ \A d \in Child \ {c} : resume'[d] = resume[d]
  BY Parts
<1>2. ResumeOK(c)'
  BY <1>1, Parts, Names DEF ResumeOK
<1>3. \A d \in Child \ {c} : ResumeOK(d)'
  BY <1>1, Parts, Names DEF ResumeOK
<1>4. turn' \in Child \cup {Run, Nobody}
  BY Parts DEF ConvexType
<1>5. QED
  BY <1>1, <1>2, <1>3, <1>4

LEMMA ResumeTellsStage ==
  ASSUME StageInv, NEW c \in Child, ResumeTells(c)
  PROVE  StageInv'
<1>1. /\ turn = c /\ resume[c].at = "processing" /\ turn' = Nobody
      /\ resume' = [resume EXCEPT ![c].at = "ended"]
  BY Parts DEF ResumeTells, ResumeOK
<1>2. /\ resume' \in [Child -> [at : {"none", "queued", "processing", "ended"},
                                says : Said]]
      /\ \A d \in Child \ {c} : resume'[d] = resume[d]
      /\ \A d \in Child : ResumeOK(d)'
      /\ turn' \in Child \cup {Run, Nobody}
  BY <1>1, ResumeEnds
<1>3. /\ row[c] \in Rows /\ Stored(row[c]) \in Rows
      /\ Stored(row[c]).status = row[c].status /\ Stored(row[c]).age = 0
  BY Parts, RowTypes
<1>4. /\ row' \in [Child -> Rows] /\ \A d \in Child \ {c} : row'[d] = row[d]
      /\ row'[c] \in {row[c], Stored(row[c])}
  <2>1. UNCHANGED row \/ row' = [row EXCEPT ![c] = Stored(row[c])]
    BY DEF ResumeTells
  <2>2. QED
    BY <1>3, <2>1, Parts, RowSet
<1>5. told' \in [Child -> Seq(Said)]
  <2>1. resume[c].says \in Said
    BY Parts
  <2>2. UNCHANGED told \/ told' = [told EXCEPT ![c] = Append(@, resume[c].says)]
    BY DEF ResumeTells
  <2>3. QED
    BY <2>1, <2>2, Parts, AppendTold DEF ConvexType
<1>6. ConvexType'
  BY <1>2, <1>4, <1>5 DEF ConvexType
<1>7. child[c] \notin Early
  BY <1>1, Parts DEF ChildOK
<1>8. \A d \in Child : Untouched(d)
  <2>1. UNCHANGED <<child, answer, listed, pending, detached>>
    BY DEF ResumeTells, memory
  <2>2. Untouched(c)
    BY <1>3, <1>4, <1>7, <2>1, Parts DEF Untouched, RowQuiet, ChildOK, Early
  <2>3. \A d \in Child \ {c} : Untouched(d)
    BY <1>2, <1>4, <2>1, Parts DEF Untouched, RowQuiet, ChildOK
  <2>4. QED
    BY <2>2, <2>3
<1>9. faults' \in 0 .. Faults /\ faults' >= faults /\ faults' \in Nat
  BY Parts DEF ResumeTells
<1>10. \A d \in Child : ChildOK(d)'
  BY <1>8, <1>9, ChildKept
<1>11. QED
  BY <1>2, <1>6, <1>9, <1>10, Parts, StageOfCall DEF ResumeTells

LEMMA ResumeLostStage ==
  ASSUME StageInv, NEW c \in Child, ResumeLost(c)
  PROVE  StageInv'
<1>1. /\ resume[c].at \in {"queued", "processing"}
      /\ resume' = [resume EXCEPT ![c].at = "ended"]
      /\ turn' = IF turn = c THEN Nobody ELSE turn
      /\ UNCHANGED <<row, told>>
  BY DEF ResumeLost
<1>2. /\ resume' \in [Child -> [at : {"none", "queued", "processing", "ended"},
                                says : Said]]
      /\ \A d \in Child \ {c} : resume'[d] = resume[d]
      /\ \A d \in Child : ResumeOK(d)'
      /\ turn' \in Child \cup {Run, Nobody}
  BY <1>1, ResumeEnds
<1>3. ConvexType'
  BY <1>1, <1>2, Parts DEF ConvexType
<1>4. child[c] \notin Early
  BY <1>1, Parts DEF ChildOK
<1>5. \A d \in Child : Untouched(d)
  <2>1. UNCHANGED <<child, answer, listed, pending, detached>>
    BY DEF ResumeLost, memory
  <2>2. Untouched(c)
    BY <1>1, <1>4, <2>1, Parts DEF Untouched, RowQuiet, ChildOK, Early
  <2>3. \A d \in Child \ {c} : Untouched(d)
    BY <1>1, <1>2, <2>1, Parts DEF Untouched, RowQuiet, ChildOK
  <2>4. QED
    BY <2>2, <2>3
<1>6. faults' \in 0 .. Faults /\ faults' >= faults /\ faults' \in Nat
  BY FaultType DEF ResumeLost
<1>7. \A d \in Child : ChildOK(d)'
  BY <1>5, <1>6, ChildKept
<1>8. QED
  BY <1>2, <1>3, <1>6, <1>7, Parts, StageOfCall DEF ResumeLost

\* Only the row of a child whose outcome is settled is old enough to be listed.
LEMMA ListedSettled ==
  ASSUME StageInv, NEW c \in Child, Overdue(row[c])
  PROVE  child[c] \notin Early /\ row[c].status \in Outcome \cup {"processing"}
<1>1. /\ ChildOK(c) /\ row[c] \in Rows /\ row[c].age \in Nat
      /\ Budget \in Nat /\ Hold \in Nat /\ Grace \in Nat \ {0} /\ Budget < Hold
  BY Parts, LateResultsAssumption DEF Rows
<1>2. row[c].status # "none"
  BY DEF Overdue, Outcome
<1>3. child[c] # "idle"
  BY <1>1, <1>2 DEF ChildOK
<1>4. row[c].age <= Budget => ~(row[c].age >= Hold)
  BY <1>1
<1>5. row[c].age = 0 => ~(row[c].age >= Grace)
  BY <1>1
<1>6. "processing" \notin Outcome
  BY DEF Outcome
<1>7. child[c] # "running"
  BY <1>1, <1>4, <1>6 DEF Overdue, ChildOK
<1>8. child[c] # "unrecorded"
  BY <1>1, <1>4, <1>5, <1>6 DEF Overdue, ChildOK
<1>9. QED
  BY <1>1, <1>2, <1>3, <1>7, <1>8 DEF Early, Rows

LEMMA SweepListStage ==
  ASSUME StageInv, NEW c \in Child, SweepList(c)
  PROVE  StageInv'
<1>1. child[c] \notin Early /\ row[c].status \in Outcome \cup {"processing"}
  BY ListedSettled DEF SweepList
<1>2. /\ listed' = [listed EXCEPT ![c] = @ \cup {row[c].status}]
      /\ UNCHANGED <<memory, convex, faults>>
  BY DEF SweepList
<1>3. /\ listed' \in [Child -> SUBSET (Outcome \cup {"processing"})]
      /\ listed'[c] = listed[c] \cup {row[c].status}
      /\ \A d \in Child \ {c} : listed'[d] = listed[d]
  BY <1>1, <1>2, Parts
<1>4. ConvexType' /\ \A d \in Child : ResumeOK(d)'
  BY <1>2, Parts DEF ConvexType, ResumeOK, convex
<1>5. UNCHANGED <<child, answer, pending, detached, row, resume, faults>>
  BY <1>2 DEF memory, convex
<1>6. ChildOK(c)'
  BY <1>1, <1>3, <1>5, Parts DEF ChildOK
<1>7. \A d \in Child \ {c} : ChildOK(d)'
  BY <1>3, <1>5, Parts DEF ChildOK
<1>8. QED
  BY <1>2, <1>3, <1>4, <1>6, <1>7, Parts, StageOfCall

LEMMA SweepLostStage ==
  ASSUME StageInv, NEW c \in Child, SweepLost(c)
  PROVE  StageInv'
<1>1. /\ "processing" \in listed[c] /\ listed' = [listed EXCEPT ![c] = @ \ {"processing"}]
      /\ UNCHANGED <<memory, turn, resume, told>>
      /\ row' = [row EXCEPT ![c] = Lost(row[c])] \/ UNCHANGED row
  BY DEF SweepLost
<1>2. child[c] \notin Early /\ ChildOK(c)
  BY <1>1, Parts DEF ChildOK
<1>3. /\ row[c] \in Rows /\ Lost(row[c]) \in Rows
      /\ row[c].status # "processing" => Lost(row[c]) = row[c]
      /\ row[c].status = "processing" => Lost(row[c]).status = "lost"
  BY Parts, LostTypes
<1>4. /\ row' \in [Child -> Rows] /\ \A d \in Child \ {c} : row'[d] = row[d]
      /\ row'[c] \in {row[c], Lost(row[c])}
  BY <1>1, <1>3, Parts, RowSet
<1>5. /\ listed' \in [Child -> SUBSET (Outcome \cup {"processing"})]
      /\ listed'[c] = listed[c] \ {"processing"}
      /\ \A d \in Child \ {c} : listed'[d] = listed[d]
  BY <1>1, Parts
<1>6. ConvexType' /\ \A d \in Child : ResumeOK(d)'
  BY <1>1, <1>4, Parts DEF ConvexType, ResumeOK
<1>7. faults' \in 0 .. Faults /\ faults' >= faults /\ faults' \in Nat
  BY FaultType DEF SweepLost
<1>8. UNCHANGED <<child, answer, pending, detached, resume>>
  BY <1>1 DEF memory
<1>9. ChildOK(c)'
  <2>1. /\ faults > 0 => faults' > 0
        /\ row'[c].status \in {row[c].status, "lost"}
        /\ row'[c].status # row[c].status => row[c].status = "processing"
    BY <1>3, <1>4, <1>7, Parts
  <2>2. listed'[c] \subseteq {row[c].status}
    BY <1>2, <1>5 DEF ChildOK
  <2>3. row[c].status = "processing" => listed'[c] = {}
    BY <1>5, <2>2
  <2>4. QED
    BY <1>2, <1>8, <2>1, <2>2, <2>3 DEF ChildOK, Early, Late
<1>10. \A d \in Child \ {c} : ChildOK(d)'
  <2>1. \A d \in Child \ {c} : Untouched(d)
    BY <1>4, <1>5, <1>8, Parts DEF Untouched, RowQuiet, ChildOK
  <2>2. QED
    BY <1>7, <2>1, ChildKept
<1>11. QED
  BY <1>1, <1>5, <1>6, <1>7, <1>9, <1>10, StageOfCall

LEMMA SweepResumesStage ==
  ASSUME StageInv, NEW c \in Child, SweepResumes(c)
  PROVE  StageInv'
<1>1. PICK says \in listed[c] \ {"processing"} :
        /\ listed' = [listed EXCEPT ![c] = @ \ {says}]
        /\ \/ /\ says \in Hidden
              /\ \/ NoFault /\ row' = [row EXCEPT ![c] = Marked(@, "stored")]
                 \/ Fault /\ UNCHANGED row
              /\ UNCHANGED <<turn, resume, told>>
           \/ says \notin Hidden /\ TryResume(c, says)
        /\ UNCHANGED memory
  BY DEF SweepResumes
<1>2. says \in Outcome /\ child[c] \notin Early
  BY Parts DEF ChildOK
<1>3. /\ listed' \in [Child -> SUBSET (Outcome \cup {"processing"})]
      /\ \A d \in Child : listed'[d] \subseteq listed[d]
  BY <1>1, Parts
<1>4. /\ ConvexType' /\ faults' \in 0 .. Faults /\ faults' >= faults
      /\ \A d \in Child : RowQuiet(d) /\ ResumeOK(d)'
      /\ \A d \in Child : child[d] \in Early =>
           row'[d].handback # "stored" /\ resume'[d].at = "none"
  <2>1. CASE TryResume(c, says)
    BY <1>2, <2>1, ResumeStage
  <2>2. CASE /\ NoFault \/ Fault
             /\ row' = [row EXCEPT ![c] = Marked(@, "stored")] \/ UNCHANGED row
             /\ UNCHANGED <<turn, resume, told>>
    <3>1. /\ row[c] \in Rows /\ Marked(row[c], "stored") \in Rows
          /\ Marked(row[c], "stored").status = row[c].status
          /\ Marked(row[c], "stored").age \in {row[c].age, 0}
      BY Parts, MarkedTypes
    <3>2. /\ row' \in [Child -> Rows] /\ \A d \in Child \ {c} : row'[d] = row[d]
          /\ row'[c] \in {row[c], Marked(row[c], "stored")}
      BY <2>2, <3>1, Parts, RowSet
    <3>3. ConvexType' /\ \A d \in Child : RowQuiet(d) /\ ResumeOK(d)'
      BY <2>2, <3>1, <3>2, Parts DEF ConvexType, RowQuiet, ResumeOK
    <3>4. \A d \in Child : child[d] \in Early =>
            row'[d].handback # "stored" /\ resume'[d].at = "none"
      BY <1>2, <2>2, <3>2, Parts DEF ChildOK
    <3>5. faults' \in 0 .. Faults /\ faults' >= faults
      BY <2>2, FaultType
    <3>6. QED
      BY <3>3, <3>4, <3>5
  <2>3. QED
    BY <1>1, <2>1, <2>2
<1>5. \A d \in Child : Untouched(d)
  BY <1>1, <1>3, <1>4, Parts DEF memory, Untouched, ChildOK
<1>6. \A d \in Child : ChildOK(d)'
  <2>1. faults' \in Nat
    BY <1>4, LateResultsAssumption
  <2>2. QED
    BY <1>4, <1>5, <2>1, ChildKept
<1>7. QED
  BY <1>1, <1>3, <1>4, <1>6, StageOfCall

LEMMA TickStage ==
  ASSUME StageInv, Tick
  PROVE  StageInv'
<1>1. /\ row' = [c \in Child |-> IF Ages(c) /\ row[c].age < Hold
                                 THEN [row[c] EXCEPT !.age = @ + 1] ELSE row[c]]
      /\ UNCHANGED <<memory, turn, resume, told, listed, faults>>
      /\ \A c \in Child : /\ child[c] # "unrecorded"
                          /\ child[c] = "running" => row[c].age < Budget
  BY DEF Tick
<1>2. ASSUME NEW c \in Child
      PROVE  /\ row'[c] \in Rows /\ row'[c].status = row[c].status
             /\ row'[c].handback = row[c].handback
             /\ row'[c].age = row[c].age \/ (Ages(c) /\ row'[c].age = row[c].age + 1)
  <2>1. row[c] \in Rows /\ row[c].age \in 0 .. Hold /\ Hold \in Nat
    BY Parts, LateResultsAssumption DEF Rows
  <2>2. CASE Ages(c) /\ row[c].age < Hold
    <3>1. row'[c] = [row[c] EXCEPT !.age = row[c].age + 1]
      BY <1>1, <2>2
    <3>2. row[c].age + 1 \in 0 .. Hold
      BY <2>1, <2>2
    <3>3. QED
      BY <2>1, <2>2, <3>1, <3>2 DEF Rows
  <2>3. CASE ~(Ages(c) /\ row[c].age < Hold)
    BY <1>1, <2>1, <2>3
  <2>4. QED
    BY <2>2, <2>3
<1>3. row' \in [Child -> Rows]
  BY <1>1, <1>2
<1>4. ConvexType' /\ \A d \in Child : ResumeOK(d)'
  BY <1>1, <1>3, Parts DEF ConvexType, ResumeOK
<1>5. ASSUME NEW c \in Child
      PROVE  ChildOK(c)'
  <2>1. UNCHANGED <<child, answer, listed, resume, pending, detached, faults>>
    BY <1>1 DEF memory
  <2>2. row[c].age \in Nat /\ Budget \in Nat /\ ChildOK(c)
    BY Parts, LateResultsAssumption DEF Rows
  <2>3. child[c] = "running" => row'[c].age <= Budget
    BY <1>1, <1>2, <2>2
  <2>4. child[c] = "idle" => row'[c].age = 0
    BY <1>2, <2>2 DEF ChildOK, Ages
  <2>5. child[c] # "unrecorded"
    BY <1>1
  <2>6. QED
    BY <1>2, <2>1, <2>2, <2>3, <2>4, <2>5 DEF ChildOK
<1>6. QED
  BY <1>1, <1>4, <1>5, Parts, StageOfCall

-----------------------------------------------------------------------------

LEMMA InitStage == Init => StageInv
<1> SUFFICES ASSUME Init PROVE StageInv
  OBVIOUS
<1>1. /\ << >> \in Seq(Message) /\ ToSet(<< >>) = {} /\ << >> \in Seq(Said)
      /\ 0 \in 0 .. Hold /\ 0 \in 0 .. Faults
  <2>1. << >> \in Seq(Message) /\ << >> \in Seq(Said)
    OBVIOUS
  <2>2. ToSet(<< >>) = {}
    BY DEF ToSet
  <2>3. 0 \in 0 .. Hold /\ 0 \in 0 .. Faults
    BY LateResultsAssumption
  <2>4. QED
    BY <2>1, <2>2, <2>3
<1>2. row \in [Child -> Rows]
  BY <1>1 DEF Init, Rows
<1>3. resume \in [Child -> [at : {"none", "queued", "processing", "ended"},
                            says : Said]]
  BY DEF Init, Said
<1>4. TypeOK
  BY <1>1, <1>2, <1>3 DEF Init, TypeOK
<1>5. \A c \in Child : ChildOK(c)
  BY DEF Init, ChildOK, Early, Late
<1>6. \A c \in Child : ResumeOK(c)
  BY Names DEF Init, ResumeOK
<1>7. HoldsSome /\ Messages = {}
  BY <1>1 DEF Init, HoldsSome, Messages
<1>8. QED
  BY <1>4, <1>5, <1>6, <1>7 DEF StageInv

LEMMA NextStage == StageInv /\ [Next]_vars => StageInv'
<1> SUFFICES ASSUME StageInv, [Next]_vars PROVE StageInv'
  OBVIOUS
<1>1. CASE RunStep
  BY <1>1, TakingStage, PersistStage, PersistFailsStage, DetachAllStage,
     ClosePassesStage, MarksDoneStage, HandOverStage, DetachTaskStage,
     MarkDetachedStage
  DEF RunStep, TakeParentMessages, DrainCompletions
<1>2. CASE Crash \/ TurnEnds \/ Tick
  BY <1>2, CrashStage, TurnEndsStage, TickStage
<1>3. ASSUME NEW c \in Child, Dispatch(c) \/ ChildStep(c) PROVE StageInv'
  BY <1>3, DispatchStage, FinishStage, FinishUnrecordedStage,
     RecordFailureStage, DeliverStage, OverStage DEF ChildStep
<1>4. ASSUME NEW c \in Child,
             ResumeStep(c) \/ ResumeLost(c) \/ SweepList(c) \/ SweepLost(c)
               \/ SweepResumes(c)
      PROVE StageInv'
  BY <1>4, PromoteStage, ResumeTellsStage, ResumeLostStage, SweepListStage,
     SweepLostStage, SweepResumesStage DEF ResumeStep
<1>5. CASE UNCHANGED vars
  <2>1. UNCHANGED <<memory, convex, listed, faults>>
    BY <1>5 DEF vars, memory, convex
  <2>2. ConvexType' /\ \A d \in Child : ChildOK(d)' /\ ResumeOK(d)'
    BY <2>1, Parts DEF memory, convex, ConvexType, ChildOK, ResumeOK
  <2>3. QED
    BY <2>1, <2>2, Parts, StageOfCall
<1>6. QED
  BY <1>1, <1>2, <1>3, <1>4, <1>5 DEF Next

\* Every record keeps its type, for every set of children, every window and any
\* number of failures: in particular a child is never both waited on and let go,
\* and a run that writes has something to write.
THEOREM TypeCorrect == Spec => []TypeOK
<1>1. StageInv => TypeOK
  BY DEF StageInv
<1>2. QED
  BY <1>1, InitStage, NextStage, PTL DEF Spec

\* The parent hears that a child was lost only if it was: however long the
\* children take within their budget, and however the sweep is timed.
THEOREM LostSafe == Spec => []LostIsLost
<1>1. StageInv => LostIsLost
  <2> SUFFICES ASSUME StageInv, NEW c \in Child, row[c].status = "lost"
               PROVE  child[c] # "running" /\ faults > 0
    BY DEF LostIsLost
  <2>1. /\ ChildOK(c)
        /\ child[c] \in {"idle", "running", "unrecorded", "finished", "emitting",
                         "over", "dead"}
    BY DEF StageInv, TypeOK
  <2>2. QED
    BY <2>1 DEF ChildOK, Late
<1>2. QED
  BY <1>1, InitStage, NextStage, PTL DEF Spec

-----------------------------------------------------------------------------
(* What the parent's history tells of a child: one result at most, and one   *)
(* for every row that no sweep comes back to.                              *)

\* The history has a result only of a settled child, whose row is stored then
\* and whose resume has nothing left to do; while the run writes itself, what
\* it wrote is what the child answered.
ToldOK(c) ==
  /\ child[c] \in Early => Results(c) = {}
  /\ Results(c) # {} =>
       row[c].handback = "stored" /\ resume[c].at \in {"none", "ended"}
  /\ turn = Run => \A i \in Results(c) : told[c][i] = answer[c]
  /\ \A i, j \in Results(c) : i = j

\* What makes up for a stored row: its result was told, or is not to be.
Accounted(c) ==
  Results(c) # {} \/ row[c].status \in Hidden \/ answer[c] \in Hidden

HeardInv == \A c \in Child :
  ToldOK(c) /\ (row[c].handback = "stored" => Accounted(c))

-----------------------------------------------------------------------------
(* Keys and histories.                                                      *)

LEMMA Keys ==
  /\ Key("running") = "running"
  /\ \A says \in Outcome : Key(says) # "running"
BY DEF Key, Outcome

LEMMA NoResultYet ==
  ASSUME NEW c \in Child, told[c] \in Seq(Said), Results(c) = {},
         NEW says \in Outcome
  PROVE  Untold(c, says)
BY Keys DEF Results, Untold

LEMMA SomeResult ==
  ASSUME NEW c \in Child, told[c] \in Seq(Said), NEW says \in Outcome,
         ~Untold(c, says)
  PROVE  Results(c) # {}
BY NoResultYet

\* One more message in the history of a child.
LEMMA ResultsAppend ==
  ASSUME NEW c \in Child, told[c] \in Seq(Said), NEW says \in Said,
         told'[c] = Append(told[c], says)
  PROVE  /\ says = "running" => Results(c)' = Results(c)
         /\ says # "running" => Results(c)' = Results(c) \cup {Len(told[c]) + 1}
         /\ \A i \in Results(c) : told'[c][i] = told[c][i]
         /\ told'[c][Len(told[c]) + 1] = says
<1>1. Len(told[c]) \in Nat /\ DOMAIN told[c] = 1 .. Len(told[c])
  BY LenProperties
<1>2. /\ DOMAIN told'[c] = 1 .. Len(told[c]) + 1
      /\ \A i \in 1 .. Len(told[c]) : told'[c][i] = told[c][i]
      /\ told'[c][Len(told[c]) + 1] = says
  BY <1>1, AppendProperties
<1>3. DOMAIN told'[c] = DOMAIN told[c] \cup {Len(told[c]) + 1}
  BY <1>1, <1>2
<1>4. \A i : i \in Results(c)' <=> i \in DOMAIN told'[c] /\ told'[c][i] # "running"
  BY DEF Results
<1>5. \A i : i \in Results(c) <=> i \in DOMAIN told[c] /\ told[c][i] # "running"
  BY DEF Results
<1>6. Len(told[c]) + 1 \notin DOMAIN told[c]
  BY <1>1
<1>7. says = "running" => Results(c)' = Results(c)
  BY <1>1, <1>2, <1>3, <1>4, <1>5, <1>6
<1>8. says # "running" => Results(c)' = Results(c) \cup {Len(told[c]) + 1}
  BY <1>1, <1>2, <1>3, <1>4, <1>5, <1>6
<1>9. QED
  BY <1>1, <1>2, <1>5, <1>7, <1>8

-----------------------------------------------------------------------------
(* Steps that tell nothing.                                                 *)

\* Nothing is told of c; its turn does not start again, its answer is settled
\* once, its row stays stored and its resume is admitted only untold.
Unheard(c) ==
  /\ told'[c] = told[c]
  /\ child'[c] \in Early => child[c] \in Early
  /\ child[c] \in Early \/ answer'[c] = answer[c]
  /\ turn' = Run => turn = Run
  /\ row[c].handback = "stored" => row'[c].handback = "stored"
  /\ Results(c) # {} => resume'[c].at = resume[c].at \/ resume'[c].at = "ended"

LEMMA ToldKept ==
  ASSUME NEW c \in Child, ToldOK(c), Unheard(c)
  PROVE  ToldOK(c)' /\ Results(c)' = Results(c)
<1>1. Results(c)' = Results(c)
  BY DEF Unheard, Results
<1>2. (child[c] \in Early => Results(c) = {})'
  BY <1>1 DEF ToldOK, Unheard
<1>3. (Results(c) # {} =>
         row[c].handback = "stored" /\ resume[c].at \in {"none", "ended"})'
  BY <1>1 DEF ToldOK, Unheard
<1>4. (turn = Run => \A i \in Results(c) : told[c][i] = answer[c])'
  BY <1>1 DEF ToldOK, Unheard
<1>5. (\A i, j \in Results(c) : i = j)'
  BY <1>1 DEF ToldOK
<1>6. QED
  BY <1>1, <1>2, <1>3, <1>4, <1>5 DEF ToldOK

\* A row already stored: its status is final, or a lost child was told of.
LEMMA HeardKept ==
  ASSUME NEW c \in Child, ToldOK(c),
         row[c].handback = "stored" => Accounted(c),
         Unheard(c),
         row[c].handback = "stored" /\ row[c].status \in Hidden =>
           row'[c].status = row[c].status,
         \/ row[c].handback = "stored" => child[c] \notin Early
         \/ answer'[c] = answer[c],
         row'[c].handback = "stored" =>
           \/ row[c].handback = "stored"
           \/ Results(c) # {}
           \/ row'[c].status \in Hidden
           \/ answer'[c] \in Hidden
  PROVE  ToldOK(c)' /\ (row[c].handback = "stored" => Accounted(c))'
<1>1. ToldOK(c)' /\ Results(c)' = Results(c)
  BY ToldKept
<1>2. row[c].handback = "stored" => answer'[c] = answer[c]
  BY DEF Unheard
<1>3. QED
  BY <1>1, <1>2 DEF Accounted

\* A step that leaves Convex alone.
LEMMA HeardStill ==
  ASSUME StageInv, HeardInv, UNCHANGED <<row, resume, told>>,
         turn' = Run => turn = Run, UNCHANGED answer,
         \A c \in Child : child'[c] \in Early => child[c] \in Early
  PROVE  HeardInv'
<1> SUFFICES ASSUME NEW c \in Child
             PROVE  ToldOK(c)' /\ (row[c].handback = "stored" => Accounted(c))'
  BY DEF HeardInv
<1>1. Unheard(c)
  BY DEF Unheard
<1>2. QED
  BY <1>1, HeardKept DEF HeardInv

\* A step that writes the row of one child only.
LEMMA HeardRow ==
  ASSUME StageInv, HeardInv, NEW c \in Child,
         UNCHANGED <<turn, resume, told>>,
         \A d \in Child : child'[d] \in Early => child[d] \in Early,
         \A d \in Child \ {c} : row'[d] = row[d] /\ answer'[d] = answer[d],
         child[c] \in Early \/ answer'[c] = answer[c],
         row[c].handback = "stored" =>
           /\ row'[c].handback = "stored"
           /\ row[c].status \in Hidden => row'[c].status = row[c].status,
         row'[c].handback = "stored" =>
           \/ row[c].handback = "stored"
           \/ row'[c].status \in Hidden
           \/ answer'[c] \in Hidden
  PROVE  HeardInv'
<1> SUFFICES ASSUME NEW d \in Child
             PROVE  ToldOK(d)' /\ (row[d].handback = "stored" => Accounted(d))'
  BY DEF HeardInv
<1>1. ChildOK(d) /\ ToldOK(d) /\ (row[d].handback = "stored" => Accounted(d))
  BY DEF StageInv, HeardInv
<1>2. Unheard(d)
  BY DEF Unheard
<1>3. row[d].handback = "stored" => child[d] \notin Early
  BY <1>1 DEF ChildOK
<1>4. QED
  BY <1>1, <1>2, <1>3, HeardKept

LEMMA DispatchHeard ==
  ASSUME StageInv, HeardInv, NEW c \in Child, Dispatch(c)
  PROVE  HeardInv'
<1>1. row \in [Child -> Rows] /\ ChildOK(c) /\ child[c] = "idle"
  BY DEF StageInv, TypeOK, Dispatch
<1>2. /\ \A d \in Child \ {c} : row'[d] = row[d]
      /\ row'[c].handback = row[c].handback /\ row[c].handback # "stored"
  BY <1>1 DEF Dispatch, Rows, ChildOK, Early
<1>3. \A d \in Child : child'[d] \in Early => child[d] \in Early
  BY <1>1 DEF Dispatch, StageInv, TypeOK, Early
<1>4. QED
  BY <1>2, <1>3, HeardRow DEF Dispatch

\* Writing an outcome says nothing of the handback.
LEMMA RecordHeard ==
  ASSUME StageInv, HeardInv, NEW c \in Child, child[c] \in Early,
         NEW status \in Outcome,
         row' = [row EXCEPT ![c] = Recorded(@, status)] \/ UNCHANGED row,
         UNCHANGED <<turn, resume, told>>,
         \A d \in Child \ {c} : child'[d] = child[d] /\ answer'[d] = answer[d]
  PROVE  HeardInv'
<1>1. row \in [Child -> Rows] /\ row[c] \in Rows /\ row[c].handback # "stored"
  BY DEF StageInv, TypeOK, ChildOK
<1>2. Recorded(row[c], status) \in Rows
      /\ Recorded(row[c], status).handback = row[c].handback
  BY <1>1, RowTypes
<1>3. /\ \A d \in Child \ {c} : row'[d] = row[d]
      /\ row'[c] \in {row[c], Recorded(row[c], status)}
  BY <1>1, <1>2, RowSet
<1>4. QED
  BY <1>1, <1>2, <1>3, HeardRow

LEMMA FinishHeard ==
  ASSUME StageInv, HeardInv, NEW c \in Child,
         Finish(c) \/ FinishUnrecorded(c) \/ RecordFailure(c)
  PROVE  HeardInv'
<1>1. /\ child \in [Child -> {"idle", "running", "unrecorded", "finished",
                              "emitting", "over", "dead"}]
      /\ answer \in [Child -> Outcome \cup {"none"}] /\ ChildOK(c)
  BY DEF StageInv, TypeOK
<1>2. child[c] \in Early /\ UNCHANGED <<turn, resume, told>>
  BY DEF Finish, FinishUnrecorded, RecordFailure, Early
<1>3. \A d \in Child \ {c} : child'[d] = child[d] /\ answer'[d] = answer[d]
  BY <1>1 DEF Finish, FinishUnrecorded, RecordFailure
<1>4. \E status \in Outcome :
        row' = [row EXCEPT ![c] = Recorded(@, status)] \/ UNCHANGED row
  <2>1. CASE Finish(c) \/ FinishUnrecorded(c)
    BY <2>1, Names DEF Finish, FinishUnrecorded
  <2>2. CASE RecordFailure(c)
    <3>1. answer[c] \in Outcome
      BY <1>1, <2>2 DEF ChildOK, RecordFailure
    <3>2. QED
      BY <2>2, <3>1 DEF RecordFailure
  <2>3. QED
    BY <2>1, <2>2
<1>5. QED
  BY <1>2, <1>3, <1>4, RecordHeard

-----------------------------------------------------------------------------
(* Steps that tell.                                                         *)

LEMMA HistoryTyped ==
  ASSUME StageInv, NEW c \in Child
  PROVE  told[c] \in Seq(Said) /\ row[c] \in Rows /\ ChildOK(c) /\ ResumeOK(c)
BY DEF StageInv, TypeOK

\* The other children of a call about one.
LEMMA HeardElsewhere ==
  ASSUME StageInv, HeardInv, NEW d \in Child, SameAt(d),
         turn' = Run => turn = Run,
         child'[d] \in Early => child[d] \in Early, answer'[d] = answer[d]
  PROVE  ToldOK(d)' /\ (row[d].handback = "stored" => Accounted(d))'
<1>1. ToldOK(d) /\ (row[d].handback = "stored" => Accounted(d)) /\ Unheard(d)
  BY DEF HeardInv, SameAt, Unheard
<1>2. QED
  BY <1>1, HeardKept DEF SameAt

\* The run writes what its child answered, and finds it there the second time.
LEMMA TellHeard ==
  ASSUME StageInv, HeardInv, turn = Run, NEW c \in Child, NEW says \in Said,
         says # "running" => child[c] \notin Early /\ says = answer[c],
         Tell(c, says), UNCHANGED <<turn, child, answer>>
  PROVE  HeardInv'
<1>1. /\ told[c] \in Seq(Said) /\ row[c] \in Rows /\ ChildOK(c) /\ ResumeOK(c)
      /\ ToldOK(c) /\ (row[c].handback = "stored" => Accounted(c)) /\ ConvexType
  BY HistoryTyped DEF HeardInv, StageInv, TypeOK, ConvexType
<1>2. \A d \in Child \ {c} : SameAt(d)
  BY <1>1, TellFrame
<1>3. \A d \in Child \ {c} :
        ToldOK(d)' /\ (row[d].handback = "stored" => Accounted(d))'
  BY <1>2, HeardElsewhere
<1>4. CASE ~Untold(c, says)
  BY <1>4, HeardStill DEF Tell
<1>5. CASE Untold(c, says) /\ says = "running"
  <2>1. /\ told' = [told EXCEPT ![c] = Append(@, says)] /\ UNCHANGED <<row, resume>>
    BY <1>5 DEF Tell
  <2>2. told'[c] = Append(told[c], says)
    BY <1>1, <2>1, AppendTold
  <2>3. Results(c)' = Results(c) /\ \A i \in Results(c) : told'[c][i] = told[c][i]
    BY <1>1, <1>5, <2>2, ResultsAppend
  <2>4. ToldOK(c)' /\ (row[c].handback = "stored" => Accounted(c))'
    BY <1>1, <2>1, <2>3 DEF ToldOK, Accounted
  <2>5. QED
    BY <1>3, <2>4 DEF HeardInv
<1>6. CASE Untold(c, says) /\ says # "running"
  <2>1. /\ told' = [told EXCEPT ![c] = Append(@, says)]
        /\ row' = [row EXCEPT ![c] = Stored(@)]
        /\ resume' = [resume EXCEPT ![c].at = IF @ = "queued" THEN "ended" ELSE @]
    BY <1>6 DEF Tell
  <2>2. told'[c] = Append(told[c], says)
    BY <1>1, <2>1, AppendTold
  <2>3. Results(c) = {}
    BY <1>1, <1>6 DEF ToldOK, Untold, Results
  <2>4. Results(c)' = {Len(told[c]) + 1} /\ told'[c][Len(told[c]) + 1] = says
    BY <1>1, <1>6, <2>2, <2>3, ResultsAppend
  <2>5. row'[c].handback = "stored"
    BY <1>1, <2>1, RowTypes DEF ConvexType
  <2>6. resume'[c].at \in {"none", "ended"}
    BY <1>1, <2>1, Names DEF ConvexType, ResumeOK
  <2>7. ToldOK(c)' /\ (row[c].handback = "stored" => Accounted(c))'
    BY <1>6, <2>4, <2>5, <2>6 DEF ToldOK, Accounted
  <2>8. QED
    BY <1>3, <2>7 DEF HeardInv
<1>7. QED
  BY <1>4, <1>5, <1>6

\* A resume is admitted for a child untold, and a duplicate marks a row only if
\* its result is there.
LEMMA ResumeHeard ==
  ASSUME StageInv, HeardInv, NEW c \in Child, NEW says \in Outcome,
         TryResume(c, says), UNCHANGED answer,
         \A d \in Child : child'[d] \in Early => child[d] \in Early
  PROVE  HeardInv'
<1>1. /\ told[c] \in Seq(Said) /\ row[c] \in Rows /\ ChildOK(c) /\ ResumeOK(c)
      /\ ToldOK(c) /\ (row[c].handback = "stored" => Accounted(c)) /\ ConvexType
  BY HistoryTyped DEF HeardInv, StageInv, TypeOK, ConvexType
<1>2. CASE UNCHANGED convex
  BY <1>2, HeardStill DEF convex
<1>3. CASE Duplicate(c) /\ Resume(c, says)
  <2>1. /\ UNCHANGED <<resume, turn, told>>
        /\ \/ UNCHANGED row
           \/ /\ row' = [row EXCEPT ![c] = Stored(@)]
              /\ ~(Untold(c, "completed") /\ Untold(c, "failed"))
    BY <1>3 DEF Resume
  <2>2. CASE UNCHANGED row
    BY <2>1, <2>2, HeardStill
  <2>3. CASE /\ row' = [row EXCEPT ![c] = Stored(@)]
             /\ ~(Untold(c, "completed") /\ Untold(c, "failed"))
    <3>1. Results(c) # {}
      BY <1>1, <2>3, SomeResult DEF Outcome
    <3>2. /\ row'[c].status = row[c].status /\ row'[c].handback = "stored"
          /\ \A d \in Child \ {c} : row'[d] = row[d]
      BY <1>1, <2>3, RowTypes DEF ConvexType
    <3>3. row[c].handback = "stored"
      BY <1>1, <3>1 DEF ToldOK
    <3>4. QED
      BY <2>1, <3>2, <3>3, HeardRow
  <2>4. QED
    BY <2>1, <2>2, <2>3
<1>4. CASE ~Duplicate(c) /\ Resume(c, says)
  <2>1. Admitted(c, says) /\ row[c].handback # "stored"
    BY <1>4 DEF Resume, Admitted, Duplicate
  <2>2. /\ UNCHANGED <<row, told>> /\ (turn' = Run => turn = Run)
        /\ \A d \in Child \ {c} : resume'[d] = resume[d]
    BY <1>1, <2>1, Names DEF Admitted, ConvexType
  <2>3. Results(c) = {}
    BY <1>1, <2>1 DEF ToldOK
  <2>4. \A d \in Child \ {c} : SameAt(d)
    BY <2>2 DEF SameAt
  <2>5. \A d \in Child \ {c} :
          ToldOK(d)' /\ (row[d].handback = "stored" => Accounted(d))'
    BY <2>2, <2>4, HeardElsewhere
  <2>6. Unheard(c)
    BY <2>2, <2>3 DEF Unheard
  <2>7. ToldOK(c)' /\ (row[c].handback = "stored" => Accounted(c))'
    BY <1>1, <2>1, <2>2, <2>6, ToldKept
  <2>8. QED
    BY <2>5, <2>7 DEF HeardInv
<1>5. QED
  BY <1>2, <1>3, <1>4 DEF TryResume

-----------------------------------------------------------------------------
(* Each action.                                                             *)

\* A mark never takes `stored` back, nor touches a status.
LEMMA MarkHeard ==
  ASSUME StageInv, HeardInv, NEW c \in Child,
         NEW to \in {"pending", "detached", "stored"},
         row' = [row EXCEPT ![c] = Marked(@, to)] \/ UNCHANGED row,
         to = "stored" =>
           row[c].status \in Hidden \/ answer[c] \in Hidden,
         UNCHANGED <<turn, resume, told, answer>>,
         \A d \in Child : child'[d] \in Early => child[d] \in Early
  PROVE  HeardInv'
<1>1. row \in [Child -> Rows] /\ row[c] \in Rows
  BY DEF StageInv, TypeOK
<1>2. /\ Marked(row[c], to) \in Rows /\ Marked(row[c], to).status = row[c].status
      /\ row[c].handback = "stored" => Marked(row[c], to) = row[c]
      /\ Marked(row[c], to).handback = "stored" =>
           row[c].handback = "stored" \/ to = "stored"
  BY <1>1, MarkedTypes DEF Marked, Rows
<1>3. /\ \A d \in Child \ {c} : row'[d] = row[d]
      /\ row'[c] \in {row[c], Marked(row[c], to)}
  BY <1>1, <1>2, RowSet
<1>4. QED
  BY <1>2, <1>3, HeardRow

LEMMA DeliverHeard ==
  ASSUME StageInv, HeardInv, NEW c \in Child, Deliver(c)
  PROVE  HeardInv'
<1>1. /\ child[c] = "finished" /\ UNCHANGED answer /\ ChildOK(c)
      /\ \A d \in Child : child'[d] \in Early => child[d] \in Early
  BY DEF StageInv, TypeOK, Deliver, Early
<1>2. answer[c] \in Outcome
  BY <1>1 DEF ChildOK, Late
<1>3. CASE /\ answer[c] \in Hidden
           /\ row' = [row EXCEPT ![c] = Marked(@, "stored")]
           /\ UNCHANGED <<turn, resume, told>>
  BY <1>1, <1>3, MarkHeard
<1>4. CASE UNCHANGED convex
  BY <1>1, <1>4, HeardStill DEF convex
<1>5. CASE TryResume(c, answer[c])
  BY <1>1, <1>2, <1>5, ResumeHeard
<1>6. QED
  BY <1>3, <1>4, <1>5 DEF Deliver

\* The head of what the run holds.
LEMMA HeadTold ==
  ASSUME StageInv, HoldsSome, run.at \in {"writing", "lastWrite", "handing"}
  PROVE  /\ Head(run.holds).of \in Child /\ Head(run.holds).says \in Said
         /\ Head(run.holds).says # "running" =>
              /\ child[Head(run.holds).of] \notin Early
              /\ Head(run.holds).says = answer[Head(run.holds).of]
              /\ Head(run.holds).says \in Outcome
BY HeadSettled DEF Said, Early, StageInv, HoldsSome

LEMMA PersistHeard ==
  ASSUME StageInv, HeardInv, Persist \/ PersistFails
  PROVE  HeardInv'
<1>1. UNCHANGED <<child, answer, turn>> /\ HoldsSome /\ Writes
  BY DEF Persist, PersistFails, StageInv
<1>2. CASE UNCHANGED <<told, row, resume>>
  BY <1>1, <1>2, HeardStill
<1>3. CASE turn = Run /\ Tell(Head(run.holds).of, Head(run.holds).says)
  BY <1>1, <1>3, HeadTold, TellHeard DEF Writes
<1>4. QED
  BY <1>2, <1>3 DEF Persist, PersistFails

LEMMA HandOverHeard ==
  ASSUME StageInv, HeardInv, HandOver
  PROVE  HeardInv'
<1>1. /\ run.at = "handing" /\ HoldsSome
      /\ UNCHANGED <<child, answer>>
  BY DEF HandOver, StageInv
<1>2. PICK m : m = Head(run.holds)
  OBVIOUS
<1>3. m.of \in Child /\ (m.says # "running" => m.says \in Outcome)
  BY <1>1, <1>2, HeadTold
<1>4. CASE UNCHANGED convex
  BY <1>1, <1>4, HeardStill DEF convex
<1>5. CASE /\ row' = [row EXCEPT ![m.of] = Marked(@, "detached")] \/ UNCHANGED row
           /\ UNCHANGED <<turn, resume, told>>
  BY <1>1, <1>3, <1>5, MarkHeard
<1>6. CASE m.says # "running" /\ TryResume(m.of, m.says)
  BY <1>1, <1>3, <1>6, ResumeHeard
<1>7. QED
  BY <1>2, <1>4, <1>5, <1>6 DEF HandOver

LEMMA RunHeard ==
  ASSUME StageInv, HeardInv, RunStep
  PROVE  HeardInv'
<1>1. CASE Persist \/ PersistFails
  BY <1>1, PersistHeard
<1>2. CASE HandOver
  BY <1>2, HandOverHeard
<1>3. ASSUME NEW c \in Child, MarkDetached(c) PROVE HeardInv'
  BY <1>3, MarkHeard DEF MarkDetached
<1>4. CASE \/ TakeParentMessages \/ DrainCompletions \/ DetachAll \/ ClosePasses
           \/ MarksDone \/ \E c \in Child : DetachTask(c)
  <2>1. UNCHANGED <<convex, child, answer>>
    BY <1>4 DEF TakeParentMessages, DrainCompletions, DetachAll, ClosePasses,
                MarksDone, DetachTask
  <2>2. QED
    BY <2>1, HeardStill DEF convex
<1>5. QED
  BY <1>1, <1>2, <1>3, <1>4 DEF RunStep

LEMMA QuietHeard ==
  ASSUME StageInv, HeardInv,
         \/ Crash \/ TurnEnds \/ \E c \in Child : Over(c) \/ SweepList(c)
  PROVE  HeardInv'
<1>1. UNCHANGED <<row, resume, told, answer>> /\ (turn' = Run => turn = Run)
  BY Names DEF Crash, TurnEnds, Over, SweepList, convex, memory
<1>2. \A d \in Child : child'[d] \in Early => child[d] \in Early
  BY DEF Crash, TurnEnds, Over, Forgotten, SweepList, memory, StageInv, TypeOK,
         Early
<1>3. QED
  BY <1>1, <1>2, HeardStill

\* A resume is handed the turn while its result is untold, and tells it once.
LEMMA PromoteHeard ==
  ASSUME StageInv, HeardInv, NEW c \in Child, Promote(c) \/ ResumeLost(c)
  PROVE  HeardInv'
<1>1. /\ UNCHANGED <<memory, row, told>> /\ (turn' = Run => turn = Run)
      /\ resume[c].at \in {"queued", "processing"}
      /\ \A d \in Child \ {c} : resume'[d] = resume[d]
  BY Names DEF Promote, ResumeLost, StageInv, TypeOK
<1>2. \A d \in Child \ {c} :
        ToldOK(d)' /\ (row[d].handback = "stored" => Accounted(d))'
  BY <1>1, HeardElsewhere DEF SameAt, memory
<1>3. ToldOK(c) /\ (row[c].handback = "stored" => Accounted(c))
  BY DEF HeardInv
<1>4. Results(c) = {}
  BY <1>1, <1>3 DEF ToldOK
<1>5. Unheard(c)
  BY <1>1, <1>4 DEF Unheard, memory
<1>6. ToldOK(c)' /\ (row[c].handback = "stored" => Accounted(c))'
  BY <1>1, <1>3, <1>5, HeardKept DEF memory
<1>7. QED
  BY <1>2, <1>6 DEF HeardInv

LEMMA ResumeTellsHeard ==
  ASSUME StageInv, HeardInv, NEW c \in Child, ResumeTells(c)
  PROVE  HeardInv'
<1>1. /\ told[c] \in Seq(Said) /\ row[c] \in Rows /\ ChildOK(c) /\ ResumeOK(c)
      /\ ToldOK(c) /\ ConvexType
  BY HistoryTyped DEF HeardInv, StageInv, TypeOK, ConvexType
<1>2. /\ UNCHANGED <<memory, listed>> /\ turn' = Nobody /\ turn' # Run
      /\ resume' = [resume EXCEPT ![c].at = "ended"]
      /\ turn = c
  BY Names DEF ResumeTells
<1>3. resume[c].at = "processing" /\ resume[c].says \in Outcome
  BY <1>1, <1>2 DEF ResumeOK
<1>4. Results(c) = {} /\ child[c] \notin Early
  BY <1>1, <1>3 DEF ToldOK, ChildOK
<1>5. /\ told' = [told EXCEPT ![c] = Append(@, resume[c].says)]
      /\ row' = [row EXCEPT ![c] = Stored(@)]
  BY <1>1, <1>3, <1>4, NoResultYet DEF ResumeTells
<1>6. resume[c].says \in Said /\ resume[c].says # "running"
  BY <1>3 DEF Said, Outcome
<1>7. /\ told'[c] = Append(told[c], resume[c].says)
      /\ \A d \in Child \ {c} : told'[d] = told[d]
  BY <1>1, <1>5, <1>6, AppendTold
<1>8. Results(c)' = {Len(told[c]) + 1}
  BY <1>1, <1>4, <1>6, <1>7, ResultsAppend
<1>9. /\ row'[c].handback = "stored"
      /\ \A d \in Child \ {c} : row'[d] = row[d] /\ resume'[d] = resume[d]
      /\ resume'[c].at = "ended"
  BY <1>1, <1>2, <1>5, RowTypes DEF ConvexType
<1>10. ToldOK(c)' /\ (row[c].handback = "stored" => Accounted(c))'
  BY <1>2, <1>4, <1>8, <1>9 DEF ToldOK, Accounted, memory
<1>11. \A d \in Child \ {c} :
         ToldOK(d)' /\ (row[d].handback = "stored" => Accounted(d))'
  BY <1>2, <1>7, <1>9, HeardElsewhere DEF SameAt, memory
<1>12. QED
  BY <1>10, <1>11 DEF HeardInv

\* A sweep writes `lost` over a running status only, and stores a hidden result
\* as its row says it is.
LEMMA SweepHeard ==
  ASSUME StageInv, HeardInv, NEW c \in Child, SweepLost(c) \/ SweepResumes(c)
  PROVE  HeardInv'
<1>1. UNCHANGED <<child, answer>> /\ ChildOK(c) /\ row \in [Child -> Rows]
      /\ listed[c] \subseteq Outcome \cup {"processing"}
  BY DEF SweepLost, SweepResumes, memory, StageInv, TypeOK
<1>2. CASE SweepLost(c)
  <2>1. /\ row[c] \in Rows /\ Lost(row[c]) \in Rows
        /\ row[c].status # "processing" => Lost(row[c]) = row[c]
        /\ Lost(row[c]).handback = "stored" <=> row[c].handback = "stored"
    BY <1>1, LostTypes
  <2>2. /\ \A d \in Child \ {c} : row'[d] = row[d]
        /\ row'[c] \in {row[c], Lost(row[c])}
    BY <1>1, <1>2, <2>1, RowSet DEF SweepLost
  <2>3. row[c].status \in Hidden => row'[c].status = row[c].status
    BY <2>1, <2>2 DEF Hidden
  <2>4. QED
    BY <1>1, <1>2, <2>1, <2>2, <2>3, HeardRow DEF SweepLost
<1>3. CASE SweepResumes(c)
  <2>1. PICK says \in listed[c] \ {"processing"} :
          \/ /\ says \in Hidden
             /\ \/ row' = [row EXCEPT ![c] = Marked(@, "stored")]
                \/ UNCHANGED row
             /\ UNCHANGED <<turn, resume, told>>
          \/ TryResume(c, says)
    BY <1>3 DEF SweepResumes
  <2>2. says \in Outcome /\ says = row[c].status
    BY <1>1, <2>1 DEF ChildOK
  <2>3. QED
    BY <1>1, <2>1, <2>2, MarkHeard, ResumeHeard
<1>4. QED
  BY <1>2, <1>3

LEMMA TickHeard ==
  ASSUME StageInv, HeardInv, Tick
  PROVE  HeardInv'
<1> SUFFICES ASSUME NEW c \in Child
             PROVE  ToldOK(c)' /\ (row[c].handback = "stored" => Accounted(c))'
  BY DEF HeardInv
<1>1. /\ ToldOK(c) /\ (row[c].handback = "stored" => Accounted(c))
      /\ row[c] \in Rows
  BY HistoryTyped DEF HeardInv
<1>2. row'[c].status = row[c].status /\ row'[c].handback = row[c].handback
  BY <1>1 DEF Tick, Rows
<1>3. UNCHANGED <<child, answer, turn, resume, told>>
  BY DEF Tick, memory
<1>4. Unheard(c)
  BY <1>2, <1>3 DEF Unheard
<1>5. QED
  BY <1>1, <1>2, <1>3, <1>4, HeardKept

-----------------------------------------------------------------------------

LEMMA InitHeard == Init => HeardInv
BY DEF Init, HeardInv, ToldOK, Results, Run, Nobody

LEMMA NextHeard == StageInv /\ HeardInv /\ [Next]_vars => HeardInv'
<1> SUFFICES ASSUME StageInv, HeardInv, [Next]_vars PROVE HeardInv'
  OBVIOUS
<1>1. CASE RunStep
  BY <1>1, RunHeard
<1>2. CASE Crash \/ TurnEnds
  BY <1>2, QuietHeard
<1>3. CASE Tick
  BY <1>3, TickHeard
<1>4. ASSUME NEW c \in Child, Dispatch(c) \/ ChildStep(c) PROVE HeardInv'
  BY <1>4, DispatchHeard, FinishHeard, DeliverHeard, QuietHeard DEF ChildStep
<1>5. ASSUME NEW c \in Child,
             ResumeStep(c) \/ ResumeLost(c) \/ SweepList(c) \/ SweepLost(c)
               \/ SweepResumes(c)
      PROVE HeardInv'
  BY <1>5, PromoteHeard, ResumeTellsHeard, QuietHeard, SweepHeard DEF ResumeStep
<1>6. CASE UNCHANGED vars
  BY <1>6, HeardStill DEF vars, memory, convex
<1>7. QED
  BY <1>1, <1>2, <1>3, <1>4, <1>5, <1>6 DEF Next

\* The parent hears one result of each child, whichever of the outbox, the
\* hand-over, the child's own resume and the sweeps brings it, and however many
\* of their calls fail.
THEOREM ToldAtMostOnce == Spec => []ToldOnce
<1>1. StageInv /\ HeardInv => ToldOnce
  <2> SUFFICES ASSUME HeardInv, NEW c \in Child
               PROVE  Cardinality(Results(c)) <= 1
    BY DEF ToldOnce
  <2>1. \A i, j \in Results(c) : i = j
    BY DEF HeardInv, ToldOK
  <2>2. CASE Results(c) = {}
    BY <2>2, FS_EmptySet
  <2>3. CASE Results(c) # {}
    <3>1. PICK i : Results(c) = {i}
      BY <2>1, <2>3
    <3>2. QED
      BY <3>1, FS_Singleton
  <2>4. QED
    BY <2>2, <2>3
<1>2. QED
  BY <1>1, InitStage, NextStage, InitHeard, NextHeard, PTL DEF Spec

\* A row that no sweep comes back to was told of, or its outcome is not for the
\* parent: no result is lost behind a mark.
THEOREM StoredSafe == Spec => []StoredIsTold
<1>1. HeardInv => StoredIsTold
  BY DEF HeardInv, StoredIsTold, Accounted
<1>2. QED
  BY <1>1, InitStage, NextStage, InitHeard, NextHeard, PTL DEF Spec

=============================================================================
