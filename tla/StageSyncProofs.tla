--------------------------- MODULE StageSyncProofs ---------------------------
(***************************************************************************)
(* Theorems about StageSync, for every set of stages, names and sessions,   *)
(* whatever the manifests declare and however many PUTs and faults there are. *)
(*                                                                         *)
(* The invariant says what a session may rely on between two of its steps.   *)
(* A step of one session is a frame for the others: while it writes, it       *)
(* touches its own stage only (RunFrame), and what it leaves alone keeps what  *)
(* the other sessions rely on (Undisturbed).                                 *)
(***************************************************************************)
EXTENDS StageSync, WellFoundedInduction, TLAPS

\* Row i is one of name n that stage s may use.
Refers(i, n, s) ==
  i \in 1 .. Len(rows) /\ rows[i].name = n /\ s \in rows[i].of

\* A server's row belongs to one stage, and what is recorded are rows of the
\* name and the stage.
StoreSound ==
  /\ \A i \in 1 .. Len(rows) : rows[i].name \in Servers =>
       \A s, t \in rows[i].of : s = t
  /\ \A s \in Stages, n \in External :
       records[s][n] # NoRow => Refers(records[s][n], n, s)

\* What agents refer to: rows of the stage, servers that are there.
AgentsResolve ==
  \A s \in Stages : \A a \in DOMAIN agents[s] : \A i \in agents[s][a] :
    /\ s \in rows[i].of
    /\ rows[i].name \in Servers => rows[i].active

\* A stage is written by one sync at a time.
Exclusive ==
  \A p, q \in Sessions :
    /\ sync[p].pc \in Running /\ sync[q].pc \in Running
    /\ sync[p].stage = sync[q].stage
    => p = q

\* The sync holds the claim of its revision; no revision is ahead of it.
HoldsClaim(p) ==
  /\ sync[p].revision =< claim[sync[p].stage].revision
  /\ sync[p].pc \in Running =>
       /\ claim[sync[p].stage].held
       /\ claim[sync[p].stage].revision = sync[p].revision
  /\ sync[p].pc \in {"put", "ask"} => sync[p].revision # NoRevision

\* The rows it wrote and found are those of its names; its servers are there.
RowsFound(p) ==
  /\ \A n \in External :
       /\ sync[p].ids[n] # NoRow =>
            /\ Refers(sync[p].ids[n], n, sync[p].stage)
            /\ n \in sync[p].manifest
            /\ n \in Servers => rows[sync[p].ids[n]].active
       /\ sync[p].seen[n] # NoRow => Refers(sync[p].seen[n], n, sync[p].stage)
  /\ sync[p].pc \notin Running => sync[p].ids = Nothing

\* What it is about to remove is the stage's and not declared.
OwnsWhatItRemoves(p) ==
  /\ \A i \in sync[p].owned :
       /\ i \in 1 .. Len(rows) /\ sync[p].stage \in rows[i].of
       /\ rows[i].name \notin sync[p].manifest
  /\ sync[p].pc \in {"own", "remove"} => sync[p].prune

\* What is done so far stays done: the records from "manifest" on, the agents
\* from "own" on, the end of what is not declared at "done".
Progress(p) ==
  LET y == sync[p] IN
  /\ y.pc \in Recorded => \A n \in y.manifest \cap External :
       y.ids[n] # NoRow /\ records[y.stage][n] = y.ids[n]
  /\ y.pc \in {"own", "remove", "done"} =>
       /\ \A a \in y.manifest \cap DOMAIN agents[y.stage] :
            agents[y.stage][a] = {y.ids[n] : n \in y.manifest \cap External}
       /\ y.prune => DOMAIN agents[y.stage] \subseteq y.manifest
  /\ y.pc = "done" /\ y.prune =>
       \A n \in External \ y.manifest : records[y.stage][n] = NoRow

\* A dev session whose revision is still the stage's.
Fresh(p) ==
  /\ sync[p].pc # "idle" /\ sync[p].dev /\ ~sync[p].torn
  /\ claim[sync[p].stage].revision = sync[p].revision

\* It read everything the stage lists, and nobody else writes the stage.
HasRead(p) ==
  Fresh(p) =>
    /\ Listed(sync[p].stage) \ sync[p].manifest \subseteq sync[p].deletes
    /\ \A i \in sync[p].owned : rows[i].name \in sync[p].deletes
    /\ Busy(sync[p].stage) => sync[p].pc \in Running

SessionInv(p) ==
  /\ HoldsClaim(p) /\ RowsFound(p) /\ OwnsWhatItRemoves(p)
  /\ Progress(p) /\ HasRead(p)

StageInv ==
  /\ TypeOK /\ StoreSound /\ AgentsResolve /\ Exclusive
  /\ \A p \in Sessions : SessionInv(p)

-----------------------------------------------------------------------------
(* Rows.                                                                    *)

LEMMA GreatestIsIn ==
  ASSUME NEW n \in Nat, NEW S \in SUBSET (1 .. n), S # {}
  PROVE  Max(S) \in S
<1> DEFINE R == {ss \in Nat \X Nat : ss[1] < ss[2]}
           T == {n - i : i \in S}
<1>1. IsWellFoundedOn(R, Nat)
  BY NatLessThanWellFounded DEF OpToRel
<1>2. T \subseteq Nat
  OBVIOUS
<1>3. PICK i \in S : TRUE
  OBVIOUS
<1>4. n - i \in T
  BY <1>3
<1> HIDE DEF R
<1>5. PICK x \in T : \A y \in T : ~ (<<y, x>> \in R)
  BY <1>1, <1>2, <1>4, WFMin
<1>6. PICK g \in S : x = n - g
  BY <1>5
<1>7. \A j \in S : g >= j
  <2> SUFFICES ASSUME NEW j \in S, ~(g >= j) PROVE FALSE
    OBVIOUS
  <2>1. n - j \in T /\ n - j < x /\ n - j \in Nat /\ x \in Nat
    BY <1>2, <1>5, <1>6
  <2>2. <<n - j, x>> \in R
    BY <2>1 DEF R
  <2>3. QED
    BY <2>1, <2>2, <1>5
<1>8. QED
  BY <1>7 DEF Max

\* What the queries find is an active row of the name and the stage.
LEMMA ActiveRowFound ==
  ASSUME TypeOK, NEW s \in Stages, NEW n \in External
  PROVE  /\ ActiveRow(s, n) \in 0 .. Len(rows)
         /\ ActiveRow(s, n) # NoRow =>
              Refers(ActiveRow(s, n), n, s) /\ rows[ActiveRow(s, n)].active
<1> DEFINE found == {i \in DOMAIN rows :
                       rows[i].active /\ rows[i].name = n /\ s \in rows[i].of}
<1>1. DOMAIN rows = 1 .. Len(rows) /\ Len(rows) \in Nat
  BY DEF TypeOK
<1>2. CASE found = {}
  BY <1>1, <1>2 DEF ActiveRow, NoRow
<1>3. CASE found # {}
  <2>1. found \in SUBSET (1 .. Len(rows))
    BY <1>1
  <2>2. Max(found) \in found
    BY <1>1, <1>3, <2>1, GreatestIsIn
  <2>3. ActiveRow(s, n) = Max(found)
    BY <1>3 DEF ActiveRow
  <2> QED
    BY <1>1, <2>2, <2>3 DEF Refers, NoRow
<1> QED
  BY <1>2, <1>3

LEMMA Typed ==
  ASSUME TypeOK
  PROVE  /\ DOMAIN rows = 1 .. Len(rows) /\ Len(rows) \in Nat
         /\ \A i \in 1 .. Len(rows) :
              rows[i] \in [name : External, of : SUBSET Stages, active : BOOLEAN]
         /\ \A s \in Stages : claim[s] \in [revision : Nat, held : BOOLEAN]
         /\ \A p \in Sessions : sync[p] \in Sync /\ sync[p].stage \in Stages
         /\ \A s \in Stages, n \in External : records[s][n] \in 0 .. Len(rows)
<1>1. DOMAIN rows = 1 .. Len(rows) /\ Len(rows) \in Nat
      /\ \A i \in 1 .. Len(rows) :
           rows[i] \in [name : External, of : SUBSET Stages, active : BOOLEAN]
  <2> DEFINE Row == [name : External, of : SUBSET Stages, active : BOOLEAN]
  <2>1. rows \in Seq(Row)
    BY DEF TypeOK
  <2> HIDE DEF Row
  <2>2. DOMAIN rows = 1 .. Len(rows) /\ Len(rows) \in Nat
        /\ \A i \in 1 .. Len(rows) : rows[i] \in Row
    BY <2>1
  <2>3. QED
    BY <2>2 DEF Row
<1>2. \A s \in Stages : claim[s] \in [revision : Nat, held : BOOLEAN]
  BY DEF TypeOK
<1>3. \A p \in Sessions : sync[p] \in Sync /\ sync[p].stage \in Stages
  BY DEF TypeOK, Sync
<1>4. \A s \in Stages, n \in External : records[s][n] \in 0 .. Len(rows)
  BY DEF TypeOK
<1>5. QED
  BY <1>1, <1>2, <1>3, <1>4

-----------------------------------------------------------------------------
(* What a step of one session means to another.                             *)

\* Rows are added and given up, never renamed or moved.
RowsGrow ==
  /\ Len(rows) =< Len(rows')
  /\ \A i \in 1 .. Len(rows) :
       rows'[i].name = rows[i].name /\ rows'[i].of = rows[i].of

\* What session q, at stage s, relies on is left alone.
Undisturbed(q, s) ==
  /\ sync'[q] = sync[q]
  /\ RowsGrow
  /\ \A n \in Servers :
       sync[q].ids[n] # NoRow => rows'[sync[q].ids[n]].active
  /\ sync[q].pc \in Running =>
       /\ claim'[s] = claim[s] /\ records'[s] = records[s]
       /\ DOMAIN agents'[s] \subseteq DOMAIN agents[s]
       /\ \A a \in DOMAIN agents'[s] : agents'[s][a] = agents[s][a]
  /\ claim[s].revision =< claim'[s].revision
  /\ Fresh(q)' => /\ Fresh(q) /\ Listed(s)' \subseteq Listed(s)
                  /\ Busy(s)' => sync[q].pc \in Running \/ Busy(s)

LEMMA RefersStays ==
  ASSUME TypeOK, TypeOK', RowsGrow, NEW i, NEW n, NEW s, Refers(i, n, s)
  PROVE  Refers(i, n, s)'
<1>1. Len(rows) \in Nat /\ Len(rows') \in Nat
  BY DEF TypeOK
<1>2. QED
  BY <1>1 DEF Refers, RowsGrow

LEMMA KeptSession ==
  ASSUME TypeOK, TypeOK', NEW q \in Sessions, SessionInv(q),
         NEW s \in Stages, s = sync[q].stage, Undisturbed(q, s)
  PROVE  SessionInv(q)'
<1> USE DEF Undisturbed
<1>1. HoldsClaim(q)'
  <2>1. claim[s].revision \in Nat /\ claim'[s].revision \in Nat
        /\ sync[q].revision \in Int
    BY DEF TypeOK, Sync, NoRevision
  <2>2. QED
    BY <2>1 DEF HoldsClaim, SessionInv
<1>2. RowsFound(q)'
  BY RefersStays DEF RowsFound, SessionInv, External
<1>3. OwnsWhatItRemoves(q)'
  BY Typed DEF OwnsWhatItRemoves, SessionInv, RowsGrow, TypeOK
<1>4. Progress(q)'
  BY DEF Progress, SessionInv, Running, Writing, Recorded
<1>5. HasRead(q)'
  <2> SUFFICES ASSUME Fresh(q)'
               PROVE  /\ Listed(s)' \ sync[q].manifest \subseteq sync[q].deletes
                      /\ \A i \in sync[q].owned : rows'[i].name \in sync[q].deletes
                      /\ Busy(s)' => sync[q].pc \in Running
    BY DEF HasRead
  <2>1. Fresh(q) /\ HasRead(q) /\ OwnsWhatItRemoves(q)
    BY DEF SessionInv
  <2>2. QED
    BY <2>1 DEF HasRead, OwnsWhatItRemoves, RowsGrow
<1>6. QED
  BY <1>1, <1>2, <1>3, <1>4, <1>5 DEF SessionInv

\* What a session found and may remove stays true while the rows and the fields
\* it speaks of are left alone.
LEMMA FoundStays ==
  ASSUME NEW p \in Sessions, RowsFound(p), rows' = rows,
         sync'[p].stage = sync[p].stage, sync'[p].manifest = sync[p].manifest,
         sync'[p].ids = sync[p].ids, sync'[p].seen = sync[p].seen,
         sync'[p].pc \notin Running => sync[p].pc \notin Running
  PROVE  RowsFound(p)'
BY DEF RowsFound, Refers

LEMMA OwnedStays ==
  ASSUME NEW p \in Sessions, OwnsWhatItRemoves(p), rows' = rows,
         sync'[p].stage = sync[p].stage, sync'[p].manifest = sync[p].manifest,
         sync'[p].owned = sync[p].owned, sync'[p].pc \notin {"own", "remove"}
  PROVE  OwnsWhatItRemoves(p)'
BY DEF OwnsWhatItRemoves

\* A step of a running sync: what it leaves alone.
RunFrame(p, s) ==
  /\ sync[p].pc \in Running
  /\ \A q \in Sessions \ {p} : sync'[q] = sync[q]
  /\ sync'[p].pc \in Running => sync'[p].stage = s
  /\ \A t \in Stages \ {s} :
       claim'[t] = claim[t] /\ records'[t] = records[t] /\ agents'[t] = agents[t]
  /\ claim'[s].revision = claim[s].revision
  /\ RowsGrow
  /\ \A i \in 1 .. Len(rows) :
       rows[i].active => rows'[i].active \/ s \in rows[i].of

\* It leaves the other sessions alone, for it is the only one that writes its
\* stage, and a session that read the stage before it did is not fresh.
LEMMA RunningDisturbsNobody ==
  ASSUME StageInv, TypeOK', NEW p \in Sessions, NEW s \in Stages,
         s = sync[p].stage, RunFrame(p, s),
         NEW q \in Sessions \ {p}, NEW t \in Stages, t = sync[q].stage
  PROVE  Undisturbed(q, t)
<1>1. sync'[q] = sync[q] /\ RowsGrow
  BY DEF RunFrame
<1>2. SessionInv(q) /\ TypeOK /\ StoreSound /\ Exclusive
  BY DEF StageInv
<1>3. sync[q].pc \in Running => s # t
  BY <1>2 DEF RunFrame, Exclusive
<1>4. ASSUME NEW n \in Servers, sync[q].ids[n] # NoRow
      PROVE  rows'[sync[q].ids[n]].active
  <2> DEFINE i == sync[q].ids[n]
  <2>1. Refers(i, n, t) /\ rows[i].active /\ sync[q].pc \in Running
    BY <1>2, <1>4 DEF SessionInv, RowsFound, External, Nothing
  <2>2. s \notin rows[i].of
    BY <1>2, <1>3, <2>1 DEF Refers, StoreSound
  <2>3. QED
    BY <2>1, <2>2 DEF RunFrame, Refers
<1>5. sync[q].pc \in Running =>
        /\ claim'[t] = claim[t] /\ records'[t] = records[t]
        /\ agents'[t] = agents[t]
  BY <1>3 DEF RunFrame
<1>6. claim[t].revision =< claim'[t].revision
  <2>1. claim[t].revision \in Nat
    BY <1>2, Typed
  <2>2. claim'[t].revision = claim[t].revision
    BY DEF RunFrame
  <2>3. QED
    BY <2>1, <2>2
<1>7. ASSUME Fresh(q)'
      PROVE  /\ Fresh(q) /\ Listed(t)' \subseteq Listed(t)
             /\ Busy(t)' => sync[q].pc \in Running \/ Busy(t)
  <2>1. Fresh(q)
    BY <1>1, <1>7 DEF Fresh, RunFrame
  <2>2. CASE s = t
    <3>1. Busy(t)
      BY <2>2 DEF Busy, RunFrame
    <3>2. QED
      BY <1>2, <1>3, <2>1, <2>2, <3>1 DEF SessionInv, HasRead
  <2>3. CASE s # t
    <3>1. Listed(t)' = Listed(t)
      BY <2>3 DEF Listed, RunFrame
    <3>2. Busy(t)' => Busy(t)
      BY <2>3 DEF Busy, RunFrame
    <3>3. QED
      BY <2>1, <3>1, <3>2
  <2>4. QED
    BY <2>2, <2>3
<1>8. QED
  BY <1>1, <1>4, <1>5, <1>6, <1>7 DEF Undisturbed

LEMMA RunningStep ==
  ASSUME StageInv, TypeOK', StoreSound', AgentsResolve',
         NEW p \in Sessions, NEW s \in Stages, s = sync[p].stage,
         RunFrame(p, s), SessionInv(p)'
  PROVE  StageInv'
<1>1. Exclusive'
  BY DEF StageInv, Exclusive, RunFrame
<1>2. ASSUME NEW q \in Sessions \ {p}
      PROVE  SessionInv(q)'
  <2>1. sync[q].stage \in Stages
    BY Typed DEF StageInv
  <2>2. Undisturbed(q, sync[q].stage)
    BY <2>1, RunningDisturbsNobody
  <2>3. QED
    BY <2>1, <2>2, KeptSession DEF StageInv
<1>3. QED
  BY <1>1, <1>2 DEF StageInv

\* A step of a session that does not write: its stage, whose revision may move on.
IdleFrame(p, s) ==
  /\ sync[p].pc \notin Running
  /\ \A q \in Sessions \ {p} : sync'[q] = sync[q]
  /\ UNCHANGED store
  /\ \/ sync'[p].pc \notin Running /\ claim' = claim
     \/ /\ ~claim[s].held /\ sync'[p].stage = s
        /\ \A t \in Stages \ {s} : claim'[t] = claim[t]
        /\ claim[s].revision < claim'[s].revision

LEMMA IdleStep ==
  ASSUME StageInv, TypeOK', NEW p \in Sessions, NEW s \in Stages,
         IdleFrame(p, s), SessionInv(p)'
  PROVE  StageInv'
<1>1. TypeOK /\ StoreSound /\ AgentsResolve /\ Exclusive
      /\ \A q \in Sessions : SessionInv(q)
  BY DEF StageInv
<1>2. StoreSound' /\ AgentsResolve' /\ RowsGrow
  BY <1>1, Typed DEF StoreSound, AgentsResolve, IdleFrame, store, Refers, RowsGrow
<1>3. ASSUME NEW q \in Sessions \ {p}, sync'[p].pc \in Running,
             sync[q].pc \in Running
      PROVE  sync[q].stage # s
  <2>1. ~claim[s].held
    BY <1>3 DEF IdleFrame
  <2>2. claim[sync[q].stage].held
    BY <1>1, <1>3 DEF SessionInv, HoldsClaim
  <2>3. QED
    BY <2>1, <2>2
<1>4. Exclusive'
  BY <1>1, <1>3 DEF Exclusive, IdleFrame
<1>5. ASSUME NEW q \in Sessions \ {p}, NEW t \in Stages, t = sync[q].stage
      PROVE  Undisturbed(q, t)
  <2>1. sync'[q] = sync[q] /\ SessionInv(q)
    BY <1>1 DEF IdleFrame
  <2>2. \A n \in Servers : sync[q].ids[n] # NoRow =>
          rows'[sync[q].ids[n]].active
    BY <2>1 DEF SessionInv, RowsFound, IdleFrame, store, External
  <2>3. records'[t] = records[t] /\ agents'[t] = agents[t]
    BY DEF IdleFrame, store
  <2>4. claim[t].revision \in Nat /\ claim'[t].revision \in Nat
        /\ sync[q].revision \in Int
    <3>1. /\ claim \in [Stages -> [revision : Nat, held : BOOLEAN]]
          /\ claim' \in [Stages -> [revision : Nat, held : BOOLEAN]]
      BY <1>1 DEF TypeOK
    <3>2. sync[q] \in Sync
      BY <1>1, Typed
    <3>3. QED
      BY <3>1, <3>2 DEF Sync, NoRevision
  <2>5. CASE claim' = claim /\ sync'[p].pc \notin Running
    <3>1. Busy(t)' => Busy(t)
      BY <2>5 DEF Busy, IdleFrame
    <3>2. claim'[t] = claim[t] /\ claim[t].revision =< claim'[t].revision
      BY <2>4, <2>5
    <3>3. Fresh(q)' => Fresh(q)
      BY <1>5, <2>1, <3>2 DEF Fresh
    <3>4. Listed(t)' = Listed(t)
      BY <2>3 DEF Listed
    <3>5. QED
      BY <1>2, <2>1, <2>2, <2>3, <3>1, <3>2, <3>3, <3>4 DEF Undisturbed
  <2>6. CASE s = t /\ ~claim[s].held /\ claim[s].revision < claim'[s].revision
    <3>1. sync[q].pc \notin Running
      BY <2>1, <2>6, <1>5 DEF SessionInv, HoldsClaim
    <3>2. ~Fresh(q)'
      BY <1>5, <2>1, <2>4, <2>6 DEF SessionInv, HoldsClaim, Fresh
    <3>3. QED
      BY <1>2, <2>1, <2>2, <2>4, <2>6, <3>1, <3>2 DEF Undisturbed
  <2>7. CASE /\ s # t /\ sync'[p].stage = s
             /\ \A u \in Stages \ {s} : claim'[u] = claim[u]
    <3>1. Busy(t)' => Busy(t)
      BY <2>7 DEF Busy, IdleFrame
    <3>2. claim'[t] = claim[t] /\ claim[t].revision =< claim'[t].revision
      BY <2>4, <2>7
    <3>3. Fresh(q)' => Fresh(q)
      BY <1>5, <2>1, <3>2 DEF Fresh
    <3>4. Listed(t)' = Listed(t)
      BY <2>3 DEF Listed
    <3>5. QED
      BY <1>2, <2>1, <2>2, <2>3, <3>1, <3>2, <3>3, <3>4 DEF Undisturbed
  <2>8. QED
    BY <2>5, <2>6, <2>7 DEF IdleFrame
<1>6. ASSUME NEW q \in Sessions \ {p}
      PROVE  SessionInv(q)'
  <2>1. sync[q].stage \in Stages
    BY <1>1, Typed
  <2>2. QED
    BY <1>1, <1>5, <2>1, KeptSession
<1>7. QED
  BY <1>2, <1>4, <1>6 DEF StageInv

-----------------------------------------------------------------------------
(* Types of what the steps write.                                           *)

Fits(p) ==
  /\ sync[p] \in Sync
  /\ \A n \in External : {sync[p].ids[n], sync[p].seen[n]} \subseteq 0 .. Len(rows)
  /\ sync[p].owned \subseteq 1 .. Len(rows)
  /\ sync[p].pc \in Recorded => \A n \in sync[p].manifest \cap External :
                                  sync[p].ids[n] # NoRow

LEMMA FitsStays ==
  ASSUME NEW p \in Sessions, Fits(p), rows' = rows, sync'[p] \in Sync,
         sync'[p].ids = sync[p].ids, sync'[p].seen = sync[p].seen,
         sync'[p].owned = sync[p].owned, sync'[p].pc \notin Recorded
  PROVE  Fits(p)'
BY DEF Fits

LEMMA SyncTyped ==
  ASSUME TypeOK, NEW p \in Sessions, sync' = [sync EXCEPT ![p] = sync'[p]],
         Len(rows) =< Len(rows'), Len(rows') \in Nat, Fits(p)'
  PROVE  /\ sync' \in [Sessions -> Sync]
         /\ \A q \in Sessions : Fits(q)'
         /\ \A q \in Sessions \ {p} : sync'[q] = sync[q]
<1>1. sync' \in [Sessions -> Sync]
  BY DEF TypeOK, Fits
<1>2. \A q \in Sessions \ {p} : sync'[q] = sync[q]
  BY DEF TypeOK
<1>3. ASSUME NEW q \in Sessions \ {p}
      PROVE  Fits(q)'
  <2>1. Fits(q) /\ Len(rows) \in Nat
    BY DEF TypeOK, Fits
  <2>2. QED
    BY <1>2, <2>1 DEF Fits
<1>4. QED
  BY <1>1, <1>2, <1>3

\* Only the session, what was declined and the faults change.
LEMMA SessionTyped ==
  ASSUME TypeOK, NEW p \in Sessions, sync' = [sync EXCEPT ![p] = sync'[p]],
         UNCHANGED store, Fits(p)',
         claim' \in [Stages -> [revision : Nat, held : BOOLEAN]],
         declined' \in [Sessions -> SUBSET Resource], faults' \in 0 .. MaxFaults
  PROVE  /\ TypeOK'
         /\ \A q \in Sessions \ {p} : sync'[q] = sync[q]
<1>1. rows' = rows /\ records' = records /\ agents' = agents
  BY DEF store
<1>2. Len(rows) \in Nat
  BY Typed
<1>3. /\ sync' \in [Sessions -> Sync]
      /\ \A q \in Sessions : Fits(q)'
      /\ \A q \in Sessions \ {p} : sync'[q] = sync[q]
  BY <1>1, <1>2, SyncTyped
<1>4. TypeOK'
  BY <1>1, <1>3 DEF TypeOK, Fits
<1>5. QED
  BY <1>3, <1>4

LEMMA IdleFields ==
  /\ Idle.pc = "idle" /\ Idle.pc \notin Running /\ Idle' = Idle
  /\ Idle.ids = Nothing /\ Idle.seen = Nothing /\ Idle.owned = {}
BY DEF Idle, Running, Writing, Recorded

\* A session that does nothing is typed and sound.
IdleHarmless ==
  \A p \in Sessions : sync[p] = Idle =>
    /\ Len(rows) \in Nat => Fits(p)
    /\ TypeOK => SessionInv(p)

LEMMA IdleSession == IdleHarmless
<1> SUFFICES ASSUME NEW p \in Sessions, sync[p] = Idle
             PROVE  /\ Len(rows) \in Nat => Fits(p)
                    /\ TypeOK => SessionInv(p)
  BY DEF IdleHarmless
<1>1. ASSUME Len(rows) \in Nat
      PROVE  Fits(p)
  <2>1. Idle \in Sync
    BY StageSyncAssumption DEF Idle, Sync, Nothing, NoRow, NoRevision
  <2>2. QED
    BY <1>1, <2>1 DEF Fits, Idle, Nothing, NoRow, Recorded
<1>2. ASSUME TypeOK
      PROVE  SessionInv(p)
  <2>1. sync[p].stage \in Stages /\ claim[sync[p].stage].revision \in Nat
    BY <1>2, Typed
  <2>2. HoldsClaim(p)
    BY <2>1 DEF HoldsClaim, Idle, NoRevision, Running, Writing, Recorded
  <2>3. RowsFound(p)
    BY DEF RowsFound, Idle, Nothing, NoRow
  <2>4. OwnsWhatItRemoves(p) /\ Progress(p)
    BY DEF OwnsWhatItRemoves, Progress, Idle, Recorded
  <2>5. HasRead(p)
    BY DEF HasRead, Fresh, Idle
  <2>6. QED
    BY <2>2, <2>3, <2>4, <2>5 DEF SessionInv
<1>3. QED
  BY <1>1, <1>2

LEMMA IdleSessionNext == IdleHarmless'
BY IdleSession, PTL

LEMMA InitInv == Init => StageInv
<1> SUFFICES ASSUME Init PROVE StageInv
  OBVIOUS
<1>1. \A p \in Sessions : sync[p] = Idle
  BY DEF Init
<1>2. rows = <<>> /\ Len(rows) = 0
  BY DEF Init
<1>3. \A p \in Sessions : Fits(p)
  BY <1>1, <1>2, IdleSession DEF IdleHarmless
<1>4. TypeOK
  <2>1. rows \in Seq([name : External, of : SUBSET Stages, active : BOOLEAN])
    BY DEF Init
  <2>2. /\ records \in [Stages -> [External -> 0 .. Len(rows)]]
        /\ claim \in [Stages -> [revision : Nat, held : BOOLEAN]]
        /\ declined \in [Sessions -> SUBSET Resource]
        /\ faults \in 0 .. MaxFaults
    BY <1>2, StageSyncAssumption DEF Init, Nothing, NoRow
  <2>3. /\ agents = [s \in Stages |-> agents[s]]
        /\ \A s \in Stages :
             /\ DOMAIN agents[s] \subseteq Agents
             /\ agents[s] \in [DOMAIN agents[s] -> SUBSET (1 .. Len(rows))]
    BY DEF Init
  <2>4. sync \in [Sessions -> Sync]
    BY <1>3 DEF Init, Fits
  <2>5. QED
    BY <1>3, <2>1, <2>2, <2>3, <2>4 DEF TypeOK, Fits
<1>5. StoreSound
  BY <1>2 DEF StoreSound, Init, Nothing
<1>6. AgentsResolve
  BY DEF AgentsResolve, Init
<1>7. Exclusive
  BY <1>1, IdleFields DEF Exclusive
<1>8. QED
  BY <1>1, <1>4, <1>5, <1>6, <1>7, IdleSession DEF StageInv, IdleHarmless

-----------------------------------------------------------------------------
(* The sessions.                                                            *)

LEMMA GetKeeps ==
  ASSUME StageInv, NEW p \in Sessions, NEW s \in Stages, NEW m \in Manifests[s],
         Get(p, s, m)
  PROVE  StageInv'
<1> DEFINE y == [Idle EXCEPT !.pc = "put", !.dev = TRUE, !.stage = s,
                   !.manifest = m, !.revision = claim[s].revision,
                   !.deletes = Listed(s) \ m, !.torn = Busy(s)]
<1>1. TypeOK /\ sync' = [sync EXCEPT ![p] = y] /\ sync[p].pc = "idle"
      /\ UNCHANGED <<store, claim, declined, faults>>
  BY DEF StageInv, Get
<1>2. sync'[p] = y
  BY <1>1 DEF TypeOK
<1>3. y.pc = "put" /\ y.stage = s /\ y.manifest = m /\ y.dev
      /\ y.revision = claim[s].revision /\ y.deletes = Listed(s) \ m
      /\ y.torn = Busy(s) /\ y.ids = Nothing /\ y.seen = Nothing /\ y.owned = {}
      /\ y.prune = FALSE
  BY DEF Idle
<1>4. m \subseteq Resource /\ Listed(s) \subseteq Resource
      /\ claim[s].revision \in Nat /\ Len(rows) \in Nat
  BY <1>1, Typed, StageSyncAssumption DEF Listed, TypeOK, Resource
<1>5. y \in Sync
  BY <1>4 DEF Idle, Sync, Nothing, NoRow, Busy
<1> HIDE DEF y
<1>6. Fits(p)'
  BY <1>1, <1>2, <1>3, <1>4, <1>5 DEF Fits, Nothing, NoRow, Recorded, store
<1>7. TypeOK' /\ \A q \in Sessions \ {p} : sync'[q] = sync[q]
  BY <1>1, <1>2, <1>6, SessionTyped DEF TypeOK
<1>8. HoldsClaim(p)'
  BY <1>1, <1>2, <1>3, <1>4
  DEF HoldsClaim, Running, Writing, Recorded, NoRevision
<1>9. RowsFound(p)' /\ OwnsWhatItRemoves(p)' /\ Progress(p)'
  BY <1>2, <1>3
  DEF RowsFound, OwnsWhatItRemoves, Progress, Nothing, Recorded
<1>10. HasRead(p)'
  <2>1. Listed(s)' = Listed(s) /\ (Busy(s)' => Busy(s))
    BY <1>1, <1>2, <1>3, <1>7
    DEF Listed, Busy, store, Running, Writing, Recorded
  <2>2. QED
    BY <1>2, <1>3, <2>1 DEF HasRead, Fresh
<1>11. IdleFrame(p, s)
  BY <1>1, <1>2, <1>3, <1>7 DEF IdleFrame, Running, Writing, Recorded
<1>12. QED
  BY <1>7, <1>8, <1>9, <1>10, <1>11, IdleStep DEF SessionInv

\* A session that ends without having written.
LEMMA GivesUp ==
  ASSUME StageInv, NEW p \in Sessions, sync[p].pc \in {"put", "ask"},
         sync' = [sync EXCEPT ![p] = Idle], UNCHANGED <<store, claim, faults>>,
         declined' \in [Sessions -> SUBSET Resource]
  PROVE  StageInv'
<1>1. TypeOK /\ sync'[p] = Idle
  BY DEF StageInv, TypeOK
<1>2. Fits(p)'
  BY <1>1, IdleSessionNext, IdleFields, Typed DEF store, IdleHarmless
<1>3. TypeOK' /\ \A q \in Sessions \ {p} : sync'[q] = sync[q]
  BY <1>1, <1>2, SessionTyped DEF TypeOK
<1>4. SessionInv(p)'
  BY <1>1, <1>3, IdleSessionNext, IdleFields DEF IdleHarmless
<1>5. IdleFrame(p, sync[p].stage)
  BY <1>1, <1>3, IdleFields DEF IdleFrame, Running, Writing, Recorded
<1>6. QED
  BY <1>1, <1>3, <1>4, <1>5, IdleStep, Typed

LEMMA ConfirmKeeps ==
  ASSUME StageInv, NEW p \in Sessions, Confirm(p)
  PROVE  StageInv'
<1>1. TypeOK /\ sync[p].pc = "ask" /\ Fits(p) /\ SessionInv(p)
      /\ sync' = [sync EXCEPT ![p] = sync'[p]]
      /\ sync'[p] = [sync[p] EXCEPT !.pc = "put", !.prune = TRUE]
      /\ UNCHANGED <<store, claim, declined, faults>>
  BY DEF StageInv, TypeOK, Fits, Confirm
<1>2. /\ sync[p].stage \in Stages /\ sync'[p].stage = sync[p].stage
      /\ sync'[p].pc = "put" /\ sync'[p].ids = sync[p].ids
      /\ sync'[p].seen = sync[p].seen /\ sync'[p].owned = sync[p].owned
      /\ sync'[p].manifest = sync[p].manifest /\ sync'[p].dev = sync[p].dev
      /\ sync'[p].torn = sync[p].torn /\ sync'[p].deletes = sync[p].deletes
      /\ sync'[p].revision = sync[p].revision
  BY <1>1 DEF Fits, Sync
<1>3. Fits(p)'
  <2>1. sync'[p] \in Sync
    BY <1>1 DEF Fits, Sync
  <2>2. rows' = rows /\ sync'[p].pc \notin Recorded
    BY <1>1, <1>2 DEF store, Recorded
  <2>3. QED
    BY <1>1, <1>2, <2>1, <2>2, FitsStays
<1>4. TypeOK' /\ \A q \in Sessions \ {p} : sync'[q] = sync[q]
  BY <1>1, <1>3, SessionTyped DEF TypeOK
<1>5. SessionInv(p)'
  <2> rows' = rows
    BY <1>1 DEF store
  <2>0. sync[p].pc \notin Running
    BY <1>1 DEF Running, Writing, Recorded
  <2>1. HoldsClaim(p)'
    <3>1. HoldsClaim(p) /\ claim' = claim /\ sync'[p].pc \notin Running
      BY <1>1, <1>2 DEF SessionInv, Running, Writing, Recorded
    <3>2. QED
      BY <1>1, <1>2, <3>1 DEF HoldsClaim
  <2>2. RowsFound(p)' /\ OwnsWhatItRemoves(p)' /\ Progress(p)'
    <3>1. RowsFound(p) /\ OwnsWhatItRemoves(p)
      BY <1>1 DEF SessionInv
    <3>2. RowsFound(p)'
      BY <1>2, <2>0, <3>1, FoundStays
    <3>3. OwnsWhatItRemoves(p)'
      BY <1>2, <3>1, OwnedStays
    <3>4. Progress(p)'
      BY <1>2 DEF Progress, Recorded
    <3>5. QED
      BY <3>2, <3>3, <3>4
  <2>3. HasRead(p)'
    <3>1. HasRead(p) /\ sync'[p].pc \notin Running
      BY <1>1, <1>2 DEF SessionInv, Running, Writing, Recorded
    <3>2. Fresh(p)' => Fresh(p)
      BY <1>1, <1>2 DEF Fresh
    <3>3. Listed(sync[p].stage)' = Listed(sync[p].stage)
      BY <1>1, <1>2 DEF Listed, store
    <3>4. Busy(sync[p].stage)' => Busy(sync[p].stage)
      BY <1>2, <1>4, <3>1 DEF Busy
    <3>5. QED
      BY <1>2, <2>0, <3>1, <3>2, <3>3, <3>4 DEF HasRead
  <2>4. QED
    BY <2>1, <2>2, <2>3 DEF SessionInv
<1>6. IdleFrame(p, sync[p].stage)
  BY <1>1, <1>2, <1>4 DEF IdleFrame, Running, Writing, Recorded
<1>7. QED
  BY <1>2, <1>4, <1>5, <1>6, IdleStep

\* The first step of a PUT, of a session that relied on nothing it loses by it.
LEMMA ClaimKeeps ==
  ASSUME StageInv, NEW p \in Sessions, NEW s \in Stages,
         sync[p].pc \notin Running, ~claim[s].held,
         claim' = [claim EXCEPT ![s] =
                      [revision |-> @.revision + 1, held |-> TRUE]],
         sync' = [sync EXCEPT ![p] = sync'[p]],
         sync'[p].stage = s, sync'[p].revision = claim[s].revision + 1,
         sync'[p].pc \in {"fence", "list", "external"}, sync'[p].ids = Nothing,
         UNCHANGED <<store, declined, faults>>,
         Fits(p)', RowsFound(p)', OwnsWhatItRemoves(p)', HasRead(p)'
  PROVE  StageInv'
<1>1. TypeOK /\ claim[s].revision \in Nat
  BY Typed DEF StageInv
<1>2. claim' \in [Stages -> [revision : Nat, held : BOOLEAN]]
      /\ claim'[s].revision = claim[s].revision + 1 /\ claim'[s].held
      /\ \A t \in Stages \ {s} : claim'[t] = claim[t]
  <2> DEFINE Claimed == [revision : Nat, held : BOOLEAN]
  <2>1. claim \in [Stages -> Claimed]
    BY <1>1 DEF TypeOK
  <2>2. [revision |-> claim[s].revision + 1, held |-> TRUE] \in Claimed
    BY <1>1
  <2> HIDE DEF Claimed
  <2>3. claim' \in [Stages -> Claimed]
        /\ claim'[s] = [revision |-> claim[s].revision + 1, held |-> TRUE]
        /\ \A t \in Stages \ {s} : claim'[t] = claim[t]
    BY <2>1, <2>2
  <2>4. QED
    BY <2>3 DEF Claimed
<1>3. TypeOK' /\ \A q \in Sessions \ {p} : sync'[q] = sync[q]
  BY <1>1, <1>2, SessionTyped DEF TypeOK
<1>4. HoldsClaim(p)' /\ Progress(p)'
  BY <1>1, <1>2 DEF HoldsClaim, Progress, Recorded
<1>5. IdleFrame(p, s)
  BY <1>1, <1>2, <1>3 DEF IdleFrame
<1>6. QED
  BY <1>3, <1>4, <1>5, IdleStep DEF SessionInv

LEMMA StartIsWriting == ASSUME NEW m PROVE Start(m) \in {"list", "external"}
BY DEF Start

LEMMA PutKeeps ==
  ASSUME StageInv, NEW p \in Sessions, Put(p)
  PROVE  StageInv'
<1>1. TypeOK /\ sync[p].pc = "put" /\ Fits(p) /\ SessionInv(p)
  BY DEF StageInv, TypeOK, Fits, Put
<1> DEFINE s == sync[p].stage
<1>2. s \in Stages /\ ~claim[s].held /\ UNCHANGED <<store, declined, faults>>
      /\ claim' = [claim EXCEPT ![s] =
                      [revision |-> @.revision + 1, held |-> TRUE]]
      /\ sync' = [sync EXCEPT ![p] = sync'[p]]
      /\ sync'[p] = [sync[p] EXCEPT !.pc = Start(sync[p].manifest),
                                    !.revision = claim[s].revision + 1]
      /\ sync[p].revision = claim[s].revision /\ claim[s].revision \in Nat
  BY <1>1 DEF Put, Admits, Claim, TypeOK, Sync, SessionInv, HoldsClaim
<1>3. sync[p].pc \notin Running /\ Fresh(p) = (sync[p].dev /\ ~sync[p].torn)
  BY <1>1, <1>2 DEF Running, Writing, Recorded, Fresh, Fits, Sync
<1>4. /\ sync'[p].stage = s /\ sync'[p].revision = claim[s].revision + 1
      /\ sync'[p].pc \in {"list", "external"} /\ sync'[p].ids = Nothing
      /\ sync'[p].manifest = sync[p].manifest /\ sync'[p].seen = sync[p].seen
      /\ sync'[p].owned = sync[p].owned /\ sync'[p].dev = sync[p].dev
      /\ sync'[p].torn = sync[p].torn /\ sync'[p].deletes = sync[p].deletes
      /\ sync'[p] \in Sync
  <2>1. sync[p] \in Sync /\ sync[p].ids = Nothing
    BY <1>1, <1>3 DEF Fits, SessionInv, RowsFound
  <2> DEFINE pc == Start(sync[p].manifest)
             r == claim[s].revision + 1
  <2>2. pc \in {"list", "external"} /\ pc \in Running /\ r \in Nat
    BY <1>2, StartIsWriting DEF Running, Writing
  <2>3. sync'[p] = [sync[p] EXCEPT !.pc = pc, !.revision = r]
    BY <1>2
  <2> HIDE DEF pc, r
  <2>4. sync'[p] \in Sync
    BY <2>1, <2>2, <2>3 DEF Sync
  <2>5. /\ sync'[p].stage = s /\ sync'[p].revision = r /\ sync'[p].pc = pc
        /\ sync'[p].ids = sync[p].ids
        /\ sync'[p].manifest = sync[p].manifest /\ sync'[p].seen = sync[p].seen
        /\ sync'[p].owned = sync[p].owned /\ sync'[p].dev = sync[p].dev
        /\ sync'[p].torn = sync[p].torn /\ sync'[p].deletes = sync[p].deletes
    BY <2>1, <2>3 DEF Sync
  <2>6. QED
    BY <2>1, <2>2, <2>4, <2>5 DEF r
<1> rows' = rows
  BY <1>2 DEF store
<1> sync[p].ids = Nothing /\ RowsFound(p) /\ OwnsWhatItRemoves(p)
  BY <1>1, <1>3 DEF SessionInv, RowsFound
<1>5. Fits(p)'
  <2>1. sync'[p].pc \notin Recorded
    BY <1>4 DEF Recorded
  <2>2. QED
    BY <1>1, <1>4, <2>1, FitsStays
<1>6. RowsFound(p)' /\ OwnsWhatItRemoves(p)'
  <2>1. RowsFound(p)'
    BY <1>3, <1>4, FoundStays
  <2>2. OwnsWhatItRemoves(p)'
    BY <1>4, OwnedStays
  <2>3. QED
    BY <2>1, <2>2
<1>7. HasRead(p)'
  BY <1>1, <1>2, <1>3, <1>4
  DEF SessionInv, HasRead, Fresh, store, Listed, Running, Writing
<1>8. QED
  BY <1>2, <1>3, <1>4, <1>5, <1>6, <1>7, ClaimKeeps

LEMMA DeployKeeps ==
  ASSUME StageInv, NEW p \in Sessions, NEW s \in Stages, NEW m \in Manifests[s],
         NEW prune \in BOOLEAN, NEW fenced \in BOOLEAN,
         Deploy(p, s, m, prune, fenced)
  PROVE  StageInv'
<1> DEFINE pc == IF fenced /\ m \cap Hooks # {} THEN "fence" ELSE Start(m)
<1>1. TypeOK /\ sync[p].pc = "idle" /\ ~claim[s].held /\ claim[s].revision \in Nat
      /\ UNCHANGED <<store, declined, faults>>
      /\ claim' = [claim EXCEPT ![s] =
                      [revision |-> @.revision + 1, held |-> TRUE]]
      /\ sync' = [sync EXCEPT ![p] = sync'[p]]
      /\ sync'[p] = [Idle EXCEPT !.stage = s, !.manifest = m, !.prune = prune,
                                 !.pc = pc, !.revision = claim[s].revision + 1]
  BY DEF StageInv, TypeOK, Deploy, Claim, Admits, Idle
<1>2. pc \in {"fence", "list", "external"}
  BY StartIsWriting
<1> HIDE DEF pc
<1>3. /\ sync'[p].stage = s /\ sync'[p].revision = claim[s].revision + 1
      /\ sync'[p].pc = pc /\ sync'[p].ids = Nothing /\ sync'[p].seen = Nothing
      /\ sync'[p].owned = {} /\ sync'[p].dev = FALSE
  BY <1>1 DEF Idle
<1>4. sync'[p] \in Sync
  <2> DEFINE r == claim[s].revision + 1
  <2>1. m \subseteq Resource /\ pc \in Running /\ r \in Nat
    BY <1>1, <1>2, StageSyncAssumption DEF Running, Writing
  <2>2. sync'[p] = [Idle EXCEPT !.stage = s, !.manifest = m, !.prune = prune,
                               !.pc = pc, !.revision = r]
    BY <1>1
  <2>3. Idle \in Sync
    BY StageSyncAssumption DEF Idle, Sync, Nothing, NoRow, NoRevision
  <2> HIDE DEF r
  <2> DEFINE z == [Idle EXCEPT !.stage = s, !.manifest = m, !.prune = prune]
  <2>4. z \in Sync
    BY <2>1, <2>3 DEF Sync
  <2>5. sync'[p] = [z EXCEPT !.pc = pc, !.revision = r]
    BY <2>2, <2>3 DEF Sync
  <2> HIDE DEF z
  <2>6. QED
    BY <2>1, <2>4, <2>5 DEF Sync
<1>5. Fits(p)' /\ RowsFound(p)' /\ OwnsWhatItRemoves(p)' /\ HasRead(p)'
  <2>1. sync'[p].pc \in Running /\ sync'[p].pc \notin Recorded
        /\ sync'[p].pc \notin {"own", "remove"}
    BY <1>2, <1>3 DEF Running, Writing, Recorded
  <2>2. \A n \in External : sync'[p].ids[n] = NoRow /\ sync'[p].seen[n] = NoRow
    BY <1>3 DEF Nothing
  <2>3. Fits(p)'
    <3>1. NoRow \in 0 .. Len(rows)'
      BY <1>1, Typed DEF store, NoRow
    <3>2. QED
      BY <1>3, <1>4, <2>1, <2>2, <3>1 DEF Fits
  <2>4. RowsFound(p)'
    BY <2>1, <2>2 DEF RowsFound
  <2>5. OwnsWhatItRemoves(p)'
    BY <1>3, <2>1 DEF OwnsWhatItRemoves
  <2>6. HasRead(p)'
    BY <1>3 DEF HasRead, Fresh
  <2>7. QED
    BY <2>3, <2>4, <2>5, <2>6
<1>6. sync[p].pc \notin Running
  BY <1>1 DEF Running, Writing, Recorded
<1>7. QED
  BY <1>1, <1>2, <1>3, <1>5, <1>6, ClaimKeeps

-----------------------------------------------------------------------------
(* The steps of a sync that write no row, record or agent.                  *)

LEMMA PlainStep ==
  ASSUME StageInv, NEW p \in Sessions, NEW s \in Stages, s = sync[p].stage,
         sync[p].pc \in Running, sync' = [sync EXCEPT ![p] = sync'[p]],
         sync'[p].pc \in Running => sync'[p].stage = s, UNCHANGED store,
         claim' \in [Stages -> [revision : Nat, held : BOOLEAN]],
         \A t \in Stages \ {s} : claim'[t] = claim[t],
         claim'[s].revision = claim[s].revision,
         declined' \in [Sessions -> SUBSET Resource], faults' \in 0 .. MaxFaults,
         Fits(p)', TypeOK' => SessionInv(p)'
  PROVE  StageInv'
<1>1. TypeOK /\ StoreSound /\ AgentsResolve
  BY DEF StageInv
<1>2. TypeOK' /\ \A q \in Sessions \ {p} : sync'[q] = sync[q]
  BY <1>1, SessionTyped
<1>3. StoreSound' /\ AgentsResolve'
  BY <1>1 DEF StoreSound, AgentsResolve, store, Refers
<1>4. RunFrame(p, s)
  BY <1>1, <1>2, Typed DEF RunFrame, RowsGrow, store
<1>5. QED
  BY <1>2, <1>3, <1>4, RunningStep

LEMMA RunningFacts ==
  ASSUME StageInv, NEW p \in Sessions
  PROVE  /\ TypeOK /\ StoreSound /\ AgentsResolve /\ Fits(p) /\ SessionInv(p)
         /\ sync[p] \in Sync /\ sync[p].stage \in Stages /\ Len(rows) \in Nat
         /\ claim \in [Stages -> [revision : Nat, held : BOOLEAN]]
         /\ declined \in [Sessions -> SUBSET Resource]
         /\ faults \in 0 .. MaxFaults
BY Typed DEF StageInv, TypeOK, Fits

\* Where a sync that only moves on may go.
LEMMA MovesOn ==
  ASSUME StageInv, NEW p \in Sessions, sync[p].pc \in Running,
         NEW pc \in {"list", "failed"},
         sync' = [sync EXCEPT ![p] = [sync[p] EXCEPT !.pc = pc]],
         UNCHANGED <<store, claim, declined>>, faults' \in 0 .. MaxFaults
  PROVE  StageInv'
<1>1. TypeOK /\ Fits(p) /\ SessionInv(p) /\ sync[p] \in Sync
      /\ sync[p].stage \in Stages
  BY RunningFacts
<1>2. sync'[p] = [sync[p] EXCEPT !.pc = pc]
      /\ sync' = [sync EXCEPT ![p] = sync'[p]]
  BY <1>1 DEF TypeOK
<1>3. pc \in Running /\ pc \notin Recorded /\ pc \notin {"put", "ask"}
  BY DEF Running, Writing, Recorded
<1>4. /\ sync'[p] \in Sync /\ sync'[p].pc = pc
      /\ sync'[p].stage = sync[p].stage /\ sync'[p].revision = sync[p].revision
      /\ sync'[p].manifest = sync[p].manifest /\ sync'[p].ids = sync[p].ids
      /\ sync'[p].seen = sync[p].seen /\ sync'[p].owned = sync[p].owned
      /\ sync'[p].dev = sync[p].dev /\ sync'[p].torn = sync[p].torn
      /\ sync'[p].deletes = sync[p].deletes
  BY <1>1, <1>2, <1>3 DEF Sync
<1> rows' = rows
  BY DEF store
<1>5. Fits(p)'
  BY <1>1, <1>3, <1>4, FitsStays
<1>6. HoldsClaim(p)'
  BY <1>1, <1>3, <1>4 DEF SessionInv, HoldsClaim
<1>7. RowsFound(p)' /\ OwnsWhatItRemoves(p)' /\ Progress(p)'
  <2>1. RowsFound(p) /\ OwnsWhatItRemoves(p)
    BY <1>1 DEF SessionInv
  <2>2. RowsFound(p)'
    BY <1>3, <1>4, <2>1, FoundStays
  <2>3. OwnsWhatItRemoves(p)'
    BY <1>4, <2>1, OwnedStays
  <2>4. Progress(p)'
    BY <1>3, <1>4 DEF Progress
  <2>5. QED
    BY <2>2, <2>3, <2>4
<1>8. HasRead(p)'
  <2>1. sync[p].pc # "idle"
    BY DEF Running, Writing, Recorded
  <2>2. Fresh(p)' => Fresh(p)
    BY <1>4, <2>1 DEF Fresh
  <2>3. QED
    BY <1>1, <1>3, <1>4, <2>2 DEF SessionInv, HasRead, store, Listed
<1>9. QED
  BY <1>1, <1>2, <1>3, <1>4, <1>5, <1>6, <1>7, <1>8, PlainStep, RunningFacts
  DEF SessionInv

LEMMA FenceKeeps ==
  ASSUME StageInv, NEW p \in Sessions, Fence(p)
  PROVE  StageInv'
<1>1. sync[p].pc \in Running
  BY DEF Fence, Step, Running, Writing
<1>2. PICK pc \in {"list", "failed"} :
        sync' = [sync EXCEPT ![p] = [sync[p] EXCEPT !.pc = pc]]
  BY DEF Fence, Step
<1>3. QED
  BY <1>1, <1>2, MovesOn, RunningFacts DEF Fence

LEMMA FailKeeps ==
  ASSUME StageInv, NEW p \in Sessions, Fail(p)
  PROVE  StageInv'
<1>1. sync[p].pc \in Running /\ faults' \in 0 .. MaxFaults
  BY RunningFacts, StageSyncAssumption DEF Fail, Running
<1>2. sync' = [sync EXCEPT ![p] = [sync[p] EXCEPT !.pc = "failed"]]
  BY DEF Fail
<1>3. QED
  BY <1>1, <1>2, MovesOn DEF Fail

LEMMA ListHooksKeeps ==
  ASSUME StageInv, NEW p \in Sessions, ListHooks(p)
  PROVE  StageInv'
<1> DEFINE seen == [n \in External |->
                      IF n \in sync[p].manifest \cap Hooks
                      THEN ActiveRow(sync[p].stage, n) ELSE NoRow]
<1>1. TypeOK /\ Fits(p) /\ SessionInv(p) /\ sync[p] \in Sync
      /\ sync[p].stage \in Stages /\ Len(rows) \in Nat
      /\ UNCHANGED <<store, claim, declined, faults>>
  BY RunningFacts DEF ListHooks
<1>2. sync'[p] = [sync[p] EXCEPT !.pc = "external", !.seen = seen]
      /\ sync' = [sync EXCEPT ![p] = sync'[p]] /\ sync[p].pc = "list"
  BY <1>1 DEF TypeOK, ListHooks, Step
<1>3. /\ seen \in [External -> 0 .. Len(rows)]
      /\ \A n \in External : seen[n] # NoRow => Refers(seen[n], n, sync[p].stage)
  BY <1>1, ActiveRowFound DEF NoRow
<1> HIDE DEF seen
<1>4. "external" \in Running /\ "external" \notin Recorded /\ "list" \in Running
  BY DEF Running, Writing, Recorded
<1>5. /\ sync'[p].pc = "external" /\ sync'[p].seen = seen
      /\ sync'[p].stage = sync[p].stage /\ sync'[p].revision = sync[p].revision
      /\ sync'[p].manifest = sync[p].manifest /\ sync'[p].ids = sync[p].ids
      /\ sync'[p].owned = sync[p].owned
      /\ sync'[p].dev = sync[p].dev /\ sync'[p].torn = sync[p].torn
      /\ sync'[p].deletes = sync[p].deletes
  BY <1>1, <1>2 DEF Sync
<1>6. sync'[p] \in Sync
  <2>1. seen \in [External -> Nat]
    BY <1>1, <1>3
  <2>2. QED
    BY <1>1, <1>2, <1>4, <2>1 DEF Sync
<1>7. Fits(p)'
  BY <1>1, <1>3, <1>4, <1>5, <1>6 DEF Fits, store
<1>8. HoldsClaim(p)'
  BY <1>1, <1>2, <1>4, <1>5 DEF SessionInv, HoldsClaim
<1>9. RowsFound(p)' /\ OwnsWhatItRemoves(p)' /\ Progress(p)'
  <2>1. RowsFound(p) /\ OwnsWhatItRemoves(p) /\ rows' = rows
    BY <1>1 DEF SessionInv, store
  <2>2. RowsFound(p)'
    <3>1. \A n \in External : seen[n] # NoRow =>
            /\ seen[n] \in 1 .. Len(rows) /\ rows[seen[n]].name = n
            /\ sync[p].stage \in rows[seen[n]].of
      BY <1>3 DEF Refers
    <3>2. \A n \in External : sync[p].ids[n] # NoRow =>
            /\ sync[p].ids[n] \in 1 .. Len(rows) /\ rows[sync[p].ids[n]].name = n
            /\ sync[p].stage \in rows[sync[p].ids[n]].of /\ n \in sync[p].manifest
            /\ n \in Servers => rows[sync[p].ids[n]].active
      BY <2>1 DEF RowsFound, Refers
    <3>3. QED
      BY <1>4, <1>5, <2>1, <3>1, <3>2 DEF RowsFound, Refers
  <2>3. OwnsWhatItRemoves(p)'
    BY <1>5, <2>1, OwnedStays
  <2>4. Progress(p)'
    BY <1>4, <1>5 DEF Progress
  <2>5. QED
    BY <2>2, <2>3, <2>4
<1>10. HasRead(p)'
  BY <1>1, <1>2, <1>4, <1>5 DEF SessionInv, HasRead, Fresh, store, Listed
<1>11. QED
  BY <1>1, <1>2, <1>4, <1>5, <1>7, <1>8, <1>9, <1>10, PlainStep, RunningFacts
  DEF SessionInv

LEMMA ReadOwnershipKeeps ==
  ASSUME StageInv, NEW p \in Sessions, ReadOwnership(p)
  PROVE  StageInv'
<1> DEFINE s == sync[p].stage
           owned == {records[s][n] : n \in Owned(s) \ sync[p].manifest}
<1>1. TypeOK /\ StoreSound /\ Fits(p) /\ SessionInv(p) /\ sync[p] \in Sync
      /\ s \in Stages /\ Len(rows) \in Nat
      /\ UNCHANGED <<store, claim, declined, faults>>
  BY RunningFacts DEF ReadOwnership
<1>2. sync'[p] = [sync[p] EXCEPT !.pc = "remove", !.owned = owned]
      /\ sync' = [sync EXCEPT ![p] = sync'[p]] /\ sync[p].pc = "own"
  BY <1>1 DEF TypeOK, ReadOwnership, Step
<1>3. \A i \in owned : \E n \in External \ sync[p].manifest :
        i = records[s][n] /\ records[s][n] # NoRow
  BY DEF Owned
<1>4. \A i \in owned : /\ i \in 1 .. Len(rows) /\ s \in rows[i].of
                       /\ rows[i].name \in Listed(s) \ sync[p].manifest
  <2> SUFFICES ASSUME NEW i \in owned
               PROVE  /\ i \in 1 .. Len(rows) /\ s \in rows[i].of
                      /\ rows[i].name \in Listed(s) \ sync[p].manifest
    OBVIOUS
  <2>1. PICK n \in External \ sync[p].manifest :
          i = records[s][n] /\ records[s][n] # NoRow
    BY <1>3
  <2>2. Refers(i, n, s) /\ n \in Listed(s)
    BY <1>1, <2>1 DEF StoreSound, Listed
  <2>3. QED
    BY <2>1, <2>2 DEF Refers
<1> HIDE DEF owned
<1>5. "remove" \in Running /\ "remove" \in Recorded /\ "own" \in Running
      /\ "own" \in Recorded
  BY DEF Running, Writing, Recorded
<1>6. /\ sync'[p].pc = "remove" /\ sync'[p].owned = owned
      /\ sync'[p].stage = sync[p].stage /\ sync'[p].revision = sync[p].revision
      /\ sync'[p].manifest = sync[p].manifest /\ sync'[p].ids = sync[p].ids
      /\ sync'[p].seen = sync[p].seen /\ sync'[p].prune = sync[p].prune
      /\ sync'[p].dev = sync[p].dev /\ sync'[p].torn = sync[p].torn
      /\ sync'[p].deletes = sync[p].deletes
  BY <1>1, <1>2 DEF Sync
<1>7. sync'[p] \in Sync
  <2>1. owned \subseteq Nat
    BY <1>1, <1>4
  <2>2. QED
    BY <1>1, <1>2, <1>5, <2>1 DEF Sync
<1>8. Fits(p)'
  BY <1>1, <1>2, <1>4, <1>5, <1>6, <1>7 DEF Fits, store
<1>9. HoldsClaim(p)'
  BY <1>1, <1>2, <1>5, <1>6 DEF SessionInv, HoldsClaim
<1>10. RowsFound(p)'
  <2>1. RowsFound(p) /\ rows' = rows
    BY <1>1 DEF SessionInv, store
  <2>2. QED
    BY <1>5, <1>6, <2>1, FoundStays
<1>11. OwnsWhatItRemoves(p)'
  BY <1>1, <1>2, <1>4, <1>6 DEF SessionInv, OwnsWhatItRemoves, store
<1>12. Progress(p)'
  BY <1>1, <1>2, <1>5, <1>6 DEF SessionInv, Progress, store
<1>13. HasRead(p)'
  BY <1>1, <1>2, <1>4, <1>5, <1>6 DEF SessionInv, HasRead, Fresh, store, Listed
<1>14. QED
  BY <1>1, <1>2, <1>5, <1>6, <1>8, <1>9, <1>10, <1>11, <1>12, <1>13, PlainStep,
     RunningFacts
  DEF SessionInv

LEMMA DieKeeps ==
  ASSUME StageInv, NEW p \in Sessions, Die(p)
  PROVE  StageInv'
<1>1. TypeOK /\ Len(rows) \in Nat /\ sync[p].stage \in Stages
      /\ sync[p].pc \in Running /\ UNCHANGED <<store, claim, declined>>
  BY RunningFacts DEF Die
<1>2. sync'[p] = Idle /\ sync' = [sync EXCEPT ![p] = sync'[p]]
  BY <1>1 DEF TypeOK, Die
<1>3. faults' \in 0 .. MaxFaults
  BY RunningFacts, StageSyncAssumption DEF Die
<1>4. Fits(p)' /\ (TypeOK' => SessionInv(p)')
  BY <1>1, <1>2, IdleSessionNext, IdleFields DEF IdleHarmless, store
<1>5. QED
  BY <1>1, <1>2, <1>3, <1>4, IdleFields, PlainStep, RunningFacts

LEMMA FinishKeeps ==
  ASSUME StageInv, NEW p \in Sessions, Finish(p)
  PROVE  StageInv'
<1> DEFINE s == sync[p].stage
           y == sync[p]
           asks == y.pc = "done" /\ y.dev /\ ~y.prune /\ Undecided(p) # {}
<1>1. TypeOK /\ Fits(p) /\ SessionInv(p) /\ y \in Sync /\ s \in Stages
      /\ Len(rows) \in Nat /\ Exclusive
      /\ claim \in [Stages -> [revision : Nat, held : BOOLEAN]]
  BY RunningFacts DEF StageInv
<1>2. y.pc \in {"done", "failed"} /\ y.pc \in Running /\ UNCHANGED <<store, faults>>
      /\ claim' = [claim EXCEPT ![s].held = HeldAfter(y)]
      /\ sync'[p] = (IF asks THEN [y EXCEPT !.pc = "ask", !.ids = Nothing] ELSE Idle)
      /\ sync' = [sync EXCEPT ![p] = sync'[p]]
  BY <1>1 DEF Finish, TypeOK, Running, Writing, Recorded
<1>3. declined' \in [Sessions -> SUBSET Resource]
  BY RunningFacts DEF Finish
<1>4. /\ claim' \in [Stages -> [revision : Nat, held : BOOLEAN]]
      /\ \A t \in Stages \ {s} : claim'[t] = claim[t]
      /\ claim'[s].revision = claim[s].revision
  <2>1. HeldAfter(y) \in BOOLEAN
    BY <1>1 DEF HeldAfter
  <2>2. QED
    BY <1>1, <1>2, <2>1
<1>5. CASE ~asks
  <2>1. sync'[p] = Idle
    BY <1>2, <1>5
  <2>2. Fits(p)' /\ (TypeOK' => SessionInv(p)')
    BY <1>1, <1>2, <2>1, IdleSessionNext, IdleFields DEF IdleHarmless, store
  <2>3. QED
    BY <1>1, <1>2, <1>3, <1>4, <2>1, <2>2, IdleFields, PlainStep, RunningFacts
<1>6. CASE asks
  <2>1. sync'[p] = [y EXCEPT !.pc = "ask", !.ids = Nothing]
    BY <1>2, <1>6
  <2>2. "ask" \notin Running /\ "ask" \notin Recorded
    BY DEF Running, Writing, Recorded
  <2>3. /\ sync'[p].pc = "ask" /\ sync'[p].ids = Nothing
        /\ sync'[p].stage = s /\ sync'[p].revision = y.revision
        /\ sync'[p].manifest = y.manifest /\ sync'[p].seen = y.seen
        /\ sync'[p].owned = y.owned /\ sync'[p].dev = y.dev
        /\ sync'[p].torn = y.torn /\ sync'[p].deletes = y.deletes
    BY <1>1, <2>1 DEF Sync
  <2>4. sync'[p] \in Sync
    <3>1. Nothing \in [External -> Nat]
      BY DEF Nothing, NoRow
    <3>2. QED
      BY <1>1, <2>1, <3>1 DEF Sync
  <2>5. Fits(p)'
    <3>1. rows' = rows /\ \A n \in External : sync'[p].ids[n] = NoRow
      BY <1>2, <2>3 DEF store, Nothing
    <3>2. NoRow \in 0 .. Len(rows) /\ Fits(p)
      BY <1>1, RunningFacts DEF NoRow
    <3>3. QED
      BY <1>1, <2>2, <2>3, <2>4, <3>1, <3>2 DEF Fits
  <2>6. HoldsClaim(p)'
    <3>1. HoldsClaim(p) /\ claim[s].revision \in Nat
      BY <1>1 DEF SessionInv
    <3>2. y.revision = claim[s].revision /\ y.revision # NoRevision
      BY <1>2, <3>1 DEF HoldsClaim, NoRevision
    <3>3. QED
      BY <1>4, <2>2, <2>3, <3>1, <3>2 DEF HoldsClaim
  <2>7. RowsFound(p)'
    <3>1. \A n \in External : sync'[p].ids[n] = NoRow
      BY <2>3 DEF Nothing
    <3>2. rows' = rows
      BY <1>2 DEF store
    <3>3. \A n \in External : y.seen[n] # NoRow => Refers(y.seen[n], n, s)
      BY <1>1 DEF SessionInv, RowsFound
    <3>4. QED
      BY <2>3, <3>1, <3>2, <3>3 DEF RowsFound, Refers
  <2>8. OwnsWhatItRemoves(p)' /\ Progress(p)'
    <3>1. OwnsWhatItRemoves(p) /\ rows' = rows
      BY <1>1, <1>2 DEF SessionInv, store
    <3>2. OwnsWhatItRemoves(p)'
      BY <1>1, <2>3, <3>1, OwnedStays
    <3>3. Progress(p)'
      BY <2>2, <2>3 DEF Progress
    <3>4. QED
      BY <3>2, <3>3
  <2>9. ASSUME TypeOK'
        PROVE  HasRead(p)'
    <3>1. ~Busy(s)'
      <4>1. \A q \in Sessions \ {p} : sync'[q] = sync[q]
        BY <1>1, <1>2 DEF TypeOK
      <4>2. \A q \in Sessions \ {p} : sync[q].pc \in Running => sync[q].stage # s
        BY <1>1, <1>2 DEF Exclusive
      <4>3. QED
        BY <2>2, <2>3, <4>1, <4>2 DEF Busy
    <3>2. Fresh(p)' => Fresh(p)
      BY <1>2, <1>4, <2>3 DEF Fresh
    <3>3. QED
      BY <1>1, <1>2, <2>3, <3>1, <3>2 DEF SessionInv, HasRead, store, Listed
  <2>10. QED
    BY <1>1, <1>2, <1>3, <1>4, <2>2, <2>3, <2>5, <2>6, <2>7, <2>8, <2>9, PlainStep,
       RunningFacts
    DEF SessionInv
<1>7. QED
  BY <1>5, <1>6

-----------------------------------------------------------------------------
(* Steps of nobody's session.                                               *)

LEMMA OutsideStep ==
  ASSUME StageInv, TypeOK', StoreSound', AgentsResolve', UNCHANGED <<sync, rows>>,
         \A q \in Sessions : Undisturbed(q, sync[q].stage)
  PROVE  StageInv'
<1>1. Exclusive'
  BY DEF StageInv, Exclusive
<1>2. ASSUME NEW q \in Sessions
      PROVE  SessionInv(q)'
  BY KeptSession, RunningFacts DEF StageInv
<1>3. QED
  BY <1>1, <1>2 DEF StageInv

LEMMA LapseKeeps ==
  ASSUME StageInv, NEW s \in Stages, Lapse(s)
  PROVE  StageInv'
<1>1. TypeOK /\ StoreSound /\ AgentsResolve
      /\ claim \in [Stages -> [revision : Nat, held : BOOLEAN]]
  BY DEF StageInv, TypeOK
<1>2. /\ claim' \in [Stages -> [revision : Nat, held : BOOLEAN]]
      /\ \A t \in Stages : claim'[t].revision = claim[t].revision
      /\ \A t \in Stages \ {s} : claim'[t] = claim[t]
  BY <1>1 DEF Lapse
<1>3. TypeOK' /\ StoreSound' /\ AgentsResolve'
  BY <1>1, <1>2 DEF TypeOK, StoreSound, AgentsResolve, Lapse, store, Refers
<1>4. ASSUME NEW q \in Sessions, NEW t \in Stages, t = sync[q].stage
      PROVE  Undisturbed(q, t)
  <2>1. SessionInv(q) /\ claim[t].revision \in Nat
    BY <1>1 DEF StageInv
  <2>2. \A n \in Servers : sync[q].ids[n] # NoRow =>
          rows[sync[q].ids[n]].active
    BY <2>1 DEF SessionInv, RowsFound, External
  <2>3. sync[q].pc \in Running => t # s
    BY <1>4 DEF Lapse, Busy
  <2>4. QED
    BY <1>1, <1>2, <1>4, <2>1, <2>2, <2>3, Typed
    DEF Undisturbed, Lapse, store, RowsGrow, Fresh, Listed, Busy
<1>5. QED
  BY <1>3, <1>4, OutsideStep, RunningFacts DEF Lapse, store

LEMMA DeleteResourceKeeps ==
  ASSUME StageInv, NEW s \in Stages, NEW a \in Agents, DeleteResource(s, a)
  PROVE  StageInv'
<1>1. TypeOK /\ StoreSound /\ AgentsResolve
  BY DEF StageInv
<1>2. agents' = [agents EXCEPT ![s] = [b \in DOMAIN agents[s] \ {a} |-> agents[s][b]]]
      /\ UNCHANGED <<rows, records, claim, sync, declined, faults>>
  BY DEF DeleteResource
<1>3. agents' = [t \in Stages |-> agents'[t]]
      /\ agents'[s] = [b \in DOMAIN agents[s] \ {a} |-> agents[s][b]]
      /\ \A t \in Stages \ {s} : agents'[t] = agents[t]
  BY <1>1, <1>2 DEF TypeOK
<1>4. ASSUME NEW t \in Stages
      PROVE  /\ DOMAIN agents'[t] \subseteq DOMAIN agents[t]
             /\ \A b \in DOMAIN agents'[t] : agents'[t][b] = agents[t][b]
             /\ agents'[t] \in [DOMAIN agents'[t] -> SUBSET (1 .. Len(rows))]
  <2>1. agents[t] \in [DOMAIN agents[t] -> SUBSET (1 .. Len(rows))]
    BY <1>1 DEF TypeOK
  <2>2. QED
    BY <1>3, <2>1
<1>5. TypeOK'
  BY <1>1, <1>2, <1>3, <1>4 DEF TypeOK
<1>6. StoreSound' /\ AgentsResolve'
  BY <1>1, <1>2, <1>4 DEF StoreSound, AgentsResolve, Refers
<1>7. ASSUME NEW q \in Sessions, NEW t \in Stages, t = sync[q].stage
      PROVE  Undisturbed(q, t)
  <2>1. SessionInv(q) /\ claim[t].revision \in Nat
    BY <1>1, Typed DEF StageInv
  <2>2. \A n \in Servers : sync[q].ids[n] # NoRow =>
          rows[sync[q].ids[n]].active
    BY <2>1 DEF SessionInv, RowsFound, External
  <2>3. QED
    BY <1>1, <1>2, <1>4, <2>1, <2>2, Typed
    DEF Undisturbed, RowsGrow, Fresh, Listed, Busy
<1>8. QED
  BY <1>2, <1>5, <1>6, <1>7, OutsideStep, RunningFacts

-----------------------------------------------------------------------------
(* The steps that write rows.                                               *)

Row == [name : External, of : SUBSET Stages, active : BOOLEAN]

\* Row j of name n is written, new or as it was, and becomes the sync's.
WritesRow(p, n, j, ids, seen) ==
  /\ sync[p].pc = "external" /\ n \in sync[p].manifest \cap External
  /\ sync' = [sync EXCEPT ![p] = [sync[p] EXCEPT !.ids = ids, !.seen = seen]]
  /\ ids \in [External -> Nat] /\ seen \in [External -> Nat]
  /\ ids[n] = j /\ \A m \in External \ {n} : ids[m] = sync[p].ids[m]
  /\ \A m \in External : seen[m] \in {sync[p].seen[m], NoRow}
  /\ rows' \in Seq(Row) /\ Len(rows) =< Len(rows')
  /\ \A i \in 1 .. Len(rows) : rows'[i] = rows[i]
  /\ j \in 1 .. Len(rows') /\ rows'[j].name = n /\ sync[p].stage \in rows'[j].of
  /\ n \in Servers => rows'[j].active
  /\ \A i \in 1 .. Len(rows') : rows'[i].name \in Servers =>
       \A t, u \in rows'[i].of : t = u
  /\ UNCHANGED <<records, agents, claim, declined, faults>>

LEMMA RowWritten ==
  ASSUME StageInv, NEW p \in Sessions, NEW n, NEW j, NEW ids, NEW seen,
         WritesRow(p, n, j, ids, seen)
  PROVE  StageInv'
<1> DEFINE s == sync[p].stage
<1> USE DEF WritesRow
<1>1. TypeOK /\ StoreSound /\ AgentsResolve /\ Fits(p) /\ SessionInv(p)
      /\ sync[p] \in Sync /\ Len(rows) \in Nat
  BY RunningFacts
<1>2. Len(rows') \in Nat /\ RowsGrow
  BY DEF RowsGrow
<1>3. sync'[p] = [sync[p] EXCEPT !.ids = ids, !.seen = seen]
      /\ sync' = [sync EXCEPT ![p] = sync'[p]]
  BY <1>1 DEF TypeOK
<1>4. "external" \in Running /\ "external" \notin Recorded
  BY DEF Running, Writing, Recorded
<1>5. /\ sync'[p] \in Sync /\ sync'[p].pc = "external"
      /\ sync'[p].ids[n] = j /\ sync'[p].seen = seen
      /\ \A m \in External : m # n => sync'[p].ids[m] = sync[p].ids[m]
      /\ sync'[p].stage = s /\ sync'[p].revision = sync[p].revision
      /\ sync'[p].manifest = sync[p].manifest /\ sync'[p].owned = sync[p].owned
      /\ sync'[p].dev = sync[p].dev /\ sync'[p].torn = sync[p].torn
      /\ sync'[p].deletes = sync[p].deletes
  <2>1. /\ ids \in [External -> Nat] /\ seen \in [External -> Nat]
        /\ ids[n] = j /\ sync[p].pc = "external"
        /\ \A m \in External : m # n => ids[m] = sync[p].ids[m]
    OBVIOUS
  <2> HIDE DEF WritesRow
  <2>2. /\ sync'[p] \in Sync /\ sync'[p].ids = ids /\ sync'[p].seen = seen
        /\ sync'[p].pc = sync[p].pc /\ sync'[p].stage = sync[p].stage
        /\ sync'[p].revision = sync[p].revision
        /\ sync'[p].manifest = sync[p].manifest /\ sync'[p].owned = sync[p].owned
        /\ sync'[p].dev = sync[p].dev /\ sync'[p].torn = sync[p].torn
        /\ sync'[p].deletes = sync[p].deletes
    <3>1. ASSUME NEW z, z = [sync[p] EXCEPT !.ids = ids, !.seen = seen]
          PROVE  /\ z \in Sync /\ z.ids = ids /\ z.seen = seen
                 /\ z.pc = sync[p].pc /\ z.stage = sync[p].stage
                 /\ z.revision = sync[p].revision /\ z.manifest = sync[p].manifest
                 /\ z.owned = sync[p].owned /\ z.dev = sync[p].dev
                 /\ z.torn = sync[p].torn /\ z.deletes = sync[p].deletes
      BY <1>1, <2>1, <3>1 DEF Sync
    <3>2. QED
      BY <1>3, <3>1
  <2>3. QED
    BY <2>1, <2>2
<1>6. Fits(p)'
  <2>1. ASSUME NEW m \in External
        PROVE  {sync'[p].ids[m], sync'[p].seen[m]} \subseteq 0 .. Len(rows')
    <3>1. sync[p].ids[m] \in 0 .. Len(rows) /\ sync[p].seen[m] \in 0 .. Len(rows)
      BY <1>1 DEF Fits
    <3>2. QED
      BY <1>1, <1>2, <1>5, <3>1 DEF NoRow
  <2>2. sync[p].owned \subseteq 1 .. Len(rows')
    BY <1>1, <1>2 DEF Fits
  <2>3. QED
    BY <1>4, <1>5, <2>1, <2>2 DEF Fits
<1>7. /\ \A q \in Sessions : Fits(q)'
      /\ sync' \in [Sessions -> Sync]
      /\ \A q \in Sessions \ {p} : sync'[q] = sync[q]
  BY <1>1, <1>2, <1>3, <1>6, SyncTyped
<1>8. TypeOK'
  <2>1. records' \in [Stages -> [External -> 0 .. Len(rows')]]
    <3>1. 0 .. Len(rows) \subseteq 0 .. Len(rows')
      BY <1>1, <1>2
    <3>2. QED
      BY <1>1, <3>1 DEF TypeOK
  <2>2. \A t \in Stages : agents'[t] \in [DOMAIN agents'[t] -> SUBSET (1 .. Len(rows'))]
    <3>1. 1 .. Len(rows) \subseteq 1 .. Len(rows')
      BY <1>1, <1>2
    <3>2. QED
      BY <1>1, <3>1 DEF TypeOK
  <2>3. \A q \in Sessions :
          /\ \A m \in External :
               {sync'[q].ids[m], sync'[q].seen[m]} \subseteq 0 .. Len(rows')
          /\ sync'[q].owned \subseteq 1 .. Len(rows')
          /\ sync'[q].pc \in Recorded => \A m \in sync'[q].manifest \cap External :
                                          sync'[q].ids[m] # NoRow
    BY <1>7 DEF Fits
  <2>4. /\ agents' = [t \in Stages |-> agents'[t]]
        /\ \A t \in Stages : DOMAIN agents'[t] \subseteq Agents
        /\ claim' \in [Stages -> [revision : Nat, held : BOOLEAN]]
        /\ declined' \in [Sessions -> SUBSET Resource] /\ faults' \in 0 .. MaxFaults
    BY <1>1 DEF TypeOK
  <2>5. QED
    BY <1>1, <1>7, <2>1, <2>2, <2>3, <2>4 DEF TypeOK, Row
<1>9. StoreSound'
  <2>1. ASSUME NEW t \in Stages, NEW m \in External, records[t][m] # NoRow
        PROVE  Refers(records[t][m], m, t)'
    <3>1. Refers(records[t][m], m, t)
      BY <1>1, <2>1 DEF StoreSound
    <3>2. QED
      BY <1>1, <1>2, <3>1 DEF Refers, RowsGrow
  <2>2. QED
    BY <2>1 DEF StoreSound
<1>10. AgentsResolve'
  <2> SUFFICES ASSUME NEW t \in Stages, NEW a \in DOMAIN agents[t],
                      NEW i \in agents[t][a]
               PROVE  /\ t \in rows'[i].of
                      /\ rows'[i].name \in Servers => rows'[i].active
    BY DEF AgentsResolve
  <2>1. i \in 1 .. Len(rows)
    BY <1>1 DEF TypeOK
  <2>2. QED
    BY <1>1, <2>1 DEF AgentsResolve
<1>11. RunFrame(p, s)
  BY <1>2, <1>4, <1>5, <1>7 DEF RunFrame
<1>12. HoldsClaim(p)'
  BY <1>1, <1>4, <1>5 DEF SessionInv, HoldsClaim
<1>13. RowsFound(p)'
  <2> DEFINE k(m) == sync'[p].ids[m]
             IsRow(i, m) ==
               i \in 1 .. Len(rows') /\ rows'[i].name = m /\ s \in rows'[i].of
  <2>1. ASSUME NEW m \in External, seen[m] # NoRow
        PROVE  IsRow(seen[m], m)
    <3>1. Refers(seen[m], m, s)
      BY <1>1, <2>1 DEF SessionInv, RowsFound
    <3>2. QED
      BY <1>1, <1>2, <3>1 DEF Refers, RowsGrow
  <2>2. ASSUME NEW m \in External, k(m) # NoRow
        PROVE  /\ IsRow(k(m), m) /\ m \in sync[p].manifest
               /\ m \in Servers => rows'[k(m)].active
    <3>1. CASE m = n
      BY <1>2, <1>5, <3>1
    <3>2. CASE m # n
      <4>1. k(m) = sync[p].ids[m]
        BY <1>5, <3>2
      <4>2. Refers(k(m), m, s) /\ m \in sync[p].manifest
            /\ (m \in Servers => rows[k(m)].active)
        BY <1>1, <2>2, <4>1 DEF SessionInv, RowsFound
      <4> HIDE DEF k
      <4>3. QED
        BY <1>1, <1>2, <4>2 DEF Refers, RowsGrow
    <3>3. QED
      BY <3>1, <3>2
  <2>3. QED
    BY <1>4, <1>5, <2>1, <2>2 DEF RowsFound, Refers
<1>14. OwnsWhatItRemoves(p)'
  BY <1>1, <1>2, <1>5 DEF SessionInv, OwnsWhatItRemoves, RowsGrow
<1>15. Progress(p)'
  BY <1>4, <1>5 DEF Progress, Recorded
<1>16. HasRead(p)'
  <2>1. Fresh(p)' => Fresh(p)
    BY <1>5 DEF Fresh
  <2>2. \A i \in sync[p].owned : rows'[i].name = rows[i].name
    BY <1>1 DEF Fits
  <2>3. QED
    BY <1>1, <1>4, <1>5, <2>1, <2>2 DEF SessionInv, HasRead, Listed
<1> HIDE DEF WritesRow
<1>17. s \in Stages /\ SessionInv(p)'
  BY <1>12, <1>13, <1>14, <1>15, <1>16, RunningFacts DEF SessionInv
<1>18. QED
  BY <1>8, <1>9, <1>10, <1>11, <1>17, RunningStep

LEMMA NameWritten ==
  ASSUME StageInv, NEW p \in Sessions, NEW s \in Stages, s = sync[p].stage,
         NEW n \in sync[p].manifest \cap External, NEW i \in Nat,
         i # NoRow => Refers(i, n, s),
         IF i = NoRow THEN Create(p, n) ELSE Update(p, n, i),
         UNCHANGED <<records, agents, claim, declined, faults>>
  PROVE  StageInv'
<1>1. TypeOK /\ StoreSound /\ sync[p] \in Sync /\ Len(rows) \in Nat
      /\ rows \in Seq(Row) /\ DOMAIN rows = 1 .. Len(rows)
  BY RunningFacts, Typed DEF TypeOK, Row
<1>2. CASE i = NoRow
  <2> DEFINE row == [name |-> n, active |-> TRUE,
                     of |-> IF n \in Hooks THEN Stages ELSE {s}]
  <2>1. sync[p].pc = "external" /\ rows' = Append(rows, row)
        /\ sync' = [sync EXCEPT ![p] = [sync[p] EXCEPT !.ids[n] = Len(rows) + 1]]
    BY <1>2 DEF Create, Step
  <2>2. row \in Row /\ s \in row.of /\ row.name = n /\ row.active
        /\ (row.name \in Servers => row.of = {s})
    BY StageSyncAssumption DEF Row
  <2> HIDE DEF row
  <2>3. /\ rows' \in Seq(Row) /\ Len(rows') = Len(rows) + 1
        /\ rows'[Len(rows) + 1] = row
        /\ \A k \in 1 .. Len(rows) : rows'[k] = rows[k]
    BY <1>1, <2>1, <2>2
  <2>4. \A k \in 1 .. Len(rows') : rows'[k].name \in Servers =>
          \A t, u \in rows'[k].of : t = u
    BY <1>1, <2>2, <2>3 DEF StoreSound
  <2> DEFINE j == Len(rows) + 1
             ids == [sync[p].ids EXCEPT ![n] = j]
             seen == sync[p].seen
  <2>5. /\ ids \in [External -> Nat] /\ seen \in [External -> Nat] /\ ids[n] = j
        /\ \A m \in External \ {n} : ids[m] = sync[p].ids[m]
        /\ \A m \in External : seen[m] \in {sync[p].seen[m], NoRow}
    BY <1>1 DEF Sync
  <2>6. sync' = [sync EXCEPT ![p] = [sync[p] EXCEPT !.ids = ids, !.seen = seen]]
    <3>1. [sync[p] EXCEPT !.ids[n] = j] = [sync[p] EXCEPT !.ids = ids, !.seen = seen]
      BY <1>1 DEF Sync
    <3>2. QED
      BY <2>1, <3>1
  <2>7. j \in 1 .. Len(rows') /\ Len(rows) =< Len(rows') /\ rows'[j] = row
    BY <1>1, <2>3
  <2> HIDE DEF ids, seen, j
  <2>8. QED
    <3>1. WritesRow(p, n, j, ids, seen)
      BY <1>1, <2>1, <2>2, <2>3, <2>4, <2>5, <2>6, <2>7 DEF WritesRow
    <3>2. QED
      BY <3>1, RowWritten
<1>3. CASE i # NoRow /\ rows[i].active
  <2> DEFINE ids == [sync[p].ids EXCEPT ![n] = i]
             seen == [sync[p].seen EXCEPT ![n] = NoRow]
  <2>1. sync[p].pc = "external" /\ rows' = rows /\ Refers(i, n, s)
        /\ sync' = [sync EXCEPT ![p] = [sync[p] EXCEPT !.ids[n] = i, !.seen[n] = NoRow]]
    BY <1>3 DEF Update, Step
  <2>2. /\ ids \in [External -> Nat] /\ seen \in [External -> Nat] /\ ids[n] = i
        /\ \A m \in External \ {n} : ids[m] = sync[p].ids[m]
        /\ \A m \in External : seen[m] \in {sync[p].seen[m], NoRow}
    BY <1>1 DEF Sync, NoRow
  <2>3. sync' = [sync EXCEPT ![p] = [sync[p] EXCEPT !.ids = ids, !.seen = seen]]
    <3>1. [sync[p] EXCEPT !.ids[n] = i, !.seen[n] = NoRow] =
            [sync[p] EXCEPT !.ids = ids, !.seen = seen]
      BY <1>1 DEF Sync
    <3>2. QED
      BY <2>1, <3>1
  <2>4. /\ i \in 1 .. Len(rows') /\ Len(rows) =< Len(rows')
        /\ \A k \in 1 .. Len(rows) : rows'[k] = rows[k]
        /\ rows'[i].name = n /\ s \in rows'[i].of /\ rows'[i].active
        /\ \A k \in 1 .. Len(rows') : rows'[k].name \in Servers =>
             \A t, u \in rows'[k].of : t = u
    BY <1>1, <1>3, <2>1 DEF Refers, StoreSound
  <2> HIDE DEF ids, seen
  <2>5. QED
    <3>1. WritesRow(p, n, i, ids, seen)
      BY <1>1, <2>1, <2>2, <2>3, <2>4 DEF WritesRow
    <3>2. QED
      BY <3>1, RowWritten
<1>4. CASE i # NoRow /\ ~rows[i].active
  <2>1. sync[p].pc = "external" /\ rows' = rows
        /\ sync' = [sync EXCEPT ![p] = [sync[p] EXCEPT !.pc = "failed"]]
    BY <1>4 DEF Update, Step
  <2>2. sync[p].pc \in Running
    BY <2>1 DEF Running, Writing
  <2>3. QED
    BY <2>1, <2>2, MovesOn, RunningFacts DEF store
<1>5. QED
  BY <1>2, <1>3, <1>4

LEMMA SyncHookKeeps ==
  ASSUME StageInv, NEW p \in Sessions, NEW n \in Hooks, SyncHook(p, n)
  PROVE  StageInv'
<1>1. sync[p] \in Sync /\ sync[p].stage \in Stages /\ SessionInv(p)
  BY RunningFacts
<1>2. sync[p].seen[n] \in Nat /\ n \in sync[p].manifest \cap External
  BY <1>1 DEF SyncHook, Unwritten, External, Sync
<1>3. sync[p].seen[n] # NoRow => Refers(sync[p].seen[n], n, sync[p].stage)
  BY <1>1, <1>2 DEF SessionInv, RowsFound
<1>4. QED
  BY <1>1, <1>2, <1>3, NameWritten DEF SyncHook

LEMMA SyncServerKeeps ==
  ASSUME StageInv, NEW p \in Sessions, NEW n \in Servers, SyncServer(p, n)
  PROVE  StageInv'
<1>1. TypeOK /\ sync[p].stage \in Stages /\ Len(rows) \in Nat
  BY RunningFacts
<1>2. n \in sync[p].manifest \cap External
  BY DEF SyncServer, Unwritten, External
<1>3. ActiveRow(sync[p].stage, n) \in Nat
      /\ (ActiveRow(sync[p].stage, n) # NoRow =>
             Refers(ActiveRow(sync[p].stage, n), n, sync[p].stage))
  BY <1>1, <1>2, ActiveRowFound
<1>4. QED
  BY <1>1, <1>2, <1>3, NameWritten DEF SyncServer

-----------------------------------------------------------------------------
(* The steps that write records, agents, or the end of a row.               *)

LEMMA PcTyped == \A y \in Sync, pc \in Running : [y EXCEPT !.pc = pc] \in Sync
BY DEF Sync

\* Records are written and the session moves on to pc.
LEMMA RecordsWritten ==
  ASSUME StageInv, NEW p \in Sessions, NEW s \in Stages, s = sync[p].stage,
         NEW pc \in Recorded, sync[p].pc \in Running,
         sync' = [sync EXCEPT ![p] = [sync[p] EXCEPT !.pc = pc]],
         \A n \in sync[p].manifest \cap External : sync[p].ids[n] # NoRow,
         NEW drops \in BOOLEAN, records' = RecordsAfter(sync[p], drops),
         UNCHANGED <<rows, agents, claim, declined, faults>>,
         pc \in {"manifest", "done"}, pc = "done" => drops /\ sync[p].pc = "remove"
  PROVE  StageInv'
<1>1. TypeOK /\ StoreSound /\ AgentsResolve /\ Fits(p) /\ SessionInv(p)
      /\ sync[p] \in Sync /\ Len(rows) \in Nat
  BY RunningFacts
<1>2. /\ sync'[p] = [sync[p] EXCEPT !.pc = pc]
      /\ sync' = [sync EXCEPT ![p] = sync'[p]]
      /\ rows' = rows
  BY <1>1 DEF TypeOK
<1>3. pc \in Running
  BY DEF Running, Writing
<1>4. /\ sync'[p] \in Sync /\ sync'[p].pc = pc
      /\ sync'[p].stage = s /\ sync'[p].revision = sync[p].revision
      /\ sync'[p].manifest = sync[p].manifest /\ sync'[p].ids = sync[p].ids
      /\ sync'[p].seen = sync[p].seen /\ sync'[p].owned = sync[p].owned
      /\ sync'[p].dev = sync[p].dev /\ sync'[p].torn = sync[p].torn
      /\ sync'[p].deletes = sync[p].deletes /\ sync'[p].prune = sync[p].prune
  <2>1. sync'[p] \in Sync
    BY <1>1, <1>2, <1>3, PcTyped
  <2>2. sync'[p].pc = pc
    BY <1>1, <1>2 DEF Sync
  <2>3. /\ sync'[p].stage = s /\ sync'[p].revision = sync[p].revision
        /\ sync'[p].manifest = sync[p].manifest /\ sync'[p].ids = sync[p].ids
        /\ sync'[p].seen = sync[p].seen /\ sync'[p].owned = sync[p].owned
        /\ sync'[p].dev = sync[p].dev /\ sync'[p].torn = sync[p].torn
        /\ sync'[p].deletes = sync[p].deletes /\ sync'[p].prune = sync[p].prune
    BY <1>2
  <2>4. QED
    BY <2>1, <2>2, <2>3
<1>5. /\ records' = [t \in Stages |-> records'[t]]
      /\ \A t \in Stages \ {s} : records'[t] = records[t]
      /\ records'[s] = [n \in External |->
                          IF n \in sync[p].manifest THEN sync[p].ids[n]
                          ELSE IF drops THEN NoRow ELSE records[s][n]]
  BY <1>1 DEF RecordsAfter, TypeOK
<1>6. ASSUME NEW n \in External
      PROVE  /\ n \in sync[p].manifest => records'[s][n] = sync[p].ids[n]
             /\ n \notin sync[p].manifest => records'[s][n] \in {NoRow, records[s][n]}
             /\ n \notin sync[p].manifest /\ drops => records'[s][n] = NoRow
  BY <1>5
<1>7. TypeOK'
  <2>1. Fits(p)'
    BY <1>1, <1>4 DEF Fits
  <2>2. sync' \in [Sessions -> Sync] /\ \A q \in Sessions : Fits(q)'
    <3>1. Len(rows) =< Len(rows') /\ Len(rows') \in Nat
      BY <1>1, <1>2
    <3>2. QED
      BY <1>1, <1>2, <2>1, <3>1, SyncTyped
  <2>3. records' \in [Stages -> [External -> 0 .. Len(rows)]]
    <3>1. \A n \in External : sync[p].ids[n] \in 0 .. Len(rows)
      BY <1>1 DEF Fits
    <3>2. records'[s] \in [External -> 0 .. Len(rows)]
      BY <1>1, <1>5, <3>1 DEF TypeOK, NoRow
    <3>3. QED
      BY <1>1, <1>5, <3>2 DEF TypeOK
  <2>4. QED
    BY <1>1, <2>2, <2>3 DEF TypeOK, Fits
<1>8. StoreSound'
  <2>1. ASSUME NEW t \in Stages, NEW n \in External, records'[t][n] # NoRow
        PROVE  /\ records'[t][n] \in 1 .. Len(rows) /\ rows[records'[t][n]].name = n
               /\ t \in rows[records'[t][n]].of
    <3>1. CASE t = s /\ n \in sync[p].manifest
      <4>1. RowsFound(p) /\ s = sync[p].stage
        BY <1>1 DEF SessionInv
      <4>2. records'[t][n] = sync[p].ids[n] /\ sync[p].ids[n] # NoRow
        BY <1>6, <2>1, <3>1
      <4>3. QED
        BY <3>1, <4>1, <4>2 DEF RowsFound, Refers
    <3>2. CASE ~(t = s /\ n \in sync[p].manifest)
      <4>1. records'[t][n] = records[t][n]
        BY <1>5, <1>6, <2>1, <3>2
      <4>2. QED
        BY <1>1, <2>1, <4>1 DEF StoreSound, Refers
    <3>3. QED
      BY <3>1, <3>2
  <2>2. QED
    BY <1>1, <2>1 DEF StoreSound, Refers
<1>9. AgentsResolve'
  BY <1>1 DEF AgentsResolve
<1>10. RunFrame(p, s)
  BY <1>1, <1>2, <1>4, <1>5, Typed DEF RunFrame, RowsGrow, TypeOK
<1>11. HoldsClaim(p)'
  BY <1>1, <1>4 DEF SessionInv, HoldsClaim, Recorded
<1>12. RowsFound(p)'
  BY <1>1, <1>3, <1>4 DEF SessionInv, RowsFound, Refers
<1>13. OwnsWhatItRemoves(p)'
  BY <1>1, <1>4 DEF SessionInv, OwnsWhatItRemoves
<1>14. Progress(p)'
  BY <1>1, <1>4, <1>6 DEF SessionInv, Progress
<1>15. HasRead(p)'
  <2>1. Fresh(p)' => Fresh(p)
    BY <1>4 DEF Fresh, Running, Writing, Recorded
  <2>2. Listed(s)' \ sync[p].manifest \subseteq Listed(s) \ sync[p].manifest
    BY <1>6 DEF Listed
  <2>3. QED
    BY <1>1, <1>3, <1>4, <2>1, <2>2 DEF SessionInv, HasRead
<1>16. SessionInv(p)'
  BY <1>11, <1>12, <1>13, <1>14, <1>15 DEF SessionInv
<1>17. QED
  BY <1>7, <1>8, <1>9, <1>10, <1>16, RunningStep

LEMMA RecordExternalKeeps ==
  ASSUME StageInv, NEW p \in Sessions, RecordExternal(p)
  PROVE  StageInv'
<1>1. sync[p].stage \in Stages
  BY RunningFacts
<1>2. /\ sync[p].pc \in Running
      /\ sync' = [sync EXCEPT ![p] = [sync[p] EXCEPT !.pc = "manifest"]]
      /\ \A n \in sync[p].manifest \cap External : sync[p].ids[n] # NoRow
      /\ records' = RecordsAfter(sync[p], FALSE)
      /\ UNCHANGED <<rows, agents, claim, declined, faults>>
  BY DEF RecordExternal, Step, Unwritten, Running, Writing
<1>3. "manifest" \in Recorded
  BY DEF Recorded
<1>4. QED
  BY <1>1, <1>2, <1>3, RecordsWritten

LEMMA DropRecordsKeeps ==
  ASSUME StageInv, NEW p \in Sessions, DropRecords(p)
  PROVE  StageInv'
<1>1. sync[p].stage \in Stages /\ Fits(p)
  BY RunningFacts
<1>2. /\ sync[p].pc = "remove"
      /\ sync' = [sync EXCEPT ![p] = [sync[p] EXCEPT !.pc = "done"]]
      /\ records' = RecordsAfter(sync[p], TRUE)
      /\ UNCHANGED <<rows, agents, claim, declined, faults>>
  BY DEF DropRecords, Step
<1>3. "done" \in Recorded /\ "remove" \in Recorded /\ "remove" \in Running
  BY DEF Recorded, Running, Writing
<1>4. \A n \in sync[p].manifest \cap External : sync[p].ids[n] # NoRow
  BY <1>1, <1>2, <1>3 DEF Fits
<1>5. QED
  BY <1>1, <1>2, <1>3, <1>4, RecordsWritten

LEMMA SyncManifestKeeps ==
  ASSUME StageInv, NEW p \in Sessions, SyncManifest(p)
  PROVE  StageInv'
<1> DEFINE s == sync[p].stage
           refers == {sync[p].ids[n] : n \in sync[p].manifest \cap External}
           pc == IF sync[p].prune THEN "own" ELSE "done"
<1>1. TypeOK /\ StoreSound /\ AgentsResolve /\ Fits(p) /\ SessionInv(p)
      /\ sync[p] \in Sync /\ Len(rows) \in Nat /\ s \in Stages
  BY RunningFacts
<1>2. /\ sync'[p] = [sync[p] EXCEPT !.pc = pc] /\ sync[p].pc = "manifest"
      /\ sync' = [sync EXCEPT ![p] = sync'[p]]
      /\ agents' = [agents EXCEPT ![s] = SyncedAgents(sync[p])]
      /\ UNCHANGED <<rows, records, claim, declined, faults>>
  BY <1>1 DEF SyncManifest, Step, TypeOK
<1>3. pc \in Running /\ pc \in Recorded /\ "manifest" \in Running
      /\ "manifest" \in Recorded /\ pc \in {"own", "done"}
      /\ (pc = "own" <=> sync[p].prune)
  BY DEF Running, Writing, Recorded
<1> HIDE DEF pc
<1>4. /\ sync'[p] \in Sync /\ sync'[p].pc = pc
      /\ sync'[p].stage = s /\ sync'[p].revision = sync[p].revision
      /\ sync'[p].manifest = sync[p].manifest /\ sync'[p].ids = sync[p].ids
      /\ sync'[p].seen = sync[p].seen /\ sync'[p].owned = sync[p].owned
      /\ sync'[p].dev = sync[p].dev /\ sync'[p].torn = sync[p].torn
      /\ sync'[p].deletes = sync[p].deletes /\ sync'[p].prune = sync[p].prune
  BY <1>1, <1>2, <1>3 DEF Sync
<1>5. /\ agents' = [t \in Stages |-> agents'[t]]
      /\ \A t \in Stages \ {s} : agents'[t] = agents[t]
      /\ agents'[s] = SyncedAgents(sync[p])
  BY <1>1, <1>2 DEF TypeOK
<1>6. /\ DOMAIN agents'[s] = (sync[p].manifest \cap Agents)
                              \cup (IF sync[p].prune THEN {} ELSE DOMAIN agents[s])
      /\ \A a \in DOMAIN agents'[s] :
           agents'[s][a] = IF a \in sync[p].manifest THEN refers ELSE agents[s][a]
      /\ agents'[s] = [a \in DOMAIN agents'[s] |-> agents'[s][a]]
  BY <1>5 DEF SyncedAgents
<1>7. \A i \in refers : /\ i \in 1 .. Len(rows) /\ s \in rows[i].of
                        /\ rows[i].name \in Servers => rows[i].active
  <2>1. ASSUME NEW n \in sync[p].manifest \cap External
        PROVE  /\ Refers(sync[p].ids[n], n, s)
               /\ n \in Servers => rows[sync[p].ids[n]].active
    BY <1>1, <1>2, <1>3 DEF Fits, SessionInv, RowsFound
  <2>2. QED
    BY <2>1 DEF Refers
<1> HIDE DEF refers
<1>8. TypeOK'
  <2>1. Fits(p)'
    BY <1>1, <1>2, <1>3, <1>4 DEF Fits
  <2>2. sync' \in [Sessions -> Sync] /\ \A q \in Sessions : Fits(q)'
    BY <1>1, <1>2, <2>1, SyncTyped
  <2>3. refers \subseteq 1 .. Len(rows) /\ DOMAIN agents[s] \subseteq Agents
        /\ agents[s] \in [DOMAIN agents[s] -> SUBSET (1 .. Len(rows))]
    BY <1>1, <1>7 DEF TypeOK
  <2>4. DOMAIN agents'[s] \subseteq Agents
    BY <1>6, <2>3
  <2>5. \A a \in DOMAIN agents'[s] : agents'[s][a] \in SUBSET (1 .. Len(rows))
    BY <1>6, <2>3
  <2>6. agents'[s] \in [DOMAIN agents'[s] -> SUBSET (1 .. Len(rows))]
    BY <1>6, <2>5
  <2>7. \A t \in Stages :
          /\ DOMAIN agents'[t] \subseteq Agents
          /\ agents'[t] \in [DOMAIN agents'[t] -> SUBSET (1 .. Len(rows))]
    BY <1>1, <1>5, <2>4, <2>6 DEF TypeOK
  <2>8. QED
    BY <1>1, <1>2, <1>5, <2>2, <2>7 DEF TypeOK, Fits
<1>9. StoreSound'
  BY <1>1, <1>2 DEF StoreSound, Refers
<1>10. AgentsResolve'
  <2>1. ASSUME NEW t \in Stages, NEW a \in DOMAIN agents'[t], NEW i \in agents'[t][a]
        PROVE  t \in rows[i].of /\ (rows[i].name \in Servers => rows[i].active)
    <3>1. CASE t = s /\ a \in sync[p].manifest
      BY <1>6, <1>7, <2>1, <3>1
    <3>2. CASE t = s /\ a \notin sync[p].manifest
      BY <1>1, <1>6, <2>1, <3>2 DEF AgentsResolve
    <3>3. CASE t # s
      BY <1>1, <1>5, <2>1, <3>3 DEF AgentsResolve
    <3>4. QED
      BY <3>1, <3>2, <3>3
  <2>2. QED
    BY <1>2, <2>1 DEF AgentsResolve
<1>11. RunFrame(p, s)
  BY <1>1, <1>2, <1>3, <1>4, <1>5, Typed DEF RunFrame, RowsGrow, TypeOK
<1>12. HoldsClaim(p)'
  BY <1>1, <1>2, <1>3, <1>4 DEF SessionInv, HoldsClaim
<1>13. RowsFound(p)'
  BY <1>1, <1>2, <1>3, <1>4 DEF SessionInv, RowsFound, Refers
<1>14. OwnsWhatItRemoves(p)'
  BY <1>1, <1>2, <1>3, <1>4 DEF SessionInv, OwnsWhatItRemoves
<1>15. Progress(p)'
  <2>1. \A n \in sync[p].manifest \cap External :
          sync[p].ids[n] # NoRow /\ records[s][n] = sync[p].ids[n]
    BY <1>1, <1>2, <1>3 DEF SessionInv, Progress
  <2>2. \A a \in sync[p].manifest \cap DOMAIN agents'[s] : agents'[s][a] = refers
    BY <1>6
  <2>3. sync[p].prune => DOMAIN agents'[s] \subseteq sync[p].manifest
    BY <1>6
  <2>4. ~(pc = "done" /\ sync[p].prune)
    BY <1>3
  <2>5. QED
    BY <1>2, <1>4, <2>1, <2>2, <2>3, <2>4 DEF Progress, refers
<1>16. HasRead(p)'
  <2>1. Fresh(p)' => Fresh(p)
    BY <1>2, <1>4 DEF Fresh
  <2>2. Listed(s)' \ sync[p].manifest \subseteq Listed(s) \ sync[p].manifest
    BY <1>2, <1>6 DEF Listed
  <2>3. QED
    BY <1>1, <1>2, <1>3, <1>4, <2>1, <2>2 DEF SessionInv, HasRead
<1>17. SessionInv(p)'
  BY <1>12, <1>13, <1>14, <1>15, <1>16 DEF SessionInv
<1>18. QED
  BY <1>1, <1>8, <1>9, <1>10, <1>11, <1>17, RunningStep

\* Only the end of row i is written, and only sync p no longer owns it.
LEMMA RemoveExternalKeeps ==
  ASSUME StageInv, NEW p \in Sessions, NEW i \in sync[p].owned, RemoveExternal(p, i)
  PROVE  StageInv'
<1> DEFINE s == sync[p].stage
           owned == sync[p].owned \ {i}
<1>1. TypeOK /\ StoreSound /\ AgentsResolve /\ Fits(p) /\ SessionInv(p)
      /\ sync[p] \in Sync /\ Len(rows) \in Nat /\ s \in Stages
      /\ rows \in Seq(Row) /\ DOMAIN rows = 1 .. Len(rows)
  BY RunningFacts, Typed DEF TypeOK, Row
<1>2. /\ sync'[p] = [sync[p] EXCEPT !.owned = owned] /\ sync[p].pc = "remove"
      /\ sync' = [sync EXCEPT ![p] = sync'[p]]
      /\ rows' = [rows EXCEPT ![i].active = FALSE]
      /\ UNCHANGED <<records, agents, claim, declined, faults>>
  BY <1>1 DEF RemoveExternal, Step, TypeOK
<1>3. "remove" \in Running /\ "remove" \in Recorded
  BY DEF Running, Writing, Recorded
<1>4. i \in 1 .. Len(rows) /\ s \in rows[i].of /\ rows[i].name \notin sync[p].manifest
      /\ sync[p].prune
  BY <1>1, <1>2 DEF SessionInv, OwnsWhatItRemoves
<1>5. /\ sync'[p] \in Sync /\ sync'[p].pc = "remove" /\ sync'[p].owned = owned
      /\ sync'[p].stage = s /\ sync'[p].revision = sync[p].revision
      /\ sync'[p].manifest = sync[p].manifest /\ sync'[p].ids = sync[p].ids
      /\ sync'[p].seen = sync[p].seen /\ sync'[p].prune = sync[p].prune
      /\ sync'[p].dev = sync[p].dev /\ sync'[p].torn = sync[p].torn
      /\ sync'[p].deletes = sync[p].deletes
  <2>1. owned \subseteq Nat
    BY <1>1 DEF Sync
  <2>2. QED
    BY <1>1, <1>2, <2>1 DEF Sync
<1>6. /\ rows' \in Seq(Row) /\ Len(rows') = Len(rows)
      /\ \A k \in 1 .. Len(rows) :
           /\ rows'[k].name = rows[k].name /\ rows'[k].of = rows[k].of
           /\ k # i => rows'[k] = rows[k]
  <2> DEFINE row == [rows[i] EXCEPT !.active = FALSE]
  <2>1. rows[i] \in Row
    BY <1>1, <1>4
  <2>2. row \in Row /\ row.name = rows[i].name /\ row.of = rows[i].of
    BY <2>1 DEF Row
  <2>3. rows' = [rows EXCEPT ![i] = row]
    BY <1>2
  <2> HIDE DEF row
  <2>4. rows' \in Seq(Row) /\ Len(rows') = Len(rows)
    BY <1>1, <1>4, <2>2, <2>3
  <2>5. rows'[i] = row /\ \A k \in 1 .. Len(rows) : k # i => rows'[k] = rows[k]
    BY <1>1, <1>4, <2>3
  <2>6. QED
    BY <2>2, <2>4, <2>5
<1>7. RowsGrow
  BY <1>1, <1>6 DEF RowsGrow
<1>8. TypeOK'
  <2>1. Fits(p)'
    BY <1>1, <1>2, <1>3, <1>5, <1>6 DEF Fits
  <2>2. Len(rows) =< Len(rows') /\ Len(rows') \in Nat
    BY <1>1, <1>6
  <2>3. sync' \in [Sessions -> Sync] /\ \A q \in Sessions : Fits(q)'
    BY <1>1, <1>2, <2>1, <2>2, SyncTyped
  <2>4. QED
    BY <1>1, <1>2, <1>6, <2>3 DEF TypeOK, Fits, Row
<1>9. StoreSound'
  BY <1>1, <1>2, <1>6 DEF StoreSound, Refers
<1>10. AgentsResolve'
  <2> SUFFICES ASSUME NEW t \in Stages, NEW a \in DOMAIN agents[t],
                      NEW k \in agents[t][a]
               PROVE  /\ t \in rows'[k].of
                      /\ rows'[k].name \in Servers => rows'[k].active
    BY <1>2 DEF AgentsResolve
  <2>1. k \in 1 .. Len(rows)
    BY <1>1 DEF TypeOK
  <2>2. t \in rows[k].of /\ (rows[k].name \in Servers => rows[k].active)
    BY <1>1 DEF AgentsResolve
  <2>3. ASSUME k = i, rows[i].name \in Servers
        PROVE  FALSE
    <3>1. t = s
      BY <1>1, <1>4, <2>2, <2>3 DEF StoreSound
    <3>2. a \in sync[p].manifest
      BY <1>1, <1>2, <1>4, <3>1 DEF SessionInv, Progress
    <3>3. agents[s][a] = {sync[p].ids[n] : n \in sync[p].manifest \cap External}
      BY <1>1, <1>2, <3>1, <3>2 DEF SessionInv, Progress
    <3>4. PICK n \in sync[p].manifest \cap External : i = sync[p].ids[n]
      BY <2>3, <3>1, <3>3
    <3>5. rows[i].name = n
      BY <1>1, <1>2, <1>3, <3>4 DEF Fits, SessionInv, RowsFound, Refers
    <3>6. QED
      BY <1>4, <3>4, <3>5
  <2>4. QED
    BY <1>6, <2>1, <2>2, <2>3
<1>11. \A q \in Sessions \ {p} : sync'[q] = sync[q]
  BY <1>1, <1>2 DEF TypeOK
<1>12. RunFrame(p, s)
  BY <1>1, <1>2, <1>3, <1>4, <1>5, <1>6, <1>7, <1>11 DEF RunFrame
<1>13. HoldsClaim(p)'
  BY <1>1, <1>2, <1>3, <1>5 DEF SessionInv, HoldsClaim
<1>14. RowsFound(p)'
  <2> RowsFound(p)
    BY <1>1 DEF SessionInv
  <2>1. ASSUME NEW n \in External, sync[p].ids[n] # NoRow
        PROVE  sync[p].ids[n] \in 1 .. Len(rows) /\ sync[p].ids[n] # i
    BY <1>1, <1>4, <2>1 DEF RowsFound, Refers
  <2>2. \A n \in External : sync[p].ids[n] # NoRow =>
          /\ sync[p].ids[n] \in 1 .. Len(rows') /\ rows'[sync[p].ids[n]].name = n
          /\ s \in rows'[sync[p].ids[n]].of /\ n \in sync[p].manifest
          /\ n \in Servers => rows'[sync[p].ids[n]].active
    BY <1>6, <2>1 DEF RowsFound, Refers
  <2>3. \A n \in External : sync[p].seen[n] # NoRow =>
          /\ sync[p].seen[n] \in 1 .. Len(rows') /\ rows'[sync[p].seen[n]].name = n
          /\ s \in rows'[sync[p].seen[n]].of
    BY <1>6 DEF RowsFound, Refers
  <2>4. QED
    BY <1>3, <1>5, <2>2, <2>3 DEF RowsFound, Refers
<1>15. OwnsWhatItRemoves(p)'
  BY <1>1, <1>4, <1>5, <1>6 DEF SessionInv, OwnsWhatItRemoves
<1>16. Progress(p)'
  BY <1>1, <1>2, <1>3, <1>5 DEF SessionInv, Progress
<1>17. HasRead(p)'
  <2>1. Fresh(p)' => Fresh(p)
    BY <1>2, <1>5 DEF Fresh
  <2>2. \A k \in owned : rows'[k].name = rows[k].name
    BY <1>1, <1>6 DEF Fits
  <2>3. QED
    BY <1>1, <1>2, <1>3, <1>5, <2>1, <2>2 DEF SessionInv, HasRead, Listed
<1>18. SessionInv(p)'
  BY <1>13, <1>14, <1>15, <1>16, <1>17 DEF SessionInv
<1>19. QED
  BY <1>1, <1>8, <1>9, <1>10, <1>12, <1>18, RunningStep

-----------------------------------------------------------------------------
(* The theorems.                                                            *)

LEMMA SessionKeeps ==
  ASSUME StageInv, NEW p \in Sessions, SessionStep(p)
  PROVE  StageInv'
<1>1. ASSUME NEW s \in Stages, NEW m \in Manifests[s], NEW prune \in BOOLEAN,
             NEW fenced \in BOOLEAN, Deploy(p, s, m, prune, fenced)
      PROVE  StageInv'
  BY <1>1, DeployKeeps
<1>2. ASSUME NEW s \in Stages, NEW m \in Manifests[s], Get(p, s, m)
      PROVE  StageInv'
  BY <1>2, GetKeeps
<1>3. CASE Put(p)
  BY <1>3, PutKeeps
<1>4. CASE Conflict(p)
  BY <1>4, GivesUp, RunningFacts DEF Conflict
<1>5. CASE Confirm(p)
  BY <1>5, ConfirmKeeps
<1>6. CASE Decline(p)
  <2>1. declined' \in [Sessions -> SUBSET Resource]
    <3>1. Undecided(p) \subseteq Resource
      BY RunningFacts DEF Undecided, Sync
    <3>2. QED
      BY <1>6, <3>1, RunningFacts DEF Decline
  <2>2. QED
    BY <1>6, <2>1, GivesUp DEF Decline
<1>7. QED
  BY <1>1, <1>2, <1>3, <1>4, <1>5, <1>6 DEF SessionStep

LEMMA StepKeeps == StageInv /\ [Next]_vars => StageInv'
<1> SUFFICES ASSUME StageInv, [Next]_vars PROVE StageInv'
  OBVIOUS
<1>1. CASE UNCHANGED vars
  <2>1. UNCHANGED <<rows, records, agents, claim, sync, declined, faults>>
    BY <1>1 DEF vars, store
  <2>2. TypeOK'
    BY <2>1 DEF StageInv, TypeOK
  <2>3. StoreSound' /\ AgentsResolve' /\ Exclusive'
    BY <2>1 DEF StageInv, StoreSound, AgentsResolve, Exclusive, Refers
  <2>4. ASSUME NEW q \in Sessions
        PROVE  SessionInv(q)'
    <3>1. SessionInv(q)
      BY DEF StageInv
    <3>2. HoldsClaim(q)' /\ OwnsWhatItRemoves(q)' /\ Progress(q)'
      BY <2>1, <3>1 DEF SessionInv, HoldsClaim, OwnsWhatItRemoves, Progress
    <3>3. RowsFound(q)' /\ HasRead(q)'
      BY <2>1, <3>1 DEF SessionInv, RowsFound, Refers, HasRead, Fresh, Listed, Busy
    <3>4. QED
      BY <3>2, <3>3 DEF SessionInv
  <2>5. QED
    BY <2>2, <2>3, <2>4 DEF StageInv
<1>2. ASSUME NEW p \in Sessions, SyncStep(p)
      PROVE  StageInv'
  <2>1. ASSUME NEW n \in Hooks, SyncHook(p, n) PROVE StageInv'
    BY <2>1, SyncHookKeeps
  <2>2. ASSUME NEW n \in Servers, SyncServer(p, n) PROVE StageInv'
    BY <2>2, SyncServerKeeps
  <2>3. ASSUME NEW i \in sync[p].owned, RemoveExternal(p, i) PROVE StageInv'
    BY <2>3, RemoveExternalKeeps
  <2>4. QED
    BY <1>2, <2>1, <2>2, <2>3, FenceKeeps, ListHooksKeeps, RecordExternalKeeps,
       SyncManifestKeeps, ReadOwnershipKeeps, DropRecordsKeeps, FinishKeeps
    DEF SyncStep
<1>3. QED
  BY <1>1, <1>2, SessionKeeps, FailKeeps, DieKeeps, LapseKeeps, DeleteResourceKeeps
  DEF Next

\* A session's steps take from the stages' lists and rows what it means to delete.
TakesOnlyDeletes(p) ==
  /\ \A t \in Stages : Listed(t) \ Listed(t)' \subseteq sync[p].deletes
  /\ \A i \in DOMAIN rows :
       rows[i].active /\ ~rows'[i].active => rows[i].name \in sync[p].deletes

LEMMA KeptTakesNothing ==
  ASSUME NEW p, UNCHANGED <<records, agents>>,
         \A i \in DOMAIN rows : rows[i].active => rows'[i].active
  PROVE  TakesOnlyDeletes(p)
BY DEF TakesOnlyDeletes, Listed

LEMMA RunningTakesOnlyDeletes ==
  ASSUME StageInv, NEW p \in Sessions, SyncStep(p), sync[p].dev, ~sync[p].torn
  PROVE  TakesOnlyDeletes(p)
<1> DEFINE s == sync[p].stage
           y == sync[p]
<1>1. TypeOK /\ SessionInv(p) /\ s \in Stages /\ Len(rows) \in Nat
      /\ DOMAIN rows = 1 .. Len(rows)
  BY RunningFacts, Typed
<1>2. ASSUME y.pc \in Running
      PROVE  /\ Listed(s) \ y.manifest \subseteq y.deletes
             /\ \A i \in y.owned : rows[i].name \in y.deletes
  BY <1>1, <1>2 DEF SessionInv, HasRead, Fresh, HoldsClaim, Running, Writing, Recorded
<1>3. CASE UNCHANGED store
  BY <1>3, KeptTakesNothing DEF store
<1>4. ASSUME NEW n, NEW i, IF i = NoRow THEN Create(p, n) ELSE Update(p, n, i),
             UNCHANGED <<records, agents>>
      PROVE  TakesOnlyDeletes(p)
  <2>1. \A k \in DOMAIN rows : rows'[k] = rows[k]
    BY <1>1, <1>4 DEF Create, Update, TypeOK
  <2>2. QED
    BY <1>4, <2>1, KeptTakesNothing
<1>5. ASSUME NEW drops \in BOOLEAN, y.pc \in Running,
             records' = RecordsAfter(y, drops), UNCHANGED <<rows, agents>>,
             \A n \in y.manifest \cap External : y.ids[n] # NoRow
      PROVE  TakesOnlyDeletes(p)
  <2>1. /\ \A t \in Stages \ {s} : records'[t] = records[t]
        /\ \A n \in y.manifest \cap External : records'[s][n] # NoRow
    BY <1>1, <1>5 DEF RecordsAfter, TypeOK
  <2>2. \A t \in Stages : Listed(t) \ Listed(t)' \subseteq y.deletes
    BY <1>2, <1>5, <2>1 DEF Listed
  <2>3. QED
    BY <1>5, <2>2 DEF TakesOnlyDeletes
<1>6. CASE RecordExternal(p)
  <2>1. y.pc \in Running /\ \A n \in y.manifest \cap External : y.ids[n] # NoRow
    BY <1>6 DEF RecordExternal, Step, Unwritten, Running, Writing
  <2>2. QED
    BY <1>5, <1>6, <2>1 DEF RecordExternal
<1>7. CASE DropRecords(p)
  <2>1. y.pc \in Running /\ \A n \in y.manifest \cap External : y.ids[n] # NoRow
    BY <1>1, <1>7 DEF DropRecords, Step, TypeOK, Running, Writing, Recorded
  <2>2. QED
    BY <1>5, <1>7, <2>1 DEF DropRecords
<1>8. CASE SyncManifest(p)
  <2>1. y.pc \in Running /\ UNCHANGED <<rows, records>>
        /\ agents' = [agents EXCEPT ![s] = SyncedAgents(y)]
    BY <1>8 DEF SyncManifest, Step, Running, Writing, Recorded
  <2>2. /\ \A t \in Stages \ {s} : agents'[t] = agents[t]
        /\ \A a \in y.manifest \cap Agents : a \in DOMAIN agents'[s]
    BY <1>1, <2>1 DEF TypeOK, SyncedAgents
  <2>3. DOMAIN agents[s] \subseteq Agents
    BY <1>1 DEF TypeOK
  <2>4. \A t \in Stages : Listed(t) \ Listed(t)' \subseteq y.deletes
    BY <1>2, <2>1, <2>2, <2>3 DEF Listed
  <2>5. QED
    BY <2>1, <2>4 DEF TakesOnlyDeletes
<1>9. ASSUME NEW i \in y.owned, RemoveExternal(p, i)
      PROVE  TakesOnlyDeletes(p)
  <2>1. y.pc \in Running /\ UNCHANGED <<records, agents>>
        /\ rows' = [rows EXCEPT ![i].active = FALSE]
    BY <1>9 DEF RemoveExternal, Step, Running, Writing, Recorded
  <2>2. \A k \in DOMAIN rows : k # i => rows'[k] = rows[k]
    BY <2>1
  <2>3. rows[i].name \in y.deletes
    BY <1>2, <1>9, <2>1
  <2>4. QED
    BY <2>1, <2>2, <2>3 DEF TakesOnlyDeletes, Listed
<1>10. QED
  BY <1>3, <1>4, <1>6, <1>7, <1>8, <1>9
  DEF SyncStep, Fence, ListHooks, ReadOwnership, Finish, SyncHook, SyncServer

\* What a session does before and after its PUTs, and what goes wrong, leaves
\* the store alone.
LEMMA IdleStepKeepsStore ==
  ASSUME NEW p, SessionStep(p) \/ Fail(p) \/ Die(p)
  PROVE  UNCHANGED store
<1>1. ASSUME NEW s, NEW m, NEW prune, NEW fenced, Deploy(p, s, m, prune, fenced)
      PROVE  UNCHANGED store
  BY <1>1 DEF Deploy, Claim
<1>2. ASSUME NEW s, NEW m, Get(p, s, m)
      PROVE  UNCHANGED store
  BY <1>2 DEF Get
<1>3. ASSUME Put(p)
      PROVE  UNCHANGED store
  BY <1>3 DEF Put, Claim
<1>4. ASSUME Conflict(p) \/ Confirm(p) \/ Decline(p) \/ Fail(p) \/ Die(p)
      PROVE  UNCHANGED store
  BY <1>4 DEF Conflict, Confirm, Decline, Fail, Die
<1>5. QED
  BY <1>1, <1>2, <1>3, <1>4 DEF SessionStep

\* A session's step is no other session's.
LEMMA OthersStay ==
  ASSUME TypeOK, NEW q \in Sessions, NEW p \in Sessions \ {q},
         SessionStep(q) \/ SyncStep(q) \/ Fail(q) \/ Die(q)
  PROVE  sync'[p] = sync[p]
<1>1. DOMAIN sync = Sessions
  BY DEF TypeOK
<1>2. ASSUME NEW z, sync' = [sync EXCEPT ![q] = z]
      PROVE  sync'[p] = sync[p]
  BY <1>1, <1>2
<1>3. ASSUME NEW y, Claim(q, y)
      PROVE  sync'[p] = sync[p]
  BY <1>1, <1>3 DEF Claim
<1>4. CASE SessionStep(q)
  <2>1. ASSUME NEW s, NEW m, NEW prune, NEW fenced, Deploy(q, s, m, prune, fenced)
        PROVE  sync'[p] = sync[p]
    BY <1>3, <2>1 DEF Deploy
  <2>2. ASSUME NEW s, NEW m, Get(q, s, m)
        PROVE  sync'[p] = sync[p]
    BY <1>1, <2>2 DEF Get
  <2>3. ASSUME Put(q)
        PROVE  sync'[p] = sync[p]
    BY <1>3, <2>3 DEF Put
  <2>4. ASSUME Conflict(q) \/ Confirm(q) \/ Decline(q)
        PROVE  sync'[p] = sync[p]
    BY <1>1, <2>4 DEF Conflict, Confirm, Decline
  <2>5. QED
    BY <1>4, <2>1, <2>2, <2>3, <2>4 DEF SessionStep
<1>5. ASSUME NEW pc, NEW y, Step(q, pc, y)
      PROVE  sync'[p] = sync[p]
  BY <1>1, <1>5 DEF Step
<1>6. CASE SyncStep(q)
  <2>1. ASSUME NEW n, SyncHook(q, n) \/ SyncServer(q, n)
        PROVE  sync'[p] = sync[p]
    <3>1. \E i : Create(q, n) \/ Update(q, n, i)
      BY <2>1 DEF SyncHook, SyncServer
    <3>2. QED
      BY <1>5, <3>1 DEF Create, Update
  <2>2. ASSUME NEW i, RemoveExternal(q, i)
        PROVE  sync'[p] = sync[p]
    BY <1>5, <2>2 DEF RemoveExternal
  <2>3. ASSUME Fence(q) \/ ListHooks(q) \/ RecordExternal(q) \/ SyncManifest(q)
        PROVE  sync'[p] = sync[p]
    BY <1>5, <2>3 DEF Fence, ListHooks, RecordExternal, SyncManifest
  <2>4. ASSUME ReadOwnership(q) \/ DropRecords(q)
        PROVE  sync'[p] = sync[p]
    BY <1>5, <2>4 DEF ReadOwnership, DropRecords
  <2>5. ASSUME Finish(q)
        PROVE  sync'[p] = sync[p]
    BY <1>1, <2>5 DEF Finish
  <2>6. QED
    BY <1>6, <2>1, <2>2, <2>3, <2>4, <2>5 DEF SyncStep
<1>7. CASE Fail(q) \/ Die(q)
  BY <1>1, <1>7 DEF Fail, Die
<1>8. QED
  BY <1>4, <1>6, <1>7

LEMMA StepTakesOnlyDeletes ==
  ASSUME StageInv, [Next]_vars, NEW p \in Sessions, sync[p].dev, ~sync[p].torn
  PROVE  Removes(p) \subseteq sync[p].deletes
<1>1. CASE sync'[p] = sync[p]
  BY <1>1 DEF Removes
<1>2. CASE sync'[p] # sync[p]
  <2>1. TypeOK
    BY DEF StageInv
  <2>2. SessionStep(p) \/ SyncStep(p) \/ Fail(p) \/ Die(p)
    BY <1>2, <2>1, OthersStay DEF Next, vars, Lapse, DeleteResource
  <2>3. ASSUME SessionStep(p) \/ Fail(p) \/ Die(p)
        PROVE  TakesOnlyDeletes(p)
    <3>1. UNCHANGED store
      BY <2>3, IdleStepKeepsStore
    <3>2. rows' = rows /\ UNCHANGED <<records, agents>>
      BY <3>1 DEF store
    <3>3. \A i \in DOMAIN rows : rows[i].active => rows'[i].active
      BY <3>2
    <3>4. QED
      BY <3>2, <3>3, KeptTakesNothing
  <2>4. TakesOnlyDeletes(p)
    BY <2>2, <2>3, RunningTakesOnlyDeletes
  <2>5. /\ UNION {Listed(s) \ Listed(s)' : s \in Stages} \subseteq sync[p].deletes
        /\ \A i \in DOMAIN rows :
             rows[i].active /\ ~rows'[i].active => rows[i].name \in sync[p].deletes
    BY <2>4 DEF TakesOnlyDeletes
  <2>6. QED
    BY <1>2, <2>5 DEF Removes
<1>3. QED
  BY <1>1, <1>2

THEOREM StageInvariant == Spec => []StageInv
<1>1. QED
  BY InitInv, StepKeeps, PTL DEF Spec

\* Types hold for every set of stages, sessions and manifests.
THEOREM TypeCorrect == Spec => []TypeOK
<1>1. StageInv => TypeOK
  BY DEF StageInv
<1>2. QED
  BY <1>1, StageInvariant, PTL

\* A stage is never written by two syncs at once: the claim outlives them.
\* (claimManifestRevision, MANIFEST_SYNC_TIMEOUT_MS.)
THEOREM OneWriter == Spec => []Exclusive
<1>1. StageInv => Exclusive
  BY DEF StageInv
<1>2. QED
  BY <1>1, StageInvariant, PTL

\* An agent never refers to an MCP server that is gone.
THEOREM ServersAreThere == Spec => []RefsResolve
<1>1. StageInv => RefsResolve
  BY DEF StageInv, AgentsResolve, RefsResolve
<1>2. QED
  BY <1>1, StageInvariant, PTL

\* A sync that got through leaves the stage as its manifest says.
THEOREM SyncIsApplied == Spec => []CompletedIsApplied
<1>1. StageInv => CompletedIsApplied
  <2> SUFFICES ASSUME StageInv, NEW p \in Sessions, sync[p].pc = "done"
               PROVE  Applied(sync[p])
    BY DEF CompletedIsApplied
  <2> DEFINE y == sync[p]
  <2>1. TypeOK /\ SessionInv(p) /\ "done" \in Recorded /\ y.stage \in Stages
    BY RunningFacts DEF Recorded
  <2>2. \A n \in y.manifest \cap External :
          y.ids[n] # NoRow /\ records[y.stage][n] = y.ids[n]
    BY <2>1 DEF SessionInv, Progress
  <2>3. \A n \in y.manifest \cap Servers : rows[y.ids[n]].active
    BY <2>1, <2>2 DEF SessionInv, RowsFound, External
  <2>4. \A a \in y.manifest \cap DOMAIN agents[y.stage] :
          agents[y.stage][a] = {y.ids[n] : n \in y.manifest \cap External}
    BY <2>1 DEF SessionInv, Progress
  <2>5. y.prune => Listed(y.stage) \subseteq y.manifest
    BY <2>1 DEF SessionInv, Progress, Listed
  <2>6. QED
    BY <2>2, <2>3, <2>4, <2>5 DEF Applied
<1>2. QED
  BY <1>1, StageInvariant, PTL

\* dev deletes only what it found to be no longer declared when it read the stage.
THEOREM OnlyWhatWasRead == Spec => DeletesWereRead
<1>1. StageInv /\ [Next]_vars =>
        [\A p \in Sessions :
           sync[p].dev /\ ~sync[p].torn => Removes(p) \subseteq sync[p].deletes]_vars
  BY StepTakesOnlyDeletes
<1>2. QED
  BY <1>1, StageInvariant, PTL DEF Spec, DeletesWereRead

=============================================================================
