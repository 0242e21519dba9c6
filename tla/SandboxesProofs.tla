--------------------------- MODULE SandboxesProofs ---------------------------
(***************************************************************************)
(* Theorems about Sandboxes, for any number of runs, sweepers, machines and  *)
(* failures.                                                                *)
(*                                                                         *)
(* Every actor works with what it read some steps ago.  The invariant says    *)
(* what a stale reader may still hold: a run that forgets a machine saw one    *)
(* that is gone, a sweep gives back the row of a machine it killed, and what  *)
(* a sweep has on its list was past its deadline when no run was at work.    *)
(***************************************************************************)
EXTENDS Sandboxes, FiniteSetTheorems, TLAPS

\* What sweeper s has left on its list.
Elems(queue) == {queue[i] : i \in 1 .. Len(queue)}
Listed(s) == Elems(sweep[s].queue)

\* A machine whose row, or mirror, or entry on a list is of an earlier week.
Aged(m) ==
  \/ Names(reservation, m) /\ reservation.expired
  \/ Names(mirror, m) /\ mirror.expired
  \/ \E s \in Sweeper : m \in Listed(s)

\* No sweep takes it: its row is fresh, or it lost it to a claim undone.
Kept(m) ==
  \/ Names(reservation, m) /\ ~reservation.expired
  \/ ClaimUndone(m) /\ ~Aged(m)

WorldOK ==
  /\ provider \in Provider
  /\ alive \subseteq made /\ made \subseteq Machine /\ old \subseteq made
  /\ reservation \in Rows /\ (reservation # None => reservation.id \in made)
  /\ mirror \in Rows /\ (mirror # None => mirror.id \in made)
  /\ lease \in Sweeper \cup {None}
  /\ faults \in 0 .. Faults

ClearOK ==
  /\ clear \in [at : {"idle", "kill", "unreserve", "free", "unmirror", "done"},
                id : Machine \cup {None}]
  /\ clear.id \in made \cup {None}

RunOK(r) ==
  LET y == run[r] IN
  /\ y.saw \in made \cup {None} /\ y.holds \in made \cup {None}
  /\ y.at \in {"connect", "retire", "save", "forget", "reach"} => y.saw # None
  /\ y.at \in {"save", "claim", "lost", "drop", "undo", "mirror", "using"} =>
       y.holds # None
  /\ y.at = "forget" => y.saw \notin alive
  /\ y.at = "undo" => y.how = "undone"
  /\ y.how = "undone" => y.at \in {"undo", "done"}
  /\ \A m \in Machine : y.holds = m =>
       /\ y.at \in {"claim", "undo"} => ~Aged(m)
       /\ /\ y.at \in {"mirror", "using"} /\ y.how = "saved"
          /\ m \in alive /\ clear.at = "idle"
          => Kept(m)

Sweep ==
  [at : {"idle", "listed", "take", "kill", "unreserve", "unmirror",
         "handback", "defer", "release"},
   queue : Seq(Machine), leased : BOOLEAN, freed : BOOLEAN]

Reclaiming == {"take", "kill", "unreserve", "unmirror", "handback"}

SweepOK(s) ==
  /\ Listed(s) \subseteq made
  /\ sweep[s].at \in Reclaiming => sweep[s].queue # << >>
  /\ sweep[s].at \in {"unreserve", "unmirror"} => Entry(s) \notin alive

SandboxInv ==
  /\ WorldOK /\ ClearOK
  /\ run \in [Run -> Actor] /\ \A r \in Run : RunOK(r)
  /\ sweep \in [Sweeper -> Sweep] /\ \A s \in Sweeper : SweepOK(s)

-----------------------------------------------------------------------------
(* Rows and lists.                                                          *)

LEMMA FreshRow ==
  ASSUME NEW m \in Machine
  PROVE  /\ Fresh(m) \in Rows /\ Fresh(m) # None
         /\ Fresh(m).id = m /\ Fresh(m).expired = FALSE
<1>1. Fresh(m) \in [id : Machine, expired : BOOLEAN]
  BY DEF Fresh
<1>2. QED
  BY <1>1, SandboxesAssumption DEF Rows, Fresh

LEMMA FaultType ==
  ASSUME WorldOK, Fault \/ NoFault
  PROVE  faults' \in 0 .. Faults
BY SandboxesAssumption DEF WorldOK, Fault, NoFault

LEMMA SomeMachine ==
  ASSUME NEW x \in Machine \cup {None}, x # None
  PROVE  x \in Machine
OBVIOUS

LEMMA QueueParts ==
  ASSUME NEW queue \in Seq(Machine), queue # << >>
  PROVE  /\ Tail(queue) \in Seq(Machine) /\ Elems(Tail(queue)) \subseteq Elems(queue)
         /\ Head(queue) \in Elems(queue) /\ Head(queue) \in Machine
<1>1. Len(queue) \in Nat \ {0} /\ Tail(queue) \in Seq(Machine)
      /\ Len(Tail(queue)) = Len(queue) - 1 /\ Head(queue) = queue[1]
      /\ \A i \in 1 .. Len(queue) - 1 : Tail(queue)[i] = queue[i + 1]
  OBVIOUS
<1>2. ASSUME NEW i \in 1 .. Len(Tail(queue))
      PROVE  Tail(queue)[i] \in Elems(queue)
  <2>1. i + 1 \in 1 .. Len(queue) /\ Tail(queue)[i] = queue[i + 1]
    BY <1>1
  <2>2. QED
    BY <2>1 DEF Elems
<1>3. 1 \in 1 .. Len(queue) /\ queue[1] \in Machine
  BY <1>1
<1>4. QED
  BY <1>1, <1>2, <1>3 DEF Elems

LEMMA QueueAdd ==
  ASSUME NEW queue \in Seq(Machine), NEW m \in Machine
  PROVE  /\ queue \o <<m>> \in Seq(Machine)
         /\ Elems(queue \o <<m>>) = Elems(queue) \cup {m}
         /\ queue \o << >> = queue
         /\ << >> \in Seq(Machine) /\ Elems(<< >>) = {}
         /\ <<m>> \in Seq(Machine) /\ Elems(<<m>>) = {m}
<1>1. queue \o <<m>> \in Seq(Machine) /\ Len(queue) \in Nat
      /\ Len(queue \o <<m>>) = Len(queue) + 1
      /\ (queue \o <<m>>)[Len(queue) + 1] = m
      /\ \A i \in 1 .. Len(queue) : (queue \o <<m>>)[i] = queue[i]
  OBVIOUS
<1>2. 1 .. Len(queue) + 1 = (1 .. Len(queue)) \cup {Len(queue) + 1}
  BY <1>1
<1>3. Elems(queue \o <<m>>) = Elems(queue) \cup {m}
  BY <1>1, <1>2 DEF Elems
<1>4. QED
  BY <1>1, <1>3 DEF Elems

-----------------------------------------------------------------------------
(* What a step of one actor means to the others.                            *)

\* A machine that is gone stays gone.
Lives == made \subseteq made' /\ alive' \cap made \subseteq alive

\* The row is left, refreshed or claimed; else it goes, of a dead machine, past
\* its deadline, for the cleanup, or by a claim that is undone.
RowLasts ==
  \/ reservation' = reservation
  \/ /\ reservation' # None /\ reservation'.expired = FALSE
     /\ reservation # None => reservation'.id = reservation.id
  \/ /\ reservation' = None
     /\ \E m \in made :
          /\ Names(reservation, m)
          /\ \/ m \notin alive' \/ reservation.expired \/ clear'.at # "idle"
             \/ ClaimUndone(m)' /\ ~Aged(m)

MirrorLasts ==
  mirror' \in {mirror, None} \/ (mirror' # None /\ mirror'.expired = FALSE)

UndoneStays == \A m \in made : ClaimUndone(m) => ClaimUndone(m)'

\* What is put on a list is past its deadline.
ListsAged == \A s \in Sweeper, m \in made : m \in Listed(s)' => Aged(m)

ClearGoesOn == clear.at # "idle" => clear'.at # "idle"

Gentle ==
  /\ Lives /\ ClearGoesOn
  /\ \A m \in made : Aged(m)' => Aged(m)
  /\ \A m \in made : m \in alive' /\ clear'.at = "idle" /\ Kept(m) => Kept(m)'

LEMMA GentleBy ==
  ASSUME WorldOK, Lives, RowLasts, MirrorLasts, UndoneStays, ListsAged, ClearGoesOn
  PROVE  Gentle
<1>1. ASSUME NEW m \in made, Aged(m)'
      PROVE  Aged(m)
  <2>1. CASE Names(reservation, m)' /\ reservation'.expired
    BY <2>1 DEF RowLasts, Names, Aged
  <2>2. CASE Names(mirror, m)' /\ mirror'.expired
    BY <2>2 DEF MirrorLasts, Names, Aged
  <2>3. CASE \E s \in Sweeper : m \in Listed(s)'
    BY <2>3 DEF ListsAged
  <2>4. QED
    BY <1>1, <2>1, <2>2, <2>3 DEF Aged
<1>2. ASSUME NEW m \in made, m \in alive', clear'.at = "idle", Kept(m)
      PROVE  Kept(m)'
  <2>1. CASE ClaimUndone(m) /\ ~Aged(m)
    BY <1>1, <2>1 DEF Kept, UndoneStays
  <2>2. CASE Names(reservation, m) /\ ~reservation.expired
    <3>1. CASE reservation' # None
      BY <2>2, <3>1 DEF RowLasts, Names, Kept
    <3>2. CASE reservation' = None
      <4>1. ClaimUndone(m)' /\ ~Aged(m)
        BY <1>2, <2>2, <3>2 DEF RowLasts, Names
      <4>2. QED
        BY <1>1, <4>1 DEF Kept
    <3>3. QED
      BY <3>1, <3>2
  <2>3. QED
    BY <1>2, <2>1, <2>2 DEF Kept
<1>3. QED
  BY <1>1, <1>2 DEF Gentle

LEMMA RunKept ==
  ASSUME WorldOK, NEW r \in Run, RunOK(r), run'[r] = run[r], Gentle
  PROVE  RunOK(r)'
<1> DEFINE y == run[r]
<1>1. y.saw \in made' \cup {None} /\ y.holds \in made' \cup {None}
      /\ (y.at = "forget" => y.saw \notin alive')
  BY DEF RunOK, Gentle, Lives
<1>2. ASSUME NEW m \in Machine, y.holds = m
      PROVE  /\ y.at \in {"claim", "undo"} => ~Aged(m)'
             /\ /\ y.at \in {"mirror", "using"} /\ y.how = "saved"
                /\ m \in alive' /\ clear'.at = "idle"
                => Kept(m)'
  <2>1. m \in made
    BY <1>2, SandboxesAssumption DEF RunOK
  <2>2. y.at \in {"claim", "undo"} => ~Aged(m)'
    BY <1>2, <2>1 DEF RunOK, Gentle
  <2>3. ASSUME y.at \in {"mirror", "using"}, y.how = "saved",
               m \in alive', clear'.at = "idle"
        PROVE  Kept(m)'
    <3>1. m \in alive /\ clear.at = "idle"
      BY <2>1, <2>3 DEF Gentle, Lives, ClearGoesOn
    <3>2. Kept(m)
      BY <1>2, <2>3, <3>1 DEF RunOK
    <3>3. QED
      BY <2>1, <2>3, <3>2 DEF Gentle
  <2>4. QED
    BY <2>2, <2>3
<1>3. QED
  BY <1>1, <1>2 DEF RunOK

LEMMA SweepKept ==
  ASSUME NEW s \in Sweeper, sweep[s] \in Sweep, SweepOK(s), sweep'[s] = sweep[s],
         Lives
  PROVE  SweepOK(s)'
<1>1. Listed(s)' = Listed(s) /\ Entry(s)' = Entry(s)
  BY DEF Listed, Entry
<1>2. ASSUME sweep[s].at \in {"unreserve", "unmirror"}
      PROVE  Entry(s) \in made
  <2>1. sweep[s].queue # << >> /\ sweep[s].queue \in Seq(Machine)
    BY <1>2 DEF SweepOK, Reclaiming, Sweep
  <2>2. QED
    BY <2>1, QueueParts DEF SweepOK, Listed, Entry
<1>3. QED
  BY <1>1, <1>2 DEF SweepOK, Lives

\* A step of run r, to y.
LEMMA RunActs ==
  ASSUME SandboxInv, WorldOK', NEW r \in Run, NEW y \in Actor,
         run' = [run EXCEPT ![r] = y], Others, Lives, RowLasts, MirrorLasts,
         run[r].how = "undone" => y.how = "undone" /\ y.holds = run[r].holds,
         Gentle => RunOK(r)'
  PROVE  SandboxInv'
<1>1. /\ run' \in [Run -> Actor] /\ run'[r] = y
      /\ \A q \in Run \ {r} : run'[q] = run[q]
  BY DEF SandboxInv
<1>2. UndoneStays
  <2> SUFFICES ASSUME NEW m \in made, NEW q \in Run,
                      run[q].how = "undone", run[q].holds = m
               PROVE  run'[q].how = "undone" /\ run'[q].holds = m
    BY DEF UndoneStays, ClaimUndone
  <2>1. QED
    BY <1>1
<1>3. ListsAged /\ ClearGoesOn
  BY DEF ListsAged, ClearGoesOn, Others, Listed, Aged
<1>4. Gentle
  BY <1>2, <1>3, GentleBy DEF SandboxInv
<1>5. \A q \in Run : RunOK(q)'
  BY <1>1, <1>4, RunKept DEF SandboxInv
<1>6. \A s \in Sweeper : SweepOK(s)'
  BY SweepKept DEF SandboxInv, Others
<1>7. ClearOK'
  BY DEF SandboxInv, ClearOK, Others, Lives
<1>8. QED
  BY <1>1, <1>5, <1>6, <1>7 DEF SandboxInv, Others

Places == Acquiring \cup {"idle", "using", "done"}

\* Where run r may go with what it holds.
MayGo(r, at) ==
  /\ at \in {"connect", "retire", "save", "forget", "reach"} => run[r].saw # None
  /\ at \in {"lost", "drop", "mirror", "using"} => run[r].holds # None
  /\ at = "forget" => run[r].saw \notin alive'
  /\ at = "using" => run[r].at = "mirror"
  /\ run[r].how = "undone" => at = "done"

LEMMA MoveKeeps ==
  ASSUME SandboxInv, WorldOK', NEW r \in Run,
         NEW at \in {"connect", "retire", "forget", "create", "lost", "using", "done"},
         Moves(r, at), MayGo(r, at), Others, Lives, RowLasts, MirrorLasts
  PROVE  SandboxInv'
<1> DEFINE y == [run[r] EXCEPT !.at = at]
<1>1. run \in [Run -> Actor] /\ run[r] \in Actor /\ RunOK(r) /\ WorldOK
  BY DEF SandboxInv
<1>2. /\ y \in Actor /\ y.at = at /\ y.saw = run[r].saw /\ y.holds = run[r].holds
      /\ y.how = run[r].how
  BY <1>1 DEF Actor, Acquiring
<1>3. run' = [run EXCEPT ![r] = y]
  BY <1>1 DEF Moves
<1> HIDE DEF y
<1>4. run'[r] = y
  BY <1>1, <1>3
<1>5. ASSUME Gentle
      PROVE  RunOK(r)'
  <2>1. y.saw \in made' \cup {None} /\ y.holds \in made' \cup {None}
    BY <1>1, <1>2 DEF RunOK, Lives
  <2>2. ASSUME NEW m \in Machine, y.holds = m, y.at \in {"mirror", "using"},
               y.how = "saved", m \in alive', clear'.at = "idle"
        PROVE  Kept(m)'
    <3>1. m \in made /\ run[r].at = "mirror"
      BY <1>1, <1>2, <2>2, SandboxesAssumption DEF RunOK, MayGo
    <3>2. m \in alive /\ clear.at = "idle"
      BY <2>2, <3>1 DEF Lives, Others
    <3>3. Kept(m)
      BY <1>1, <1>2, <2>2, <3>1, <3>2 DEF RunOK
    <3>4. QED
      BY <1>5, <2>2, <3>1, <3>3 DEF Gentle
  <2>3. QED
    BY <1>2, <1>4, <2>1, <2>2 DEF RunOK, MayGo
<1>6. QED
  BY <1>2, <1>3, <1>5, RunActs

\* The end of a run, whatever else the step does.
LEMMA EndKeeps ==
  ASSUME SandboxInv, WorldOK', NEW r \in Run, Ends(r), Others, Lives, RowLasts,
         MirrorLasts
  PROVE  SandboxInv'
<1>1. MayGo(r, "done")
  BY DEF MayGo
<1>2. QED
  BY <1>1, MoveKeeps DEF Ends

-----------------------------------------------------------------------------
(* What the calls do to the rows and the machines.                          *)

WorldStep == WorldOK' /\ Lives /\ RowLasts /\ MirrorLasts

LEMMA StillWorld ==
  ASSUME WorldOK, UNCHANGED <<machines, rows>>, lease' \in Sweeper \cup {None},
         Fault \/ NoFault
  PROVE  WorldStep
<1>1. UNCHANGED <<provider, alive, made, old, reservation, mirror>>
  BY DEF machines, rows
<1>2. QED
  BY <1>1, FaultType DEF WorldStep, WorldOK, Lives, RowLasts, MirrorLasts

LEMMA KillWorld ==
  ASSUME WorldOK, NEW m, Killed(m) \/ UNCHANGED machines, UNCHANGED rows,
         UNCHANGED lease, Fault \/ NoFault
  PROVE  WorldStep
<1>1. /\ UNCHANGED <<provider, made, old, reservation, mirror, lease>>
      /\ alive' \subseteq alive
  BY DEF machines, rows, Killed
<1>2. QED
  BY <1>1, FaultType DEF WorldStep, WorldOK, Lives, RowLasts, MirrorLasts

\* A conditional delete: of a machine that is gone, or by a claim undone.
LEMMA DeleteWorld ==
  ASSUME WorldOK, NEW m \in Machine, Caught(Delete(m)), UNCHANGED <<machines, mirror>>,
         UNCHANGED lease,
         \/ m \notin alive \/ clear'.at # "idle"
         \/ ClaimUndone(m)' /\ ~Aged(m)
  PROVE  WorldStep
<1>1. UNCHANGED <<provider, alive, made, old, mirror, lease>>
  BY DEF machines
<1>2. Fault \/ NoFault
  BY DEF Caught
<1>3. \/ reservation' = reservation
      \/ reservation' = None /\ Names(reservation, m)
  BY DEF Caught, Delete
<1>4. Names(reservation, m) => m \in made
  BY DEF WorldOK, Names
<1>5. RowLasts
  BY <1>1, <1>3, <1>4 DEF RowLasts
<1>6. WorldOK'
  BY <1>1, <1>2, <1>3, FaultType DEF WorldOK, Rows
<1>7. QED
  BY <1>1, <1>5, <1>6 DEF WorldStep, Lives, MirrorLasts

\* A claim, or a refresh of the row of the same machine.
LEMMA ClaimWorld ==
  ASSUME WorldOK, NEW m \in made, Claim(m) \/ Save(m) \/ UNCHANGED reservation,
         Fault \/ NoFault, UNCHANGED <<machines, mirror>>, UNCHANGED lease
  PROVE  WorldStep
<1>1. UNCHANGED <<provider, alive, made, old, mirror, lease>>
  BY DEF machines
<1>2. m \in Machine
  BY DEF WorldOK
<1>3. \/ reservation' = reservation
      \/ /\ reservation' = Fresh(m)
         /\ reservation # None => reservation.id = m
  BY DEF Claim, Save, Names
<1>4. RowLasts
  BY <1>2, <1>3, FreshRow DEF RowLasts
<1>5. WorldOK'
  BY <1>1, <1>2, <1>3, FreshRow, FaultType DEF WorldOK
<1>6. QED
  BY <1>1, <1>4, <1>5 DEF WorldStep, Lives, MirrorLasts

LEMMA UpsertWorld ==
  ASSUME WorldOK, NEW m \in made, Upsert(m), UNCHANGED <<machines, reservation>>,
         UNCHANGED lease
  PROVE  WorldStep
<1>1. UNCHANGED <<provider, alive, made, old, reservation, lease>>
  BY DEF machines
<1>2. m \in Machine
  BY DEF WorldOK
<1>3. (Fault \/ NoFault) /\ mirror' \in {mirror, Fresh(m)}
  BY DEF Upsert
<1>4. WorldOK'
  BY <1>1, <1>2, <1>3, FreshRow, FaultType DEF WorldOK
<1>5. QED
  BY <1>1, <1>2, <1>3, <1>4, FreshRow DEF WorldStep, Lives, RowLasts, MirrorLasts

LEMMA RemoveWorld ==
  ASSUME WorldOK, NEW gone \in BOOLEAN, Remove(gone), UNCHANGED <<machines, reservation>>,
         UNCHANGED lease
  PROVE  WorldStep
<1>1. UNCHANGED <<provider, alive, made, old, reservation, lease>>
  BY DEF machines
<1>2. (Fault \/ NoFault) /\ mirror' \in {mirror, None}
  BY DEF Remove
<1>3. WorldOK'
  BY <1>1, <1>2, FaultType DEF WorldOK, Rows
<1>4. QED
  BY <1>1, <1>2, <1>3 DEF WorldStep, Lives, RowLasts, MirrorLasts

-----------------------------------------------------------------------------
(* The steps of a run.                                                      *)

LEMMA RunFacts ==
  ASSUME SandboxInv, NEW r \in Run
  PROVE  /\ WorldOK /\ ClearOK /\ RunOK(r) /\ run \in [Run -> Actor] /\ run[r] \in Actor
         /\ None \notin made /\ made \subseteq Machine /\ alive \subseteq made
BY SandboxesAssumption DEF SandboxInv, WorldOK

LEMMA ReadKeeps ==
  ASSUME SandboxInv, NEW r \in Run, Read(r)
  PROVE  SandboxInv'
<1> DEFINE saw == IF reservation = None THEN None ELSE reservation.id
           at == IF reservation = None THEN "create" ELSE "connect"
           y == [run[r] EXCEPT !.saw = saw, !.at = at]
<1>1. run[r].at = "idle" /\ Others /\ NoFault /\ UNCHANGED <<machines, rows, lease>>
  BY DEF Read, Others
<1>2. WorldStep
  BY <1>1, RunFacts, StillWorld DEF SandboxInv, WorldOK
<1>3. /\ saw \in made \cup {None} /\ at \in {"create", "connect"}
      /\ at = "connect" => saw # None
  BY RunFacts DEF WorldOK
<1>4. run' = [run EXCEPT ![r] = y]
  BY RunFacts DEF Read
<1> HIDE DEF saw, at
<1>5. /\ y \in Actor /\ y.at = at /\ y.saw = saw /\ y.holds = run[r].holds
      /\ y.how = run[r].how
  BY <1>3, RunFacts DEF Actor, Acquiring
<1> HIDE DEF y
<1>6. run'[r] = y /\ run[r].how # "undone"
  BY <1>1, <1>4, RunFacts DEF RunOK
<1>7. RunOK(r)'
  BY <1>2, <1>3, <1>5, <1>6, RunFacts DEF RunOK, WorldStep, Lives
<1>8. QED
  BY <1>1, <1>2, <1>4, <1>5, <1>6, <1>7, RunActs DEF WorldStep

LEMMA ConnectKeeps ==
  ASSUME SandboxInv, NEW r \in Run, Connect(r)
  PROVE  SandboxInv'
<1>1. /\ run[r].at = "connect" /\ Others /\ UNCHANGED <<machines, rows, lease>>
      /\ Fault \/ NoFault
  BY DEF Connect, Others
<1>2. WorldStep
  BY <1>1, RunFacts, StillWorld DEF SandboxInv, WorldOK
<1>3. run[r].saw # None /\ run[r].how # "undone" /\ alive' = alive
  BY <1>1, RunFacts DEF RunOK, machines
<1>4. CASE run[r].saw \notin alive /\ Moves(r, "forget")
  <2>1. MayGo(r, "forget")
    BY <1>3, <1>4 DEF MayGo
  <2>2. QED
    BY <1>1, <1>2, <1>4, <2>1, MoveKeeps DEF WorldStep
<1>5. CASE Moves(r, "retire")
  <2>1. MayGo(r, "retire")
    BY <1>3 DEF MayGo
  <2>2. QED
    BY <1>1, <1>2, <1>5, <2>1, MoveKeeps DEF WorldStep
<1>6. CASE /\ run[r].saw \in alive
           /\ run' = [run EXCEPT ![r].at = "save", ![r].holds = run[r].saw]
  <2> DEFINE y == [run[r] EXCEPT !.at = "save", !.holds = run[r].saw]
  <2>1. run' = [run EXCEPT ![r] = y]
    BY <1>6, RunFacts
  <2>2. /\ y \in Actor /\ y.at = "save" /\ y.saw = run[r].saw
        /\ y.holds = run[r].saw /\ y.how = run[r].how
    BY RunFacts DEF Actor, Acquiring
  <2> HIDE DEF y
  <2>3. run'[r] = y
    BY <2>1, RunFacts
  <2>4. RunOK(r)'
    BY <1>2, <1>3, <2>2, <2>3, RunFacts DEF RunOK, WorldStep, Lives
  <2>5. QED
    BY <1>1, <1>2, <1>3, <2>1, <2>2, <2>4, RunActs DEF WorldStep
<1>7. CASE Ends(r)
  BY <1>1, <1>2, <1>7, EndKeeps DEF WorldStep
<1>8. QED
  BY <1>4, <1>5, <1>6, <1>7 DEF Connect

LEMMA RetireKeeps ==
  ASSUME SandboxInv, NEW r \in Run, Retire(r)
  PROVE  SandboxInv'
<1> DEFINE m == run[r].saw
<1>1. /\ run[r].at = "retire" /\ Others /\ UNCHANGED rows /\ UNCHANGED lease
      /\ Fault \/ NoFault
      /\ Killed(m) \/ UNCHANGED machines
  BY DEF Retire, Others
<1>2. WorldStep
  BY <1>1, RunFacts, KillWorld
<1>3. CASE Killed(m) /\ Moves(r, "forget")
  <2>1. MayGo(r, "forget")
    BY <1>1, <1>3, RunFacts DEF MayGo, RunOK, Killed
  <2>2. QED
    BY <1>1, <1>2, <1>3, <2>1, MoveKeeps DEF WorldStep
<1>4. CASE Ends(r)
  BY <1>1, <1>2, <1>4, EndKeeps DEF WorldStep
<1>5. QED
  BY <1>3, <1>4 DEF Retire

LEMMA SaveRowKeeps ==
  ASSUME SandboxInv, NEW r \in Run, SaveRow(r)
  PROVE  SandboxInv'
<1> DEFINE m == run[r].holds
           how == IF Names(reservation, m) /\ NoFault THEN "saved" ELSE "missed"
           y == [run[r] EXCEPT !.at = "mirror", !.how = how]
<1>1. /\ run[r].at = "save" /\ Others /\ UNCHANGED <<machines, mirror>>
      /\ UNCHANGED lease /\ (Fault \/ NoFault)
      /\ (Save(m) /\ NoFault) \/ (Fault /\ UNCHANGED reservation)
  BY DEF SaveRow, Others
<1>2. m \in made /\ m \in Machine /\ run[r].how # "undone"
  BY <1>1, RunFacts DEF RunOK
<1>3. WorldStep
  BY <1>1, <1>2, RunFacts, ClaimWorld
<1>4. run' = [run EXCEPT ![r] = y]
  BY RunFacts DEF SaveRow
<1>5. how \in {"saved", "missed"}
  OBVIOUS
<1>6. how = "saved" => reservation' = Fresh(m)
  <2>1. Fault /\ NoFault => FALSE
    BY RunFacts, SandboxesAssumption DEF WorldOK, Fault, NoFault
  <2>2. QED
    BY <1>1, <2>1 DEF Save
<1> HIDE DEF how
<1>7. /\ y \in Actor /\ y.at = "mirror" /\ y.saw = run[r].saw /\ y.holds = m
      /\ y.how = how
  BY <1>5, RunFacts DEF Actor, Acquiring
<1> HIDE DEF y
<1>8. run'[r] = y
  BY <1>4, RunFacts
<1>9. RunOK(r)'
  <2>1. \A n \in Machine : n = m /\ how = "saved" => Kept(n)'
    BY <1>6, FreshRow DEF Kept, Names
  <2>2. m \in made' /\ m # None /\ y.saw \in made' \cup {None}
    BY <1>2, <1>3, <1>7, RunFacts DEF RunOK, WorldStep, Lives
  <2>3. QED
    BY <1>5, <1>7, <1>8, <2>1, <2>2 DEF RunOK
<1>10. QED
  BY <1>1, <1>2, <1>3, <1>4, <1>7, <1>9, RunActs DEF WorldStep

LEMMA ForgetKeeps ==
  ASSUME SandboxInv, NEW r \in Run, Forget(r)
  PROVE  SandboxInv'
<1> DEFINE m == run[r].saw
<1>1. /\ run[r].at = "forget" /\ Others /\ UNCHANGED <<machines, mirror>>
      /\ UNCHANGED lease /\ Caught(Delete(m)) /\ Moves(r, "create")
  BY DEF Forget, Others
<1>2. m \in Machine /\ m \notin alive /\ run[r].how # "undone"
  BY <1>1, RunFacts DEF RunOK
<1>3. WorldStep
  BY <1>1, <1>2, RunFacts, DeleteWorld
<1>4. MayGo(r, "create")
  BY <1>2 DEF MayGo
<1>5. QED
  BY <1>1, <1>3, <1>4, MoveKeeps DEF WorldStep

LEMMA CreateKeeps ==
  ASSUME SandboxInv, NEW r \in Run, Create(r)
  PROVE  SandboxInv'
<1>1. run[r].at = "create" /\ Others /\ UNCHANGED <<rows, lease>> /\ (Fault \/ NoFault)
  BY DEF Create, Others
<1>2. CASE Ends(r) /\ UNCHANGED machines
  <2>1. WorldStep
    BY <1>1, <1>2, RunFacts, StillWorld DEF WorldOK
  <2>2. QED
    BY <1>1, <1>2, <2>1, EndKeeps DEF WorldStep
<1>3. ASSUME NEW m \in Machine \ made,
             alive' = alive \cup {m}, made' = made \cup {m},
             run' = [run EXCEPT ![r].at = "claim", ![r].holds = m],
             UNCHANGED <<provider, old>>
      PROVE  SandboxInv'
  <2> DEFINE y == [run[r] EXCEPT !.at = "claim", !.holds = m]
  <2>1. WorldOK' /\ Lives /\ RowLasts /\ MirrorLasts
    BY <1>1, <1>3, RunFacts, FaultType
    DEF WorldOK, rows, Lives, RowLasts, MirrorLasts
  <2>2. run' = [run EXCEPT ![r] = y]
    BY <1>3, RunFacts
  <2>3. /\ y \in Actor /\ y.at = "claim" /\ y.saw = run[r].saw /\ y.holds = m
        /\ y.how = run[r].how
    BY RunFacts DEF Actor, Acquiring
  <2> HIDE DEF y
  <2>4. run'[r] = y /\ run[r].how # "undone"
    BY <1>1, <2>2, RunFacts DEF RunOK
  <2>5. ~Aged(m)'
    <3>1. ~Names(reservation, m)' /\ ~Names(mirror, m)'
      BY <1>1, <1>3, RunFacts DEF rows, Names, WorldOK
    <3>2. ASSUME NEW s \in Sweeper PROVE m \notin Listed(s)'
      <4>1. Listed(s) \subseteq made
        BY DEF SandboxInv, SweepOK
      <4>2. Listed(s)' = Listed(s)
        BY <1>1 DEF Others, Listed
      <4>3. QED
        BY <1>3, <4>1, <4>2
    <3>3. QED
      BY <3>1, <3>2 DEF Aged
  <2>6. RunOK(r)'
    <3>1. m # None /\ m \in made' /\ y.saw \in made' \cup {None}
      BY <1>3, <2>3, RunFacts, SandboxesAssumption DEF RunOK
    <3>2. QED
      BY <2>3, <2>4, <2>5, <3>1 DEF RunOK
  <2>7. QED
    BY <1>1, <2>1, <2>2, <2>3, <2>4, <2>6, RunActs
<1>4. made # Machine => NewMachine \in Machine \ made
  BY RunFacts DEF NewMachine
<1>5. CASE ~(Ends(r) /\ UNCHANGED machines)
  <2>1. /\ made # Machine /\ UNCHANGED <<provider, old>>
        /\ alive' = alive \cup {NewMachine} /\ made' = made \cup {NewMachine}
        /\ run' = [run EXCEPT ![r].at = "claim", ![r].holds = NewMachine]
    BY <1>5 DEF Create
  <2>2. QED
    BY <1>3, <1>4, <2>1
<1>6. QED
  BY <1>2, <1>5

LEMMA ClaimKeyKeeps ==
  ASSUME SandboxInv, NEW r \in Run, ClaimKey(r)
  PROVE  SandboxInv'
<1>1. /\ run[r].at = "claim" /\ Others /\ UNCHANGED <<machines, mirror>>
      /\ UNCHANGED lease /\ (Fault \/ NoFault)
      /\ Claim(run[r].holds) \/ UNCHANGED reservation
  BY DEF ClaimKey, Others
<1>2. PICK m \in Machine : m = run[r].holds
  BY <1>1, RunFacts DEF RunOK
<1>3. m \in made /\ ~Aged(m) /\ run[r].how # "undone" /\ m # None
  BY <1>1, <1>2, RunFacts DEF RunOK
<1>4. WorldStep
  BY <1>1, <1>2, <1>3, RunFacts, ClaimWorld
<1>5. CASE Moves(r, "lost")
  <2>1. MayGo(r, "lost")
    BY <1>2, <1>3 DEF MayGo
  <2>2. QED
    BY <1>1, <1>4, <1>5, <2>1, MoveKeeps DEF WorldStep
<1>6. CASE /\ reservation = None /\ Claim(m)
           /\ run' = [run EXCEPT ![r].at = "mirror", ![r].how = "saved"]
  <2> DEFINE y == [run[r] EXCEPT !.at = "mirror", !.how = "saved"]
  <2>1. run' = [run EXCEPT ![r] = y]
    BY <1>6, RunFacts
  <2>2. /\ y \in Actor /\ y.at = "mirror" /\ y.saw = run[r].saw /\ y.holds = m
        /\ y.how = "saved"
    BY <1>2, RunFacts DEF Actor, Acquiring
  <2> HIDE DEF y
  <2>3. run'[r] = y
    BY <2>1, RunFacts
  <2>4. Kept(m)'
    BY <1>6, FreshRow DEF Claim, Kept, Names
  <2>5. RunOK(r)'
    BY <1>3, <1>4, <2>2, <2>3, <2>4, RunFacts DEF RunOK, WorldStep, Lives
  <2>6. QED
    BY <1>1, <1>3, <1>4, <2>1, <2>2, <2>5, RunActs DEF WorldStep
<1>7. CASE run' = [run EXCEPT ![r].at = "undo", ![r].how = "undone",
                              ![r].todo = {"row", "machine"}]
  <2> DEFINE y == [run[r] EXCEPT !.at = "undo", !.how = "undone",
                                 !.todo = {"row", "machine"}]
  <2>1. run' = [run EXCEPT ![r] = y]
    BY <1>7, RunFacts
  <2>2. /\ y \in Actor /\ y.at = "undo" /\ y.saw = run[r].saw /\ y.holds = m
        /\ y.how = "undone"
    BY <1>2, RunFacts DEF Actor, Acquiring
  <2> HIDE DEF y
  <2>3. run'[r] = y
    BY <2>1, RunFacts
  <2>4. Gentle => RunOK(r)'
    <3>1. Gentle => ~Aged(m)'
      BY <1>3 DEF Gentle
    <3>2. QED
      BY <1>3, <1>4, <2>2, <2>3, <3>1, RunFacts DEF RunOK, WorldStep, Lives
  <2>5. QED
    BY <1>1, <1>3, <1>4, <2>1, <2>2, <2>4, RunActs DEF WorldStep
<1>8. QED
  BY <1>2, <1>5, <1>6, <1>7 DEF ClaimKey

\* One side of an undo: what it leaves of the run.
LEMMA UndoneFacts ==
  ASSUME SandboxInv, NEW r \in Run, run[r].at = "undo",
         NEW part \in {"row", "machine"}, Undone(r, part)
  PROVE  \E y \in Actor :
           /\ run' = [run EXCEPT ![r] = y] /\ run'[r] = y
           /\ y.at \in {"undo", "done"} /\ y.how = "undone" /\ run[r].how = "undone"
           /\ y.saw = run[r].saw /\ y.holds = run[r].holds
<1> DEFINE at == IF run[r].at = "undo" /\ run[r].todo = {part} THEN "done"
                 ELSE run[r].at
           y == [run[r] EXCEPT !.todo = run[r].todo \ {part}, !.at = at]
<1>1. run' = [run EXCEPT ![r] = y]
  BY RunFacts DEF Undone
<1>2. at \in {"undo", "done"}
  OBVIOUS
<1> HIDE DEF at
<1>3. /\ y \in Actor /\ y.at = at /\ y.saw = run[r].saw /\ y.holds = run[r].holds
      /\ y.how = run[r].how
  BY <1>2, RunFacts DEF Actor, Acquiring
<1> HIDE DEF y
<1>4. run'[r] = y /\ run[r].how = "undone"
  BY <1>1, RunFacts DEF RunOK
<1>5. QED
  BY <1>1, <1>2, <1>3, <1>4

LEMMA UndoKeeps ==
  ASSUME SandboxInv, NEW r \in Run, run[r].at = "undo",
         NEW part \in {"row", "machine"}, Undone(r, part), Others, WorldStep
  PROVE  SandboxInv'
<1>1. PICK y \in Actor :
        /\ run' = [run EXCEPT ![r] = y] /\ run'[r] = y
        /\ y.at \in {"undo", "done"} /\ y.how = "undone"
        /\ y.saw = run[r].saw /\ y.holds = run[r].holds
  BY UndoneFacts
<1>2. PICK m \in Machine : m = run[r].holds /\ m \in made /\ ~Aged(m)
  BY RunFacts DEF RunOK
<1>3. Gentle => RunOK(r)'
  <2>1. Gentle => ~Aged(m)'
    BY <1>2 DEF Gentle
  <2>2. QED
    BY <1>1, <1>2, <2>1, RunFacts DEF RunOK, WorldStep, Lives
<1>4. QED
  BY <1>1, <1>3, RunActs DEF WorldStep

LEMMA UndoRowKeeps ==
  ASSUME SandboxInv, NEW r \in Run, UndoRow(r)
  PROVE  SandboxInv'
<1>1. /\ run[r].at = "undo" /\ Others /\ UNCHANGED <<machines, mirror>>
      /\ UNCHANGED lease /\ Caught(Delete(run[r].holds)) /\ Undone(r, "row")
  BY DEF UndoRow, Others
<1>2. PICK m \in Machine : m = run[r].holds /\ ~Aged(m)
  BY <1>1, RunFacts DEF RunOK
<1>3. ClaimUndone(m)'
  BY <1>1, <1>2, UndoneFacts DEF ClaimUndone
<1>4. WorldStep
  BY <1>1, <1>2, <1>3, RunFacts, DeleteWorld
<1>5. QED
  BY <1>1, <1>4, UndoKeeps

LEMMA UndoMachineKeeps ==
  ASSUME SandboxInv, NEW r \in Run, UndoMachine(r)
  PROVE  SandboxInv'
<1>1. /\ run[r].at = "undo" /\ Others /\ UNCHANGED rows /\ UNCHANGED lease
      /\ Killed(run[r].holds) \/ UNCHANGED machines
      /\ (Fault \/ NoFault) /\ Undone(r, "machine")
  BY DEF UndoMachine, Others
<1>2. WorldStep
  BY <1>1, RunFacts, KillWorld
<1>3. QED
  BY <1>1, <1>2, UndoKeeps

LEMMA WinnerKeeps ==
  ASSUME SandboxInv, NEW r \in Run, Winner(r)
  PROVE  SandboxInv'
<1>1. /\ run[r].at = "lost" /\ Others /\ UNCHANGED <<machines, rows, lease>> /\ NoFault
  BY DEF Winner, Others
<1>2. WorldStep
  BY <1>1, RunFacts, StillWorld DEF WorldOK
<1>3. PICK y \in Actor :
        /\ run' = [run EXCEPT ![r] = y]
        /\ y.at \in {"drop", "mirror"} /\ y.saw \in made \cup {None}
        /\ y.holds = run[r].holds /\ y.how \in {"adopted", run[r].how}
        /\ y.at = "mirror" => y.how = "adopted"
  <2>1. CASE reservation # None
    <3> DEFINE y == [run[r] EXCEPT !.at = "drop", !.saw = reservation.id]
    <3>1. reservation.id \in made
      BY <2>1, RunFacts DEF WorldOK
    <3>2. run' = [run EXCEPT ![r] = y]
      BY <2>1, RunFacts DEF Winner
    <3>3. /\ y \in Actor /\ y.at = "drop" /\ y.saw = reservation.id
          /\ y.holds = run[r].holds /\ y.how = run[r].how
      BY <3>1, RunFacts DEF Actor, Acquiring
    <3> HIDE DEF y
    <3>4. QED
      BY <3>1, <3>2, <3>3
  <2>2. CASE reservation = None
    <3> DEFINE at == WithoutWinner(r)
               how == IF provider = "vercel" THEN "adopted" ELSE run[r].how
               y == [run[r] EXCEPT !.at = at, !.saw = None, !.how = how]
    <3>1. run' = [run EXCEPT ![r].at = at, ![r].saw = None, ![r].how = how]
      BY <2>2 DEF Winner
    <3>2. /\ at \in {"drop", "mirror"} /\ how \in {"adopted", run[r].how}
          /\ at = "mirror" => how = "adopted"
      BY DEF WithoutWinner
    <3> HIDE DEF at, how
    <3>3. run' = [run EXCEPT ![r] = y]
      BY <3>1, RunFacts
    <3>4. /\ at \in Acquiring
          /\ how \in {"none", "saved", "missed", "joined", "adopted", "undone"}
      BY <3>2, RunFacts DEF Actor, Acquiring
    <3>5. y \in Actor /\ y.at = at /\ y.saw = None /\ y.holds = run[r].holds /\ y.how = how
      BY <3>4, RunFacts DEF Actor
    <3> HIDE DEF y
    <3>6. QED
      BY <3>2, <3>3, <3>5
  <2>3. QED
    BY <2>1, <2>2
<1>4. run'[r] = y /\ run[r].how # "undone" /\ run[r].holds # None
  BY <1>1, <1>3, RunFacts DEF RunOK
<1>5. RunOK(r)'
  BY <1>2, <1>3, <1>4, RunFacts DEF RunOK, WorldStep, Lives
<1>6. QED
  BY <1>1, <1>2, <1>3, <1>4, <1>5, RunActs DEF WorldStep

LEMMA DropKeeps ==
  ASSUME SandboxInv, NEW r \in Run, Drop(r)
  PROVE  SandboxInv'
<1> DEFINE at == IF run[r].saw = None THEN "done" ELSE "reach"
           y == [run[r] EXCEPT !.holds = None, !.at = at]
<1>1. /\ run[r].at = "drop" /\ Others /\ UNCHANGED rows /\ UNCHANGED lease
      /\ Killed(run[r].holds) \/ UNCHANGED machines
      /\ (Fault \/ NoFault)
  BY DEF Drop, Others
<1>2. WorldStep
  BY <1>1, RunFacts, KillWorld
<1>3. run' = [run EXCEPT ![r] = y]
  BY RunFacts DEF Drop
<1>4. at \in {"done", "reach"} /\ (at = "reach" => run[r].saw # None)
  OBVIOUS
<1> HIDE DEF at
<1>5. /\ y \in Actor /\ y.at = at /\ y.saw = run[r].saw /\ y.holds = None
      /\ y.how = run[r].how
  <2>1. at \in Acquiring \cup {"done"}
    BY <1>4 DEF Acquiring
  <2>2. QED
    BY <2>1, RunFacts DEF Actor
<1> HIDE DEF y
<1>6. run'[r] = y /\ run[r].how # "undone"
  BY <1>1, <1>3, RunFacts DEF RunOK
<1>7. RunOK(r)'
  BY <1>2, <1>4, <1>5, <1>6, RunFacts, SandboxesAssumption DEF RunOK, WorldStep, Lives
<1>8. QED
  BY <1>1, <1>2, <1>3, <1>5, <1>6, <1>7, RunActs DEF WorldStep

LEMMA ReachKeeps ==
  ASSUME SandboxInv, NEW r \in Run, Reach(r)
  PROVE  SandboxInv'
<1>1. /\ run[r].at = "reach" /\ Others /\ UNCHANGED <<machines, rows, lease>>
      /\ Fault \/ NoFault
  BY DEF Reach, Others
<1>2. WorldStep
  BY <1>1, RunFacts, StillWorld DEF WorldOK
<1>3. CASE Ends(r)
  BY <1>1, <1>2, <1>3, EndKeeps DEF WorldStep
<1>4. CASE run' = [run EXCEPT ![r].at = "using", ![r].holds = run[r].saw,
                              ![r].how = "joined"]
  <2> DEFINE y == [run[r] EXCEPT !.at = "using", !.holds = run[r].saw, !.how = "joined"]
  <2>1. run' = [run EXCEPT ![r] = y]
    BY <1>4, RunFacts
  <2>2. /\ y \in Actor /\ y.at = "using" /\ y.saw = run[r].saw
        /\ y.holds = run[r].saw /\ y.how = "joined"
    BY RunFacts DEF Actor, Acquiring
  <2> HIDE DEF y
  <2>3. run'[r] = y /\ run[r].how # "undone" /\ run[r].saw # None
    BY <1>1, <2>1, RunFacts DEF RunOK
  <2>4. RunOK(r)'
    BY <1>2, <2>2, <2>3, RunFacts DEF RunOK, WorldStep, Lives
  <2>5. QED
    BY <1>1, <1>2, <2>1, <2>2, <2>3, <2>4, RunActs DEF WorldStep
<1>5. QED
  BY <1>3, <1>4 DEF Reach

LEMMA MirrorKeeps ==
  ASSUME SandboxInv, NEW r \in Run, Mirror(r)
  PROVE  SandboxInv'
<1>1. /\ run[r].at = "mirror" /\ Others /\ UNCHANGED <<machines, reservation>>
      /\ UNCHANGED lease /\ Upsert(run[r].holds) /\ Moves(r, "using")
  BY DEF Mirror, Others
<1>2. run[r].holds \in made /\ run[r].holds # None /\ run[r].how # "undone"
  BY <1>1, RunFacts DEF RunOK
<1>3. WorldStep
  BY <1>1, <1>2, RunFacts, UpsertWorld
<1>4. MayGo(r, "using")
  BY <1>1, <1>2 DEF MayGo
<1>5. QED
  BY <1>1, <1>3, <1>4, MoveKeeps DEF WorldStep

LEMMA StopKeeps ==
  ASSUME SandboxInv, NEW r \in Run, Done(r) \/ Crash(r)
  PROVE  SandboxInv'
<1>1. /\ Ends(r) /\ Others /\ UNCHANGED <<machines, rows, lease>> /\ (Fault \/ NoFault)
  BY DEF Done, Crash, Others
<1>2. WorldStep
  BY <1>1, RunFacts, StillWorld DEF WorldOK
<1>3. QED
  BY <1>1, <1>2, EndKeeps DEF WorldStep

LEMMA RunStepKeeps ==
  ASSUME SandboxInv, NEW r \in Run, Read(r) \/ RunStep(r) \/ Crash(r)
  PROVE  SandboxInv'
BY ReadKeeps, ConnectKeeps, RetireKeeps, SaveRowKeeps, ForgetKeeps, CreateKeeps,
   ClaimKeyKeeps, UndoRowKeeps, UndoMachineKeeps, WinnerKeeps, DropKeeps,
   ReachKeeps, MirrorKeeps, StopKeeps
DEF RunStep

-----------------------------------------------------------------------------
(* The steps of a sweep.                                                    *)

\* A step of sweeper s, to z.
LEMMA SweepActs ==
  ASSUME SandboxInv, WorldStep, NEW s \in Sweeper, NEW z \in Sweep,
         sweep' = [sweep EXCEPT ![s] = z], Runs,
         \A m \in Elems(z.queue) : m \in Listed(s) \/ (m \in made /\ Aged(m)),
         z.at \in Reclaiming => z.queue # << >>,
         z.at \in {"unreserve", "unmirror"} => Head(z.queue) \notin alive'
  PROVE  SandboxInv'
<1>1. /\ sweep' \in [Sweeper -> Sweep] /\ sweep'[s] = z
      /\ \A q \in Sweeper \ {s} : sweep'[q] = sweep[q]
      /\ WorldOK' /\ Lives /\ RowLasts /\ MirrorLasts
  BY DEF SandboxInv, WorldStep
<1>2. ListsAged
  BY <1>1 DEF ListsAged, Listed, Aged
<1>3. UndoneStays /\ ClearGoesOn
  BY DEF UndoneStays, ClearGoesOn, ClaimUndone, Runs
<1>4. Gentle
  BY <1>1, <1>2, <1>3, GentleBy DEF SandboxInv
<1>5. \A r \in Run : RunOK(r)'
  BY <1>4, RunKept DEF SandboxInv, Runs
<1>6. ASSUME NEW q \in Sweeper \ {s}
      PROVE  SweepOK(q)'
  BY <1>1, SweepKept DEF SandboxInv
<1>7. SweepOK(s)'
  BY <1>1 DEF SandboxInv, SweepOK, Listed, Entry, Lives
<1>8. ClearOK' /\ run' \in [Run -> Actor]
  BY <1>1 DEF SandboxInv, ClearOK, Runs, Lives
<1>9. QED
  BY <1>1, <1>5, <1>6, <1>7, <1>8 DEF SandboxInv

LEMMA SweepFacts ==
  ASSUME SandboxInv, NEW s \in Sweeper
  PROVE  /\ WorldOK /\ SweepOK(s) /\ sweep \in [Sweeper -> Sweep] /\ sweep[s] \in Sweep
         /\ sweep[s].queue \in Seq(Machine)
         /\ sweep[s].at \in Reclaiming =>
              /\ sweep[s].queue # << >> /\ Entry(s) \in made /\ Entry(s) \in Machine
              /\ Entry(s) \in Listed(s)
<1>1. WorldOK /\ SweepOK(s) /\ sweep \in [Sweeper -> Sweep]
  BY DEF SandboxInv
<1>2. sweep[s] \in Sweep /\ sweep[s].queue \in Seq(Machine)
  BY <1>1 DEF Sweep
<1>3. QED
  BY <1>1, <1>2, QueueParts DEF SweepOK, Entry, Listed, WorldOK

LEMMA GoKeeps ==
  ASSUME SandboxInv, WorldStep, NEW s \in Sweeper,
         NEW at \in {"kill", "unreserve", "unmirror", "handback"}, Going(s, at), Runs,
         sweep[s].at \in Reclaiming,
         at \in {"unreserve", "unmirror"} => Entry(s) \notin alive'
  PROVE  SandboxInv'
<1> DEFINE z == [sweep[s] EXCEPT !.at = at]
<1>1. /\ z \in Sweep /\ z.at = at /\ z.queue = sweep[s].queue
  BY SweepFacts DEF Sweep
<1>2. sweep' = [sweep EXCEPT ![s] = z]
  BY SweepFacts DEF Going
<1> HIDE DEF z
<1>3. QED
  BY <1>1, <1>2, SweepFacts, SweepActs DEF Listed, Entry

LEMMA IdleKeeps ==
  ASSUME SandboxInv, WorldStep, NEW s \in Sweeper, sweep' = [sweep EXCEPT ![s] = Idle], Runs
  PROVE  SandboxInv'
<1>1. Idle \in Sweep /\ Idle.at = "idle" /\ Elems(Idle.queue) = {}
  BY DEF Idle, Sweep, Elems
<1>2. QED
  BY <1>1, SweepActs DEF Reclaiming

LEMMA NextKeeps ==
  ASSUME SandboxInv, WorldStep, NEW s \in Sweeper, NEW freed \in BOOLEAN,
         NextEntry(s, freed), Runs, sweep[s].at \in Reclaiming
  PROVE  SandboxInv'
<1> DEFINE rest == Tail(sweep[s].queue)
           all == freed \/ sweep[s].freed
           at == IF rest # << >> THEN "take" ELSE IF all THEN "release" ELSE "defer"
           z == [sweep[s] EXCEPT !.queue = rest, !.freed = all, !.at = at]
<1>1. rest \in Seq(Machine) /\ Elems(rest) \subseteq Listed(s)
  BY SweepFacts, QueueParts DEF Listed
<1>2. /\ all \in BOOLEAN /\ at \in {"take", "release", "defer"}
      /\ at = "take" => rest # << >>
  BY SweepFacts DEF Sweep
<1>3. sweep' = [sweep EXCEPT ![s] = z]
  BY SweepFacts DEF NextEntry
<1> HIDE DEF rest, all, at
<1>4. z \in Sweep /\ z.at = at /\ z.queue = rest
  BY <1>1, <1>2, SweepFacts DEF Sweep
<1> HIDE DEF z
<1>5. QED
  BY <1>1, <1>2, <1>3, <1>4, SweepActs DEF Reclaiming

LEMMA ListExpiredKeeps ==
  ASSUME SandboxInv, NEW s \in Sweeper, ListExpired(s)
  PROVE  SandboxInv'
<1> DEFINE queue == IF Overdue THEN <<reservation.id>> ELSE << >>
           z == [sweep[s] EXCEPT !.at = "listed", !.queue = queue]
<1>1. /\ NoFault /\ Runs /\ UNCHANGED <<machines, rows>> /\ UNCHANGED lease
      /\ sweep[s].at = "idle"
  BY DEF ListExpired
<1>2. WorldStep
  BY <1>1, SweepFacts, StillWorld DEF WorldOK
<1>3. queue \in Seq(Machine) /\ \A m \in Elems(queue) : m \in made /\ Aged(m)
  <2>1. CASE Overdue
    <3>1. reservation.id \in made /\ reservation.id \in Machine
          /\ \A m \in {reservation.id} : Aged(m)
      BY <2>1, SweepFacts DEF Overdue, WorldOK, Aged, Names
    <3>2. /\ <<reservation.id>> \in Seq(Machine)
          /\ Elems(<<reservation.id>>) = {reservation.id}
      BY <3>1, SweepFacts, QueueAdd
    <3>3. queue = <<reservation.id>>
      BY <2>1
    <3>4. QED
      BY <3>1, <3>2, <3>3
  <2>2. CASE ~Overdue
    BY <2>2 DEF Elems
  <2>3. QED
    BY <2>1, <2>2
<1>4. sweep' = [sweep EXCEPT ![s] = z]
  BY SweepFacts DEF ListExpired
<1> HIDE DEF queue
<1>5. z \in Sweep /\ z.at = "listed" /\ z.queue = queue
  BY <1>3, SweepFacts DEF Sweep
<1> HIDE DEF z
<1>6. QED
  BY <1>1, <1>2, <1>3, <1>4, <1>5, SweepActs DEF Reclaiming

LEMMA ListOrphansKeeps ==
  ASSUME SandboxInv, NEW s \in Sweeper, ListOrphans(s)
  PROVE  SandboxInv'
<1> DEFINE queue == sweep[s].queue \o IF Orphaned THEN <<mirror.id>> ELSE << >>
<1>1. /\ Runs /\ UNCHANGED <<machines, rows>> /\ lease' \in {lease, s}
      /\ Fault \/ NoFault
  BY DEF ListOrphans
<1>2. WorldStep
  BY <1>1, SweepFacts, StillWorld DEF WorldOK
<1>3. /\ queue \in Seq(Machine)
      /\ \A m \in Elems(queue) : m \in Listed(s) \/ (m \in made /\ Aged(m))
  <2>1. CASE Orphaned
    <3>1. mirror.id \in made /\ mirror.id \in Machine
          /\ \A m \in {mirror.id} : Aged(m)
      BY <2>1, SweepFacts DEF Orphaned, WorldOK, Aged, Names
    <3>2. QED
      BY <2>1, <3>1, SweepFacts, QueueAdd DEF Listed
  <2>2. CASE ~Orphaned
    <3>1. queue = sweep[s].queue
      BY <2>2, SweepFacts
    <3>2. QED
      BY <3>1, SweepFacts DEF Listed
  <2>3. QED
    BY <2>1, <2>2
<1>4. CASE sweep' = [sweep EXCEPT ![s] = Idle]
  BY <1>1, <1>2, <1>4, IdleKeeps
<1>5. ASSUME NEW z \in Sweep, z.at \in {"take", "defer"}, z.queue = queue,
             queue # << >>, sweep' = [sweep EXCEPT ![s] = z]
      PROVE  SandboxInv'
  <2>1. \A m \in Elems(z.queue) : m \in Listed(s) \/ (m \in made /\ Aged(m))
    BY <1>3, <1>5
  <2> HIDE DEF queue
  <2>2. QED
    BY <1>1, <1>2, <1>5, <2>1, SweepActs DEF Reclaiming
<1>6. CASE /\ queue # << >>
           /\ sweep' = [sweep EXCEPT ![s] = [@ EXCEPT
                !.at = "take", !.queue = queue, !.leased = TRUE]]
  <2> DEFINE z == [sweep[s] EXCEPT !.at = "take", !.queue = queue, !.leased = TRUE]
  <2>1. sweep' = [sweep EXCEPT ![s] = z]
    BY <1>6, SweepFacts
  <2> HIDE DEF queue
  <2>2. z \in Sweep /\ z.at = "take" /\ z.queue = queue
    BY <1>3, SweepFacts DEF Sweep
  <2> HIDE DEF z
  <2>3. QED
    BY <1>5, <1>6, <2>1, <2>2
<1>7. CASE /\ queue # << >>
           /\ sweep' = [sweep EXCEPT ![s] = [@ EXCEPT
                !.at = "defer", !.queue = queue]]
  <2> DEFINE z == [sweep[s] EXCEPT !.at = "defer", !.queue = queue]
  <2>1. sweep' = [sweep EXCEPT ![s] = z]
    BY <1>7, SweepFacts
  <2> HIDE DEF queue
  <2>2. z \in Sweep /\ z.at = "defer" /\ z.queue = queue
    BY <1>3, SweepFacts DEF Sweep
  <2> HIDE DEF z
  <2>3. QED
    BY <1>5, <1>7, <2>1, <2>2
<1>8. QED
  BY <1>4, <1>6, <1>7 DEF ListOrphans

LEMMA TakeKeeps ==
  ASSUME SandboxInv, NEW s \in Sweeper, Take(s)
  PROVE  SandboxInv'
<1>1. /\ sweep[s].at = "take" /\ Runs /\ UNCHANGED <<machines, mirror>> /\ UNCHANGED lease
      /\ (Fault \/ NoFault)
      /\ UNCHANGED reservation \/ (Takes(Entry(s)) /\ reservation' = None)
      /\ Going(s, "kill") \/ NextEntry(s, FALSE)
  BY DEF Take
<1>2. sweep[s].at \in Reclaiming
  BY <1>1 DEF Reclaiming
<1>3. WorldStep
  <2>1. UNCHANGED <<provider, alive, made, old, mirror, lease>>
    BY <1>1 DEF machines
  <2>2. Entry(s) \in made /\ reservation' \in {reservation, None}
    BY <1>1, <1>2, SweepFacts
  <2>3. RowLasts
    BY <1>1, <2>2 DEF RowLasts, Takes
  <2>4. WorldOK'
    BY <1>1, <2>1, <2>2, SweepFacts, FaultType DEF WorldOK, Rows
  <2>5. QED
    BY <2>1, <2>3, <2>4 DEF WorldStep, Lives, MirrorLasts
<1>4. QED
  BY <1>1, <1>2, <1>3, GoKeeps, NextKeeps

LEMMA KillKeeps ==
  ASSUME SandboxInv, NEW s \in Sweeper, Kill(s)
  PROVE  SandboxInv'
<1>1. /\ sweep[s].at = "kill" /\ Runs /\ UNCHANGED rows /\ UNCHANGED lease
      /\ (Fault \/ NoFault) /\ (Killed(Entry(s)) \/ UNCHANGED machines)
  BY DEF Kill
<1>2. sweep[s].at \in Reclaiming
  BY <1>1 DEF Reclaiming
<1>3. WorldStep
  BY <1>1, SweepFacts, KillWorld
<1>4. CASE Killed(Entry(s)) /\ Going(s, "unreserve")
  <2>1. Entry(s) \notin alive'
    BY <1>4 DEF Killed
  <2>2. QED
    BY <1>1, <1>2, <1>3, <1>4, <2>1, GoKeeps
<1>5. CASE Going(s, "handback")
  BY <1>1, <1>2, <1>3, <1>5, GoKeeps
<1>6. QED
  BY <1>4, <1>5 DEF Kill

LEMMA UnreserveKeeps ==
  ASSUME SandboxInv, NEW s \in Sweeper, Unreserve(s)
  PROVE  SandboxInv'
<1>1. /\ sweep[s].at = "unreserve" /\ Runs /\ UNCHANGED <<machines, mirror>>
      /\ UNCHANGED lease /\ Caught(Delete(Entry(s))) /\ Going(s, "unmirror")
  BY DEF Unreserve
<1>2. sweep[s].at \in Reclaiming /\ Entry(s) \notin alive /\ alive' = alive
  BY <1>1, SweepFacts DEF Reclaiming, SweepOK, machines
<1>3. WorldStep
  BY <1>1, <1>2, SweepFacts, DeleteWorld
<1>4. QED
  BY <1>1, <1>2, <1>3, GoKeeps

LEMMA UnmirrorKeeps ==
  ASSUME SandboxInv, NEW s \in Sweeper, Unmirror(s)
  PROVE  SandboxInv'
<1>1. /\ sweep[s].at = "unmirror" /\ Runs /\ UNCHANGED <<machines, reservation>>
      /\ UNCHANGED lease /\ Remove(Names(mirror, Entry(s))) /\ NextEntry(s, TRUE)
  BY DEF Unmirror
<1>2. sweep[s].at \in Reclaiming /\ Names(mirror, Entry(s)) \in BOOLEAN
  BY <1>1 DEF Reclaiming, Names
<1>3. WorldStep
  BY <1>1, <1>2, SweepFacts, RemoveWorld
<1>4. QED
  BY <1>1, <1>2, <1>3, NextKeeps

LEMMA HandBackKeeps ==
  ASSUME SandboxInv, NEW s \in Sweeper, HandBack(s)
  PROVE  SandboxInv'
<1>1. /\ sweep[s].at = "handback" /\ Runs /\ UNCHANGED <<machines, mirror>>
      /\ UNCHANGED lease /\ NextEntry(s, FALSE) /\ (Fault \/ NoFault)
      /\ Claim(Entry(s)) \/ UNCHANGED reservation
  BY DEF HandBack, Caught
<1>2. sweep[s].at \in Reclaiming
  BY <1>1 DEF Reclaiming
<1>3. WorldStep
  BY <1>1, <1>2, SweepFacts, ClaimWorld
<1>4. QED
  BY <1>1, <1>2, <1>3, NextKeeps

LEMMA DeferKeeps ==
  ASSUME SandboxInv, NEW s \in Sweeper, Defer(s)
  PROVE  SandboxInv'
<1>1. /\ Runs /\ UNCHANGED <<machines, mirror>> /\ UNCHANGED lease
      /\ (Fault \/ NoFault)
      /\ \/ reservation' = IF reservation = None THEN None ELSE Fresh(reservation.id)
         \/ UNCHANGED reservation
  BY DEF Defer, Caught
<1>2. \/ reservation' = reservation
      \/ /\ reservation # None /\ reservation.id \in made /\ reservation.id \in Machine
         /\ reservation' = Fresh(reservation.id)
  BY <1>1, SweepFacts DEF WorldOK
<1>3. \/ reservation' = reservation
      \/ /\ reservation # None /\ reservation' # None /\ reservation' \in Rows
         /\ reservation'.id = reservation.id /\ reservation'.expired = FALSE
  BY <1>2, FreshRow
<1>4. WorldStep
  <2>1. UNCHANGED <<provider, alive, made, old, mirror, lease>>
    BY <1>1 DEF machines
  <2>2. WorldOK'
    BY <1>1, <1>2, <1>3, <2>1, SweepFacts, FaultType DEF WorldOK
  <2>3. RowLasts
    BY <1>3 DEF RowLasts
  <2>4. QED
    BY <2>1, <2>2, <2>3 DEF WorldStep, Lives, MirrorLasts
<1>5. CASE sweep' = [sweep EXCEPT ![s] = Idle]
  BY <1>1, <1>4, <1>5, IdleKeeps
<1>6. CASE sweep' = [sweep EXCEPT ![s] = [sweep[s] EXCEPT !.at = "release"]]
  <2> DEFINE z == [sweep[s] EXCEPT !.at = "release"]
  <2>1. z \in Sweep /\ z.at = "release" /\ z.queue = sweep[s].queue
    BY SweepFacts DEF Sweep
  <2>2. sweep' = [sweep EXCEPT ![s] = z]
    BY <1>6
  <2> HIDE DEF z
  <2>3. QED
    BY <1>1, <1>4, <2>1, <2>2, SweepActs DEF Reclaiming, Listed
<1>7. QED
  BY <1>5, <1>6, SweepFacts DEF Defer

LEMMA SweepEndKeeps ==
  ASSUME SandboxInv, NEW s \in Sweeper, ReleaseLease(s) \/ SweeperDies(s)
  PROVE  SandboxInv'
<1>1. /\ Runs /\ UNCHANGED <<machines, rows>> /\ lease' \in {lease, None}
      /\ (Fault \/ NoFault) /\ sweep' = [sweep EXCEPT ![s] = Idle]
  BY DEF ReleaseLease, SweeperDies
<1>2. WorldStep
  BY <1>1, SweepFacts, StillWorld DEF WorldOK
<1>3. QED
  BY <1>1, <1>2, IdleKeeps

LEMMA SweepStepKeeps ==
  ASSUME SandboxInv, NEW s \in Sweeper, SweepStep(s) \/ SweeperDies(s)
  PROVE  SandboxInv'
BY ListExpiredKeeps, ListOrphansKeeps, TakeKeeps, KillKeeps, UnreserveKeeps,
   UnmirrorKeeps, HandBackKeeps, DeferKeeps, SweepEndKeeps
DEF SweepStep

-----------------------------------------------------------------------------
(* The cleanup, the provider and the clock.                                 *)

\* A step of neither a run nor a sweep.
LEMMA OtherActs ==
  ASSUME SandboxInv, WorldStep, ClearOK', ClearGoesOn, UNCHANGED <<run, sweep>>
  PROVE  SandboxInv'
<1>1. UndoneStays /\ ListsAged
  BY DEF UndoneStays, ClaimUndone, ListsAged, Listed, Aged
<1>2. Gentle
  BY <1>1, GentleBy DEF SandboxInv, WorldStep
<1>3. \A r \in Run : RunOK(r)'
  BY <1>2, RunKept DEF SandboxInv
<1>4. \A s \in Sweeper : SweepOK(s)'
  BY SweepKept DEF SandboxInv, WorldStep
<1>5. QED
  BY <1>3, <1>4 DEF SandboxInv, WorldStep

LEMMA ClearFacts ==
  ASSUME SandboxInv
  PROVE  WorldOK /\ ClearOK
BY DEF SandboxInv

LEMMA ClearingType ==
  ASSUME SandboxInv, Lives,
         NEW at \in {"unreserve", "free", "unmirror", "done"}, Clearing(at)
  PROVE  ClearOK' /\ ClearGoesOn /\ clear'.at = at
BY ClearFacts DEF ClearOK, Clearing, ClearGoesOn, Lives

LEMMA ClearKeeps ==
  ASSUME SandboxInv, ClearTarget \/ ClearStep
  PROVE  SandboxInv'
<1>1. CASE ClearTarget
  <2>1. Rest /\ UNCHANGED <<machines, rows>> /\ (Fault \/ NoFault) /\ clear.at = "idle"
    BY <1>1 DEF ClearTarget
  <2>2. WorldStep
    BY <2>1, ClearFacts, StillWorld DEF Rest, WorldOK
  <2>3. \E id \in made \cup {None}, at \in {"free", "kill"} : clear' = [at |-> at, id |-> id]
    BY <1>1, ClearFacts DEF ClearTarget, WorldOK
  <2>4. ClearOK' /\ ClearGoesOn
    BY <2>1, <2>2, <2>3, ClearFacts DEF ClearOK, ClearGoesOn, WorldStep, Lives, WorldOK
  <2>5. QED
    BY <2>1, <2>2, <2>4, OtherActs DEF Rest
<1>2. CASE ClearKill
  <2>1. /\ Rest /\ UNCHANGED rows /\ (Fault \/ NoFault)
        /\ Killed(clear.id) \/ UNCHANGED machines
        /\ Clearing("unreserve") \/ Clearing("free")
    BY <1>2 DEF ClearKill
  <2>2. WorldStep
    BY <2>1, ClearFacts, KillWorld DEF Rest
  <2>3. QED
    BY <2>1, <2>2, ClearingType, OtherActs DEF Rest, WorldStep
<1>3. CASE ClearUnreserve
  <2>1. /\ Rest /\ UNCHANGED <<machines, mirror>> /\ Caught(Delete(clear.id))
        /\ Clearing("free")
    BY <1>3 DEF ClearUnreserve
  <2>2. clear'.at # "idle" /\ UNCHANGED <<provider, alive, made, old>>
    BY <2>1, ClearFacts DEF ClearOK, Clearing, machines
  <2>3. WorldStep
    <3>1. CASE clear.id \in Machine
      BY <2>1, <2>2, <3>1, ClearFacts, DeleteWorld DEF Rest
    <3>2. CASE clear.id \notin Machine
      <4>1. ~Names(reservation, clear.id)
        BY <3>2, ClearFacts DEF WorldOK, Names
      <4>2. UNCHANGED reservation /\ (Fault \/ NoFault)
        BY <2>1, <4>1 DEF Caught, Delete
      <4>3. QED
        BY <2>1, <4>2, ClearFacts, StillWorld DEF Rest, WorldOK, rows
    <3>3. QED
      BY <3>1, <3>2
  <2>4. QED
    BY <2>1, <2>3, ClearingType, OtherActs DEF Rest, WorldStep
<1>4. CASE ClearRow
  <2>1. /\ Rest /\ UNCHANGED <<machines, mirror>> /\ (Fault \/ NoFault)
        /\ reservation' \in {reservation, None} /\ Clearing("unmirror")
    BY <1>4 DEF ClearRow, Caught
  <2>2. clear'.at # "idle" /\ UNCHANGED <<provider, alive, made, old, lease>>
    BY <2>1, ClearFacts DEF ClearOK, Clearing, machines, Rest
  <2>3. WorldStep
    <3>1. RowLasts
      BY <2>1, <2>2, ClearFacts DEF RowLasts, Names, WorldOK
    <3>2. WorldOK'
      BY <2>1, <2>2, ClearFacts, FaultType DEF WorldOK, Rows
    <3>3. QED
      BY <2>1, <2>2, <3>1, <3>2 DEF WorldStep, Lives, MirrorLasts
  <2>4. QED
    BY <2>1, <2>3, ClearingType, OtherActs DEF Rest, WorldStep
<1>5. CASE ClearMirror
  <2>1. Rest /\ UNCHANGED <<machines, reservation>> /\ Remove(TRUE) /\ Clearing("done")
    BY <1>5 DEF ClearMirror
  <2>2. WorldStep
    BY <2>1, ClearFacts, RemoveWorld DEF Rest
  <2>3. QED
    BY <2>1, <2>2, ClearingType, OtherActs DEF Rest, WorldStep
<1>6. QED
  BY <1>1, <1>2, <1>3, <1>4, <1>5 DEF ClearStep

LEMMA OutsideKeeps ==
  ASSUME SandboxInv,
         LeaseLapses \/ \E m \in Machine : Vanish(m) \/ Outlive(m)
  PROVE  SandboxInv'
<1>1. CASE LeaseLapses
  <2>1. Runs /\ UNCHANGED <<machines, rows, sweep>> /\ lease' = None /\ (Fault \/ NoFault)
    BY <1>1 DEF LeaseLapses
  <2>2. WorldStep
    BY <2>1, ClearFacts, StillWorld
  <2>3. ClearOK' /\ ClearGoesOn
    BY <2>1, <2>2, ClearFacts DEF ClearOK, ClearGoesOn, Runs, WorldStep, Lives
  <2>4. QED
    BY <2>1, <2>2, <2>3, OtherActs DEF Runs
<1>2. ASSUME NEW m \in Machine, Vanish(m)
      PROVE  SandboxInv'
  <2>1. Killed(m) /\ Fault /\ Rest /\ UNCHANGED rows /\ UNCHANGED clear
    BY <1>2 DEF Vanish
  <2>2. WorldStep
    BY <2>1, ClearFacts, KillWorld DEF Rest
  <2>3. ClearOK' /\ ClearGoesOn
    BY <2>1, <2>2, ClearFacts DEF ClearOK, ClearGoesOn, WorldStep, Lives
  <2>4. QED
    BY <2>1, <2>2, <2>3, OtherActs DEF Rest
<1>3. ASSUME NEW m \in Machine, Outlive(m)
      PROVE  SandboxInv'
  <2>1. /\ Rest /\ UNCHANGED <<provider, alive, made, reservation, mirror, clear>>
        /\ old' = old \cup {m} /\ m \in alive /\ NoFault
    BY <1>3 DEF Outlive, rows
  <2>2. WorldStep
    BY <2>1, ClearFacts, FaultType
    DEF Rest, WorldStep, WorldOK, Lives, RowLasts, MirrorLasts
  <2>3. ClearOK' /\ ClearGoesOn
    BY <2>1, ClearFacts DEF ClearOK, ClearGoesOn
  <2>4. QED
    BY <2>1, <2>2, <2>3, OtherActs DEF Rest
<1>4. QED
  BY <1>1, <1>2, <1>3

\* The clock moves on while no run is at work: nothing is promised to anybody.
LEMMA TickKeeps ==
  ASSUME SandboxInv, Tick
  PROVE  SandboxInv'
<1>1. /\ UNCHANGED <<provider, alive, made, old, lease, run, sweep, clear, faults>>
      /\ \A r \in Run : run[r].at \in {"idle", "done"}
  BY DEF Tick, Rest, machines, NoFault
<1>2. ASSUME NEW row \in Rows, row # None => row.id \in made
      PROVE  Expired(row) \in Rows /\ (Expired(row) # None => Expired(row).id \in made)
  <2>1. CASE row = None
    BY <2>1 DEF Expired, Rows
  <2>2. CASE row # None
    <3>1. row \in [id : Machine, expired : BOOLEAN]
      BY <2>2 DEF Rows
    <3>2. Expired(row) \in [id : Machine, expired : BOOLEAN] /\ Expired(row).id = row.id
      BY <2>2, <3>1 DEF Expired
    <3>3. QED
      BY <1>2, <2>2, <3>2 DEF Rows
  <2>3. QED
    BY <2>1, <2>2
<1>3. WorldOK'
  <2>1. reservation' = Expired(reservation) /\ mirror' = Expired(mirror)
    BY DEF Tick
  <2>2. QED
    BY <1>1, <1>2, <2>1, ClearFacts DEF WorldOK
<1>4. \A r \in Run : RunOK(r)'
  BY <1>1 DEF SandboxInv, RunOK
<1>5. \A s \in Sweeper : SweepOK(s)'
  BY <1>1, SweepKept DEF SandboxInv, Lives
<1>6. QED
  BY <1>1, <1>3, <1>4, <1>5 DEF SandboxInv, ClearOK

-----------------------------------------------------------------------------
(* The theorems.                                                            *)

LEMMA InitHolds == Init => SandboxInv
<1> SUFFICES ASSUME Init
             PROVE  SandboxInv
  OBVIOUS
<1>1. WorldOK /\ ClearOK
  BY SandboxesAssumption DEF Init, WorldOK, ClearOK, Rows
<1>2. run \in [Run -> Actor] /\ \A r \in Run : RunOK(r)
  BY DEF Init, Actor, RunOK
<1>3. sweep \in [Sweeper -> Sweep]
  BY DEF Init, Sweep
<1>4. \A s \in Sweeper : SweepOK(s)
  BY DEF Init, SweepOK, Listed, Elems, Reclaiming
<1>5. QED
  BY <1>1, <1>2, <1>3, <1>4 DEF SandboxInv

LEMMA StutterKeeps ==
  ASSUME SandboxInv, UNCHANGED vars
  PROVE  SandboxInv'
<1>1. UNCHANGED <<provider, alive, made, old, reservation, mirror, lease, run,
                  sweep, clear, faults>>
  BY DEF vars
<1>2. WorldStep /\ ClearOK' /\ ClearGoesOn
  BY <1>1, ClearFacts
  DEF WorldStep, WorldOK, Lives, RowLasts, MirrorLasts, ClearOK, ClearGoesOn
<1>3. QED
  BY <1>1, <1>2, OtherActs

LEMMA Inductive == SandboxInv /\ [Next]_vars => SandboxInv'
BY RunStepKeeps, SweepStepKeeps, ClearKeeps, OutsideKeeps, TickKeeps, StutterKeeps
DEF Next

LEMMA Invariance == Spec => []SandboxInv
BY InitHolds, Inductive, PTL DEF Spec

LEMMA InvTypes == SandboxInv => TypeOK
<1> SUFFICES ASSUME SandboxInv
             PROVE  TypeOK
  OBVIOUS
<1>1. \A r \in Run : /\ run[r].at = "reach" => run[r].saw # None
                     /\ run[r].at \in {"mirror", "using"} => run[r].holds # None
  BY DEF SandboxInv, RunOK
<1>2. QED
  BY <1>1 DEF SandboxInv, WorldOK, ClearOK, Sweep, TypeOK

\* Every variable keeps its type: of a step that went for a machine, a row, an
\* entry of a list, there is one.
THEOREM TypeCorrect == Spec => []TypeOK
BY Invariance, InvTypes, PTL

\* A run whose claim or refresh went through keeps its reservation while it
\* runs, however many runs, sweeps and failures there are: no stale caller,
\* loser or sweep takes the row of a machine in use.
THEOREM InUseIsReserved == Spec => []UsedIsReserved
<1>1. SandboxInv => UsedIsReserved
  <2> SUFFICES ASSUME SandboxInv, NEW r \in Run, Settled(r), run[r].holds \in alive,
                      clear.at = "idle"
               PROVE  Names(reservation, run[r].holds) \/ ClaimUndone(run[r].holds)
    BY DEF UsedIsReserved
  <2>1. PICK m \in Machine : m = run[r].holds
    BY RunFacts
  <2>2. Kept(m)
    BY <2>1, RunFacts DEF RunOK, Settled
  <2>3. QED
    BY <2>1, <2>2 DEF Kept
<1>2. QED
  BY <1>1, Invariance, PTL

\* Only a take that goes through sends a sweep on to a teardown.
LEMMA KillTakes ==
  ASSUME SandboxInv, Next, NEW s \in Sweeper, sweep[s].at = "take",
         sweep'[s].at = "kill"
  PROVE  Takes(Entry(s))
<1>1. ASSUME UNCHANGED sweep
      PROVE  FALSE
  BY <1>1
<1>2. ASSUME NEW r \in Run, Read(r) \/ RunStep(r) \/ Crash(r)
      PROVE  FALSE
  BY <1>1, <1>2
  DEF Read, RunStep, Crash, Connect, Retire, SaveRow, Forget, Create, ClaimKey,
      UndoRow, UndoMachine, Winner, Drop, Reach, Mirror, Done, Others
<1>3. ASSUME ClearTarget \/ ClearStep \/ LeaseLapses \/ Tick
             \/ \E m \in Machine : Vanish(m) \/ Outlive(m)
      PROVE  FALSE
  BY <1>1, <1>3
  DEF ClearTarget, ClearStep, ClearKill, ClearUnreserve, ClearRow, ClearMirror,
      LeaseLapses, Tick, Vanish, Outlive, Rest
<1>4. ASSUME NEW q \in Sweeper \ {s}, SweepStep(q) \/ SweeperDies(q)
      PROVE  FALSE
  <2>1. sweep'[s] = sweep[s]
    BY <1>4, SweepFacts
    DEF SweepStep, SweeperDies, ListExpired, ListOrphans, Take, Kill, Unreserve,
        Unmirror, HandBack, Defer, ReleaseLease, Going, NextEntry
  <2>2. QED
    BY <2>1
<1>5. CASE SweepStep(s) \/ SweeperDies(s)
  <2>1. CASE SweeperDies(s)
    BY <2>1, SweepFacts DEF SweeperDies, Idle
  <2>2. CASE Take(s)
    <3>1. ~NextEntry(s, FALSE)
      BY SweepFacts DEF NextEntry, Sweep
    <3>2. QED
      BY <2>2, <3>1 DEF Take
  <2>3. QED
    BY <1>5, <2>1, <2>2
    DEF SweepStep, ListExpired, ListOrphans, Kill, Unreserve, Unmirror, HandBack,
        Defer, ReleaseLease
<1>6. QED
  BY <1>2, <1>3, <1>4, <1>5 DEF Next

\* A run that reconnected and refreshed the deadline keeps its machine, of
\* whatever week the list is that a sweep works from: what is on a list was
\* past its deadline, and a row refreshed since is not taken.
THEOREM RefreshedIsSpared == Spec => SweepSparesRefreshed
<1>1. ASSUME SandboxInv, Next, NEW s \in Sweeper, NEW r \in Run,
             sweep[s].at = "take", sweep'[s].at = "kill", clear.at = "idle",
             Settled(r), run[r].holds = Entry(s), Entry(s) \in alive
      PROVE  FALSE
  <2>1. PICK m \in Machine : m = Entry(s)
    BY <1>1, SweepFacts DEF Reclaiming
  <2>2. Kept(m)
    BY <1>1, <2>1, RunFacts DEF RunOK, Settled
  <2>3. Aged(m)
    BY <1>1, <2>1, SweepFacts DEF Reclaiming, Aged
  <2>4. Takes(m)
    BY <1>1, <2>1, KillTakes
  <2>5. QED
    BY <2>2, <2>3, <2>4 DEF Kept, Takes, Names
<1>2. SandboxInv /\ [Next]_vars =>
        [\A s \in Sweeper, r \in Run :
           sweep[s].at = "take" /\ sweep'[s].at = "kill" /\ clear.at = "idle"
             => ~(Settled(r) /\ run[r].holds = Entry(s) /\ Entry(s) \in alive)]_vars
  BY <1>1
<1>3. QED
  BY <1>2, Invariance, PTL DEF Spec, SweepSparesRefreshed

-----------------------------------------------------------------------------
(* What is lost.  A failure owes at most one machine, paid for when it       *)
(* happens: the one whose claim threw, or that lost its row and its keeper.  *)
(* Losing the mirror later, or the run that still uses it, adds nothing.     *)

\* In the hands of one that disposes of it or gives it a row.
Guarded(m) ==
  \/ \E r \in Run : run[r].holds = m /\ run[r].at \in {"claim", "lost", "drop"}
  \/ \E s \in Sweeper : sweep[s].at = "kill" /\ Entry(s) = m

Owed ==
  {m \in alive \ Adopted :
     ClaimUndone(m) \/ (~Names(reservation, m) /\ ~Guarded(m))}

\* The cleanup takes one row, whatever machine it names.
Debt == faults + (IF clear.at \in {"unmirror", "done"} THEN 1 ELSE 0)

OwedInv ==
  /\ SandboxInv
  /\ \A r \in Run : run[r].how = "adopted" => run[r].at \in {"mirror", "using", "done"}
  /\ clear.at = "unreserve" => clear.id \notin alive
  /\ IsFiniteSet(Owed) /\ Cardinality(Owed) <= Debt

\* A step that leaves no machine but x owed.
Spares(x) == \A m \in Owed' : m \in Owed \/ m = x

LEMMA SparesBy ==
  ASSUME NEW x,
         \A m \in alive' : m # x /\ m \notin Adopted' =>
           /\ m \in alive
           /\ m \in Adopted => m \in Adopted'
           /\ ClaimUndone(m)' => ClaimUndone(m)
           /\ Guarded(m) => Guarded(m)' \/ Names(reservation, m)'
           /\ Names(reservation, m) => Guarded(m)' \/ Names(reservation, m)'
  PROVE  Spares(x)
BY DEF Spares, Owed

\* A step of run r: x is what it lets go, or what its claim failed for.
LEMMA RunSpares ==
  ASSUME NEW x, NEW r \in Run, UNCHANGED sweep,
         \A q \in Run \ {r} : run'[q] = run[q],
         alive' \subseteq alive \cup {x},
         run[r].how = "adopted" =>
           run'[r].how = "adopted" /\ run'[r].holds = run[r].holds,
         run'[r].how = "undone" =>
           \/ run[r].how = "undone" /\ run'[r].holds = run[r].holds
           \/ run'[r].holds = x,
         run[r].at \in {"claim", "lost", "drop"} =>
           \/ /\ run'[r].at \in {"claim", "lost", "drop"} \/ run'[r].how = "adopted"
              /\ run'[r].holds = run[r].holds
           \/ run[r].holds = x \/ run[r].holds \notin alive'
           \/ Names(reservation', run[r].holds),
         \A m \in alive' : Names(reservation, m) => m = x \/ Names(reservation', m)
  PROVE  Spares(x)
<1>1. ASSUME NEW m \in alive', m # x, m \notin Adopted'
      PROVE  /\ m \in alive
             /\ m \in Adopted => m \in Adopted'
             /\ ClaimUndone(m)' => ClaimUndone(m)
             /\ Guarded(m) => Guarded(m)' \/ Names(reservation, m)'
             /\ Names(reservation, m) => Guarded(m)' \/ Names(reservation, m)'
  <2>1. m \in alive
    BY <1>1
  <2>2. ASSUME m \in Adopted PROVE FALSE
    <3>1. PICK q \in Run : run[q].how = "adopted" /\ run[q].holds = m
      BY <2>2 DEF Adopted
    <3>2. run'[q].how = "adopted" /\ run'[q].holds = m
      BY <3>1
    <3>3. QED
      BY <1>1, <3>2 DEF Adopted
  <2>3. ASSUME NEW q \in Run, run'[q].how = "undone", run'[q].holds = m
        PROVE  ClaimUndone(m)
    BY <1>1, <2>3 DEF ClaimUndone
  <2>4. ASSUME NEW q \in Run, run[q].holds = m, run[q].at \in {"claim", "lost", "drop"}
        PROVE  Guarded(m)' \/ Names(reservation, m)'
    <3>1. CASE q # r
      BY <2>4, <3>1 DEF Guarded
    <3>2. CASE q = r /\ run'[q].how = "adopted" /\ run'[q].holds = m
      BY <1>1, <3>2 DEF Adopted
    <3>3. CASE q = r /\ ~(run'[q].how = "adopted" /\ run'[q].holds = m)
      BY <1>1, <2>4, <3>3 DEF Guarded, Names
    <3>4. QED
      BY <3>1, <3>2, <3>3
  <2>5. ASSUME NEW s \in Sweeper, sweep[s].at = "kill", Entry(s) = m
        PROVE  Guarded(m)'
    BY <2>5 DEF Guarded, Entry
  <2>6. QED
    BY <1>1, <2>1, <2>2, <2>3, <2>4, <2>5 DEF ClaimUndone, Guarded
<1>2. QED
  BY <1>1, SparesBy

\* A step of nobody's run: x is what a sweeper or the row lets go.
LEMMA RestSpares ==
  ASSUME NEW x, UNCHANGED run, alive' \subseteq alive,
         \A s \in Sweeper : sweep[s].at = "kill" =>
           \/ sweep'[s].at = "kill" /\ sweep'[s].queue = sweep[s].queue
           \/ Entry(s) = x \/ Entry(s) \notin alive',
         \A m \in alive' : Names(reservation, m) =>
           \/ m = x \/ Names(reservation, m)'
           \/ \E s \in Sweeper : sweep'[s].at = "kill" /\ Head(sweep'[s].queue) = m
  PROVE  Spares(x)
<1>1. Adopted' = Adopted
  BY DEF Adopted
<1>2. \A m : ClaimUndone(m)' => ClaimUndone(m)
  BY DEF ClaimUndone
<1>3. ASSUME NEW m \in alive', m # x, Guarded(m)
      PROVE  Guarded(m)'
  <2>1. CASE \E r \in Run : run[r].holds = m /\ run[r].at \in {"claim", "lost", "drop"}
    BY <2>1 DEF Guarded
  <2>2. ASSUME NEW s \in Sweeper, sweep[s].at = "kill", Entry(s) = m
        PROVE  Guarded(m)'
    BY <1>3, <2>2 DEF Guarded, Entry
  <2>3. QED
    BY <1>3, <2>1, <2>2 DEF Guarded
<1>4. ASSUME NEW m \in alive', m # x, Names(reservation, m)
      PROVE  Guarded(m)' \/ Names(reservation, m)'
  BY <1>4 DEF Guarded, Entry
<1>5. QED
  BY <1>1, <1>2, <1>3, <1>4, SparesBy

\* What a step makes of the debt.
LEMMA OwedStep ==
  ASSUME OwedInv, NEW x, Spares(x), Debt' \in Nat, Debt \in Nat,
         Debt' >= Debt, x \notin Owed' \/ Debt' >= Debt + 1
  PROVE  IsFiniteSet(Owed)' /\ Cardinality(Owed)' <= Debt'
<1>1. IsFiniteSet(Owed) /\ Cardinality(Owed) \in Nat /\ Cardinality(Owed) <= Debt
  BY FS_CardinalityType DEF OwedInv
<1>2. CASE x \notin Owed'
  <2>1. Owed' \subseteq Owed
    BY <1>2 DEF Spares
  <2>2. IsFiniteSet(Owed') /\ Cardinality(Owed') <= Cardinality(Owed)
    BY <1>1, <2>1, FS_Subset
  <2>3. Cardinality(Owed') \in Nat
    BY <2>2, FS_CardinalityType
  <2>4. QED
    BY <1>1, <2>2, <2>3
<1>3. CASE x \in Owed' /\ Debt' >= Debt + 1
  <2>1. Owed' \subseteq Owed \cup {x}
    BY DEF Spares
  <2>2. IsFiniteSet(Owed \cup {x}) /\ Cardinality(Owed \cup {x}) <= Cardinality(Owed) + 1
    BY <1>1, FS_AddElement
  <2>3. IsFiniteSet(Owed') /\ Cardinality(Owed') <= Cardinality(Owed \cup {x})
    BY <2>1, <2>2, FS_Subset
  <2>4. Cardinality(Owed') \in Nat /\ Cardinality(Owed \cup {x}) \in Nat
    BY <2>2, <2>3, FS_CardinalityType
  <2>5. QED
    BY <1>1, <1>3, <2>2, <2>3, <2>4
<1>4. QED
  BY <1>2, <1>3


\* A step that owes nothing new, or pays for x.
Pays(x) ==
  x \notin Owed' \/ x \in Owed \/ Fault \/ (clear.at = "free" /\ clear'.at = "unmirror")

Accounts == \E x : Spares(x) /\ Pays(x)

LEMMA NoneOwed ==
  ASSUME alive' \subseteq made', made' \subseteq Machine
  PROVE  Pays(None)
BY SandboxesAssumption DEF Pays, Owed

LEMMA NothingOwed ==
  ASSUME SandboxInv, SandboxInv', Spares(None)
  PROVE  Accounts
<1>1. Pays(None)
  BY NoneOwed DEF SandboxInv, WorldOK
<1>2. QED
  BY <1>1 DEF Accounts

\* A step of run r that lets go of no machine.
LEMMA RunLetsNothingGo ==
  ASSUME OwedInv, SandboxInv', NEW r \in Run, UNCHANGED sweep,
         \A q \in Run \ {r} : run'[q] = run[q],
         run[r].at \notin {"claim", "lost", "drop", "mirror", "using", "done"},
         run'[r].how # "undone", alive' \subseteq alive,
         \A m \in alive' : Names(reservation, m) => Names(reservation', m)
  PROVE  Accounts
<1>1. run[r].how # "adopted"
  BY DEF OwedInv
<1>2. Spares(None)
  BY <1>1, RunSpares
<1>3. QED
  BY <1>2, NothingOwed DEF OwedInv

LEMMA AcquireAccounts ==
  ASSUME OwedInv, SandboxInv', NEW r \in Run,
         Read(r) \/ Connect(r) \/ Retire(r) \/ SaveRow(r) \/ Forget(r) \/ Reach(r)
  PROVE  Accounts
<1>1. /\ UNCHANGED sweep /\ run \in [Run -> Actor] /\ run[r] \in Actor
      /\ run[r].at \in {"idle", "connect", "retire", "save", "forget", "reach"}
      /\ run[r].how # "undone"
      /\ run[r].at = "forget" => run[r].saw \notin alive
  BY RunFacts DEF OwedInv, Read, Connect, Retire, SaveRow, Forget, Reach, Others, RunOK
<1>2. \A q \in Run \ {r} : run'[q] = run[q]
  BY <1>1 DEF Read, Connect, Retire, SaveRow, Forget, Reach, Moves, Ends
<1>3. run'[r].how # "undone"
  BY <1>1 DEF Read, Connect, Retire, SaveRow, Forget, Reach, Moves, Ends, Actor
<1>4. alive' \subseteq alive
  BY DEF Read, Connect, Retire, SaveRow, Forget, Reach, Killed, machines
<1>5. ASSUME NEW m \in alive', Names(reservation, m)
      PROVE  Names(reservation', m)
  <2>1. CASE Forget(r)
    <3>1. m # run[r].saw
      BY <1>1, <1>4, <1>5, <2>1 DEF Forget
    <3>2. reservation' = reservation
      BY <1>5, <2>1, <3>1 DEF Forget, Caught, Delete, Names
    <3>3. QED
      BY <1>5, <3>2
  <2>2. CASE SaveRow(r)
    <3>1. CASE reservation' = reservation
      BY <1>5, <3>1
    <3>2. CASE Save(run[r].holds) /\ reservation' # reservation
      <4>1. PICK y \in Machine : y = run[r].holds
        BY <2>2, RunFacts DEF OwedInv, RunOK, SaveRow
      <4>2. reservation' = Fresh(y) /\ Names(reservation, y)
        BY <3>2, <4>1 DEF Save
      <4>3. QED
        BY <1>5, <4>2, FreshRow DEF Names
    <3>3. QED
      BY <2>2, <3>1, <3>2 DEF SaveRow
  <2>3. CASE Read(r) \/ Connect(r) \/ Retire(r) \/ Reach(r)
    BY <1>5, <2>3 DEF Read, Connect, Retire, Reach, rows
  <2>4. QED
    BY <2>1, <2>2, <2>3
<1>6. QED
  BY <1>1, <1>2, <1>3, <1>4, <1>5, RunLetsNothingGo

LEMMA CreateAccounts ==
  ASSUME OwedInv, SandboxInv', NEW r \in Run, Create(r)
  PROVE  Accounts
<1>1. /\ UNCHANGED sweep /\ run \in [Run -> Actor] /\ run[r] \in Actor
      /\ run[r].at = "create" /\ run[r].how # "undone" /\ run[r].how # "adopted"
      /\ UNCHANGED reservation
  BY RunFacts DEF OwedInv, Create, Others, RunOK, rows
<1>2. CASE Ends(r) /\ UNCHANGED machines
  BY <1>1, <1>2, RunLetsNothingGo DEF Ends, Moves, Actor, machines
<1>3. CASE ~(Ends(r) /\ UNCHANGED machines)
  <2>1. PICK m \in Machine \ made :
             /\ alive' = alive \cup {m}
             /\ run' = [run EXCEPT ![r].at = "claim", ![r].holds = m]
    BY <1>3, RunFacts DEF OwedInv, Create, NewMachine
  <2>2. /\ run'[r].at = "claim" /\ run'[r].holds = m /\ run'[r].how = run[r].how
        /\ \A q \in Run \ {r} : run'[q] = run[q]
    BY <1>1, <2>1 DEF Actor
  <2>3. Spares(m)
    BY <1>1, <2>1, <2>2, RunSpares
  <2>4. m \in Owed' => m \in Owed
    <3>1. Guarded(m)'
      BY <2>2 DEF Guarded
    <3>2. ASSUME m \in Owed' PROVE FALSE
      <4>1. ClaimUndone(m)'
        BY <3>1, <3>2 DEF Owed
      <4>2. PICK q \in Run : run'[q].how = "undone" /\ run'[q].holds = m
        BY <4>1 DEF ClaimUndone
      <4>3. run[q].holds = m
        BY <1>1, <2>2, <4>2
      <4>4. QED
        BY <2>1, <4>3, RunFacts, SandboxesAssumption DEF OwedInv, RunOK
    <3>3. QED
      BY <3>2
  <2>5. QED
    BY <2>3, <2>4 DEF Pays, Accounts
<1>4. QED
  BY <1>2, <1>3


LEMMA ClaimKeyAccounts ==
  ASSUME OwedInv, SandboxInv', NEW r \in Run, ClaimKey(r)
  PROVE  Accounts
<1>1. /\ UNCHANGED sweep /\ run \in [Run -> Actor] /\ run[r] \in Actor
      /\ run[r].at = "claim" /\ run[r].how # "undone" /\ run[r].how # "adopted"
      /\ alive' = alive
  BY RunFacts DEF OwedInv, ClaimKey, Others, RunOK, machines
<1>2. \A q \in Run \ {r} : run'[q] = run[q]
  BY <1>1 DEF ClaimKey, Moves
<1>3. PICK m \in Machine : m = run[r].holds
  BY <1>1, RunFacts DEF OwedInv, RunOK
<1>4. run'[r].holds = m
  BY <1>1, <1>3 DEF ClaimKey, Moves, Actor
<1>5. \A y \in alive' : Names(reservation, y) => Names(reservation', y)
  BY DEF ClaimKey, Claim, Names
<1>6. CASE reservation = None /\ Claim(m) /\ run'[r].how = "saved"
  <2>1. Names(reservation', m)
    BY <1>6, FreshRow DEF Claim, Names
  <2>2. Spares(None)
    BY <1>1, <1>2, <1>3, <1>5, <1>6, <2>1, RunSpares
  <2>3. QED
    BY <2>2, NothingOwed DEF OwedInv
<1>7. CASE Moves(r, "lost")
  <2>1. run'[r].at = "lost" /\ run'[r].how = run[r].how
    BY <1>1, <1>7 DEF Moves, Actor
  <2>2. Spares(None)
    BY <1>1, <1>2, <1>3, <1>4, <1>5, <2>1, RunSpares
  <2>3. QED
    BY <2>2, NothingOwed DEF OwedInv
<1>8. CASE Fault
  <2>1. Spares(m)
    BY <1>1, <1>2, <1>3, <1>4, <1>5, RunSpares
  <2>2. QED
    BY <1>8, <2>1 DEF Pays, Accounts
<1>9. QED
  <2>1. run'[r].how = "saved" \/ Moves(r, "lost") \/ Fault
    BY <1>1 DEF ClaimKey, Actor
  <2>2. (reservation = None /\ Claim(m)) \/ Moves(r, "lost") \/ Fault
    BY <1>3 DEF ClaimKey
  <2>3. QED
    BY <1>6, <1>7, <1>8, <2>1, <2>2

\* What the undo deletes has been owed since its claim threw.
LEMMA UndoAccounts ==
  ASSUME OwedInv, SandboxInv', NEW r \in Run, UndoRow(r) \/ UndoMachine(r)
  PROVE  Accounts
<1>1. /\ UNCHANGED sweep /\ run \in [Run -> Actor] /\ run[r].at = "undo"
      /\ run[r].how = "undone" /\ alive' \subseteq alive
  BY RunFacts DEF OwedInv, UndoRow, UndoMachine, Others, RunOK, machines, Killed
<1>2. PICK y \in Actor : /\ run' = [run EXCEPT ![r] = y] /\ run'[r] = y
                         /\ y.how = "undone" /\ y.holds = run[r].holds
  BY <1>1, UndoneFacts DEF OwedInv, UndoRow, UndoMachine
<1>3. PICK m \in Machine : m = run[r].holds
  BY <1>1, RunFacts DEF OwedInv, RunOK
<1>4. \A q \in Run \ {r} : run'[q] = run[q]
  BY <1>1, <1>2
<1>5. \A x \in alive' : Names(reservation, x) => x = m \/ Names(reservation', x)
  <2>1. CASE UndoRow(r)
    BY <1>3, <2>1 DEF UndoRow, Caught, Delete, Names
  <2>2. CASE UndoMachine(r)
    BY <2>2 DEF UndoMachine, rows
  <2>3. QED
    BY <2>1, <2>2
<1>6. Spares(m)
  BY <1>1, <1>2, <1>4, <1>5, RunSpares
<1>7. m \in Owed' => m \in Owed
  <2>1. \A q \in Run : run'[q].how = run[q].how /\ run'[q].holds = run[q].holds
    BY <1>1, <1>2, <1>4
  <2>2. Adopted' = Adopted
    BY <2>1 DEF Adopted
  <2>3. ClaimUndone(m)
    BY <1>1, <1>3 DEF ClaimUndone
  <2>4. QED
    BY <1>1, <2>2, <2>3 DEF Owed
<1>8. QED
  BY <1>6, <1>7 DEF Pays, Accounts

LEMMA LoserAccounts ==
  ASSUME OwedInv, SandboxInv', NEW r \in Run, Winner(r) \/ Drop(r)
  PROVE  Accounts
<1>1. /\ UNCHANGED sweep /\ run \in [Run -> Actor] /\ run[r] \in Actor
      /\ run[r].at \in {"lost", "drop"} /\ run[r].how # "undone"
      /\ run[r].how # "adopted" /\ reservation' = reservation /\ alive' \subseteq alive
  BY RunFacts
  DEF OwedInv, Winner, Drop, Others, RunOK, rows, machines, Killed
<1>2. \A q \in Run \ {r} : run'[q] = run[q]
  BY <1>1 DEF Winner, Drop
<1>3. CASE Winner(r)
  <2>1. run'[r].holds = run[r].holds /\ run'[r].how # "undone"
    BY <1>1, <1>3 DEF Winner, Actor
  <2>2. run'[r].at = "drop" \/ run'[r].how = "adopted"
    BY <1>1, <1>3 DEF Winner, WithoutWinner, Actor
  <2>3. Spares(None)
    BY <1>1, <1>2, <2>1, <2>2, RunSpares
  <2>4. QED
    BY <2>3, NothingOwed DEF OwedInv
<1>4. CASE Drop(r)
  <2>1. run'[r].how = run[r].how
    BY <1>1, <1>4 DEF Drop, Actor
  <2>2. CASE Killed(run[r].holds)
    <3>1. run[r].holds \notin alive'
      BY <2>2 DEF Killed
    <3>2. Spares(None)
      BY <1>1, <1>2, <2>1, <3>1, RunSpares
    <3>3. QED
      BY <3>2, NothingOwed DEF OwedInv
  <2>3. CASE Fault
    <3>1. PICK m : m = run[r].holds
      OBVIOUS
    <3>2. Spares(m)
      BY <1>1, <1>2, <2>1, <3>1, RunSpares
    <3>3. QED
      BY <2>3, <3>2 DEF Pays, Accounts
  <2>4. QED
    BY <1>4, <2>2, <2>3 DEF Drop
<1>5. QED
  BY <1>3, <1>4

LEMMA UseAccounts ==
  ASSUME OwedInv, SandboxInv', NEW r \in Run, Mirror(r) \/ Done(r) \/ Crash(r)
  PROVE  Accounts
<1>1. /\ UNCHANGED sweep /\ run \in [Run -> Actor] /\ run[r] \in Actor
      /\ reservation' = reservation /\ alive' = alive
  BY RunFacts
  DEF OwedInv, Mirror, Done, Crash, Others, rows, machines
<1>2. \A q \in Run \ {r} : run'[q] = run[q]
  BY <1>1 DEF Mirror, Done, Crash, Ends, Moves
<1>3. run'[r].holds = run[r].holds /\ run'[r].how = run[r].how
  BY <1>1 DEF Mirror, Done, Crash, Ends, Moves, Actor
<1>4. CASE Mirror(r) \/ Done(r)
  <2>1. run[r].at \notin {"claim", "lost", "drop"}
    BY <1>4 DEF Mirror, Done
  <2>2. Spares(None)
    BY <1>1, <1>2, <1>3, <2>1, RunSpares
  <2>3. QED
    BY <2>2, NothingOwed DEF OwedInv
<1>5. CASE Crash(r)
  <2>1. PICK m : m = run[r].holds
    OBVIOUS
  <2>2. Spares(m)
    BY <1>1, <1>2, <1>3, <2>1, RunSpares
  <2>3. QED
    BY <1>5, <2>2 DEF Crash, Pays, Accounts
<1>6. QED
  BY <1>4, <1>5

LEMMA SweepAccounts ==
  ASSUME OwedInv, SandboxInv', NEW s \in Sweeper, SweepStep(s) \/ SweeperDies(s)
  PROVE  Accounts
<1>1. /\ UNCHANGED run /\ sweep \in [Sweeper -> Sweep] /\ sweep[s] \in Sweep
      /\ alive' \subseteq alive
  BY SweepFacts
  DEF OwedInv, SweepStep, SweeperDies, ListExpired, ListOrphans, Take, Kill,
      Unreserve, Unmirror, HandBack, Defer, ReleaseLease, Runs, machines, Killed
<1>2. \A q \in Sweeper \ {s} : sweep'[q] = sweep[q]
  BY <1>1
  DEF SweepStep, SweeperDies, ListExpired, ListOrphans, Take, Kill, Unreserve,
      Unmirror, HandBack, Defer, ReleaseLease, Going, NextEntry
<1>3. CASE ListExpired(s) \/ ListOrphans(s) \/ Unmirror(s) \/ ReleaseLease(s)
  <2>1. sweep[s].at # "kill" /\ reservation' = reservation
    BY <1>3 DEF ListExpired, ListOrphans, Unmirror, ReleaseLease, rows
  <2>2. Spares(None)
    BY <1>1, <1>2, <2>1, RestSpares
  <2>3. QED
    BY <2>2, NothingOwed DEF OwedInv
<1>4. CASE Take(s)
  <2>1. sweep[s].at = "take"
    BY <1>4 DEF Take
  <2>2. CASE Takes(Entry(s)) /\ reservation' = None /\ Going(s, "kill")
    <3>1. sweep'[s].at = "kill" /\ Head(sweep'[s].queue) = Entry(s)
      BY <1>1, <2>2 DEF Going, Entry, Sweep
    <3>2. \A m \in alive' : Names(reservation, m) => m = Head(sweep'[s].queue)
      BY <2>2, <3>1 DEF Takes, Names
    <3>3. Spares(None)
      BY <1>1, <1>2, <2>1, <3>1, <3>2, RestSpares
    <3>4. QED
      BY <3>3, NothingOwed DEF OwedInv
  <2>3. CASE UNCHANGED reservation
    <3>1. Spares(None)
      BY <1>1, <1>2, <2>1, <2>3, RestSpares
    <3>2. QED
      BY <3>1, NothingOwed DEF OwedInv
  <2>4. CASE Fault /\ reservation' = None
    <3>1. PICK m : \A x \in alive' : Names(reservation, x) => x = m
      BY DEF Names
    <3>2. Spares(m)
      BY <1>1, <1>2, <2>1, <3>1, RestSpares
    <3>3. QED
      BY <2>4, <3>2 DEF Pays, Accounts
  <2>5. QED
    BY <1>4, <2>2, <2>3, <2>4 DEF Take
<1>5. CASE Kill(s) \/ SweeperDies(s)
  <2>1. reservation' = reservation
    BY <1>5 DEF Kill, SweeperDies, rows
  <2>2. CASE Killed(Entry(s))
    <3>1. Entry(s) \notin alive'
      BY <2>2 DEF Killed
    <3>2. Spares(None)
      BY <1>1, <1>2, <2>1, <3>1, RestSpares
    <3>3. QED
      BY <3>2, NothingOwed DEF OwedInv
  <2>3. CASE Fault
    <3>1. PICK m : m = Entry(s)
      OBVIOUS
    <3>2. Spares(m)
      BY <1>1, <1>2, <2>1, <3>1, RestSpares
    <3>3. QED
      BY <2>3, <3>2 DEF Pays, Accounts
  <2>4. QED
    BY <1>5, <2>2, <2>3 DEF Kill, SweeperDies
<1>6. CASE Unreserve(s) \/ HandBack(s) \/ Defer(s)
  <2>1. sweep[s].at # "kill"
    BY <1>6 DEF Unreserve, HandBack, Defer
  <2>2. ASSUME NEW m \in alive', Names(reservation, m)
        PROVE  Names(reservation', m)
    <3>1. m \in Machine /\ m \in alive
      BY <1>1, <2>2 DEF OwedInv, SandboxInv, WorldOK
    <3>2. CASE Unreserve(s)
      <4>1. m # Entry(s)
        BY <3>1, <3>2 DEF OwedInv, SandboxInv, SweepOK, Unreserve
      <4>2. QED
        BY <2>2, <3>2, <4>1 DEF Unreserve, Caught, Delete, Names
    <3>3. CASE HandBack(s)
      BY <2>2, <3>3 DEF HandBack, Caught, Claim, Names
    <3>4. CASE Defer(s)
      BY <2>2, <3>1, <3>4, FreshRow DEF Defer, Caught, Names
    <3>5. QED
      BY <1>6, <3>2, <3>3, <3>4
  <2>3. Spares(None)
    BY <1>1, <1>2, <2>1, <2>2, RestSpares
  <2>4. QED
    BY <2>3, NothingOwed DEF OwedInv
<1>7. QED
  BY <1>3, <1>4, <1>5, <1>6 DEF SweepStep

LEMMA ClearAccounts ==
  ASSUME OwedInv, SandboxInv', ClearTarget \/ ClearStep
  PROVE  Accounts
<1>1. UNCHANGED run /\ UNCHANGED sweep /\ alive' \subseteq alive
  BY DEF ClearTarget, ClearStep, ClearKill, ClearUnreserve, ClearRow, ClearMirror,
         Rest, machines, Killed
<1>2. CASE ClearTarget \/ ClearKill \/ ClearMirror
  <2>1. reservation' = reservation
    BY <1>2 DEF ClearTarget, ClearKill, ClearMirror, rows
  <2>2. Spares(None)
    BY <1>1, <2>1, RestSpares
  <2>3. QED
    BY <2>2, NothingOwed DEF OwedInv
<1>3. CASE ClearUnreserve
  <2>1. clear.id \notin alive
    BY <1>3 DEF OwedInv, ClearUnreserve
  <2>2. \A m \in alive' : Names(reservation, m) => Names(reservation', m)
    BY <1>1, <1>3, <2>1 DEF ClearUnreserve, Caught, Delete, Names
  <2>3. Spares(None)
    BY <1>1, <2>2, RestSpares
  <2>4. QED
    BY <2>3, NothingOwed DEF OwedInv
<1>4. CASE ClearRow
  <2>1. clear.at = "free" /\ clear'.at = "unmirror"
    BY <1>4 DEF ClearRow, Clearing, OwedInv, SandboxInv, ClearOK
  <2>2. PICK m : \A x \in alive' : Names(reservation, x) => x = m
    BY DEF Names
  <2>3. Spares(m)
    BY <1>1, <2>2, RestSpares
  <2>4. QED
    BY <2>1, <2>3 DEF Pays, Accounts
<1>5. QED
  BY <1>2, <1>3, <1>4 DEF ClearStep

LEMMA OutsideAccounts ==
  ASSUME OwedInv, SandboxInv',
         LeaseLapses \/ Tick \/ \E m \in Machine : Vanish(m) \/ Outlive(m)
  PROVE  Accounts
<1>1. UNCHANGED run /\ UNCHANGED sweep /\ alive' \subseteq alive
  BY DEF LeaseLapses, Tick, Vanish, Outlive, Runs, Rest, machines, Killed
<1>2. ASSUME NEW m \in alive', Names(reservation, m)
      PROVE  Names(reservation', m)
  <2>1. CASE Tick
    <3>1. reservation' = [reservation EXCEPT !.expired = TRUE]
      BY <1>2, <2>1 DEF Tick, Expired, Names
    <3>2. reservation \in [id : Machine, expired : BOOLEAN]
      BY <1>2 DEF OwedInv, SandboxInv, WorldOK, Rows, Names
    <3>3. reservation' \in [id : Machine, expired : BOOLEAN] /\ reservation'.id = m
      BY <1>2, <3>1, <3>2 DEF Names
    <3>4. QED
      BY <3>3, SandboxesAssumption DEF Names
  <2>2. CASE ~Tick
    <3>1. reservation' = reservation
      BY <2>2 DEF LeaseLapses, Vanish, Outlive, rows
    <3>2. QED
      BY <1>2, <3>1
  <2>3. QED
    BY <2>1, <2>2
<1>3. Spares(None)
  BY <1>1, <1>2, RestSpares
<1>4. QED
  BY <1>3, NothingOwed DEF OwedInv


LEMMA NextAccounts ==
  ASSUME OwedInv, SandboxInv', Next
  PROVE  Accounts
<1>1. CASE \E r \in Run : Read(r) \/ RunStep(r) \/ Crash(r)
  BY <1>1, AcquireAccounts, CreateAccounts, ClaimKeyAccounts, UndoAccounts,
     LoserAccounts, UseAccounts
  DEF RunStep
<1>2. CASE \E s \in Sweeper : SweepStep(s) \/ SweeperDies(s)
  BY <1>2, SweepAccounts
<1>3. QED
  BY <1>1, <1>2, ClearAccounts, OutsideAccounts DEF Next

\* A run that adopted its machine only uses it.
LEMMA AdoptedUses ==
  ASSUME OwedInv, Next, NEW r \in Run, run'[r].how = "adopted"
  PROVE  run'[r].at \in {"mirror", "using", "done"}
<1>1. /\ run \in [Run -> Actor] /\ run[r] \in Actor
      /\ run[r].how = "adopted" => run[r].at \in {"mirror", "using", "done"}
  BY RunFacts DEF OwedInv
<1>2. ASSUME NEW q \in Run, Read(q) \/ RunStep(q) \/ Crash(q)
      PROVE  run'[r].at \in {"mirror", "using", "done"}
  <2>1. run[q] \in Actor
    BY RunFacts DEF OwedInv
  <2>2. CASE q # r
    <3>1. run'[r] = run[r]
      BY <1>1, <1>2, <2>2
      DEF RunStep, Read, Connect, Retire, SaveRow, Forget, Create, ClaimKey, UndoRow,
          UndoMachine, Undone, Winner, Drop, Reach, Mirror, Done, Crash, Ends, Moves
    <3>2. QED
      BY <1>1, <3>1
  <2>3. CASE q = r /\ (UndoRow(r) \/ UndoMachine(r))
    <3>1. run[r].at = "undo"
      BY <2>3 DEF UndoRow, UndoMachine
    <3>2. run'[r].how = "undone"
      BY <2>3, <3>1, UndoneFacts DEF OwedInv, UndoRow, UndoMachine
    <3>3. QED
      BY <3>2
  <2>4. CASE q = r /\ (Winner(r) \/ Mirror(r) \/ Done(r) \/ Crash(r))
    BY <1>1, <2>4 DEF Winner, WithoutWinner, Mirror, Done, Crash, Ends, Moves, Actor
  <2>5. CASE q = r /\ (Create(r) \/ ClaimKey(r) \/ Drop(r))
    BY <1>1, <2>5 DEF Create, ClaimKey, Drop, Ends, Moves, Actor
  <2>6. CASE q = r /\ (Read(r) \/ Connect(r) \/ Retire(r))
    BY <1>1, <2>6 DEF Read, Connect, Retire, Ends, Moves, Actor
  <2>7. CASE q = r /\ (SaveRow(r) \/ Forget(r) \/ Reach(r))
    BY <1>1, <2>7 DEF SaveRow, Forget, Reach, Ends, Moves, Actor
  <2>8. QED
    BY <1>2, <2>2, <2>3, <2>4, <2>5, <2>6, <2>7 DEF RunStep
<1>3. CASE UNCHANGED run
  BY <1>1, <1>3
<1>4. QED
  <2>1. (\E q \in Run : Read(q) \/ RunStep(q) \/ Crash(q)) \/ UNCHANGED run
    BY DEF Next, SweepStep, SweeperDies, ListExpired, ListOrphans, Take, Kill,
           Unreserve, Unmirror, HandBack, Defer, ReleaseLease, Runs, ClearTarget,
           ClearStep, ClearKill, ClearUnreserve, ClearRow, ClearMirror, Rest,
           LeaseLapses, Tick, Vanish, Outlive
  <2>2. QED
    BY <1>2, <1>3, <2>1

\* What the cleanup deletes the row of is gone.
LEMMA ClearedIsGone ==
  ASSUME OwedInv, SandboxInv', Next, clear'.at = "unreserve"
  PROVE  clear'.id \notin alive'
<1>1. clear.id \in made \cup {None} /\ None \notin made
  BY RunFacts, SandboxesAssumption DEF OwedInv, SandboxInv, ClearOK, WorldOK
<1>2. ClearOK
  BY DEF OwedInv, SandboxInv
<1>3. CASE ClearTarget \/ ClearStep
  <2>1. Killed(clear.id) /\ clear'.id = clear.id
    <3>1. CASE ClearKill
      BY <1>2, <3>1 DEF ClearKill, Clearing, ClearOK
    <3>2. CASE ClearTarget
      BY <3>2 DEF ClearTarget
    <3>3. CASE ClearUnreserve \/ ClearRow \/ ClearMirror
      BY <1>2, <3>3 DEF ClearUnreserve, ClearRow, ClearMirror, Clearing, ClearOK
    <3>4. QED
      BY <1>3, <3>1, <3>2, <3>3 DEF ClearStep
  <2>2. QED
    BY <2>1 DEF Killed
<1>4. CASE ~(ClearTarget \/ ClearStep)
  <2>1. clear' = clear
    BY <1>4
    DEF Next, SweepStep, SweeperDies, ListExpired, ListOrphans, Take, Kill,
        Unreserve, Unmirror, HandBack, Defer, ReleaseLease, Runs, LeaseLapses,
        Tick, Vanish, Outlive, RunStep, Read, Connect, Retire, SaveRow, Forget,
        Create, ClaimKey, UndoRow, UndoMachine, Winner, Drop, Reach, Mirror, Done,
        Crash, Others
  <2>2. clear.id \notin alive
    BY <2>1 DEF OwedInv
  <2>3. alive' \subseteq alive \cup (Machine \ made)
    <3>1. ASSUME NEW r \in Run, Create(r)
          PROVE  alive' \subseteq alive \cup (Machine \ made)
      <4>1. made # Machine => NewMachine \in Machine \ made
        BY RunFacts DEF OwedInv, NewMachine
      <4>2. QED
        BY <3>1, <4>1 DEF Create, machines
    <3>2. ASSUME NEW r \in Run, Read(r) \/ RunStep(r) \/ Crash(r), ~Create(r)
          PROVE  alive' \subseteq alive
      BY <3>2
      DEF RunStep, Read, Connect, Retire, SaveRow, Forget, ClaimKey, UndoRow,
          UndoMachine, Winner, Drop, Reach, Mirror, Done, Crash, Killed, machines
    <3>3. ASSUME NEW s \in Sweeper, SweepStep(s) \/ SweeperDies(s)
          PROVE  alive' \subseteq alive
      BY <3>3
      DEF SweepStep, SweeperDies, ListExpired, ListOrphans, Take, Kill, Unreserve,
          Unmirror, HandBack, Defer, ReleaseLease, Killed, machines
    <3>4. CASE LeaseLapses \/ Tick \/ \E m \in Machine : Vanish(m) \/ Outlive(m)
      BY <3>4 DEF LeaseLapses, Tick, Vanish, Outlive, Killed, machines
    <3>5. QED
      BY <1>4, <3>1, <3>2, <3>3, <3>4 DEF Next
  <2>4. QED
    BY <1>1, <2>1, <2>2, <2>3, SandboxesAssumption
<1>5. QED
  BY <1>3, <1>4

\* A failure and the cleanup's deletion of the row pay for one machine each.
LEMMA DebtMoves ==
  ASSUME OwedInv, SandboxInv', Next
  PROVE  /\ Debt \in Nat /\ Debt' \in Nat /\ Debt' >= Debt
         /\ Fault \/ (clear.at = "free" /\ clear'.at = "unmirror") => Debt' >= Debt + 1
<1>1. faults \in Nat /\ faults' \in Nat
  BY SandboxesAssumption DEF OwedInv, SandboxInv, WorldOK
<1>2. faults' = faults \/ faults' = faults + 1
  <2> SUFFICES Fault \/ NoFault
    BY DEF Fault, NoFault
  <2>1. ASSUME NEW r \in Run, Read(r) \/ RunStep(r) \/ Crash(r)
        PROVE  Fault \/ NoFault
    BY <2>1
    DEF RunStep, Read, Connect, Retire, SaveRow, Forget, Create, ClaimKey, UndoRow,
        UndoMachine, Winner, Drop, Reach, Mirror, Done, Crash, Caught, Upsert
  <2>2. ASSUME NEW s \in Sweeper, SweepStep(s) \/ SweeperDies(s)
        PROVE  Fault \/ NoFault
    BY <2>2
    DEF SweepStep, SweeperDies, ListExpired, ListOrphans, Take, Kill, Unreserve,
        Unmirror, HandBack, Defer, ReleaseLease, Caught, Remove
  <2>3. CASE ClearTarget \/ ClearStep
    BY <2>3
    DEF ClearTarget, ClearStep, ClearKill, ClearUnreserve, ClearRow, ClearMirror,
        Caught, Remove
  <2>4. CASE LeaseLapses \/ Tick \/ \E m \in Machine : Vanish(m) \/ Outlive(m)
    BY <2>4 DEF LeaseLapses, Tick, Vanish, Outlive
  <2>5. QED
    BY <2>1, <2>2, <2>3, <2>4 DEF Next
<1>3. clear.at \in {"unmirror", "done"} => clear'.at \in {"unmirror", "done"}
  <2>1. CASE ClearTarget \/ ClearStep
    BY <2>1
    DEF ClearTarget, ClearStep, ClearKill, ClearUnreserve, ClearRow, ClearMirror,
        Clearing, OwedInv, SandboxInv, ClearOK
  <2>2. CASE ~(ClearTarget \/ ClearStep)
    <3>1. clear' = clear
      BY <2>2
      DEF Next, SweepStep, SweeperDies, ListExpired, ListOrphans, Take, Kill,
          Unreserve, Unmirror, HandBack, Defer, ReleaseLease, Runs, LeaseLapses,
          Tick, Vanish, Outlive, RunStep, Read, Connect, Retire, SaveRow, Forget,
          Create, ClaimKey, UndoRow, UndoMachine, Winner, Drop, Reach, Mirror, Done,
          Crash, Others
    <3>2. QED
      BY <3>1
  <2>3. QED
    BY <2>1, <2>2
<1>4. PICK a \in Nat, b \in Nat, x \in {0, 1}, y \in {0, 1} :
        /\ a = faults /\ b = faults'
        /\ x = (IF clear.at \in {"unmirror", "done"} THEN 1 ELSE 0)
        /\ y = (IF clear'.at \in {"unmirror", "done"} THEN 1 ELSE 0)
  BY <1>1
<1>5. Debt = a + x /\ Debt' = b + y
  BY <1>4 DEF Debt
<1>6. b \in {a, a + 1} /\ (x = 1 => y = 1)
  BY <1>2, <1>3, <1>4
<1>7. /\ Fault => b = a + 1
      /\ clear.at = "free" /\ clear'.at = "unmirror" => x = 0 /\ y = 1
  BY <1>4 DEF Fault
<1>8. /\ a + x \in Nat /\ b + y \in Nat /\ b + y >= a + x
      /\ b = a + 1 \/ (x = 0 /\ y = 1) => b + y >= a + x + 1
  BY <1>6
<1>9. QED
  BY <1>5, <1>7, <1>8

LEMMA OwedInductive == OwedInv /\ [Next]_vars => OwedInv'
<1>1. CASE UNCHANGED vars
  <2>1. SandboxInv => SandboxInv'
    BY <1>1, Inductive
  <2>2. Owed' = Owed /\ Debt' = Debt
    BY <1>1
    DEF vars, Owed, Debt, Adopted, ClaimUndone, Names, Guarded, Entry
  <2>3. QED
    BY <1>1, <2>1, <2>2 DEF vars, OwedInv
<1>2. ASSUME OwedInv, Next PROVE OwedInv'
  <2>1. SandboxInv'
    BY <1>2, Inductive DEF OwedInv
  <2>2. PICK x : Spares(x) /\ Pays(x)
    BY <1>2, <2>1, NextAccounts DEF Accounts
  <2>3. /\ Debt \in Nat /\ Debt' \in Nat /\ Debt' >= Debt
        /\ Fault \/ (clear.at = "free" /\ clear'.at = "unmirror")
           => Debt' >= Debt + 1
    BY <1>2, <2>1, DebtMoves
  <2>4. IsFiniteSet(Owed)' /\ Cardinality(Owed)' <= Debt'
    <3>1. CASE x \in Owed
      <4>1. Spares(None)
        BY <2>2, <3>1 DEF Spares
      <4>2. None \notin Owed'
        BY <2>1, SandboxesAssumption DEF Owed, SandboxInv, WorldOK
      <4>3. QED
        BY <1>2, <2>3, <4>1, <4>2, OwedStep
    <3>2. CASE x \notin Owed
      <4>1. x \notin Owed' \/ Debt' >= Debt + 1
        BY <2>2, <2>3, <3>2 DEF Pays
      <4>2. QED
        BY <1>2, <2>2, <2>3, <4>1, OwedStep
    <3>3. QED
      BY <3>1, <3>2
  <2>5. \A r \in Run : run'[r].how = "adopted"
                       => run'[r].at \in {"mirror", "using", "done"}
    BY <1>2, AdoptedUses
  <2>6. clear'.at = "unreserve" => clear'.id \notin alive'
    BY <1>2, <2>1, ClearedIsGone
  <2>7. QED
    BY <2>1, <2>4, <2>5, <2>6 DEF OwedInv
<1>3. QED
  BY <1>1, <1>2

LEMMA InitOwesNothing == Init => OwedInv
<1> SUFFICES ASSUME Init PROVE OwedInv
  OBVIOUS
<1>1. SandboxInv
  BY InitHolds
<1>2. Owed = {}
  BY DEF Init, Owed
<1>3. IsFiniteSet(Owed) /\ Cardinality(Owed) = 0
  BY <1>2, FS_EmptySet
<1>4. Debt = 0
  BY DEF Init, Debt
<1>5. QED
  BY <1>1, <1>3, <1>4 DEF Init, OwedInv

\* Machines nobody will find are no more than the calls that failed, and one
\* for the cleanup of a deleted conversation: races, retirements, hand-backs
\* and sweeps lose none, whatever their number.
THEOREM LossesAreFailures == Spec => []LostByFailure
<1>1. OwedInv => LostByFailure
  <2> SUFFICES ASSUME OwedInv PROVE LostByFailure
    OBVIOUS
  <2>1. Lost \subseteq Owed
    BY DEF Lost, Owed, InHands, Guarded, Acquiring
  <2>2. /\ IsFiniteSet(Lost) /\ Cardinality(Lost) <= Cardinality(Owed)
        /\ Cardinality(Lost) \in Nat /\ Cardinality(Owed) \in Nat
    BY <2>1, FS_Subset, FS_CardinalityType DEF OwedInv
  <2>3. faults \in Nat
    BY SandboxesAssumption DEF OwedInv, SandboxInv, WorldOK
  <2>4. Cardinality(Owed) <= faults + (IF clear.at = "idle" THEN 0 ELSE 1)
    BY <2>2, <2>3 DEF OwedInv, Debt
  <2>5. QED
    BY <2>2, <2>3, <2>4 DEF LostByFailure
<1>2. QED
  BY <1>1, InitOwesNothing, OwedInductive, PTL DEF Spec


=============================================================================
