------------------------------ MODULE Sandboxes ------------------------------
(***************************************************************************)
(* The sandbox of one reservation key: the runs that share it, the sweepers *)
(* that reclaim it once idle, and the cleanup of a deleted conversation.    *)
(* `sandboxReservations` (packages/convex/runtime.ts) maps the key to a     *)
(* provider's machine and is written by conditional mutations;              *)
(* `sandboxInstances` mirrors the machine a run last used under the key.    *)
(* Between any two calls to Convex or to the provider, every other actor    *)
(* may act.  The executors are those of Vercel and E2B.                     *)
(***************************************************************************)
EXTENDS Integers, Sequences, FiniteSets

CONSTANTS
  Run,         \* the runs that share the key, each for one command
  Sweeper,     \* the replicas of core, each with its sweep
  Machine,     \* the machines the provider may hand out
  Provider,    \* the executors the key may belong to
  None,        \* no machine, no row, no lease
  Faults,      \* bound on failed calls, crashes and machines that vanish
  Clears       \* 1 when the conversation the key belongs to may be deleted

ASSUME SandboxesAssumption ==
  /\ Provider \subseteq {"vercel", "e2b"}
  /\ None \notin Machine \cup Sweeper \cup [id : Machine, expired : BOOLEAN]
  /\ Faults \in Nat /\ Clears \in 0 .. 1

VARIABLES
  provider,     \* whose machines the key reserves
  alive,        \* machines that run
  made,         \* machines handed out so far
  old,          \* machines past lifecycle.maxLifetimeSeconds
  reservation,  \* the sandboxReservations row: its machine, and its deadline
  mirror,       \* the sandboxInstances row: its machine, and its last use
  lease,        \* the claim on SWEEP_LEASE_KEY
  run,          \* per run: where it is, and the machines it saw and holds
  sweep,        \* per sweeper: where it is, and what it has left to reclaim
  clear,        \* releaseReservedSandboxes for a deleted conversation
  faults        \* failures so far

vars == <<provider, alive, made, old, reservation, mirror, lease, run, sweep,
          clear, faults>>
rows == <<reservation, mirror>>
machines == <<provider, alive, made, old>>

-----------------------------------------------------------------------------
(* Types.  Time is only whether a row is past its deadline: a tick is a good *)
(* part of the week a reservation lives, no command lasts as long.           *)

Rows == [id : Machine, expired : BOOLEAN] \cup {None}

\* Mid-acquire; `using` is the command itself, `done` its end or a throw.
Acquiring == {"connect", "retire", "save", "forget", "create", "claim",
              "mirror", "lost", "drop", "reach", "undo"}

Actor ==
  [at : Acquiring \cup {"idle", "using", "done"},
   saw : Machine \cup {None}, holds : Machine \cup {None},
   how : {"none", "saved", "missed", "joined", "adopted", "undone"},
   todo : SUBSET {"row", "machine"}]

TypeOK ==
  /\ provider \in Provider
  /\ alive \subseteq made /\ made \subseteq Machine /\ old \subseteq made
  /\ reservation \in Rows /\ mirror \in Rows
  /\ lease \in Sweeper \cup {None}
  /\ run \in [Run -> Actor]
  /\ \A r \in Run : /\ run[r].at = "reach" => run[r].saw # None
                    /\ run[r].at \in {"mirror", "using"} => run[r].holds # None
  /\ sweep \in [Sweeper ->
       [at : {"idle", "listed", "take", "kill", "unreserve", "unmirror",
              "handback", "defer", "release"},
        queue : Seq(Machine), leased : BOOLEAN, freed : BOOLEAN]]
  /\ clear \in [at : {"idle", "kill", "unreserve", "free", "unmirror", "done"},
                id : Machine \cup {None}]
  /\ faults \in 0 .. Faults

Init ==
  /\ provider \in Provider
  /\ alive = {} /\ made = {} /\ old = {}
  /\ reservation = None /\ mirror = None /\ lease = None
  /\ run = [r \in Run |-> [at |-> "idle", saw |-> None, holds |-> None,
                           how |-> "none", todo |-> {}]]
  /\ sweep = [s \in Sweeper |-> [at |-> "idle", queue |-> << >>,
                                 leased |-> FALSE, freed |-> FALSE]]
  /\ clear = [at |-> "idle", id |-> None]
  /\ faults = 0

Fault == faults < Faults /\ faults' = faults + 1
NoFault == UNCHANGED faults

-----------------------------------------------------------------------------
(* The mutations.                                                            *)

Fresh(m) == [id |-> m, expired |-> FALSE]
Names(row, m) == row # None /\ row.id = m

\* claimSandboxReservation: only a key no row maps.
Claim(m) == reservation' = IF reservation = None THEN Fresh(m) ELSE reservation

\* saveSandboxReservation: only a row that still names the machine.
Save(m) ==
  reservation' = IF Names(reservation, m) THEN Fresh(m) ELSE reservation

\* Mutant: the row is deleted whatever machine it names.
DeleteAny(m) == reservation' = None

\* deleteSandboxReservation with the expected id.
Delete(m) ==
  reservation' = IF Names(reservation, m) THEN None ELSE reservation

\* Mutant: a run's refresh after the listing is overlooked.
TakesNamed(m) == reservation = None \/ Names(reservation, m)

\* deleteSandboxReservation with onlyExpired: a key without a row is nobody's.
Takes(m) ==
  reservation = None \/ (Names(reservation, m) /\ reservation.expired)

\* A caught call: done, or failed with its commit or without.
Caught(done) ==
  \/ done /\ (NoFault \/ Fault)
  \/ Fault /\ UNCHANGED reservation

\* The mirror's writes log what fails.
Upsert(m) ==
  \/ NoFault /\ mirror' = Fresh(m)
  \/ Fault /\ UNCHANGED mirror

Remove(gone) ==
  \/ NoFault /\ mirror' = IF gone THEN None ELSE mirror
  \/ Fault /\ UNCHANGED mirror

Killed(m) == alive' = alive \ {m} /\ UNCHANGED <<provider, made, old>>

-----------------------------------------------------------------------------
(* A run acquires the key's machine and runs its command there.              *)

Moves(r, at) == run' = [run EXCEPT ![r].at = at]
Ends(r) == Moves(r, "done")
Others == UNCHANGED <<lease, sweep, clear>>

\* getSandboxReservation: what it saw, it acts on later.
Read(r) ==
  /\ run[r].at = "idle"
  /\ run' = [run EXCEPT ![r].saw =
                 IF reservation = None THEN None ELSE reservation.id,
               ![r].at = IF reservation = None THEN "create" ELSE "connect"]
  /\ NoFault /\ Others /\ UNCHANGED <<machines, rows>>

Outlived(m) == provider = "vercel" /\ m \in old

\* Sandbox.connect: only a machine that is really gone is replaced.
Connect(r) ==
  /\ run[r].at = "connect"
  /\ LET m == run[r].saw IN
     \/ m \notin alive /\ Moves(r, "forget") /\ NoFault
     \/ m \in alive /\ Outlived(m) /\ Moves(r, "retire") /\ NoFault
     \/ /\ m \in alive /\ ~Outlived(m) /\ NoFault
        /\ run' = [run EXCEPT ![r].at = "save", ![r].holds = m]
     \/ Ends(r) /\ Fault
  /\ Others /\ UNCHANGED <<machines, rows>>

\* A machine past its lifetime is deleted at acquire.
Retire(r) ==
  /\ run[r].at = "retire"
  /\ \/ Killed(run[r].saw) /\ Moves(r, "forget") /\ NoFault
     \/ Ends(r) /\ Fault /\ (Killed(run[r].saw) \/ UNCHANGED machines)
  /\ Others /\ UNCHANGED rows

\* The refresh misses a row that was taken since the read.
SaveRow(r) ==
  /\ run[r].at = "save"
  /\ \/ Save(run[r].holds) /\ NoFault
     \/ Fault /\ UNCHANGED reservation
  /\ run' = [run EXCEPT ![r].at = "mirror",
               ![r].how = IF Names(reservation, run[r].holds) /\ NoFault
                          THEN "saved" ELSE "missed"]
  /\ Others /\ UNCHANGED <<machines, mirror>>

Forget(r) ==
  /\ run[r].at = "forget"
  /\ Caught(Delete(run[r].saw))
  /\ Moves(r, "create")
  /\ Others /\ UNCHANGED <<machines, mirror>>

\* Every id is fresh: which one comes next does not matter.
NewMachine == CHOOSE m \in Machine : m \notin made

Create(r) ==
  /\ run[r].at = "create"
  /\ \/ /\ made # Machine
        /\ LET m == NewMachine IN
          /\ alive' = alive \cup {m} /\ made' = made \cup {m}
          /\ run' = [run EXCEPT ![r].at = "claim", ![r].holds = m]
          /\ NoFault /\ UNCHANGED <<provider, old>>
     \/ Ends(r) /\ (Fault \/ (Machine = made /\ NoFault)) /\ UNCHANGED machines
  /\ Others /\ UNCHANGED rows

\* The key is claimed, somebody else's, or the claim threw.
ClaimKey(r) ==
  /\ run[r].at = "claim"
  /\ \/ /\ reservation = None /\ NoFault /\ Claim(run[r].holds)
        /\ run' = [run EXCEPT ![r].at = "mirror", ![r].how = "saved"]
     \/ reservation # None /\ NoFault /\ Moves(r, "lost") /\ UNCHANGED reservation
     \/ /\ Fault /\ (Claim(run[r].holds) \/ UNCHANGED reservation)
        /\ run' = [run EXCEPT ![r].at = "undo", ![r].how = "undone",
                              ![r].todo = {"row", "machine"}]
  /\ Others /\ UNCHANGED <<machines, mirror>>

Undone(r, part) ==
  run' = [run EXCEPT ![r].todo = @ \ {part},
                     ![r].at = IF @ = "undo" /\ run[r].todo = {part}
                               THEN "done" ELSE @]

\* Both sides of a claim that threw: E2B at once, Vercel the row first.
UndoRow(r) ==
  /\ run[r].at = "undo" /\ "row" \in run[r].todo
  /\ Caught(Delete(run[r].holds))
  /\ Undone(r, "row")
  /\ Others /\ UNCHANGED <<machines, mirror>>

UndoMachine(r) ==
  /\ run[r].at = "undo" /\ "machine" \in run[r].todo
  /\ provider = "vercel" => "row" \notin run[r].todo
  /\ \/ Killed(run[r].holds) /\ NoFault
     \/ Fault /\ UNCHANGED machines
  /\ Undone(r, "machine")
  /\ Others /\ UNCHANGED rows

\* Mutant: the loser goes for the winner without looking whether there is one.
NoWinner(r) == "reach"

\* Without a winner E2B gives up its machine, and Vercel keeps it unreserved,
\* for the sweeper's orphan adoption.
WithoutWinner(r) == IF provider = "vercel" THEN "mirror" ELSE "drop"

Winner(r) ==
  /\ run[r].at = "lost"
  /\ IF reservation # None
     THEN run' = [run EXCEPT ![r].at = "drop", ![r].saw = reservation.id]
     ELSE run' = [run EXCEPT ![r].at = WithoutWinner(r), ![r].saw = None,
                    ![r].how = IF provider = "vercel" THEN "adopted" ELSE @]
  /\ NoFault /\ Others /\ UNCHANGED <<machines, rows>>

\* Mutant: the loser goes on with the winner and leaves its own machine.
DropNothing(r) ==
  /\ run[r].at = "drop"
  /\ run' = [run EXCEPT ![r].holds = None,
               ![r].at = IF run[r].saw = None THEN "done" ELSE "reach"]
  /\ NoFault /\ Others /\ UNCHANGED <<machines, rows>>

\* The loser disposes of its own machine.
Drop(r) ==
  /\ run[r].at = "drop"
  /\ \/ Killed(run[r].holds) /\ NoFault
     \/ Fault /\ UNCHANGED machines
  /\ run' = [run EXCEPT ![r].holds = None,
               ![r].at = IF run[r].saw = None THEN "done" ELSE "reach"]
  /\ Others /\ UNCHANGED rows

Reach(r) ==
  /\ run[r].at = "reach"
  /\ \/ /\ run[r].saw \in alive /\ NoFault
        /\ run' = [run EXCEPT ![r].at = "using", ![r].holds = run[r].saw,
                              ![r].how = "joined"]
     \/ Ends(r) /\ (Fault \/ (run[r].saw \notin alive /\ NoFault))
  /\ Others /\ UNCHANGED <<machines, rows>>

Mirror(r) ==
  /\ run[r].at = "mirror"
  /\ Upsert(run[r].holds)
  /\ Moves(r, "using")
  /\ Others /\ UNCHANGED <<machines, reservation>>

Done(r) ==
  /\ run[r].at = "using"
  /\ Ends(r)
  /\ NoFault /\ Others /\ UNCHANGED <<machines, rows>>

\* The process dies wherever the run is.
Crash(r) ==
  /\ run[r].at \in Acquiring \cup {"using"}
  /\ Ends(r)
  /\ Fault /\ Others /\ UNCHANGED <<machines, rows>>

-----------------------------------------------------------------------------
(* A sweep of one replica: list, claim the account's lease, reclaim entry by  *)
(* entry, defer what is left, give the lease back.                           *)

Going(s, at) == sweep' = [sweep EXCEPT ![s].at = at]
Idle == [at |-> "idle", queue |-> << >>, leased |-> FALSE, freed |-> FALSE]
Entry(s) == Head(sweep[s].queue)
Runs == UNCHANGED <<run, clear>>

Overdue == reservation # None /\ reservation.expired

\* Mutant: mirror rows that no reservation names are not looked for.
OrphanedNever == FALSE

\* listOrphanedSandboxInstances
Orphaned == mirror # None /\ mirror.expired /\ reservation = None

\* listExpiredSandboxReservations, when a list would find anything.
ListExpired(s) ==
  /\ sweep[s].at = "idle" /\ (Overdue \/ Orphaned)
  /\ sweep' = [sweep EXCEPT ![s].at = "listed", ![s].queue =
       IF Overdue THEN <<reservation.id>> ELSE << >>]
  /\ NoFault /\ Runs /\ UNCHANGED <<machines, rows, lease>>

\* The rest of the list, and with anything on it the account's lease.
ListOrphans(s) ==
  /\ sweep[s].at = "listed"
  /\ LET queue == sweep[s].queue \o IF Orphaned THEN <<mirror.id>> ELSE << >>
     IN  \/ /\ queue = << >> /\ sweep' = [sweep EXCEPT ![s] = Idle]
            /\ NoFault /\ UNCHANGED lease
         \/ /\ queue # << >> /\ lease = None /\ lease' = s /\ NoFault
            /\ sweep' = [sweep EXCEPT ![s] = [@ EXCEPT
                 !.at = "take", !.queue = queue, !.leased = TRUE]]
         \/ /\ queue # << >> /\ lease # None
            /\ sweep' = [sweep EXCEPT ![s] = Idle]
            /\ NoFault /\ UNCHANGED lease
         \/ /\ queue # << >> /\ Fault
            /\ sweep' = [sweep EXCEPT ![s] = [@ EXCEPT
                 !.at = "defer", !.queue = queue]]
            /\ UNCHANGED lease \/ (lease = None /\ lease' = s)
  /\ Runs /\ UNCHANGED <<machines, rows>>

\* On to the next entry; once the key was released nothing of it is deferred.
NextEntry(s, freed) ==
  LET rest == Tail(sweep[s].queue)
      all  == freed \/ sweep[s].freed
  IN  sweep' = [sweep EXCEPT ![s].queue = rest, ![s].freed = all,
                  ![s].at = IF rest # << >> THEN "take"
                            ELSE IF all THEN "release" ELSE "defer"]

\* The row is taken before the teardown; a take that threw counts as refused.
Take(s) ==
  /\ sweep[s].at = "take"
  /\ \/ /\ Takes(Entry(s)) /\ NoFault
        /\ reservation' = None /\ Going(s, "kill")
     \/ ~Takes(Entry(s)) /\ NoFault /\ NextEntry(s, FALSE) /\ UNCHANGED reservation
     \/ /\ Fault /\ NextEntry(s, FALSE)
        /\ \/ UNCHANGED reservation
           \/ Takes(Entry(s)) /\ reservation' = None
  /\ Runs /\ UNCHANGED <<machines, mirror, lease>>

\* releaseOnProvider
Kill(s) ==
  /\ sweep[s].at = "kill"
  /\ \/ Killed(Entry(s)) /\ Going(s, "unreserve") /\ NoFault
     \/ /\ Going(s, "handback") /\ Fault
        /\ Killed(Entry(s)) \/ UNCHANGED machines
  /\ Runs /\ UNCHANGED <<rows, lease>>

\* executor.release ends with a conditional delete of the row.
Unreserve(s) ==
  /\ sweep[s].at = "unreserve"
  /\ Caught(Delete(Entry(s)))
  /\ Going(s, "unmirror")
  /\ Runs /\ UNCHANGED <<machines, mirror, lease>>

Unmirror(s) ==
  /\ sweep[s].at = "unmirror"
  /\ Remove(Names(mirror, Entry(s)))
  /\ NextEntry(s, TRUE)
  /\ Runs /\ UNCHANGED <<machines, reservation, lease>>

\* A failed teardown hands the row back.
HandBack(s) ==
  /\ sweep[s].at = "handback"
  /\ Caught(Claim(Entry(s)))
  /\ NextEntry(s, FALSE)
  /\ Runs /\ UNCHANGED <<machines, mirror, lease>>

\* deferSandboxReservations: whatever machine the row names by now.
Defer(s) ==
  /\ sweep[s].at = "defer"
  /\ Caught(reservation' =
       IF reservation = None THEN None ELSE Fresh(reservation.id))
  /\ sweep' = [sweep EXCEPT ![s] =
       IF sweep[s].leased THEN [@ EXCEPT !.at = "release"] ELSE Idle]
  /\ Runs /\ UNCHANGED <<machines, mirror, lease>>

\* releaseClaim deletes the claim, whoever took it last.
ReleaseLease(s) ==
  /\ sweep[s].at = "release"
  /\ \/ NoFault /\ lease' = None
     \/ Fault /\ UNCHANGED lease
  /\ sweep' = [sweep EXCEPT ![s] = Idle]
  /\ Runs /\ UNCHANGED <<machines, rows>>

SweeperDies(s) ==
  /\ sweep[s].at # "idle" /\ Fault
  /\ sweep' = [sweep EXCEPT ![s] = Idle]
  /\ Runs /\ UNCHANGED <<machines, rows, lease>>

\* A sweep outlasts SWEEP_LEASE_SECONDS only by a fault.
LeaseLapses ==
  /\ lease # None /\ lease' = None
  /\ IF sweep[lease].leased THEN Fault ELSE NoFault
  /\ Runs /\ UNCHANGED <<machines, rows, sweep>>

-----------------------------------------------------------------------------
(* releaseReservedSandboxes, once the conversation of the key is deleted.     *)

Clearing(at) == clear' = [clear EXCEPT !.at = at]
Rest == UNCHANGED <<run, sweep, lease>>

\* getSandboxReleaseTarget: the row's machine, else the mirror's.
ClearTarget ==
  /\ clear.at = "idle" /\ Clears = 1
  /\ LET id == IF reservation # None THEN reservation.id
               ELSE IF mirror # None THEN mirror.id ELSE None
     IN  \/ /\ NoFault
            /\ clear' = [at |-> IF id = None THEN "free" ELSE "kill", id |-> id]
         \/ Fault /\ clear' = [at |-> "free", id |-> None]
  /\ Rest /\ UNCHANGED <<machines, rows>>

ClearKill ==
  /\ clear.at = "kill"
  /\ \/ Killed(clear.id) /\ Clearing("unreserve") /\ NoFault
     \/ /\ Clearing("free") /\ Fault
        /\ Killed(clear.id) \/ UNCHANGED machines
  /\ Rest /\ UNCHANGED rows

ClearUnreserve ==
  /\ clear.at = "unreserve"
  /\ Caught(Delete(clear.id)) /\ Clearing("free")
  /\ Rest /\ UNCHANGED <<machines, mirror>>

\* The row and the mirror go whatever machine they name by now.
ClearRow ==
  /\ clear.at = "free"
  /\ Caught(reservation' = None) /\ Clearing("unmirror")
  /\ Rest /\ UNCHANGED <<machines, mirror>>

ClearMirror ==
  /\ clear.at = "unmirror"
  /\ Remove(TRUE) /\ Clearing("done")
  /\ Rest /\ UNCHANGED <<machines, reservation>>

-----------------------------------------------------------------------------
(* The provider and the clock.                                               *)

\* A machine dies on its own: its provider's cap, an eviction.
Vanish(m) ==
  /\ m \in alive /\ Killed(m)
  /\ Fault /\ Rest /\ UNCHANGED <<rows, clear>>

\* A lifetime is longer than any acquire.
Outlive(m) ==
  /\ m \in alive \ old /\ \A r \in Run : run[r].at \notin Acquiring
  /\ old' = old \cup {m}
  /\ NoFault /\ Rest /\ UNCHANGED <<provider, alive, made, rows, clear>>

Expired(row) == IF row = None THEN None ELSE [row EXCEPT !.expired = TRUE]

\* The rows pass their deadlines: runs and sweeps take minutes, a row a week.
Tick ==
  /\ \A r \in Run : run[r].at \in {"idle", "done"}
  /\ \A s \in Sweeper : sweep[s].at = "idle"
  /\ reservation' = Expired(reservation) /\ mirror' = Expired(mirror)
  /\ rows' # rows
  /\ NoFault /\ Rest /\ UNCHANGED <<machines, clear>>

-----------------------------------------------------------------------------

RunStep(r) ==
  \/ Connect(r) \/ Retire(r) \/ SaveRow(r) \/ Forget(r) \/ Create(r)
  \/ ClaimKey(r) \/ UndoRow(r) \/ UndoMachine(r) \/ Winner(r) \/ Drop(r)
  \/ Reach(r) \/ Mirror(r) \/ Done(r)

SweepStep(s) ==
  \/ ListExpired(s) \/ ListOrphans(s) \/ Take(s) \/ Kill(s) \/ Unreserve(s)
  \/ Unmirror(s) \/ HandBack(s) \/ Defer(s) \/ ReleaseLease(s)

ClearStep == ClearKill \/ ClearUnreserve \/ ClearRow \/ ClearMirror

Next ==
  \/ \E r \in Run : Read(r) \/ RunStep(r) \/ Crash(r)
  \/ \E s \in Sweeper : SweepStep(s) \/ SweeperDies(s)
  \/ ClearTarget \/ ClearStep
  \/ LeaseLapses \/ Tick \/ \E m \in Machine : Vanish(m) \/ Outlive(m)

Spec == Init /\ [][Next]_vars

\* Runs that started end, the sweep comes back every hour, leases lapse.
\* Nobody need run a command or delete the conversation.
FairSpec ==
  /\ Spec
  /\ \A r \in Run : WF_vars(RunStep(r))
  /\ \A s \in Sweeper : WF_vars(SweepStep(s))
  /\ WF_vars(ClearStep) /\ WF_vars(LeaseLapses) /\ WF_vars(Tick)

-----------------------------------------------------------------------------
(* Properties.                                                               *)

InHands(m) ==
  \/ \E r \in Run : run[r].holds = m /\ run[r].at \in Acquiring \cup {"using"}
  \/ \E s \in Sweeper : sweep[s].at \in {"kill", "handback"} /\ Entry(s) = m

Adopted == {run[r].holds : r \in {q \in Run : run[q].how = "adopted"}}

\* Machines that run, and that no row and nobody at work will ever dispose of.
Lost ==
  {m \in alive \ Adopted :
     ~Names(reservation, m) /\ ~Names(mirror, m) /\ ~InHands(m)}

\* A machine is left running, found by nobody, only by a failed call or a
\* crash, one each, or by the cleanup of a deleted conversation: the losers of
\* a create race, retirements and sweeps leave none.
LostByFailure ==
  Cardinality(Lost) <= faults + (IF clear.at = "idle" THEN 0 ELSE 1)

Settled(r) == run[r].at = "using" /\ run[r].how = "saved"

ClaimUndone(m) == \E r \in Run : run[r].how = "undone" /\ run[r].holds = m

\* A run whose claim or refresh went through keeps its reservation while it
\* runs, so that all who come find that machine: no stale caller, losing run
\* or sweep takes it away.
UsedIsReserved ==
  \A r \in Run :
    Settled(r) /\ run[r].holds \in alive /\ clear.at = "idle"
      => Names(reservation, run[r].holds) \/ ClaimUndone(run[r].holds)

\* A run that reconnected and refreshed the deadline keeps its machine: no
\* sweep takes it, whatever list it works from.  (releaseExpiredSandboxes)
SweepSparesRefreshed ==
  [][\A s \in Sweeper, r \in Run :
       sweep[s].at = "take" /\ sweep'[s].at = "kill" /\ clear.at = "idle"
         => ~(Settled(r) /\ run[r].holds = Entry(s) /\ Entry(s) \in alive)]_vars

\* Once the runs stop, the sweep empties both tables, whatever calls failed:
\* no row is deferred, handed back or overlooked forever.
RowsGoAway == <>[](reservation = None /\ mirror = None)

=============================================================================
