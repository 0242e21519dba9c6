------------------------------ MODULE StageSync ------------------------------
(***************************************************************************)
(* The manifest syncs of an account's stages (cli/httpRoutes.ts,            *)
(* handleManifestSync): a PUT is an action of many mutations, each a        *)
(* transaction of its own.  It claims the stage's revision, writes the       *)
(* account's hooks and the stage's MCP servers, records which rows the stage *)
(* manages, writes the agents that refer to them, and with prune removes     *)
(* what the manifest no longer declares.                                     *)
(*                                                                         *)
(* The sessions are `deploy`, one PUT without a revision, and `dev`, which    *)
(* reads the stage, writes it at the revision it read, asks about what is no  *)
(* longer declared, and once that is confirmed writes it again with prune.    *)
(***************************************************************************)
EXTENDS Integers, Sequences, FiniteSetsExt

CONSTANTS
  Stages,      \* stages of one account
  Agents,      \* names of agents
  Hooks,       \* names of hooks, whose rows the stages of an account share
  Servers,     \* names of MCP servers, whose rows are a stage's own
  Sessions,    \* command lines at work
  Manifests,   \* what the source of a stage may declare
  MaxClaims,   \* bound: PUTs admitted
  MaxFaults    \* bound: syncs that fail or die

External == Hooks \cup Servers
Resource == Agents \cup External

ASSUME StageSyncAssumption ==
  /\ Stages # {}
  /\ Manifests \in [Stages -> SUBSET SUBSET Resource]
  /\ Agents \cap External = {} /\ Hooks \cap Servers = {}
  /\ MaxClaims \in Nat /\ MaxFaults \in Nat

VARIABLES
  rows,     \* accountHooks and mcp; a row's id is its place
  records,  \* cliExternalResources: the row a stage manages under a name
  agents,   \* agentConfigs of a stage, each with the rows it refers to
  claim,    \* stageSyncs
  sync,     \* what each session is doing
  declined, \* the file of deletes that were declined in a dev session
  faults    \* syncs that failed or died

store == <<rows, records, agents>>
vars == <<store, claim, sync, declined, faults>>

NoRow == 0
NoRevision == -1
Nothing == [n \in External |-> NoRow]

\* Where a PUT is: what the manifest declares is recorded from "manifest" on.
Recorded == {"manifest", "own", "remove", "done"}
Writing == {"fence", "list", "external"} \cup Recorded
Running == Writing \cup {"failed"}

Idle ==
  [pc |-> "idle", stage |-> CHOOSE s \in Stages : TRUE, manifest |-> {},
   prune |-> FALSE, revision |-> NoRevision, ids |-> Nothing, seen |-> Nothing,
   owned |-> {}, dev |-> FALSE, deletes |-> {}, torn |-> FALSE]

Sync ==
  [pc : Running \cup {"idle", "put", "ask"}, stage : Stages,
   manifest : SUBSET Resource, prune : BOOLEAN, revision : Nat \cup {NoRevision},
   ids : [External -> Nat], seen : [External -> Nat], owned : SUBSET Nat,
   dev : BOOLEAN, deletes : SUBSET Resource, torn : BOOLEAN]

TypeOK ==
  /\ rows \in Seq([name : External, of : SUBSET Stages, active : BOOLEAN])
  /\ records \in [Stages -> [External -> 0 .. Len(rows)]]
  /\ agents = [s \in Stages |-> agents[s]]
  /\ \A s \in Stages :
       /\ DOMAIN agents[s] \subseteq Agents
       /\ agents[s] \in [DOMAIN agents[s] -> SUBSET (1 .. Len(rows))]
  /\ claim \in [Stages -> [revision : Nat, held : BOOLEAN]]
  /\ sync \in [Sessions -> Sync]
  /\ \A p \in Sessions :
       /\ \A n \in External : {sync[p].ids[n], sync[p].seen[n]} \subseteq 0 .. Len(rows)
       /\ sync[p].owned \subseteq 1 .. Len(rows)
       /\ sync[p].pc \in Recorded => \A n \in sync[p].manifest \cap External :
                                     sync[p].ids[n] # NoRow
  /\ declined \in [Sessions -> SUBSET Resource]
  /\ faults \in 0 .. MaxFaults

-----------------------------------------------------------------------------
(* What the queries read.                                                    *)

\* resourcesForStage: the names a stage lists.
Listed(s) == DOMAIN agents[s] \cup {n \in External : records[s][n] # NoRow}

\* Somebody writes the stage.
Busy(s) == \E p \in Sessions : sync[p].pc \in Running /\ sync[p].stage = s

\* hooks.list, mcp.listForStage: of two active rows of a name the later counts.
ActiveRow(s, n) ==
  LET found == {i \in DOMAIN rows :
                  rows[i].active /\ rows[i].name = n /\ s \in rows[i].of}
  IN  IF found = {} THEN NoRow ELSE Max(found)

\* externalOwnership: account-wide names another stage records.
Foreign(s) ==
  {n \in Hooks : \E other \in Stages \ {s} : records[other][n] # NoRow}

\* externalOwnership: names of the stage that are its own to remove.
Owned(s) == {n \in External : records[s][n] # NoRow} \ Foreign(s)

-----------------------------------------------------------------------------
(* The claim: claimManifestRevision, releaseManifestSync.                    *)

Claims == MapThenSumSet(LAMBDA s : claim[s].revision, Stages)

\* Mutant: a sync that still runs is not waited for.
AdmitsOverlap(s, expected) == expected \in {NoRevision, claim[s].revision}

\* Mutant: the revision that was read is not compared.
AdmitsAnyRevision(s, expected) == ~claim[s].held

Admits(s, expected) ==
  ~claim[s].held /\ expected \in {NoRevision, claim[s].revision}

\* The PUT's first write, and where it goes on from there.
Claim(p, y) ==
  /\ Claims < MaxClaims
  /\ claim' = [claim EXCEPT ![y.stage] =
                 [revision |-> @.revision + 1, held |-> TRUE]]
  /\ sync' = [sync EXCEPT ![p] =
                [y EXCEPT !.revision = claim[y.stage].revision + 1]]
  /\ UNCHANGED <<store, declined, faults>>

\* Hooks are listed only for a manifest that declares one.
Start(m) == IF m \cap Hooks = {} THEN "external" ELSE "list"

-----------------------------------------------------------------------------
(* The sessions.                                                             *)

\* broods deploy: one PUT, of any key.  A key of one stage is fenced.
Deploy(p, s, m, prune, fenced) ==
  /\ sync[p].pc = "idle"
  /\ Admits(s, NoRevision)
  /\ Claim(p, [Idle EXCEPT !.stage = s, !.manifest = m, !.prune = prune,
                 !.pc = IF fenced /\ m \cap Hooks # {} THEN "fence" ELSE Start(m)])

\* syncDevOnce: the manifest GET.
Get(p, s, m) ==
  /\ sync[p].pc = "idle"
  /\ sync' = [sync EXCEPT ![p] =
                [Idle EXCEPT !.pc = "put", !.dev = TRUE, !.stage = s,
                   !.manifest = m, !.revision = claim[s].revision,
                   !.deletes = Listed(s) \ m, !.torn = Busy(s)]]
  /\ UNCHANGED <<store, claim, declined, faults>>

\* putManifest at the revision that was read, or that the first PUT answered.
Put(p) ==
  LET y == sync[p] IN
  /\ y.pc = "put"
  /\ Admits(y.stage, y.revision)
  /\ Claim(p, [y EXCEPT !.pc = Start(y.manifest)])

\* 409: the session reads the stage again, or gives up.
Conflict(p) ==
  LET y == sync[p] IN
  /\ y.pc = "put"
  /\ ~Admits(y.stage, y.revision)
  /\ sync' = [sync EXCEPT ![p] = Idle]
  /\ UNCHANGED <<store, claim, declined, faults>>

\* What the prompt shows: the deletes nobody declined before.
Undecided(p) == sync[p].deletes \ declined[p]

\* promptConfirm: the second PUT prunes.
Confirm(p) ==
  /\ sync[p].pc = "ask"
  /\ sync' = [sync EXCEPT ![p].pc = "put", ![p].prune = TRUE]
  /\ UNCHANGED <<store, claim, declined, faults>>

\* rememberDeclinedDeletes.
Decline(p) ==
  /\ sync[p].pc = "ask"
  /\ declined' = [declined EXCEPT ![p] = @ \cup Undecided(p)]
  /\ sync' = [sync EXCEPT ![p] = Idle]
  /\ UNCHANGED <<store, claim, faults>>

-----------------------------------------------------------------------------
(* handleManifestSync, one action for each query or mutation.                *)

\* Every later step is a step of session p, at pc, to pc next.
Step(p, pc, y) == sync[p].pc = pc /\ sync' = [sync EXCEPT ![p] = y]

\* prepareExternalResources: a fenced key leaves other stages' names alone.
Fence(p) ==
  LET y == sync[p] IN
  /\ Step(p, "fence", [y EXCEPT !.pc =
       IF y.manifest \cap Foreign(y.stage) = {} THEN "list" ELSE "failed"])
  /\ UNCHANGED <<store, claim, declined, faults>>

\* syncHookResources: the list its names are looked up in.
ListHooks(p) ==
  LET y == sync[p] IN
  /\ Step(p, "list", [y EXCEPT !.pc = "external",
       !.seen = [n \in External |->
                   IF n \in y.manifest \cap Hooks THEN ActiveRow(y.stage, n)
                   ELSE NoRow]])
  /\ UNCHANGED <<store, claim, declined, faults>>

\* Mutant: the servers are not waited for.
UnwrittenHooks(y, kind) == {n \in y.manifest \cap kind \cap Hooks : y.ids[n] = NoRow}

Unwritten(y, kind) == {n \in y.manifest \cap kind : y.ids[n] = NoRow}

\* The row is written anew.
Create(p, n) ==
  LET y == sync[p] IN
  /\ rows' = Append(rows, [name |-> n, active |-> TRUE,
                           of |-> IF n \in Hooks THEN Stages ELSE {y.stage}])
  /\ Step(p, "external", [y EXCEPT !.ids[n] = Len(rows) + 1])

\* The row that was found is written; a hook's may be gone by then.
Update(p, n, i) ==
  LET y == sync[p] IN
  /\ Step(p, "external",
       IF rows[i].active THEN [y EXCEPT !.ids[n] = i, !.seen[n] = NoRow]
       ELSE [y EXCEPT !.pc = "failed"])
  /\ UNCHANGED rows

\* syncHookResources.
SyncHook(p, n) ==
  LET i == sync[p].seen[n] IN
  /\ n \in Unwritten(sync[p], Hooks)
  /\ IF i = NoRow THEN Create(p, n) ELSE Update(p, n, i)
  /\ UNCHANGED <<records, agents, claim, declined, faults>>

\* syncMcpResources: nobody else writes the servers of a claimed stage.
SyncServer(p, n) ==
  LET i == ActiveRow(sync[p].stage, n) IN
  /\ Unwritten(sync[p], Hooks) = {}
  /\ n \in Unwritten(sync[p], Servers)
  /\ IF i = NoRow THEN Create(p, n) ELSE Update(p, n, i)
  /\ UNCHANGED <<records, agents, claim, declined, faults>>

\* recordExternalResourcesBySecretHash.
RecordsAfter(y, prune) ==
  [records EXCEPT ![y.stage] =
     [n \in External |-> IF n \in y.manifest THEN y.ids[n]
                         ELSE IF prune THEN NoRow ELSE @[n]]]

RecordExternal(p) ==
  LET y == sync[p] IN
  /\ Unwritten(y, External) = {}
  /\ Step(p, "external", [y EXCEPT !.pc = "manifest"])
  /\ records' = RecordsAfter(y, FALSE)
  /\ UNCHANGED <<rows, agents, claim, declined, faults>>

\* Mutant: the agents that are not declared are left for the end.
AgentsKept(y) ==
  [a \in (y.manifest \cap Agents) \cup DOMAIN agents[y.stage] |->
     IF a \in y.manifest THEN {y.ids[n] : n \in y.manifest \cap External}
     ELSE agents[y.stage][a]]

\* syncAgentResources, pruneAgents.
SyncedAgents(y) ==
  LET kept == IF y.prune THEN {} ELSE DOMAIN agents[y.stage]
  IN  [a \in (y.manifest \cap Agents) \cup kept |->
         IF a \in y.manifest THEN {y.ids[n] : n \in y.manifest \cap External}
         ELSE agents[y.stage][a]]

\* syncManifestBySecretHash, one transaction.
SyncManifest(p) ==
  LET y == sync[p] IN
  /\ Step(p, "manifest", [y EXCEPT !.pc = IF y.prune THEN "own" ELSE "done"])
  /\ agents' = [agents EXCEPT ![y.stage] = SyncedAgents(y)]
  /\ UNCHANGED <<rows, records, claim, declined, faults>>

\* The prune re-reads what the stage owns.
ReadOwnership(p) ==
  LET y == sync[p] IN
  /\ Step(p, "own", [y EXCEPT !.pc = "remove",
       !.owned = {records[y.stage][n] : n \in Owned(y.stage) \ y.manifest}])
  /\ UNCHANGED <<store, claim, declined, faults>>

\* pruneExternalResources: by recorded id, hooks first.
RemoveExternal(p, i) ==
  LET y == sync[p] IN
  /\ i \in y.owned
  /\ rows[i].name \in Servers => \A j \in y.owned : rows[j].name \in Servers
  /\ Step(p, "remove", [y EXCEPT !.owned = @ \ {i}])
  /\ rows' = [rows EXCEPT ![i].active = FALSE]
  /\ UNCHANGED <<records, agents, claim, declined, faults>>

\* recordExternalResourcesBySecretHash with prune.
DropRecords(p) ==
  LET y == sync[p] IN
  /\ y.owned = {}
  /\ Step(p, "remove", [y EXCEPT !.pc = "done"])
  /\ records' = RecordsAfter(y, TRUE)
  /\ UNCHANGED <<rows, agents, claim, declined, faults>>

\* releaseManifestSync: the claim of another revision is left alone.
HeldAfter(y) == claim[y.stage].held /\ claim[y.stage].revision # y.revision

\* finishManifestSync, in `finally`.  dev then asks about what it did not ask
\* about before, and forgets what was declined with a prune.
Finish(p) ==
  LET y == sync[p]
      asks == y.pc = "done" /\ y.dev /\ ~y.prune /\ Undecided(p) # {}
  IN  /\ y.pc \in {"done", "failed"}
      /\ claim' = [claim EXCEPT ![y.stage].held = HeldAfter(y)]
      /\ sync' = [sync EXCEPT ![p] =
                    IF asks THEN [y EXCEPT !.pc = "ask", !.ids = Nothing]
                    ELSE Idle]
      /\ declined' = [declined EXCEPT ![p] =
                        IF y.pc = "done" /\ y.dev /\ y.prune THEN {} ELSE @]
      /\ UNCHANGED <<store, faults>>

-----------------------------------------------------------------------------
(* What goes wrong.                                                          *)

\* A call of the sync throws.
Fail(p) ==
  /\ sync[p].pc \in Writing
  /\ faults < MaxFaults /\ faults' = faults + 1
  /\ sync' = [sync EXCEPT ![p].pc = "failed"]
  /\ UNCHANGED <<store, claim, declined>>

\* The action is cut off at its time limit, or its process dies.
Die(p) ==
  /\ sync[p].pc \in Running
  /\ faults < MaxFaults /\ faults' = faults + 1
  /\ sync' = [sync EXCEPT ![p] = Idle]
  /\ UNCHANGED <<store, claim, declined>>

\* activeUntil passes: it exceeds the time limits of an action.
Lapse(s) ==
  /\ claim[s].held /\ ~Busy(s)
  /\ claim' = [claim EXCEPT ![s].held = FALSE]
  /\ UNCHANGED <<store, sync, declined, faults>>

\* handleResourceDeleteRoute: an agent is deleted without a claim.
DeleteResource(s, a) ==
  /\ a \in DOMAIN agents[s]
  /\ agents' = [agents EXCEPT ![s] = [b \in DOMAIN @ \ {a} |-> @[b]]]
  /\ UNCHANGED <<rows, records, claim, sync, declined, faults>>

-----------------------------------------------------------------------------

Init ==
  /\ rows = <<>>
  /\ records = [s \in Stages |-> Nothing]
  /\ agents = [s \in Stages |-> [a \in {} |-> {}]]
  /\ claim = [s \in Stages |-> [revision |-> 0, held |-> FALSE]]
  /\ sync = [p \in Sessions |-> Idle]
  /\ declined = [p \in Sessions |-> {}]
  /\ faults = 0

SessionStep(p) ==
  \/ \E s \in Stages : \E m \in Manifests[s] :
       \/ \E prune, fenced \in BOOLEAN : Deploy(p, s, m, prune, fenced)
       \/ Get(p, s, m)
  \/ Put(p) \/ Conflict(p) \/ Confirm(p) \/ Decline(p)

SyncStep(p) ==
  \/ Fence(p) \/ ListHooks(p)
  \/ \E n \in Hooks : SyncHook(p, n)
  \/ \E n \in Servers : SyncServer(p, n)
  \/ RecordExternal(p) \/ SyncManifest(p) \/ ReadOwnership(p)
  \/ \E i \in sync[p].owned : RemoveExternal(p, i)
  \/ DropRecords(p) \/ Finish(p)

Next ==
  \/ \E p \in Sessions : SessionStep(p) \/ SyncStep(p) \/ Fail(p) \/ Die(p)
  \/ \E s \in Stages : Lapse(s) \/ \E a \in Agents : DeleteResource(s, a)

Spec == Init /\ [][Next]_vars

-----------------------------------------------------------------------------
(* Properties.                                                               *)

\* An agent never refers to an MCP server that is gone, not between two
\* mutations of a sync nor after one that stopped half-way: a prune removes the
\* agents first.  (syncManifestBySecretHash before pruneExternalResources.)
RefsResolve ==
  \A s \in Stages : \A a \in DOMAIN agents[s] : \A i \in agents[s][a] :
    rows[i].name \in Servers => rows[i].active /\ s \in rows[i].of

\* A sync that got through leaves the stage as its manifest says, whoever else
\* syncs and whatever dead syncs left: declared servers are there, recorded,
\* and what the agents refer to, and after a prune nothing else is listed.
\* (claimManifestRevision, MANIFEST_SYNC_TIMEOUT_MS.)
Applied(y) ==
  /\ \A n \in y.manifest \cap External : records[y.stage][n] = y.ids[n]
  /\ \A n \in y.manifest \cap Servers : rows[y.ids[n]].active
  /\ \A a \in y.manifest \cap DOMAIN agents[y.stage] :
       agents[y.stage][a] = {y.ids[n] : n \in y.manifest \cap External}
  /\ y.prune => Listed(y.stage) \subseteq y.manifest

CompletedIsApplied == \A p \in Sessions : sync[p].pc = "done" => Applied(sync[p])

\* What a step of session p takes away.
Removes(p) ==
  IF sync'[p] = sync[p] THEN {}
  ELSE (UNION {Listed(s) \ Listed(s)' : s \in Stages})
       \cup {rows[i].name : i \in {j \in DOMAIN rows :
                                     rows[j].active /\ ~rows'[j].active}}

\* dev deletes only what it found to be no longer declared when it read the
\* stage, provided that nobody was writing the stage just then.  (The revision
\* of the GET, and the one of the first PUT.)
DeletesWereRead ==
  [][\A p \in Sessions :
       sync[p].dev /\ ~sync[p].torn => Removes(p) \subseteq sync[p].deletes]_vars

\* "asks before deleting remote resources you removed from code",
\* apps/docs/docs/reference/cli.md:176.
AsksBeforeDelete ==
  [][\A p \in Sessions : sync[p].dev => Removes(p) \subseteq Undecided(p)]_vars

=============================================================================
