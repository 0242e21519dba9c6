---------------------------- MODULE LateResults ----------------------------
(***************************************************************************)
(* How the result of a subagent reaches its parent's conversation.  The     *)
(* coordinator in apps/core/src/harness/subagents.ts runs the children of   *)
(* one parent run in that run's process: their results wait in an outbox    *)
(* for the parent's next write, or, once the parent stopped waiting, start  *)
(* a new turn of its conversation.  Each child has a row in Convex          *)
(* (runtime.ts) with its status and its handback; a sweep tells the results *)
(* of rows whose process died.                                              *)
(*                                                                         *)
(* The parent's conversation is kept to what a result can meet there: who   *)
(* holds the turn, the one admission of each result's resume, and what its  *)
(* history tells.  Ingress models the conversation in full.                 *)
(***************************************************************************)
EXTENDS Integers, Sequences, SequencesExt, FiniteSets

CONSTANTS
  Child,        \* the child turns the parent's run may start
  Outcomes,     \* the ends the children may come to
  Budget,       \* time a child turn may take: its loop is aborted then
  Grace,        \* LATE_RESULT_GRACE_MS
  Hold,         \* PENDING_HANDBACK_MAX_AGE_MS
  Faults        \* bound on failed calls, lost replies, crashes, lapsed turns

ASSUME LateResultsAssumption ==
  /\ IsFiniteSet(Child) /\ Child \cap {"run", "nobody"} = {}
  /\ Outcomes \subseteq
       {"completed", "hidden", "failed", "stopped", "awaiting_input"}
  /\ Budget \in Nat /\ Grace \in Nat \ {0} /\ Hold \in Nat /\ Faults \in Nat
  /\ Budget < Hold /\ Grace < Hold

VARIABLES
  row,       \* per child: its runtimeAsyncAgentResults row
  child,     \* per child: how far its turn got in the parent's process
  answer,    \* per child: the completion completeTask hands on
  pending,   \* children the parent waits on
  detached,  \* children still running that it stopped waiting on
  outbox,    \* messages for the parent's next write
  handled,   \* children whose result is queued for the parent, or hidden
  run,       \* the parent run: where it is, and what it holds there
  turn,      \* who holds the parent's conversation: the run, a resume, nobody
  resume,    \* per child: the admission of the resume that tells its result
  told,      \* per child: what the parent's history tells of it, in order
  listed,    \* per child: the statuses it was listed with by running sweeps
  faults     \* failures so far

memory == <<child, answer, pending, detached, outbox, handled, run>>
convex == <<row, turn, resume, told>>
vars == <<memory, convex, listed, faults>>

-----------------------------------------------------------------------------
(* Types.  A `hidden` outcome is a completed one that the visibility setting  *)
(* keeps from the parent; a `stopped` row is failed with the stop as its      *)
(* error, a `lost` one failed with LOST_SUBAGENT_ERROR.                       *)

Outcome ==
  {"completed", "hidden", "failed", "stopped", "awaiting_input", "lost"}
Said == Outcome \cup {"running"}
Message == [of : Child, says : Said]
Rows == [status : {"none", "processing"} \cup Outcome,
         handback : {"pending", "detached", "stored"}, age : 0 .. Hold]
Nobody == "nobody"
Run == "run"

\* The dedupe key of a message ends in the row's status.
Key(says) ==
  CASE says \in {"stopped", "lost"} -> "failed"
    [] says = "hidden" -> "completed"
    [] OTHER -> says

\* Stops and hidden answers never reach the parent.  (parentVisibleCompletion)
Hidden == {"hidden", "stopped"}

TypeOK ==
  /\ row \in [Child -> Rows]
  /\ child \in [Child -> {"idle", "running", "unrecorded", "finished",
                          "emitting", "over", "dead"}]
  /\ answer \in [Child -> Outcome \cup {"none"}]
  /\ pending \subseteq Child /\ detached \subseteq Child
  /\ handled \subseteq Child
  /\ pending \cap detached = {}
  /\ outbox \in Seq(Message)
  /\ run \in [at : {"passing", "writing", "lastWrite", "detaching", "handing",
                    "over", "dead"},
              closed : BOOLEAN, holds : Seq(Message),
              marking : SUBSET Child, noting : SUBSET Child,
              then : {"none", "passing", "drain", "handing"}]
  /\ turn \in Child \cup {Run, Nobody}
  /\ resume \in [Child -> [at : {"none", "queued", "processing", "ended"},
                           says : Said]]
  /\ told \in [Child -> Seq(Said)]
  /\ listed \in [Child -> SUBSET (Outcome \cup {"processing"})]
  /\ faults \in 0 .. Faults

Init ==
  /\ row = [c \in Child |->
              [status |-> "none", handback |-> "pending", age |-> 0]]
  /\ child = [c \in Child |-> "idle"]
  /\ answer = [c \in Child |-> "none"]
  /\ pending = {} /\ detached = {} /\ handled = {}
  /\ outbox = << >>
  /\ run = [at |-> "passing", closed |-> FALSE, holds |-> << >>,
            marking |-> {}, noting |-> {}, then |-> "none"]
  /\ turn = Run
  /\ resume = [c \in Child |-> [at |-> "none", says |-> "running"]]
  /\ told = [c \in Child |-> << >>]
  /\ listed = [c \in Child |-> {}]
  /\ faults = 0

Fault == faults < Faults /\ faults' = faults + 1
NoFault == UNCHANGED faults

-----------------------------------------------------------------------------
(* The row.                                                                  *)

Stored(r) == [r EXCEPT !.handback = "stored", !.age = 0]

\* markAsyncAgentHandback
Marked(r, to) ==
  IF r.handback = "stored" \/ (to = "stored" /\ r.status = "processing")
  THEN r
  ELSE IF to = "stored" THEN Stored(r) ELSE [r EXCEPT !.handback = to]

\* writeAsyncAgentResult: a write says nothing of the handback unless asked.
Recorded(r, status) == [r EXCEPT !.status = status, !.age = 0]

\* Mutant: the dedupe key is not looked up.
UntoldAnyKey(c, says) == TRUE

\* A key is stored in a history once.
Untold(c, says) == \A i \in DOMAIN told[c] : Key(told[c][i]) # Key(says)

\* insertConversationEvents on the parent's history: storing a result marks its
\* row and completes a resume still queued for it.
Tell(c, says) ==
  IF ~Untold(c, says) THEN UNCHANGED <<told, row, resume>>
  ELSE /\ told' = [told EXCEPT ![c] = Append(@, says)]
       /\ IF says = "running" THEN UNCHANGED <<row, resume>>
          ELSE /\ row' = [row EXCEPT ![c] = Stored(@)]
               /\ resume' = [resume EXCEPT ![c].at =
                               IF @ = "queued" THEN "ended" ELSE @]

\* Mutant: a resume that ended is a duplicate for good.
NeverReadmitted(c) == FALSE

\* A resume that ended without its result being stored may be admitted again.
Readmitted(c) == resume[c].at = "ended" /\ row[c].handback # "stored"

\* Otherwise, or once the history has the result, it is a duplicate.
Duplicate(c) ==
  \/ resume[c].at # "none" /\ ~Readmitted(c)
  \/ row[c].handback = "stored"
  \/ ~Untold(c, "completed") \/ ~Untold(c, "failed")

\* Mutant: the row counts as stored once its resume was admitted.
ResumeStoring(c, says) ==
  /\ ~Duplicate(c)
  /\ row' = [row EXCEPT ![c] = Stored(@)]
  /\ resume' = [resume EXCEPT ![c] =
       [at |-> IF turn = Nobody THEN "processing" ELSE "queued", says |-> says]]
  /\ turn' = IF turn = Nobody THEN c ELSE turn
  /\ UNCHANGED told

\* accept's answers to a followup: a duplicate leaves the row stored if the
\* history has the result.
Resume(c, says) ==
  \/ /\ Duplicate(c)
     /\ row' = IF resume[c].at \in {"none", "ended"}
                  /\ ~(Untold(c, "completed") /\ Untold(c, "failed"))
               THEN [row EXCEPT ![c] = Stored(@)] ELSE row
     /\ UNCHANGED <<resume, turn, told>>
  \/ /\ ~Duplicate(c)
     /\ resume' = [resume EXCEPT ![c] =
          [at |-> IF turn = Nobody THEN "processing" ELSE "queued",
           says |-> says]]
     /\ turn' = IF turn = Nobody THEN c ELSE turn
     /\ UNCHANGED <<row, told>>

\* resumeParentWith and the sweep only log a failed call: it may have failed
\* before or after its admission, or found the conversation full.
TryResume(c, says) ==
  \/ Resume(c, says) /\ (NoFault \/ Fault)
  \/ Fault /\ UNCHANGED convex

-----------------------------------------------------------------------------
(* The children.  Each action is one turn's code up to its next await.       *)

Lives == run.at # "dead"

\* launch: the row first, then the turn starts, waited on.
Dispatch(c) ==
  /\ run.at = "passing" /\ child[c] = "idle"
  /\ row' = [row EXCEPT ![c].status = "processing"]
  /\ child' = [child EXCEPT ![c] = "running"]
  /\ pending' = pending \cup {c}
  /\ UNCHANGED <<answer, detached, outbox, handled, run, turn, resume, told,
                 listed, faults>>

\* runTask: the outcome is recorded before the parent hears of it.
Finish(c) ==
  /\ child[c] = "running"
  /\ \E out \in Outcomes :
       /\ answer' = [answer EXCEPT ![c] = out]
       /\ row' = [row EXCEPT ![c] = Recorded(@, out)]
  /\ child' = [child EXCEPT ![c] = "finished"]
  /\ UNCHANGED <<pending, detached, outbox, handled, run, turn, resume, told,
                 listed, faults>>

\* Both writes of recordOutcome threw, stored or not: an answer that could not
\* be recorded counts as a failure.
FinishUnrecorded(c) ==
  /\ child[c] = "running" /\ Fault
  /\ \E out \in Outcomes :
       /\ answer' = [answer EXCEPT ![c] =
            IF out = "stopped" THEN out ELSE "failed"]
       /\ \/ UNCHANGED row
          \/ row' = [row EXCEPT ![c] = Recorded(@, out)]
  /\ child' = [child EXCEPT ![c] = "unrecorded"]
  /\ UNCHANGED <<pending, detached, outbox, handled, run, turn, resume, told,
                 listed>>

\* runTask's catch and completeTask record that failure, whatever the row says.
RecordFailure(c) ==
  /\ child[c] = "unrecorded"
  /\ \/ NoFault /\ row' = [row EXCEPT ![c] = Recorded(@, answer[c])]
     \/ Fault /\ UNCHANGED row
  /\ child' = [child EXCEPT ![c] = "finished"]
  /\ UNCHANGED <<answer, pending, detached, outbox, handled, run, turn,
                 resume, told, listed>>

Post(c, says) == outbox' = Append(outbox, [of |-> c, says |-> says])

\* completeTask after the finish hook: the outbox of a run that still waits, a
\* resume for one that stopped waiting; a question goes to any open pass.
ToPass(c) == c \notin detached \/ (answer[c] = "awaiting_input" /\ ~run.closed)

Deliver(c) ==
  /\ child[c] = "finished"
  /\ \/ /\ answer[c] \in Hidden
        /\ row' = [row EXCEPT ![c] = Marked(@, "stored")]
        /\ NoFault /\ UNCHANGED <<outbox, turn, resume, told>>
     \/ /\ answer[c] \notin Hidden /\ ToPass(c)
        /\ Post(c, answer[c])
        /\ NoFault /\ UNCHANGED convex
     \/ /\ answer[c] \notin Hidden /\ ~ToPass(c)
        /\ TryResume(c, answer[c]) /\ UNCHANGED outbox
  /\ handled' = handled \cup {c}
  /\ child' = [child EXCEPT ![c] = "emitting"]
  /\ UNCHANGED <<answer, pending, detached, run, listed>>

Forgotten(c) ==
  /\ pending' = pending \ {c} /\ detached' = detached \ {c}
  /\ child' = [child EXCEPT ![c] = "over"]

\* startTask's finally, once the finished event went out; or the mark of a
\* hidden result threw.
Over(c) ==
  /\ \/ child[c] = "emitting" /\ NoFault
     \/ child[c] = "finished" /\ answer[c] \in Hidden /\ Fault
  /\ Forgotten(c)
  /\ UNCHANGED <<answer, outbox, handled, run, convex, listed>>

-----------------------------------------------------------------------------
(* The parent run.  `holds` is what its current loop took off the outbox,     *)
(* `marking` the children whose `detached` mark it awaits, and `then` what it *)
(* does after.                                                               *)

Answered(c, queue) == \E i \in DOMAIN queue : queue[i].of = c

\* Positions in their order.
InOrder(places) ==
  CHOOSE f \in [1 .. Cardinality(places) -> places] :
    \A i, j \in 1 .. Cardinality(places) : i < j => f[i] < f[j]

\* takeParentMessages: a running notice is stale once its child is forgotten.
Current(queue) ==
  {i \in DOMAIN queue : queue[i].says # "running" \/ queue[i].of \in detached}

Fresh(queue) ==
  [n \in 1 .. Cardinality(Current(queue)) |-> queue[InOrder(Current(queue))[n]]]

Taking(at) ==
  /\ outbox' = << >>
  /\ run' = [run EXCEPT !.at = IF Fresh(outbox) = << >> THEN "passing" ELSE at,
                        !.holds = Fresh(outbox)]

\* A step boundary writes what is queued, mid-pass.
TakeParentMessages ==
  /\ run.at = "passing" /\ outbox # << >>
  /\ Taking("writing")
  /\ UNCHANGED <<child, answer, pending, detached, handled, convex, listed,
                 faults>>

\* The pass's last write, after the wait.
DrainCompletions ==
  /\ run.at = "passing" /\ outbox # << >>
  /\ Taking("lastWrite")
  /\ UNCHANGED <<child, answer, pending, detached, handled, convex, listed,
                 faults>>

Writes == run.at \in {"writing", "lastWrite"}

\* persistModelMessages, append by append, each fenced by the lease.
Persist ==
  /\ Writes /\ turn = Run
  /\ Tell(Head(run.holds).of, Head(run.holds).says)
  /\ run' = [run EXCEPT !.holds = Tail(@),
                        !.at = IF Tail(run.holds) = << >> THEN "passing" ELSE @]
  /\ UNCHANGED <<child, answer, pending, detached, outbox, handled, turn,
                 listed, faults>>

\* A child whose result was dealt with is not marked again.
Detach(set, next) ==
  /\ detached' = detached \cup set
  /\ run' = [run EXCEPT !.at = "detaching", !.marking = set \ handled,
                        !.noting = IF next = "drain" THEN set ELSE {},
                        !.then = next, !.holds = << >>]

\* detachPending up to its await: a child whose result is queued is left to it.
DetachPending(queue, next) ==
  /\ Detach({c \in pending : ~Answered(c, queue)}, next)
  /\ pending' = {}

\* A write fails, stored or not: what it did not save goes back to the outbox
\* for the next step.  After the last write handOverToParent takes over.
PersistFails ==
  /\ Writes
  /\ \/ turn # Run /\ NoFault /\ UNCHANGED <<told, row, resume>>
     \/ Fault /\ UNCHANGED <<told, row, resume>>
     \/ turn = Run /\ Fault /\ Tell(Head(run.holds).of, Head(run.holds).says)
  /\ outbox' = run.holds \o outbox
  /\ IF run.at = "lastWrite" THEN DetachPending(outbox', "handing")
     ELSE /\ run' = [run EXCEPT !.at = "passing", !.holds = << >>]
          /\ UNCHANGED <<pending, detached>>
  /\ UNCHANGED <<child, answer, handled, turn, listed>>

\* detachTask: the wait on one child passes, and the parent is told it runs on.
DetachTask(c) ==
  /\ run.at = "passing" /\ c \in pending /\ ~Answered(c, outbox)
  /\ Detach({c}, "passing")
  /\ pending' = pending \ {c}
  /\ Post(c, "running")
  /\ UNCHANGED <<child, answer, handled, convex, listed, faults>>

\* drainCompletionsAndDetachToParent: the wait for all of them times out.
DetachAll ==
  /\ run.at = "passing" /\ pending # {}
  /\ DetachPending(outbox, "drain")
  /\ UNCHANGED <<child, answer, outbox, handled, convex, listed, faults>>

\* closePasses: whatever no pass will read resumes the parent instead.
ClosePasses ==
  /\ run.at = "passing" /\ ~run.closed
  /\ detached' = detached \cup {c \in pending : ~Answered(c, outbox)}
  /\ pending' = {}
  /\ run' = [run EXCEPT !.at = "detaching", !.closed = TRUE,
                !.marking = {c \in pending : ~Answered(c, outbox)} \ handled,
                !.then = "handing"]
  /\ UNCHANGED <<child, answer, outbox, handled, convex, listed, faults>>

\* One mark returns, or throws and the rest of that call is skipped.
MarkDetached(c) ==
  /\ run.at = "detaching" /\ c \in run.marking
  /\ \/ /\ NoFault /\ row' = [row EXCEPT ![c] = Marked(@, "detached")]
        /\ run' = [run EXCEPT !.marking = @ \ {c}]
     \/ /\ Fault /\ UNCHANGED row
        /\ run' = [run EXCEPT !.marking = {}, !.noting = {}, !.then = "passing"]
  /\ UNCHANGED <<child, answer, pending, detached, outbox, handled, turn,
                 resume, told, listed>>

PassOn == IF run.closed THEN "over" ELSE "passing"
Notices == SetToSeq({[of |-> c, says |-> "running"] : c \in run.noting})

\* The marks are done: the last write with a notice for each child just
\* detached, or the outbox taken for the hand-over.
MarksDone ==
  /\ run.at = "detaching" /\ run.marking = {}
  /\ \/ /\ run.then = "passing"
        /\ run' = [run EXCEPT !.at = PassOn, !.then = "none"]
        /\ UNCHANGED outbox
     \/ /\ run.then = "drain"
        /\ LET queue == Fresh(outbox \o Notices) IN
           run' = [run EXCEPT !.holds = queue, !.noting = {}, !.then = "none",
                     !.at = IF queue = << >> THEN "passing" ELSE "lastWrite"]
        /\ outbox' = << >>
     \/ /\ run.then = "handing"
        /\ run' = [run EXCEPT !.at = IF outbox = << >> THEN PassOn ELSE "handing",
                     !.holds = outbox, !.then = "none"]
        /\ outbox' = << >>
  /\ UNCHANGED <<child, answer, pending, detached, handled, convex, listed,
                 faults>>

Handed ==
  run' = [run EXCEPT !.holds = Tail(@), !.marking = {},
                     !.at = IF Tail(run.holds) = << >> THEN PassOn ELSE @]

\* handOverToParent, message by message: a notice is dropped; a result's row
\* is marked first, so that the sweep retries a resume that fails.
HandOver ==
  /\ run.at = "handing"
  /\ LET m == Head(run.holds) IN
     \/ /\ m.says = "running" /\ Handed /\ NoFault /\ UNCHANGED convex
     \/ /\ m.says # "running" /\ run.marking = {}
        /\ \/ /\ NoFault /\ row' = [row EXCEPT ![m.of] = Marked(@, "detached")]
              /\ run' = [run EXCEPT !.marking = {m.of}]
           \/ /\ Fault /\ UNCHANGED row
              /\ run' = [run EXCEPT !.holds = << >>, !.at = PassOn]
        /\ UNCHANGED <<turn, resume, told>>
     \/ /\ m.says # "running" /\ run.marking = {m.of}
        /\ TryResume(m.of, m.says) /\ Handed
  /\ UNCHANGED <<child, answer, pending, detached, outbox, handled, listed>>

\* The process dies, and its children with it.
Crash ==
  /\ Lives /\ Fault
  /\ child' = [c \in Child |->
                 IF child[c] \in {"idle", "over"} THEN child[c] ELSE "dead"]
  /\ pending' = {} /\ detached' = {} /\ handled' = {} /\ outbox' = << >>
  /\ run' = [at |-> "dead", closed |-> TRUE, holds |-> << >>,
             marking |-> {}, noting |-> {}, then |-> "none"]
  /\ UNCHANGED <<answer, convex, listed>>

-----------------------------------------------------------------------------
(* The parent's conversation, as far as results reach it.                    *)

\* The run gives its turn up at its end; a lapsed lease takes it before.
TurnEnds ==
  /\ turn = Run
  /\ (run.at \in {"over", "dead"} /\ NoFault) \/ Fault
  /\ turn' = Nobody
  /\ UNCHANGED <<memory, row, resume, told, listed>>

\* A resume is handed the turn once nobody holds it.
Promote(c) ==
  /\ turn = Nobody /\ resume[c].at = "queued"
  /\ turn' = c
  /\ resume' = [resume EXCEPT ![c].at = "processing"]
  /\ UNCHANGED <<memory, row, told, listed, faults>>

\* Its owner saves the message it carries.
ResumeTells(c) ==
  /\ turn = c
  /\ turn' = Nobody
  /\ resume' = [resume EXCEPT ![c].at = "ended"]
  /\ IF Untold(c, resume[c].says)
     THEN /\ told' = [told EXCEPT ![c] = Append(@, resume[c].says)]
          /\ row' = [row EXCEPT ![c] = Stored(@)]
     ELSE UNCHANGED <<told, row>>
  /\ UNCHANGED <<memory, listed, faults>>

\* A resume expires in the queue, or its turn dies before the save.
ResumeLost(c) ==
  /\ resume[c].at \in {"queued", "processing"} /\ Fault
  /\ resume' = [resume EXCEPT ![c].at = "ended"]
  /\ turn' = IF turn = c THEN Nobody ELSE turn
  /\ UNCHANGED <<memory, row, told, listed>>

-----------------------------------------------------------------------------
(* The sweep of every pod: it lists rows past their windows, then acts on     *)
(* what it listed while the rest goes on.                                    *)

\* Mutant: one window for whatever is not stored.
OverdueByGrace(r) ==
  r.status # "none" /\ r.handback # "stored" /\ r.age >= Grace

\* lostResultWindows
Overdue(r) ==
  \/ r.status \in Outcome /\ r.handback = "detached" /\ r.age >= Grace
  \/ r.status # "none" /\ r.handback # "stored" /\ r.age >= Hold

SweepList(c) ==
  /\ Overdue(row[c]) /\ row[c].status \notin listed[c]
  /\ listed' = [listed EXCEPT ![c] = @ \cup {row[c].status}]
  /\ UNCHANGED <<memory, convex, faults>>

\* recordAsyncAgentResult with onlyWhileProcessing, detached in one write.
Lost(r) ==
  IF r.status # "processing" THEN r
  ELSE [Recorded(r, "lost") EXCEPT !.handback =
          IF @ = "stored" THEN @ ELSE "detached"]

SweepLost(c) ==
  /\ "processing" \in listed[c]
  /\ listed' = [listed EXCEPT ![c] = @ \ {"processing"}]
  /\ \/ NoFault /\ row' = [row EXCEPT ![c] = Lost(@)]
     \/ Fault /\ UNCHANGED row
  /\ UNCHANGED <<memory, turn, resume, told>>

\* resumeLostSubagentResult: a hidden result is given up, another is told.
SweepResumes(c) ==
  \E says \in listed[c] \ {"processing"} :
    /\ listed' = [listed EXCEPT ![c] = @ \ {says}]
    /\ \/ /\ says \in Hidden
          /\ \/ NoFault /\ row' = [row EXCEPT ![c] = Marked(@, "stored")]
             \/ Fault /\ UNCHANGED row
          /\ UNCHANGED <<turn, resume, told>>
       \/ says \notin Hidden /\ TryResume(c, says)
    /\ UNCHANGED memory

\* Time passes for the rows not stored yet.  A child's turn ends within its
\* budget (the loop winds down, and then is aborted), and a record that failed
\* is tried again at once.
Ages(c) == row[c].status # "none" /\ row[c].handback # "stored"

Tick ==
  /\ \E c \in Child : Ages(c) /\ row[c].age < Hold
  /\ \A c \in Child : /\ child[c] # "unrecorded"
                      /\ child[c] = "running" => row[c].age < Budget
  /\ row' = [c \in Child |-> IF Ages(c) /\ row[c].age < Hold
                             THEN [row[c] EXCEPT !.age = @ + 1] ELSE row[c]]
  /\ UNCHANGED <<memory, turn, resume, told, listed, faults>>

-----------------------------------------------------------------------------

RunStep ==
  \/ TakeParentMessages \/ DrainCompletions \/ Persist \/ PersistFails
  \/ DetachAll \/ ClosePasses \/ MarksDone \/ HandOver
  \/ \E c \in Child : DetachTask(c) \/ MarkDetached(c)

ChildStep(c) ==
  Finish(c) \/ FinishUnrecorded(c) \/ RecordFailure(c) \/ Deliver(c) \/ Over(c)

ResumeStep(c) == Promote(c) \/ ResumeTells(c)

Next ==
  \/ RunStep \/ Crash \/ TurnEnds \/ Tick
  \/ \E c \in Child : \/ Dispatch(c) \/ ChildStep(c)
                      \/ ResumeStep(c) \/ ResumeLost(c)
                      \/ SweepList(c) \/ SweepLost(c) \/ SweepResumes(c)

Spec == Init /\ [][Next]_vars

\* Turns end (slot and child budgets, leases), admitted resumes run, the sweep
\* comes back every 30 seconds.  Nobody need start a child or call again.
FairSpec ==
  /\ Spec /\ WF_vars(RunStep) /\ WF_vars(TurnEnds) /\ WF_vars(Tick)
  /\ \A c \in Child :
       /\ WF_vars(ChildStep(c)) /\ WF_vars(ResumeStep(c))
       /\ WF_vars(SweepList(c)) /\ WF_vars(SweepLost(c))
       /\ WF_vars(SweepResumes(c))

-----------------------------------------------------------------------------
(* Properties.                                                               *)

Results(c) == {i \in DOMAIN told[c] : told[c][i] # "running"}

\* However many of the outbox, the hand-over, the child's own resume and the
\* sweeps try, and whichever of their calls fail or lose their reply, the
\* parent hears one result of a child turn, under one status.
ToldOnce == \A c \in Child : Cardinality(Results(c)) <= 1

\* A row that is never swept again was told, or its outcome was hidden.
\* (markResultStored, markAsyncAgentHandback.)
StoredIsTold ==
  \A c \in Child : row[c].handback = "stored" =>
    Results(c) # {} \/ row[c].status \in Hidden \/ answer[c] \in Hidden

\* The parent hears that a child was lost only if it was: its process died, or
\* its outcome could not be recorded.  A slow child is not a lost one.
LostIsLost ==
  \A c \in Child : row[c].status = "lost" =>
    child[c] # "running" /\ faults > 0

\* A running notice never follows the result of its child: takeParentMessages
\* says it is stale once its child has finished.
NoticeBeforeResult ==
  \A c \in Child : \A i \in Results(c), j \in DOMAIN told[c] :
    told[c][j] = "running" => j < i

\* Every child that got a row is heard of in the end, or hidden, though the
\* run, a resume or a sweep dies on the way.  (The recovery sweep.)
EveryResultArrives ==
  \A c \in Child : row[c].status # "none" ~> row[c].handback = "stored"

=============================================================================
