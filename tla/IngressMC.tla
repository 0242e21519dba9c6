----------------------------- MODULE IngressMC -----------------------------
(***************************************************************************)
(* Small instances of Ingress for TLC: one request set for each question.   *)
(***************************************************************************)
EXTENDS Ingress, TLC

CONSTANTS e1, e2, e3, alice, bob, res, task1, task2

\* A follow-up by alice that nothing merges, unless a field says otherwise.
Message(e) ==
  [event |-> e, identity |-> e, mode |-> "followup", sender |-> alice,
   size |-> 1, plain |-> TRUE, result |-> NoResult, task |-> NoTask,
   activeOwnerOnly |-> FALSE, expectedTask |-> NoTask]

In(mode, q) == [q EXCEPT !.mode = mode]
From(s, q) == [q EXCEPT !.sender = s]
Resuming(r, q) == [q EXCEPT !.result = r]

\* Steers of two people, one with an attachment.
ModeRequests ==
  {In("steer", Message(e1)),
   [In("steer", Message(e2)) EXCEPT !.plain = FALSE, !.size = 2],
   In("steer", From(bob, Message(e3)))}

\* A collect pair and a follow-up of one person, which only the mode separates.
CollectRequests ==
  {In("collect", Message(e1)), In("collect", Message(e2)), Message(e3)}

\* Late results: two callers resume one result, each under its own
\* event id.
ResumeRequests ==
  {Message(e1), Resuming(res, Message(e2)), Resuming(res, Message(e3))}
Resumers == Permutations({e2, e3})

\* One run asks both questions, one at a time.
MixedRequests == ModeRequests \cup CollectRequests
Asks(S) == \A e \in Event : rows[e].req \in S \cup {NoRequest}
OneQuestion == Asks(ModeRequests) \/ Asks(CollectRequests)

\* A resume behind a message, and an arrival that is refused while busy.
RetryRequests ==
  {Message(e1), Resuming(res, Message(e2)), In("reject", Message(e3))}

\* A subagent task and a steer beside it, which may be meant for that task
\* only: the least that queues, merges and comes too late.
TaskRequests ==
  {[In("steer", Message(e1)) EXCEPT !.task = task1],
   In("steer", Message(e2)),
   [In("steer", Message(e2)) EXCEPT !.activeOwnerOnly = TRUE,
                                    !.expectedTask = task1]}

=============================================================================
