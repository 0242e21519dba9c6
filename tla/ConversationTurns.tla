------------------------- MODULE ConversationTurns -------------------------
(***************************************************************************)
(* What a conversation promises its callers, without leases, generations or *)
(* queues: messages run in numbered turns.  A message is handed to one turn *)
(* only, the one that holds the conversation when it is handed over; a turn *)
(* that lost the conversation never gets it back; and an ended message does *)
(* not run again until its row is gone.                                     *)
(***************************************************************************)
EXTENDS Naturals

CONSTANT Event

VARIABLES
  stage,   \* how far each message is
  turnOf,  \* the turn it was handed to, 0 if none
  turn,    \* the last turn that began
  held     \* whether that turn still holds the conversation

vars == <<stage, turnOf, turn, held>>

Stages == {"absent", "waiting", "running", "ended"}

TypeOK ==
  /\ stage \in [Event -> Stages]
  /\ turnOf \in [Event -> Nat]
  /\ turn \in Nat
  /\ held \in BOOLEAN

Init ==
  /\ stage = [e \in Event |-> "absent"]
  /\ turnOf = [e \in Event |-> 0]
  /\ turn = 0
  /\ held = FALSE

\* A new turn begins, or the last one keeps the conversation or loses it.
Begin == turn' = turn + 1 /\ held'
Carry == turn' = turn /\ (held' => held)

Stay(e) == stage'[e] = stage[e] /\ turnOf'[e] = turnOf[e]

\* A row that is new, or replaces one whose result was never told.
Submit(e) ==
  /\ stage[e] \in {"absent", "ended"}
  /\ stage'[e] = "waiting"
  /\ turnOf'[e] = 0

\* Handed to the turn that holds the conversation.
Run(e) ==
  /\ stage[e] = "waiting" \/ (turn' = turn + 1 /\ stage[e] # "running")
  /\ stage'[e] = "running"
  /\ turnOf'[e] = turn'
  /\ held'

End(e) ==
  /\ stage[e] \in {"waiting", "running"}
  /\ stage'[e] = "ended"
  /\ turnOf'[e] = turnOf[e]

Leave(e) == stage'[e] = "absent" /\ turnOf'[e] = 0

Next ==
  /\ Begin \/ Carry
  /\ \A e \in Event : Stay(e) \/ Submit(e) \/ Run(e) \/ End(e) \/ Leave(e)

Spec == Init /\ [][Next]_vars

=============================================================================
