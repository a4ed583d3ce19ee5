-------------------------- MODULE TerminalContract --------------------------
(***************************************************************************)
(* What one afpsql pipe promises about a query line, whatever its queues,  *)
(* tasks and locks do: an id stands for one open query at a time, a query  *)
(* is answered once, a query that is answered before it starts never       *)
(* starts, and nothing follows the close event.                            *)
(***************************************************************************)
EXTENDS Naturals

CONSTANTS Ids, Queries, NoId

VARIABLES
  id,       \* id[q]: the id the query line carried, NoId before it is read
  state,    \* state[q]: "none", "waiting", "started" or "over"
  answers,  \* answers[q]: terminal events written for it
  closed    \* has the close event been written?

vars == <<id, state, answers, closed>>

Init ==
  /\ id = [q \in Queries |-> NoId]
  /\ state = [q \in Queries |-> "none"]
  /\ answers = [q \in Queries |-> 0]
  /\ closed = FALSE

Open(q) == state[q] \in {"waiting", "started"} /\ answers[q] = 0

Accept(q) ==
  /\ ~closed /\ state[q] = "none"
  /\ state' = [state EXCEPT ![q] = "waiting"]
  /\ \E i \in Ids :
       /\ \A r \in Queries : Open(r) => id[r] # i
       /\ id' = [id EXCEPT ![q] = i]
  /\ UNCHANGED <<answers, closed>>

Refuse(q) ==
  /\ ~closed /\ state[q] = "none"
  /\ state' = [state EXCEPT ![q] = "over"]
  /\ \E i \in Ids : id' = [id EXCEPT ![q] = i]
  /\ answers' = [answers EXCEPT ![q] = 1]
  /\ UNCHANGED closed

Start(q) ==
  /\ ~closed /\ state[q] = "waiting"
  /\ state' = [state EXCEPT ![q] = "started"]
  /\ UNCHANGED <<id, answers, closed>>

(* Cancelled while it waited, or found no room in its session's queue.      *)
Discard(q) ==
  /\ ~closed /\ state[q] = "waiting"
  /\ state' = [state EXCEPT ![q] = "over"]
  /\ answers' = [answers EXCEPT ![q] = 1]
  /\ UNCHANGED <<id, closed>>

Answer(q) ==
  /\ ~closed /\ answers[q] = 0 /\ state[q] = "started"
  /\ answers' = [answers EXCEPT ![q] = 1]
  /\ UNCHANGED <<id, state, closed>>

Close ==
  /\ ~closed /\ closed' = TRUE
  /\ UNCHANGED <<id, state, answers>>

Next ==
  \/ \E q \in Queries :
       Accept(q) \/ Refuse(q) \/ Start(q) \/ Discard(q) \/ Answer(q)
  \/ Close

Spec == Init /\ [][Next]_vars
=============================================================================
