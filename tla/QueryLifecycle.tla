--------------------------- MODULE QueryLifecycle ---------------------------
(***************************************************************************)
(* One afpsql pipe: the dispatcher that reads stdin, a FIFO and a worker   *)
(* task per named session, and the in_flight map.  It follows every query  *)
(* from the line that submits it to its terminal event, through cancel,    *)
(* id reuse, full queues, a panicking worker and shutdown.  What the query *)
(* does to the database is in TxExecutor; here running it is one step.     *)
(*                                                                         *)
(* Sources: src/pipe.rs (dispatch_*, session_worker_loop,                  *)
(* shutdown_runtime), src/handler.rs (QueryState, execute_query) and       *)
(* CancelState in src/db/session.rs.  The dispatcher is one task: it is at *)
(* one place of one handler, and the workers move between any two of its   *)
(* steps.                                                                  *)
(***************************************************************************)
EXTENDS Naturals, Sequences, FiniteSets

CONSTANTS
  Ids,            \* the query ids a caller uses
  Sessions,       \* the named sessions
  MaxQueries,     \* query lines read in a behaviour
  MaxActive,      \* MAX_ACTIVE_QUERIES as the limit of in_flight
  QueueCap,       \* MAX_ACTIVE_QUERIES as the capacity of a session's channel
  WorkersMayDie,  \* may a worker task panic?
  DeadlineMayHit  \* may PIPE_SHUTDOWN_TIMEOUT pass before the workers end?

ASSUME LifecycleConstants ==
  /\ Ids # {} /\ Sessions # {}
  /\ MaxQueries \in Nat
  /\ MaxActive \in Nat \ {0}
  /\ QueueCap \in Nat \ {0}
  /\ WorkersMayDie \in BOOLEAN
  /\ DeadlineMayHit \in BOOLEAN

Queries == 1 .. MaxQueries
NoQuery == 0

VARIABLES
  n,          \* query lines read so far; query q is the q-th line
  qid,        \* qid[q]: its id
  qsession,   \* qsession[q]: its session
  phase,      \* QueryState.phase, "none" before it exists, "refused" if never
  cancelled,  \* queries whose CancelState.cancelled is set
  claimed,    \* queries whose CancelState.terminal_emitted is set
  answers,    \* answers[q]: terminal events written for the query
  started,    \* queries handed to the executor (history)
  inFlight,   \* App.in_flight: the query an id stands for
  queue,      \* queue[s]: the session's channel; NoQuery is a control op
  wpc,        \* wpc[s]: where the session's worker is
  wq,         \* wq[s]: the query it runs
  dpc,        \* where the dispatcher is
  dq,         \* the query it handles
  late        \* has the shutdown deadline passed?

queries == <<phase, cancelled, claimed, answers, started>>
lines == <<n, qid, qsession>>
worker == <<wpc, wq>>
dispatcher == <<dpc, dq>>
vars == <<lines, queries, inFlight, queue, worker, dispatcher, late>>

Phases == {"none", "refused", "queued", "running", "finished", "cancelled"}
Finished(q) == phase[q] \in {"finished", "cancelled"}      \* is_finished()

Init ==
  /\ n = 0
  /\ qid = [q \in Queries |-> CHOOSE i \in Ids : TRUE]
  /\ qsession = [q \in Queries |-> CHOOSE s \in Sessions : TRUE]
  /\ phase = [q \in Queries |-> "none"]
  /\ cancelled = {}
  /\ claimed = {}
  /\ answers = [q \in Queries |-> 0]
  /\ started = {}
  /\ inFlight = [i \in Ids |-> NoQuery]
  /\ queue = [s \in Sessions |-> <<>>]
  /\ wpc = [s \in Sessions |-> "recv"]
  /\ wq = [s \in Sessions |-> NoQuery]
  /\ dpc = "read"
  /\ dq = NoQuery
  /\ late = FALSE

Answer(q) == answers' = [answers EXCEPT ![q] = @ + 1]
SetPhase(q, p) == phase' = [phase EXCEPT ![q] = p]
Unmap(id) == inFlight' = [inFlight EXCEPT ![id] = NoQuery]

-----------------------------------------------------------------------------
(* dispatch_query.                                                         *)

(* Mutant: whatever is no longer queued is reaped.                          *)
ReapStarted == inFlight' = [i \in Ids |->
  IF inFlight[i] # NoQuery /\ phase[inFlight[i]] # "queued" THEN NoQuery
  ELSE inFlight[i]]

(* cleanup_finished_queries                                                 *)
Reap == inFlight' = [i \in Ids |->
  IF inFlight[i] # NoQuery /\ Finished(inFlight[i]) THEN NoQuery
  ELSE inFlight[i]]

(* A query line that passes validation: the finished ones are reaped before *)
(* the lock is taken again to admit it.                                     *)
Submit(id, s) ==
  /\ dpc = "read" /\ n < MaxQueries
  /\ n' = n + 1
  /\ qid' = [qid EXCEPT ![n + 1] = id]
  /\ qsession' = [qsession EXCEPT ![n + 1] = s]
  /\ Reap
  /\ dpc' = "admit" /\ dq' = n + 1
  /\ UNCHANGED <<queries, queue, worker, late>>

Taken(id) == inFlight[id] # NoQuery /\ ~Finished(inFlight[id])
Others(id) == {i \in Ids \ {id} : inFlight[i] # NoQuery}
Admissible(id) == ~Taken(id) /\ Cardinality(Others(id)) < MaxActive

(* Under the in_flight lock: an active id, or a full map, refuses the query. *)
Admit ==
  /\ dpc = "admit" /\ Admissible(qid[dq])
  /\ inFlight' = [inFlight EXCEPT ![qid[dq]] = dq]
  /\ SetPhase(dq, "queued")
  /\ dpc' = "send" /\ UNCHANGED dq
  /\ UNCHANGED <<lines, cancelled, claimed, answers, started, queue, worker,
                 late>>

Refuse ==
  /\ dpc = "admit" /\ ~Admissible(qid[dq])
  /\ IF Taken(qid[dq]) THEN UNCHANGED inFlight ELSE Unmap(qid[dq])
  /\ SetPhase(dq, "refused")
  /\ Answer(dq)
  /\ dpc' = "read" /\ dq' = NoQuery
  /\ UNCHANGED <<lines, cancelled, claimed, started, queue, worker, late>>

(* Mutant: the newest query goes to the front of the channel.               *)
SendToFront ==
  /\ dpc = "send"
  /\ LET s == qsession[dq] IN
       /\ Len(queue[s]) < QueueCap
       /\ queue' = [queue EXCEPT ![s] = <<dq>> \o @]
  /\ dpc' = "read" /\ dq' = NoQuery
  /\ UNCHANGED <<lines, queries, inFlight, worker, late>>

(* try_send never waits: a full channel, or the channel of a worker that    *)
(* just died, takes the query back out of in_flight.                        *)
Send ==
  /\ dpc = "send"
  /\ LET s == qsession[dq] IN
       /\ Len(queue[s]) < QueueCap
       /\ queue' = [queue EXCEPT ![s] = Append(@, dq)]
  /\ dpc' = "read" /\ dq' = NoQuery
  /\ UNCHANGED <<lines, queries, inFlight, worker, late>>

SendFails ==
  /\ dpc = "send"
  /\ Len(queue[qsession[dq]]) = QueueCap \/ WorkersMayDie
  /\ Unmap(qid[dq])
  /\ SetPhase(dq, "refused")
  /\ Answer(dq)
  /\ dpc' = "read" /\ dq' = NoQuery
  /\ UNCHANGED <<lines, cancelled, claimed, started, queue, worker, late>>

(* begin, commit, rollback, session_info and invalidate share the FIFO but  *)
(* have no in_flight entry.                                                 *)
SendControl(s) ==
  /\ dpc = "read" /\ Len(queue[s]) < QueueCap
  /\ queue' = [queue EXCEPT ![s] = Append(@, NoQuery)]
  /\ UNCHANGED <<lines, queries, inFlight, worker, dispatcher, late>>

Ping ==
  /\ dpc = "read"
  /\ Reap
  /\ UNCHANGED <<lines, queries, queue, worker, dispatcher, late>>

-----------------------------------------------------------------------------
(* dispatch_cancel.  An id that stands for nothing gets an error and        *)
(* changes nothing.                                                        *)

CancelLookup(id) ==
  /\ dpc = "read" /\ inFlight[id] # NoQuery
  /\ dpc' = "cancel" /\ dq' = inFlight[id]
  /\ UNCHANGED <<lines, queries, inFlight, queue, worker, late>>

(* Mutant: a store instead of the compare-and-swap.                         *)
CancelOverwrites ==
  /\ dpc = "cancel" /\ phase[dq] \in {"queued", "running"}
  /\ SetPhase(dq, "cancelled")
  /\ dpc' = "cancel_settle" /\ UNCHANGED dq
  /\ UNCHANGED <<lines, cancelled, claimed, answers, started, inFlight, queue,
                 worker, late>>

(* try_cancel_queued, a compare-and-swap against try_start.                 *)
CancelQueued ==
  /\ dpc = "cancel" /\ phase[dq] = "queued"
  /\ SetPhase(dq, "cancelled")
  /\ dpc' = "cancel_settle" /\ UNCHANGED dq
  /\ UNCHANGED <<lines, cancelled, claimed, answers, started, inFlight, queue,
                 worker, late>>

(* Mutant: the cancel of a running query answers it too.                    *)
CancelAnswersRunning ==
  /\ dpc = "cancel" /\ phase[dq] # "queued"
  /\ dpc' = "cancel_settle" /\ UNCHANGED dq
  /\ UNCHANGED <<lines, queries, inFlight, queue, worker, late>>

CancelNotQueued ==
  /\ dpc = "cancel" /\ phase[dq] # "queued"
  /\ dpc' = "cancel_started" /\ UNCHANGED dq
  /\ UNCHANGED <<lines, queries, inFlight, queue, worker, late>>

(* Mutant: the cancelled query is left to its worker to answer.             *)
CancelSettlesSilently ==
  /\ dpc = "cancel_settle"
  /\ cancelled' = cancelled \cup {dq}
  /\ claimed' = claimed \cup {dq}
  /\ Unmap(qid[dq])
  /\ dpc' = "read" /\ dq' = NoQuery
  /\ UNCHANGED <<lines, phase, answers, started, queue, worker, late>>

(* request_cancel, claim_terminal_emit and the removal: from here on only   *)
(* the dispatcher can see the query.                                        *)
CancelSettle ==
  /\ dpc = "cancel_settle"
  /\ cancelled' = cancelled \cup {dq}
  /\ claimed' = claimed \cup {dq}
  /\ Unmap(qid[dq])
  /\ dpc' = IF dq \in claimed THEN "read" ELSE "cancel_answer"
  /\ dq' = IF dq \in claimed THEN NoQuery ELSE dq
  /\ UNCHANGED <<lines, phase, answers, started, queue, worker, late>>

CancelAnswer ==
  /\ dpc = "cancel_answer"
  /\ Answer(dq)
  /\ dpc' = "read" /\ dq' = NoQuery
  /\ UNCHANGED <<lines, phase, cancelled, claimed, started, inFlight, queue,
                 worker, late>>

(* Mutant: a cancelled query is forgotten while it still runs.              *)
CancelForgetsRunning ==
  /\ dpc = "cancel_started"
  /\ Unmap(qid[dq])
  /\ cancelled' = cancelled \cup {dq}
  /\ dpc' = "read" /\ dq' = NoQuery
  /\ UNCHANGED <<lines, phase, claimed, answers, started, queue, worker, late>>

(* A finished query is forgotten; a running one gets its flag set, and an   *)
(* acknowledgement that is not a terminal event.                            *)
CancelStarted ==
  /\ dpc = "cancel_started"
  /\ IF Finished(dq)
     THEN Unmap(qid[dq]) /\ UNCHANGED cancelled
     ELSE cancelled' = cancelled \cup {dq} /\ UNCHANGED inFlight
  /\ dpc' = "read" /\ dq' = NoQuery
  /\ UNCHANGED <<lines, phase, claimed, answers, started, queue, worker, late>>

-----------------------------------------------------------------------------
(* session_worker_loop and execute_query.                                  *)

WorkerGoto(s, pc) == wpc' = [wpc EXCEPT ![s] = pc] /\ UNCHANGED wq

Pop(s) == queue' = [queue EXCEPT ![s] = Tail(@)]

(* A control operation, or a query that try_start finds already cancelled.  *)
TakeOther(s) ==
  /\ wpc[s] = "recv" /\ queue[s] # <<>>
  /\ Head(queue[s]) # NoQuery => phase[Head(queue[s])] # "queued"
  /\ Pop(s)
  /\ UNCHANGED <<lines, queries, inFlight, worker, dispatcher, late>>

(* Mutant: try_start does not look at the phase.                            *)
TakeCancelled(s) ==
  /\ wpc[s] = "recv" /\ queue[s] # <<>>
  /\ LET q == Head(queue[s]) IN
       /\ q # NoQuery
       /\ SetPhase(q, "running")
       /\ wq' = [wq EXCEPT ![s] = q]
       /\ started' = started \cup {q}
  /\ wpc' = [wpc EXCEPT ![s] = "run"]
  /\ Pop(s)
  /\ UNCHANGED <<lines, cancelled, claimed, answers, inFlight, dispatcher,
                 late>>

(* Mutant: the worker forgets which query it runs.                          *)
TakeNameless(s) ==
  /\ wpc[s] = "recv" /\ queue[s] # <<>>
  /\ LET q == Head(queue[s]) IN
       /\ q # NoQuery /\ phase[q] = "queued"
       /\ SetPhase(q, "running")
       /\ started' = started \cup {q}
  /\ WorkerGoto(s, "run")
  /\ Pop(s)
  /\ UNCHANGED <<lines, cancelled, claimed, answers, inFlight, dispatcher,
                 late>>

TakeQuery(s) ==
  /\ wpc[s] = "recv" /\ queue[s] # <<>>
  /\ LET q == Head(queue[s]) IN
       /\ q # NoQuery /\ phase[q] = "queued"
       /\ SetPhase(q, "running")
       /\ wq' = [wq EXCEPT ![s] = q]
       /\ started' = started \cup {q}
  /\ wpc' = [wpc EXCEPT ![s] = "run"]
  /\ Pop(s)
  /\ UNCHANGED <<lines, cancelled, claimed, answers, inFlight, dispatcher,
                 late>>

(* An unknown session, refused options or a refused permission is answered  *)
(* before the executor is called, without the claim.                        *)
RunRejected(s) ==
  /\ wpc[s] = "run"
  /\ WorkerGoto(s, "answer")
  /\ UNCHANGED <<lines, queries, inFlight, queue, dispatcher, late>>

Run(s) ==
  /\ wpc[s] = "run"
  /\ WorkerGoto(s, "claim")
  /\ UNCHANGED <<lines, queries, inFlight, queue, dispatcher, late>>

Claim(s) ==
  /\ wpc[s] = "claim"
  /\ claimed' = claimed \cup {wq[s]}
  /\ WorkerGoto(s, IF wq[s] \in claimed THEN "finish" ELSE "answer")
  /\ UNCHANGED <<lines, phase, cancelled, answers, started, inFlight, queue,
                 dispatcher, late>>

WriteAnswer(s) ==
  /\ wpc[s] = "answer"
  /\ Answer(wq[s])
  /\ WorkerGoto(s, "finish")
  /\ UNCHANGED <<lines, phase, cancelled, claimed, started, inFlight, queue,
                 dispatcher, late>>

(* set_phase(Finished), after the terminal event went out.                 *)
Finish(s) ==
  /\ wpc[s] = "finish"
  /\ SetPhase(wq[s], "finished")
  /\ wpc' = [wpc EXCEPT ![s] = "recv"]
  /\ wq' = [wq EXCEPT ![s] = NoQuery]
  /\ UNCHANGED <<lines, cancelled, claimed, answers, started, inFlight, queue,
                 dispatcher, late>>

(* A panic drops the channel with what it holds; get_session_worker starts  *)
(* another worker for the next operation.                                   *)
WorkerDies(s) ==
  /\ WorkersMayDie /\ wpc[s] \in {"run", "answer"}
  /\ queue' = [queue EXCEPT ![s] = <<>>]
  /\ wpc' = [wpc EXCEPT ![s] = "recv"]
  /\ wq' = [wq EXCEPT ![s] = NoQuery]
  /\ UNCHANGED <<lines, queries, inFlight, dispatcher, late>>

-----------------------------------------------------------------------------
(* End of input, a `close' line or a stopped writer: shutdown_runtime drops *)
(* the senders, joins the workers and, past the deadline, aborts them.      *)

StartShutdown ==
  /\ dpc = "read"
  /\ dpc' = "drain" /\ UNCHANGED dq
  /\ UNCHANGED <<lines, queries, inFlight, queue, worker, late>>

DeadlinePasses ==
  /\ dpc = "drain" /\ DeadlineMayHit
  /\ late' = TRUE
  /\ UNCHANGED <<lines, queries, inFlight, queue, worker, dispatcher>>

Ended(s) == wpc[s] = "dead" \/ (wpc[s] = "recv" /\ queue[s] = <<>>)

(* Mutant: only a worker that waits for work is aborted.                    *)
AbortIdleWorker(s) ==
  /\ dpc = "drain" /\ late /\ ~Ended(s) /\ wpc[s] = "recv"
  /\ wpc' = [wpc EXCEPT ![s] = "dead"]
  /\ wq' = [wq EXCEPT ![s] = NoQuery]
  /\ queue' = [queue EXCEPT ![s] = <<>>]
  /\ UNCHANGED <<lines, queries, inFlight, dispatcher, late>>

AbortWorker(s) ==
  /\ dpc = "drain" /\ late /\ ~Ended(s)
  /\ wpc' = [wpc EXCEPT ![s] = "dead"]
  /\ wq' = [wq EXCEPT ![s] = NoQuery]
  /\ queue' = [queue EXCEPT ![s] = <<>>]
  /\ UNCHANGED <<lines, queries, inFlight, dispatcher, late>>

(* Mutant: the close event does not wait for the workers.                   *)
CloseAtOnce ==
  /\ dpc = "drain"
  /\ dpc' = "closed" /\ UNCHANGED dq
  /\ UNCHANGED <<lines, queries, inFlight, queue, worker, late>>

(* send_close_event, once every worker has been joined.                     *)
SendClose ==
  /\ dpc = "drain" /\ \A s \in Sessions : Ended(s)
  /\ dpc' = "closed" /\ UNCHANGED dq
  /\ UNCHANGED <<lines, queries, inFlight, queue, worker, late>>

-----------------------------------------------------------------------------
Caller ==
  \/ \E id \in Ids, s \in Sessions : Submit(id, s)
  \/ \E id \in Ids : CancelLookup(id)
  \/ \E s \in Sessions : SendControl(s)
  \/ Ping
  \/ StartShutdown
  \/ DeadlinePasses

Dispatch ==
  \/ Admit \/ Refuse \/ Send \/ SendFails
  \/ CancelQueued \/ CancelNotQueued \/ CancelSettle \/ CancelAnswer
  \/ CancelStarted
  \/ SendClose
  \/ \E s \in Sessions : AbortWorker(s)

Work(s) ==
  \/ TakeOther(s) \/ TakeQuery(s) \/ RunRejected(s) \/ Run(s) \/ Claim(s)
  \/ WriteAnswer(s) \/ Finish(s)

Next ==
  \/ Caller \/ Dispatch
  \/ \E s \in Sessions : Work(s) \/ WorkerDies(s)

Spec == Init /\ [][Next]_vars

(* The runtime polls the dispatcher until it has finished the handler it is *)
(* in, and the clock goes on.  Nothing makes the caller send another line.  *)
FairSpec == Spec /\ WF_vars(Dispatch) /\ WF_vars(DeadlinePasses)

(* The database answers what it is asked, so that each worker goes on.      *)
WorkersServe == \A s \in Sessions : WF_vars(Work(s))
-----------------------------------------------------------------------------
Accepted(q) == phase[q] \notin {"none", "refused"}

TypeOK ==
  /\ n \in 0 .. MaxQueries
  /\ qid \in [Queries -> Ids]
  /\ qsession \in [Queries -> Sessions]
  /\ phase \in [Queries -> Phases]
  /\ cancelled \subseteq Queries
  /\ claimed \subseteq Queries
  /\ answers \in [Queries -> Nat]
  /\ started \subseteq Queries
  /\ inFlight \in [Ids -> Queries \cup {NoQuery}]
  /\ queue \in [Sessions -> Seq(Queries \cup {NoQuery})]
  /\ wpc \in [Sessions -> {"recv", "run", "claim", "answer", "finish", "dead"}]
  /\ wq \in [Sessions -> Queries \cup {NoQuery}]
  /\ dpc \in {"read", "admit", "send", "cancel", "cancel_settle",
              "cancel_answer", "cancel_started", "drain", "closed"}
  /\ dq \in Queries \cup {NoQuery}
  /\ late \in BOOLEAN

(* No query is answered twice, whichever of its worker and a cancel gets    *)
(* there first (claim_terminal_emit).                                      *)
AtMostOneAnswer == \A q \in Queries : answers[q] <= 1

(* "Finished means the terminal event went out": a query that is_finished   *)
(* calls finished after running has been answered, so an id that is reaped  *)
(* is never one somebody still waits for.                                   *)
FinishedMeansAnswered ==
  \A q \in Queries : phase[q] = "finished" => answers[q] = 1

(* "Cancelled before execution reached the database; nothing was sent": a   *)
(* query cancelled while it was queued is never handed to the executor.     *)
CancelledNeverStarted ==
  \A q \in Queries : phase[q] = "cancelled" => q \notin started

(* An id stands for one open query: two accepted queries that share an id   *)
(* are never both unanswered.  (The line that dispatch_query refuses for    *)
(* its duplicate id is answered under that id too; it was never accepted.)  *)
OneOpenPerId ==
  \A q, r \in Queries :
    /\ q # r /\ qid[q] = qid[r]
    /\ Accepted(q) /\ Accepted(r)
    => answers[q] + answers[r] >= 1

(* Whatever its caller needs to cancel stays within reach: a query that was *)
(* accepted and not answered is the one its id stands for in in_flight,     *)
(* unless the cancel that is about to answer it took it out.                *)
OpenIsReachable ==
  \A q \in Queries :
    Accepted(q) /\ answers[q] = 0
    => inFlight[qid[q]] = q \/ (dpc = "cancel_answer" /\ dq = q)

(* A shutdown that meets its deadline answers every accepted query before   *)
(* the close event.                                                        *)
DrainBeforeClose ==
  dpc = "closed" /\ ~late
  => \A q \in Queries : Accepted(q) => answers[q] = 1

(* Two queries of one session start in the order their lines were read: no  *)
(* query starts while an earlier one still waits in its session's channel.  *)
StartsInOrder ==
  [][\A q \in started' \ started :
       \A k \in DOMAIN queue'[qsession[q]] :
         queue'[qsession[q]][k] \notin 1 .. q - 1]_vars

(* Every accepted query is answered: by its worker, or by the cancel that   *)
(* took it, even when the caller closes the input right behind it; only the *)
(* shutdown deadline may come first.                                        *)
EveryQueryAnswered ==
  WorkersServe =>
    \A q \in Queries : phase[q] = "queued" ~> answers[q] = 1 \/ late

(* Shutdown ends, by its one deadline and the aborts behind it, even if no  *)
(* worker ever gets an answer from the database.                            *)
ShutdownEnds == dpc = "drain" ~> dpc = "closed"

(* The pipe keeps the contract TerminalContract states.  A cancelled query  *)
(* counts as waiting until its answer is written.                           *)
ContractState(q) ==
  CASE phase[q] = "none" -> "none"
    [] phase[q] \in {"running", "finished"} -> "started"
    [] phase[q] = "refused" \/ (phase[q] = "cancelled" /\ answers[q] > 0) -> "over"
    [] OTHER -> "waiting"

NoId == "none"

Contract == INSTANCE TerminalContract WITH
  id <- [q \in Queries |-> IF phase[q] = "none" THEN NoId ELSE qid[q]],
  state <- [q \in Queries |-> ContractState(q)],
  closed <- dpc = "closed"

KeepsContract == Contract!Spec
=============================================================================
