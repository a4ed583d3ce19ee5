-------------------------- MODULE SessionConnection --------------------------
(***************************************************************************)
(* One pipe session and the connections opened for it: the worker that     *)
(* connects, runs queries and invalidates, the cancel that reaches a       *)
(* running query over a token or a side connection, and the shutdown.  An  *)
(* attempt is a connection from its first system call to the last process  *)
(* it started.  Each `.await' is a place where the future that holds an    *)
(* attempt may be dropped, so it is a step of its own.                     *)
(*                                                                         *)
(* Sources: src/db/session.rs, the bridge halves of src/ssh_transport.rs   *)
(* and src/container_transport.rs, and their callers in src/db/executor.rs *)
(* and src/pipe.rs.  TxExecutor says what a query does on its backend and  *)
(* SessionFifo how it comes to the worker.                                 *)
(***************************************************************************)
EXTENDS Naturals, Sequences, SequencesExt, FiniteSets

CONSTANTS
  Transports,    \* the TransportKinds a session may have
  MaxQueries,    \* bound: queries, in the order the worker takes them
  MaxAttempts,   \* bound: connections opened
  MaxInvalidate  \* bound: Invalidate operations

ASSUME ConnectionConstants ==
  /\ Transports \subseteq {"direct", "ssh", "container"}
  /\ MaxQueries \in Nat /\ MaxAttempts \in Nat /\ MaxInvalidate \in Nat

Queries == 1 .. MaxQueries
Attempts == 1 .. MaxAttempts
None == 0

Parts == {"driver", "child", "stderr"}

VARIABLES
  transport, \* the session's TransportKind, fixed
  att,      \* the attempts: [phase, todo, up], up the parts that run
  sess,     \* SessionEntry.client: an attempt, or None
  worker,   \* session_worker_loop: [pc, q, at]
  query,    \* QueryState.phase of each query, and whether its SQL was started
  slot,     \* CancelState: [cancelled, token, pid, cfg], the last three attempts
  cancel,   \* dispatch_cancel: [pc, q, token, pid, cfg, at, result]
  ack,      \* ack[q]: what the cancel of q was answered
  stage,    \* of pipe::run: "reading", "joining", "closing" or "exited"
  told,     \* <<query, attempt>>: a cancel PostgreSQL was handed (history)
  drops     \* Invalidate operations so far

vars == <<transport, att, sess, worker, query, slot, cancel, ack, stage, told, drops>>

-----------------------------------------------------------------------------
(* An attempt.                                                             *)

(* What dropping the value that holds the attempt ends.  While it is set up  *)
(* that is the child alone (kill_on_drop); then the guards hold every part,  *)
(* and a shutdown keeps each part until it has settled.                      *)
Bridged == transport # "direct"
Guarded == IF Bridged THEN Parts ELSE {"driver"}

(* Mutant: a shutdown takes the handle it waits for out of the guard.        *)
OwnedByTaking(c) ==
  CASE c.phase \in {"handshake", "connecting", "failing"} -> {"child"}
    [] c.phase \in {"pid", "open"} -> Guarded
    [] c.phase = "closing" -> ToSet(Tail(c.todo))
    [] OTHER -> {}

Owned(c) ==
  CASE c.phase \in {"handshake", "connecting", "failing"} -> {"child"}
    [] c.phase \in {"pid", "open"} -> Guarded
    [] c.phase = "closing" -> ToSet(c.todo)
    [] OTHER -> {}

(* up: the parts that run.  One that was aborted or sent SIGKILL is counted  *)
(* as ended.                                                                 *)
Dropped(c) == [phase |-> "gone", todo |-> <<>>, up |-> c.up \ Owned(c)]

Unused == [phase |-> "unused", todo |-> <<>>, up |-> {}]

(* connect_session up to its first await: a bridge starts its process.       *)
Started ==
  [phase |-> IF transport = "container" THEN "handshake" ELSE "connecting",
   todo |-> <<>>,
   up |-> IF Bridged THEN {"child", "stderr"} ELSE {}]

(* SessionClient::shutdown drops the client and waits for the driver, then   *)
(* each guard settles the other parts in its own order.                      *)
ShutdownOrder ==
  CASE transport = "direct" -> <<"driver">>
    [] transport = "ssh" -> <<"driver", "child", "stderr">>
    [] transport = "container" -> <<"driver", "stderr", "child">>

Closing(c) == [c EXCEPT !.phase = "closing", !.todo = ShutdownOrder]

Live(a) == att[a].phase \notin {"unused", "gone"}
Fresh == {a \in Attempts : att[a].phase = "unused"}
NextAttempt == CHOOSE a \in Fresh : TRUE

Become(a, c) == att' = [att EXCEPT ![a] = c]
Phase(a, p) == Become(a, [att[a] EXCEPT !.phase = p])

Ends(a, part) ==
  Live(a) /\ part \in att[a].up /\ Become(a, [att[a] EXCEPT !.up = @ \ {part}])

(* wait_bridge_handshake: the banner, or its end or two seconds first.       *)
HandshakeSeen(a) ==
  att[a].phase = "handshake" /\ "stderr" \in att[a].up /\ Phase(a, "connecting")
HandshakeLost(a) == att[a].phase = "handshake" /\ Phase(a, "failing")

(* connect_raw or connect, then the driver task is spawned.                  *)
Connected(a) ==
  /\ att[a].phase = "connecting" /\ (Bridged => "child" \in att[a].up)
  /\ Become(a, [att[a] EXCEPT !.phase = "pid", !.up = @ \cup {"driver"}])
ConnectFails(a) ==
  /\ att[a].phase = "connecting"
  /\ IF Bridged THEN Phase(a, "failing") ELSE Become(a, Dropped(att[a]))

(* The error path waits for the child's status, its last diagnostics or a    *)
(* listing of the targets, each with a timeout, and returns.                 *)
FailureReported(a) == att[a].phase = "failing" /\ Become(a, Dropped(att[a]))

(* fetch_backend_pid; a closed driver answers it with an error.              *)
PidKnown(a) == att[a].phase = "pid" /\ "driver" \in att[a].up /\ Phase(a, "open")
PidFails(a) == att[a].phase = "pid" /\ Become(a, Dropped(att[a]))

(* Mutant: a shutdown with nothing left to wait for does not return.         *)
SettleStays(a) ==
  /\ att[a].phase = "closing" /\ att[a].todo # <<>>
  /\ Become(a, [att[a] EXCEPT !.todo = Tail(@), !.up = @ \ {Head(att[a].todo)}])

(* One await of a shutdown returns, by itself or at its deadline.  A task    *)
(* has ended by then, a child was sent SIGKILL.                              *)
Settle(a) ==
  LET c == att[a]
      rest == Tail(c.todo)
  IN /\ c.phase = "closing"
     /\ Become(a, [phase |-> IF rest = <<>> THEN "gone" ELSE "closing", todo |-> rest,
                   up |-> c.up \ {Head(c.todo)}])

(* The world outside: the process ends by itself and closes its stderr, a    *)
(* server closes a connection when it likes.  What is given up is not        *)
(* followed further.                                                         *)
ChildExits(a) == Ends(a, "child")
StderrEnds(a) == "child" \notin att[a].up /\ Ends(a, "stderr")
DriverEnds(a) == Ends(a, "driver")

Peer(a) == HandshakeSeen(a) \/ Connected(a) \/ ConnectFails(a) \/ PidKnown(a)
           \/ PidFails(a) \/ DriverEnds(a)
Timer(a) == HandshakeLost(a) \/ FailureReported(a) \/ Settle(a)
Os(a) == StderrEnds(a) \/ ChildExits(a)

Attempt ==
  /\ stage # "exited"
  /\ \E a \in Attempts : Peer(a) \/ Timer(a) \/ Os(a)
  /\ UNCHANGED <<sess, worker, query, slot, cancel, ack, stage, told, drops>>

-----------------------------------------------------------------------------
(* The worker.                                                             *)

Idle == [pc |-> "idle", q |-> None, at |-> None]
Goto(pc) == worker' = [worker EXCEPT !.pc = pc]

Finish(q, outcome) == query' = [query EXCEPT ![q].phase = outcome]

(* recv and try_start; a query cancelled while queued is skipped.            *)
TakeQuery ==
  \E q \in Queries :
    /\ worker.pc = "idle"
    /\ query[q].phase = "queued" /\ \A r \in 1 .. (q - 1) : query[r].phase # "queued"
    /\ Finish(q, "running")
    /\ worker' = [pc |-> "ensure", q |-> q, at |-> None]
    /\ UNCHANGED <<att, sess, slot, cancel, ack, stage, told, drops>>

(* ensure_connected: keep a connection whose driver runs, drop any other and *)
(* open a new one.  Settings may refuse it before anything is started.       *)
HasClient == sess # None /\ "driver" \in att[sess].up
Ensure ==
  /\ worker.pc = "ensure"
  /\ \/ /\ HasClient
        /\ Goto("token")
        /\ UNCHANGED <<att, sess, query>>
     \/ /\ ~HasClient
        /\ sess' = None
        /\ LET rest == IF sess = None THEN att ELSE [att EXCEPT ![sess] = Dropped(@)]
           IN \/ /\ Fresh # {}
                 /\ att' = [rest EXCEPT ![NextAttempt] = Started]
                 /\ worker' = [worker EXCEPT !.pc = "connecting", !.at = NextAttempt]
                 /\ UNCHANGED query
              \/ /\ att' = rest
                 /\ worker' = Idle
                 /\ Finish(worker.q, "finished")
  /\ UNCHANGED <<slot, cancel, ack, stage, told, drops>>

ConnectReturns ==
  /\ worker.pc = "connecting"
  /\ \/ /\ att[worker.at].phase = "open"
        /\ sess' = worker.at
        /\ worker' = [worker EXCEPT !.pc = "token", !.at = None]
        /\ UNCHANGED query
     \/ /\ att[worker.at].phase = "gone"
        /\ worker' = Idle
        /\ Finish(worker.q, "finished")
        /\ UNCHANGED sess
  /\ UNCHANGED <<att, slot, cancel, ack, stage, told, drops>>

(* set_context: three locks, one after the other.                            *)
Install(field, next) ==
  /\ worker.pc = field
  /\ slot' = [slot EXCEPT ![worker.q][field] = sess]
  /\ Goto(next)
  /\ UNCHANGED <<att, sess, query, cancel, ack, stage, told, drops>>
InstallContext == Install("token", "pid") \/ Install("pid", "cfg") \/ Install("cfg", "check")

(* Mutant: nobody asks cancel_requested once the context is installed.       *)
CheckNever ==
  /\ worker.pc = "check"
  /\ Goto("run") /\ query' = [query EXCEPT ![worker.q].ran = TRUE]
  /\ UNCHANGED <<att, sess, slot, cancel, ack, stage, told, drops>>

CheckCancelled ==
  /\ worker.pc = "check"
  /\ IF slot[worker.q].cancelled
     THEN worker' = Idle /\ Finish(worker.q, "finished")
     ELSE Goto("run") /\ query' = [query EXCEPT ![worker.q].ran = TRUE]
  /\ UNCHANGED <<att, sess, slot, cancel, ack, stage, told, drops>>

(* The query ends; should_drop_connection takes the client with it.          *)
QueryEnds ==
  /\ worker.pc = "run"
  /\ \/ UNCHANGED <<att, sess>>
     \/ sess' = None /\ Become(sess, Dropped(att[sess]))
  /\ worker' = Idle
  /\ Finish(worker.q, "finished")
  /\ UNCHANGED <<slot, cancel, ack, stage, told, drops>>

(* SessionOp::Invalidate: remove_sessions takes the client out of the map    *)
(* and awaits its shutdown.                                                  *)
Invalidate ==
  /\ worker.pc = "idle" /\ stage = "reading"
  /\ drops < MaxInvalidate /\ drops' = drops + 1
  /\ sess # None /\ sess' = None
  /\ Become(sess, Closing(att[sess]))
  /\ worker' = [Idle EXCEPT !.pc = "closing", !.at = sess]
  /\ UNCHANGED <<query, slot, cancel, ack, stage, told>>

InvalidateReturns ==
  /\ worker.pc = "closing" /\ att[worker.at].phase = "gone"
  /\ worker' = Idle
  /\ UNCHANGED <<att, sess, query, slot, cancel, ack, stage, told, drops>>

WorkerStep == TakeQuery \/ Ensure \/ ConnectReturns \/ InstallContext \/ CheckCancelled
              \/ InvalidateReturns

-----------------------------------------------------------------------------
(* dispatch_cancel and cancel_query, awaited by the reader.                *)

NoCancel == [pc |-> "idle", q |-> None, token |-> None, pid |-> None, cfg |-> None,
             at |-> None, result |-> "none"]

Answer(q, a) == ack' = [ack EXCEPT ![q] = a] /\ cancel' = NoCancel

(* A queued query is taken from the worker, a finished one is reported, and  *)
(* only a running one is asked to stop: the flag is set first.               *)
Cancel ==
  \E q \in Queries :
    /\ stage = "reading" /\ cancel.pc = "idle" /\ ack[q] = "none"
    /\ CASE query[q].phase = "queued" ->
              Finish(q, "cancelled") /\ Answer(q, "cancelled") /\ UNCHANGED slot
         [] query[q].phase = "running" ->
              /\ slot' = [slot EXCEPT ![q].cancelled = TRUE]
              /\ cancel' = [NoCancel EXCEPT !.pc = "token", !.q = q]
              /\ UNCHANGED <<query, ack>>
         [] OTHER -> Answer(q, "over") /\ UNCHANGED <<query, slot>>
    /\ UNCHANGED <<att, sess, worker, stage, told, drops>>

(* The three locks again, from the other side.                               *)
ReadToken ==
  /\ cancel.pc = "token"
  /\ cancel' = [cancel EXCEPT !.token = slot[cancel.q].token,
                              !.pc = IF slot[cancel.q].token = None THEN "pid" ELSE "request"]
  /\ UNCHANGED <<att, sess, worker, query, slot, ack, stage, told, drops>>

(* CancelToken::cancel_query opens its own socket, so it fails for a client  *)
(* that came over a bridge.                                                  *)
Request ==
  /\ cancel.pc = "request"
  /\ \/ /\ ~Bridged
        /\ told' = told \cup {<<cancel.q, cancel.token>>}
        /\ Answer(cancel.q, "sent")
     \/ cancel' = [cancel EXCEPT !.pc = "pid"] /\ UNCHANGED <<told, ack>>
  /\ UNCHANGED <<att, sess, worker, query, slot, stage, drops>>

ReadPid ==
  /\ cancel.pc = "pid"
  /\ cancel' = [cancel EXCEPT !.pid = slot[cancel.q].pid, !.pc = "cfg"]
  /\ UNCHANGED <<att, sess, worker, query, slot, ack, stage, told, drops>>

(* A token that failed turns the fallback's "nothing sent" into its error.   *)
Unsent(token) == IF token = None THEN "nothing" ELSE "error"

(* cancel_backend_from_slot: without a whole context nothing can be sent.    *)
ReadConfig ==
  /\ cancel.pc = "cfg"
  /\ IF None \in {cancel.pid, slot[cancel.q].cfg}
     THEN Answer(cancel.q, Unsent(cancel.token)) /\ UNCHANGED att
     ELSE /\ UNCHANGED ack
          /\ \/ /\ Fresh # {}
                /\ Become(NextAttempt, Started)
                /\ cancel' = [cancel EXCEPT !.pc = "side", !.at = NextAttempt]
             \/ UNCHANGED att /\ cancel' = [cancel EXCEPT !.pc = "failed"]
  /\ UNCHANGED <<sess, worker, query, slot, stage, told, drops>>

SideReturns ==
  /\ cancel.pc = "side"
  /\ \/ att[cancel.at].phase = "open" /\ cancel' = [cancel EXCEPT !.pc = "ask"]
     \/ att[cancel.at].phase = "gone" /\ cancel' = [cancel EXCEPT !.pc = "failed"]
  /\ UNCHANGED <<att, sess, worker, query, slot, ack, stage, told, drops>>

(* select pg_cancel_backend: true, false or an error, then the shutdown.     *)
AskBackend ==
  /\ cancel.pc = "ask"
  /\ \E result \in {"sent", Unsent(cancel.token), "error"} :
       /\ told' = IF result = "sent" THEN told \cup {<<cancel.q, cancel.pid>>} ELSE told
       /\ cancel' = [cancel EXCEPT !.pc = "closing", !.result = result]
  /\ Become(cancel.at, Closing(att[cancel.at]))
  /\ UNCHANGED <<sess, worker, query, slot, ack, stage, drops>>

SideClosed ==
  /\ \/ cancel.pc = "closing" /\ att[cancel.at].phase = "gone" /\ Answer(cancel.q, cancel.result)
     \/ cancel.pc = "failed" /\ Answer(cancel.q, "error")
  /\ UNCHANGED <<att, sess, worker, query, slot, stage, told, drops>>

(* Mutant: only the token's own request is under the timeout.                *)
CancelTimesOutToken ==
  /\ cancel.pc = "request"
  /\ Answer(cancel.q, "error")
  /\ UNCHANGED <<att, sess, worker, query, slot, stage, told, drops>>

(* Five seconds for all of it; the future is dropped where it stands.        *)
CancelTimesOut ==
  /\ cancel.pc # "idle"
  /\ IF cancel.at # None THEN Become(cancel.at, Dropped(att[cancel.at])) ELSE UNCHANGED att
  /\ Answer(cancel.q, "error")
  /\ UNCHANGED <<sess, worker, query, slot, stage, told, drops>>

CancelStep == ReadToken \/ Request \/ ReadPid \/ ReadConfig \/ SideReturns \/ AskBackend
              \/ SideClosed

-----------------------------------------------------------------------------
(* shutdown_runtime.                                                       *)

(* The reader is back from its cancel and has read EOF or `close'.           *)
EndOfInput ==
  /\ stage = "reading" /\ cancel.pc = "idle"
  /\ stage' = "joining"
  /\ UNCHANGED <<att, sess, worker, query, slot, cancel, ack, told, drops>>

(* The worker has drained its queue, or the deadline aborts it: the future   *)
(* drops the attempt it was opening or closing; a client in the map stays.   *)
Join ==
  /\ stage = "joining" /\ worker.pc = "idle" /\ \A q \in Queries : query[q].phase # "queued"
  /\ stage' = "closing"
  /\ UNCHANGED <<att, sess, worker, query, slot, cancel, ack, told, drops>>
JoinTimesOut ==
  /\ stage = "joining"
  /\ stage' = "closing"
  /\ worker' = [Idle EXCEPT !.pc = "aborted"]
  /\ IF worker.at # None THEN Become(worker.at, Dropped(att[worker.at])) ELSE UNCHANGED att
  /\ UNCHANGED <<sess, query, slot, cancel, ack, told, drops>>

(* executor.shutdown under what is left of the deadline, then the exit.      *)
CloseSession ==
  /\ stage = "closing" /\ sess # None /\ att[sess].phase = "open"
  /\ Become(sess, Closing(att[sess]))
  /\ UNCHANGED <<sess, worker, query, slot, cancel, ack, stage, told, drops>>
Exit ==
  /\ stage = "closing" /\ (sess # None => att[sess].phase \in {"closing", "gone"})
  /\ stage' = "exited" /\ sess' = None
  /\ IF sess # None THEN Become(sess, Dropped(att[sess])) ELSE UNCHANGED att
  /\ UNCHANGED <<worker, query, slot, cancel, ack, told, drops>>

Shutdown == Join \/ JoinTimesOut \/ CloseSession \/ Exit

-----------------------------------------------------------------------------
Init ==
  /\ transport \in Transports
  /\ att = [a \in Attempts |-> Unused]
  /\ sess = None
  /\ worker = Idle
  /\ query = [q \in Queries |-> [phase |-> "queued", ran |-> FALSE]]
  /\ slot = [q \in Queries |-> [cancelled |-> FALSE, token |-> None, pid |-> None, cfg |-> None]]
  /\ cancel = NoCancel
  /\ ack = [q \in Queries |-> "none"]
  /\ stage = "reading"
  /\ told = {}
  /\ drops = 0

Next ==
  /\ \/ Attempt
     \/ stage # "exited" /\ (WorkerStep \/ QueryEnds \/ Invalidate)
     \/ Cancel \/ CancelStep \/ CancelTimesOut
     \/ EndOfInput \/ Shutdown
  /\ UNCHANGED transport

(* Timers fire and this process's own tasks run.  Nothing is assumed of a    *)
(* peer: a server may never answer and a query may run for ever.             *)
Fairness ==
  /\ WF_vars(CancelTimesOut /\ UNCHANGED transport)
  /\ WF_vars(Shutdown /\ UNCHANGED transport)

Spec == Init /\ [][Next]_vars /\ Fairness

-----------------------------------------------------------------------------
(* Properties.                                                             *)

(* Every field holds what its declaration says.                              *)
TypeOK ==
  /\ transport \in Transports
  /\ \A a \in Attempts :
       /\ att[a].phase \in {"unused", "handshake", "connecting", "failing", "pid", "open",
                           "closing", "gone"}
       /\ att[a].up \subseteq Parts
       /\ ToSet(att[a].todo) \subseteq Parts /\ (att[a].phase = "closing" <=> att[a].todo # <<>>)
  /\ sess \in Attempts \cup {None}
  /\ worker.q \in Queries \cup {None} /\ worker.at \in Attempts \cup {None}
  /\ \A q \in Queries : query[q].phase \in {"queued", "running", "finished", "cancelled"}
  /\ \A q \in Queries : {slot[q].token, slot[q].pid, slot[q].cfg} \subseteq Attempts \cup {None}
  /\ cancel.q \in Queries \cup {None} /\ cancel.at \in Attempts \cup {None}
  /\ ack \in [Queries -> {"none", "cancelled", "over", "sent", "nothing", "error"}]
  /\ stage \in {"reading", "joining", "closing", "exited"}
  /\ told \subseteq Queries \X Attempts
  /\ drops \in 0 .. MaxInvalidate

(* Whatever future is dropped and wherever it stands, every connection that  *)
(* is still up is in somebody's hands, one that is given up leaves no driver *)
(* and no process running, and at the exit all are given up.                 *)
NothingOrphaned ==
  /\ \A a \in Attempts : Live(a) => a \in {sess, worker.at, cancel.at}
  /\ \A a \in Attempts :
       att[a].phase = "gone" => {"driver", "child"} \cap att[a].up = {}
  /\ stage = "exited" => \A a \in Attempts : ~Live(a)

(* What a cancel is answered is true of its query then and later: "nothing   *)
(* sent" and "cancelled" mean that its SQL never starts, "sent" that the     *)
(* backend the query was given was told to stop.                             *)
CancelAnswerTruth ==
  \A q \in Queries :
    /\ ack[q] \in {"nothing", "cancelled"} => ~query[q].ran
    /\ ack[q] = "sent" => <<q, slot[q].token>> \in told

(* The reader is never held for good by a cancel, and once it has stopped    *)
(* reading the process exits, whatever a server or a bridge does.            *)
ReaderAndShutdownEnd ==
  /\ (cancel.pc # "idle") ~> (cancel.pc = "idle")
  /\ (stage = "joining") ~> (stage = "exited")
=============================================================================
