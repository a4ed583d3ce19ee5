----------------------------- MODULE TxExecutor -----------------------------
(***************************************************************************)
(* PostgresExecutor on one named session: the operations one session       *)
(* worker runs in sequence (query, begin, commit, rollback, session_info,  *)
(* invalidate), statement by statement, against the PostgreSQL backend its *)
(* connection reaches.  Between two statements the backend may die, the    *)
(* client may notice it, and a cancel may be asked for.  A statement may   *)
(* end with 57014 at any time: a late CancelRequest and a                  *)
(* statement_timeout look the same.                                        *)
(*                                                                         *)
(* Sources: src/db/executor.rs, src/db/session.rs, and the parts of        *)
(* src/handler.rs that turn the executor's answer into a terminal event.   *)
(* The backend is external: it is what the code's own comments and its use *)
(* of BEGIN, SAVEPOINT, RELEASE, ROLLBACK TO and COMMIT rely on.           *)
(***************************************************************************)
EXTENDS Naturals, FiniteSets

CONSTANTS
  MaxOps,             \* operations the worker runs in a behaviour
  MaxBackends,        \* connections opened in a behaviour
  Kinds,              \* operation kinds the client sends, a subset of AllKinds
  Faults              \* rare events that may happen, a subset of AllFaults

AllKinds == {"query", "begin", "commit", "rollback", "info", "invalidate"}

(* stray_cancel: a CancelRequest hits SAVEPOINT, RELEASE or ROLLBACK rather  *)
(* than the statement it was for.  hidden_error: a statement fails after the *)
(* inline cap stopped the reading of its rows.  late_close: the driver task  *)
(* ends between live_client and ensure_connected, two checks in a row on a   *)
(* multi-threaded runtime.  own_control: a query with read permission is     *)
(* itself transaction control, which afpsql never looks for and the scanner  *)
(* of afpsql-readonly does not always see.                                   *)
AllFaults == {"stray_cancel", "hidden_error", "late_close", "own_control"}

ASSUME TxConstants ==
  /\ MaxOps \in Nat \ {0}
  /\ MaxBackends \in Nat \ {0}
  /\ Kinds \subseteq AllKinds
  /\ Faults \subseteq AllFaults

VARIABLES
  log,         \* log[i]: the i-th operation and the terminal event it got
  cnt,         \* operations started; the last one runs while pc # "idle"
  pc,          \* the statement or check the running operation is at
  explicitTx,  \* SessionEntry.explicit_tx: 0 idle, 1 rw, 2 read only, 3 failed
  conn,        \* SessionEntry.client: "none", "live" or "closed"
  backend,     \* number of the backend the connection was opened to
  srv,         \* that backend's transaction state
  db,          \* operations whose write is durable
  err,         \* the error the running operation will report, or "none"
  cancelled,   \* CancelState.cancelled of the running query
  stray,       \* may a CancelRequest still be on its way to the backend?
  curTx,       \* begin whose transaction is not settled, or 0 (history)
  txBackend    \* backend the last BEGIN succeeded on (history)

vars == <<log, cnt, pc, explicitTx, conn, backend, srv, db, err, cancelled, stray,
          curTx, txBackend>>
session == <<explicitTx, conn, backend>>
history == <<curTx, txBackend>>

(* The terminal events the properties tell apart.  "failed" is every         *)
(* sql_error, and every error other than the three named here.               *)
Outcomes == {"running", "ok", "failed", "cancelled", "lost_rolled_back",
             "commit_unknown"}

(* What an ExecError makes the code do: Connect and Internal lose the        *)
(* connection, 57014 may be a cancel, the others are only reported.          *)
Errors == {"internal", "57014", "error"}

NoOp == [kind |-> "none", write |-> FALSE, sql |-> FALSE, ro |-> TRUE,
         tx |-> 0, out |-> "running"]
(* write: the request's permission is write; sql: the statement writes; ro: *)
(* begin's read_only; tx: the unsettled begin it was run under.             *)
Op == [kind : AllKinds \cup {"none"}, write : BOOLEAN, sql : BOOLEAN,
       ro : BOOLEAN, tx : 0 .. MaxOps, out : Outcomes]

Gone == [st |-> "gone", ro |-> FALSE, work |-> {}, spWork |-> {}]
Idle == [st |-> "idle", ro |-> FALSE, work |-> {}, spWork |-> {}]
InTx(ro) == [st |-> "tx", ro |-> ro, work |-> {}, spWork |-> {}]

Init ==
  /\ log = [i \in 1 .. MaxOps |-> NoOp]
  /\ cnt = 0
  /\ pc = "idle"
  /\ explicitTx = 0
  /\ conn = "none"
  /\ backend = 0
  /\ srv = Gone
  /\ db = {}
  /\ err = "none"
  /\ cancelled = FALSE
  /\ stray = FALSE
  /\ curTx = 0
  /\ txBackend = 0

Cur == log[cnt]
Explicit == explicitTx \in {1, 2}      \* explicit_tx_read_only().is_some()
Live == conn = "live"                  \* live_client(): a client, not closed
StrayCancel == "stray_cancel" \in Faults /\ stray

(* Mutant: the SQLSTATE goes out without settle_cancel and the error event.  *)
TerminalUnsettled(out) == IF Cur.kind = "info" THEN "ok" ELSE out

(* The terminal event of the running operation.  settle_cancel: a 57014 is  *)
(* reported as `cancelled' only when this process asked for it.  A          *)
(* session_info answers with what it has, whatever its probe did.           *)
Terminal(out) ==
  IF Cur.kind = "info" THEN "ok"
  ELSE IF out \notin Errors THEN out
  ELSE IF out = "57014" /\ cancelled THEN "cancelled"
  ELSE "failed"

Report(out) ==
  /\ log' = [log EXCEPT ![cnt].out = Terminal(out)]
  /\ pc' = "idle"
  /\ err' = "none"
  /\ cancelled' = FALSE
  /\ UNCHANGED cnt

Goto(next) ==
  /\ pc' = next
  /\ UNCHANGED <<log, cnt>>

Undisturbed == UNCHANGED <<session, srv, db, stray, history>>

(* should_drop_connection: Connect and Internal errors lose the client, and *)
(* an explicit transaction that was running on it becomes failed.           *)
DropsConnection(e) == e = "internal"

DropClient ==
  /\ conn' = "none"
  /\ srv' = Gone
  /\ UNCHANGED backend

-----------------------------------------------------------------------------
(* The worker takes the next operation off its queue.                      *)

StartQuery(write, sql) ==
  log' = [log EXCEPT ![cnt + 1] = [NoOp EXCEPT !.kind = "query",
            !.write = write, !.sql = sql, !.tx = curTx]]

Start(kind) ==
  /\ pc = "idle" /\ cnt < MaxOps /\ kind \in Kinds
  /\ cnt' = cnt + 1
  /\ pc' = IF kind = "begin" THEN "begin_op" ELSE kind
  /\ CASE kind = "query" -> \E write, sql \in BOOLEAN :
            (write => sql) /\ StartQuery(write, sql)
       [] kind = "begin" -> \E ro \in BOOLEAN :
            log' = [log EXCEPT ![cnt + 1] = [NoOp EXCEPT !.kind = kind,
                      !.ro = ro, !.tx = curTx]]
       [] OTHER ->
            log' = [log EXCEPT ![cnt + 1] = [NoOp EXCEPT !.kind = kind,
                      !.tx = curTx]]
  /\ UNCHANGED <<err, cancelled>> /\ Undisturbed

-----------------------------------------------------------------------------
(* execute / execute_streaming up to the first statement.                  *)

(* A failed transaction, or a read permission inside a read-write one,     *)
(* rejects the query before it reaches PostgreSQL.                         *)
RejectQuery ==
  /\ pc = "query"
  /\ \/ explicitTx = 3
     \/ explicitTx = 1 /\ ~Cur.write
  /\ Report("error") /\ Undisturbed

(* An explicit transaction whose connection is gone is failed on the spot:  *)
(* a new connection would be outside it.                                    *)
FailLostTx ==
  /\ pc = "query" /\ Explicit /\ ~(explicitTx = 1 /\ ~Cur.write) /\ ~Live
  /\ explicitTx' = 3
  /\ DropClient
  /\ Report("error")
  /\ UNCHANGED <<db, stray, history>>

(* Mutant: a query in an explicit transaction reconnects like any other.    *)
AdmitQueryReconnects ==
  /\ pc = "query" /\ explicitTx # 3 /\ ~(explicitTx = 1 /\ ~Cur.write)
  /\ Goto("connect")
  /\ UNCHANGED <<err, cancelled>> /\ Undisturbed

(* Mutant: a failed transaction takes queries again.                        *)
AdmitQueryAfterLoss ==
  /\ pc = "query" /\ ~(explicitTx = 1 /\ ~Cur.write)
  /\ Explicit => Live
  /\ Goto("connect")
  /\ UNCHANGED <<err, cancelled>> /\ Undisturbed

AdmitQuery ==
  /\ pc = "query" /\ explicitTx # 3 /\ ~(explicitTx = 1 /\ ~Cur.write)
  /\ Explicit => Live
  /\ Goto("connect")
  /\ UNCHANGED <<err, cancelled>> /\ Undisturbed

(* handle_session_info probes only outside an open transaction; on a failed *)
(* one the probe is refused like any query and the defaults are reported.   *)
Info ==
  /\ pc = "info"
  /\ IF Explicit \/ explicitTx = 3
     THEN Report("ok")
     ELSE Goto("connect") /\ UNCHANGED <<err, cancelled>>
  /\ Undisturbed

AfterConnect == IF Cur.kind = "begin" THEN "begin_tx" ELSE "context"

(* ensure_connected: a closed client is discarded, a missing one opened.    *)
KeepConnection ==
  /\ pc = "connect" /\ Live
  /\ Goto(AfterConnect)
  /\ UNCHANGED <<err, cancelled>> /\ Undisturbed

OpenConnection ==
  /\ pc = "connect" /\ ~Live /\ backend < MaxBackends
  /\ conn' = "live"
  /\ backend' = backend + 1
  /\ srv' = Idle
  /\ Goto(AfterConnect)
  /\ stray' = FALSE
  /\ UNCHANGED <<explicitTx, db, err, cancelled, history>>

ConnectFails ==
  /\ pc = "connect" /\ ~Live
  /\ DropClient
  /\ Report("error")
  /\ UNCHANGED <<explicitTx, db, stray, history>>

(* install_cancel_context, then cancel_requested: a cancel asked for before *)
(* this point stops the query with nothing sent.                            *)
CheckCancel ==
  /\ pc = "context"
  /\ IF cancelled
     THEN Report("cancelled")
     ELSE /\ Goto(IF Explicit THEN "savepoint" ELSE "begin")
          /\ UNCHANGED <<err, cancelled>>
  /\ Undisturbed

-----------------------------------------------------------------------------
(* One statement at a time.                                                 *)

Fail(e, next) ==
  /\ err' = e
  /\ Goto(next)
  /\ UNCHANGED cancelled

(* After an error that is not rolled back to a savepoint: report it, drop   *)
(* the client if the error says so, fail the transaction it carried.        *)
Settle ==
  /\ pc = "settle"
  /\ Report(err)
  /\ IF DropsConnection(err)
     THEN /\ DropClient
          /\ explicitTx' = IF Explicit THEN 3 ELSE explicitTx
     ELSE UNCHANGED <<session, srv>>
  /\ UNCHANGED <<db, stray, history>>

(* An ERROR answer: a transaction block is aborted, an idle backend is not. *)
Aborted(s) == IF s.st = "idle" THEN s ELSE [s EXCEPT !.st = "aborted"]

(* start_transaction: BEGIN [READ ONLY] for one query.                      *)
ImplicitBegin ==
  /\ pc = "begin"
  /\ \/ /\ srv.st = "idle"
        /\ srv' = InTx(~Cur.write)
        /\ Goto("body") /\ UNCHANGED <<err, cancelled>>
     \/ /\ srv.st # "gone" /\ Fail("error", "settle")
        /\ srv' = Aborted(srv)
     \/ /\ srv.st = "gone" /\ Fail("internal", "settle") /\ UNCHANGED srv
  /\ UNCHANGED <<session, db, stray, history>>

(* Mutant: where SAVEPOINT finds no block, start_transaction opens one.      *)
SavepointReopens ==
  /\ pc = "savepoint"
  /\ \/ /\ srv.st \in {"idle", "tx"}
        /\ srv' = IF srv.st = "idle" THEN InTx(FALSE) ELSE srv
        /\ Goto("body") /\ UNCHANGED <<err, cancelled>>
     \/ /\ srv.st = "aborted" \/ (srv.st = "tx" /\ StrayCancel)
        /\ srv' = Aborted(srv)
        /\ \E e \in {"error", "57014"} : Fail(e, "settle")
     \/ /\ srv.st = "gone" /\ Fail("internal", "settle") /\ UNCHANGED srv
  /\ UNCHANGED <<session, db, stray, history>>

Savepoint ==
  /\ pc = "savepoint"
  /\ \/ /\ srv.st = "tx"
        /\ Goto("body") /\ UNCHANGED <<err, cancelled, srv>>
     \/ /\ srv.st \in {"idle", "aborted"} \/ (srv.st = "tx" /\ StrayCancel)
        /\ srv' = Aborted(srv)
        /\ \E e \in {"error", "57014"} : Fail(e, "settle")
     \/ /\ srv.st = "gone" /\ Fail("internal", "settle") /\ UNCHANGED srv
  /\ UNCHANGED <<session, db, stray, history>>

-----------------------------------------------------------------------------
(* The query itself: settings, prepare, checks, rows or command.  In an     *)
(* explicit transaction its work sits above the savepoint.                  *)

(* Mutant: a failed query is not rolled back to its savepoint.              *)
AfterBodyNoRollback(failed) ==
  IF Explicit THEN (IF failed THEN "settle" ELSE "release")
              ELSE (IF failed THEN "rollback_query" ELSE "commit_query")

AfterBody(failed) ==
  IF Explicit THEN (IF failed THEN "rollback_to" ELSE "release")
              ELSE (IF failed THEN "rollback_query" ELSE "commit_query")

Wrote == Cur.sql /\ ~srv.ro
WithWork == IF ~Wrote THEN srv
            ELSE IF Explicit THEN [srv EXCEPT !.spWork = @ \cup {cnt}]
            ELSE [srv EXCEPT !.work = @ \cup {cnt}]

BodySucceeds ==
  /\ pc = "body" /\ srv.st = "tx" /\ ~(Cur.sql /\ srv.ro)
  /\ srv' = WithWork
  /\ Goto(AfterBody(FALSE))
  /\ UNCHANGED <<session, db, err, cancelled, stray, history>>

(* An SQL error (25006 for a write under read only, 57014 for a cancel or a *)
(* timeout); FATAL ones also end the backend.                               *)
BodySqlError ==
  /\ pc = "body" /\ srv.st = "tx"
  /\ \E e \in {"error", "57014"} : Fail(e, AfterBody(TRUE))
  /\ srv' \in {Aborted(srv), Gone}
  /\ UNCHANGED <<session, db, stray, history>>

(* Duplicate columns or bad parameters are refused before anything runs; a  *)
(* row that cannot be decoded, or a closed output channel, after it did.    *)
BodyClientError ==
  /\ pc = "body" /\ srv.st = "tx"
  /\ \/ Fail("error", AfterBody(TRUE)) /\ UNCHANGED srv
     \/ Fail("internal", AfterBody(TRUE)) /\ srv' = WithWork
  /\ UNCHANGED <<session, db, stray, history>>

BodyConnectionLost ==
  /\ pc = "body" /\ srv.st = "gone"
  /\ Fail("internal", AfterBody(TRUE))
  /\ UNCHANGED <<session, srv, db, stray, history>>

(* execute_in_open_tx_inner stops reading at the inline cap and drops the   *)
(* row stream: an error the server raises afterwards is never seen.         *)
BodyTruncatedThenFails ==
  /\ "hidden_error" \in Faults /\ Explicit
  /\ pc = "body" /\ srv.st = "tx"
  /\ srv' = Aborted(srv)
  /\ Goto("release")
  /\ UNCHANGED <<session, db, err, cancelled, stray, history>>

(* A query whose SQL is COMMIT or ROLLBACK (prepared, so one statement)      *)
(* closes the block it runs in; AND CHAIN, or a RELEASE of its own, leaves a *)
(* block without the savepoint that RELEASE names next, an error that aborts *)
(* it.  SET TRANSACTION fails behind the set_config queries: BodySqlError.   *)
BodyEndsTransaction ==
  /\ "own_control" \in Faults
  /\ pc = "body" /\ srv.st = "tx" /\ ~Cur.write /\ ~Cur.sql
  /\ \/ srv' = Idle
     \/ Explicit /\ srv' = Aborted(srv)
  /\ Goto(AfterBody(FALSE))
  /\ UNCHANGED <<session, db, err, cancelled, stray, history>>

-----------------------------------------------------------------------------
(* finish_transaction: the end of a query's own transaction.               *)

(* COMMIT as the server answers it.  On an aborted block it rolls back and  *)
(* still succeeds; no answer at all leaves the outcome unknown.             *)
CommitAnswer(out) ==
  \/ /\ out \in {"ok", "commit_unknown"} /\ srv.st = "tx"
     /\ db' = db \cup srv.work \cup srv.spWork
     /\ srv' = IF out = "ok" THEN Idle ELSE Gone
  \/ /\ out \in {"error", "57014"} /\ srv.st = "tx"
     /\ srv' = Idle /\ UNCHANGED db
  \/ /\ out = "ok" /\ srv.st \in {"idle", "aborted"}
     /\ srv' = Idle /\ UNCHANGED db
  \/ /\ out = "commit_unknown"
     /\ srv' = Gone /\ UNCHANGED db

CommitOutcomes == {"ok", "error", "57014", "commit_unknown"}

(* Mutant: the query succeeded, so it is reported a success.                *)
CommitQueryUnchecked ==
  /\ pc = "commit_query"
  /\ \E out \in CommitOutcomes : CommitAnswer(out) /\ Report("ok")
  /\ UNCHANGED <<session, stray, history>>

(* Mutant: a COMMIT without an answer is an error like another.             *)
CommitQueryLostIsError ==
  /\ pc = "commit_query"
  /\ \E out \in CommitOutcomes :
       CommitAnswer(out) /\ Report(IF out = "commit_unknown" THEN "error" ELSE out)
  /\ UNCHANGED <<session, stray, history>>

CommitQuery ==
  /\ pc = "commit_query"
  /\ \E out \in CommitOutcomes : CommitAnswer(out) /\ Report(out)
  /\ UNCHANGED <<session, stray, history>>

(* The failure is the answer; whether the ROLLBACK got through is ignored.  *)
RollbackQuery ==
  /\ pc = "rollback_query"
  /\ \/ srv.st # "gone" /\ srv' = Idle
     \/ srv.st = "gone" /\ UNCHANGED srv
     \/ StrayCancel /\ srv.st # "gone" /\ srv' = Aborted(srv)
  /\ Goto("settle")
  /\ UNCHANGED <<session, db, err, cancelled, stray, history>>

(* RELEASE SAVEPOINT: an error here is reported, and nothing rolls back.    *)
Release ==
  /\ pc = "release"
  /\ \/ /\ srv.st = "tx"
        /\ srv' = [srv EXCEPT !.work = @ \cup srv.spWork, !.spWork = {}]
        /\ Report("ok")
     \/ /\ srv.st \in {"idle", "aborted"} \/ (srv.st = "tx" /\ StrayCancel)
        /\ srv' = Aborted(srv)
        /\ \E e \in {"error", "57014"} : Fail(e, "settle")
     \/ /\ srv.st = "gone" /\ Fail("internal", "settle") /\ UNCHANGED srv
  /\ UNCHANGED <<session, db, stray, history>>

(* ROLLBACK TO SAVEPOINT and RELEASE, both with their results ignored.      *)
RollbackTo ==
  /\ pc = "rollback_to"
  /\ \/ /\ srv.st \in {"tx", "aborted"}
        /\ srv' = [srv EXCEPT !.st = "tx", !.spWork = {}]
     \/ /\ StrayCancel /\ srv.st # "gone" /\ srv' = Aborted(srv)
     \/ /\ srv.st = "gone" /\ UNCHANGED srv
  /\ Goto("settle")
  /\ UNCHANGED <<session, db, err, cancelled, stray, history>>

-----------------------------------------------------------------------------
(* Explicit transaction control.                                           *)

RefuseBegin ==
  /\ pc = "begin_op" /\ explicitTx # 0
  /\ Report("error") /\ Undisturbed

(* Mutant: the transaction is marked only when BEGIN was answered.          *)
MarkBeginLate ==
  /\ pc = "begin_op" /\ explicitTx = 0
  /\ curTx' = cnt
  /\ Goto("connect")
  /\ UNCHANGED <<explicitTx, conn, backend, srv, db, err, cancelled, txBackend,
                 stray>>

(* The transaction is marked failed before anything that can fail.         *)
MarkBegin ==
  /\ pc = "begin_op" /\ explicitTx = 0
  /\ explicitTx' = 3
  /\ curTx' = cnt
  /\ Goto("connect")
  /\ UNCHANGED <<conn, backend, srv, db, err, cancelled, txBackend, stray>>

BeginTx ==
  /\ pc = "begin_tx"
  /\ \/ /\ srv.st = "idle"
        /\ srv' = InTx(Cur.ro)
        /\ explicitTx' = IF Cur.ro THEN 2 ELSE 1
        /\ txBackend' = backend
        /\ Report("ok")
     \/ /\ srv' = Aborted(srv) /\ srv.st # "gone"
        /\ Report("error") /\ UNCHANGED <<explicitTx, txBackend>>
     \/ /\ srv.st = "gone" /\ UNCHANGED srv
        /\ Report("error") /\ UNCHANGED <<explicitTx, txBackend>>
  /\ UNCHANGED <<conn, backend, db, curTx, stray>>

RefuseFinish ==
  /\ pc \in {"commit", "rollback"} /\ explicitTx = 0
  /\ Report("error") /\ Undisturbed

(* A failed or lost transaction is settled without sending anything.       *)
SettleLost ==
  /\ pc \in {"commit", "rollback"}
  /\ explicitTx = 3 \/ (Explicit /\ ~Live)
  /\ DropClient
  /\ explicitTx' = 0
  /\ curTx' = 0
  /\ Report(IF pc = "commit" THEN "lost_rolled_back" ELSE "ok")
  /\ UNCHANGED <<db, txBackend, stray>>

(* Mutant: tx_commit calls ensure_connected.                                *)
AdmitCommitReconnects ==
  /\ pc = "commit" /\ Explicit
  /\ \/ Live /\ UNCHANGED <<session, srv>>
     \/ /\ ~Live /\ backend < MaxBackends
        /\ conn' = "live" /\ backend' = backend + 1 /\ srv' = Idle
        /\ UNCHANGED explicitTx
  /\ Goto("send_commit")
  /\ UNCHANGED <<err, cancelled, db, stray, history>>

(* tx_commit never reconnects: COMMIT goes to the live connection or not    *)
(* at all.                                                                  *)
AdmitCommit ==
  /\ pc = "commit" /\ Explicit /\ Live
  /\ Goto("send_commit")
  /\ UNCHANGED <<err, cancelled>> /\ Undisturbed

(* Mutant: a COMMIT without an answer is reported as an SQL error.          *)
TxCommitLostIsError ==
  /\ pc = "send_commit"
  /\ explicitTx' = 0
  /\ curTx' = 0
  /\ \E out \in CommitOutcomes :
       /\ CommitAnswer(out)
       /\ Report(IF out = "commit_unknown" THEN "error" ELSE out)
       /\ conn' = IF out = "commit_unknown" THEN "none" ELSE conn
  /\ UNCHANGED <<backend, txBackend, stray>>

TxCommit ==
  /\ pc = "send_commit"
  /\ explicitTx' = 0
  /\ curTx' = 0
  /\ \E out \in CommitOutcomes :
       /\ CommitAnswer(out) /\ Report(out)
       /\ conn' = IF out = "commit_unknown" THEN "none" ELSE conn
  /\ UNCHANGED <<backend, txBackend, stray>>

TxRollback ==
  /\ pc = "rollback" /\ Explicit /\ Live
  /\ explicitTx' = 0
  /\ curTx' = 0
  /\ \/ srv.st # "gone" /\ srv' = Idle /\ Report("ok")
     \/ srv.st = "gone" /\ UNCHANGED srv /\ Report("error")
     \/ StrayCancel /\ srv.st # "gone" /\ srv' = Aborted(srv)
        /\ Report("error")
  /\ UNCHANGED <<conn, backend, db, txBackend, stray>>

(* remove_sessions: the entry and its connection go, a fresh one follows.  *)
Invalidate ==
  /\ pc = "invalidate"
  /\ DropClient
  /\ explicitTx' = 0
  /\ curTx' = 0
  /\ Report("ok")
  /\ UNCHANGED <<db, txBackend, stray>>

-----------------------------------------------------------------------------
(* What happens beside the worker.                                         *)

(* dispatch_cancel on a running query sets its flag and, once the executor   *)
(* gave it a token, sends a CancelRequest that may arrive any time later.    *)
CancelRunning ==
  /\ pc # "idle" /\ Cur.kind = "query" /\ ~cancelled
  /\ cancelled' = TRUE
  /\ stray' = (stray \/ pc \notin {"query", "connect", "context"})
  /\ UNCHANGED <<log, cnt, pc, err, session, srv, db, history>>

BackendDies ==
  /\ srv.st # "gone"
  /\ srv' = Gone
  /\ UNCHANGED <<log, cnt, pc, session, db, err, cancelled, stray, history>>

(* The driver task ends: is_closed() turns true some time after the loss.   *)
NoticeClosed ==
  /\ Live /\ srv.st = "gone"
  /\ pc = "connect" /\ Explicit => "late_close" \in Faults
  /\ conn' = "closed"
  /\ UNCHANGED <<log, cnt, pc, explicitTx, backend, srv, db, err, cancelled,
                 stray, history>>

Query == RejectQuery \/ FailLostTx \/ AdmitQuery \/ Info
         \/ KeepConnection \/ OpenConnection \/ ConnectFails
         \/ CheckCancel \/ Settle
Statement == ImplicitBegin \/ Savepoint \/ BodySucceeds \/ BodySqlError
             \/ BodyClientError \/ BodyConnectionLost
             \/ BodyTruncatedThenFails \/ BodyEndsTransaction
             \/ CommitQuery \/ RollbackQuery \/ Release \/ RollbackTo
TxControl == RefuseBegin \/ MarkBegin \/ BeginTx \/ RefuseFinish
             \/ SettleLost \/ AdmitCommit \/ TxCommit \/ TxRollback
             \/ Invalidate
Environment == CancelRunning \/ BackendDies \/ NoticeClosed

Next == (\E kind \in AllKinds : Start(kind)) \/ Query \/ Statement
        \/ TxControl \/ Environment

Spec == Init /\ [][Next]_vars
-----------------------------------------------------------------------------
Queries == {n \in 1 .. cnt : log[n].kind = "query"}
Writes(b) == {n \in Queries : log[n].tx = b /\ log[n].sql}
Reported(kind, outs) ==
  {n \in 1 .. cnt : log[n].kind = kind /\ log[n].out \in outs}

SrvStates == [st : {"idle", "tx", "aborted", "gone"}, ro : BOOLEAN,
              work : SUBSET (1 .. MaxOps), spWork : SUBSET (1 .. MaxOps)]
Pcs == {"idle", "begin_op", "query", "commit", "rollback", "info",
        "invalidate", "connect", "context", "begin_tx", "begin", "savepoint",
        "body", "commit_query", "rollback_query", "release", "rollback_to",
        "settle", "send_commit"}

(* Every variable keeps its type: what the worker, the session entry and   *)
(* the backend of db/executor.rs and db/session.rs can hold.               *)
TypeOK ==
  /\ log \in [1 .. MaxOps -> Op]
  /\ cnt \in 0 .. MaxOps
  /\ pc \in Pcs
  /\ explicitTx \in 0 .. 3
  /\ conn \in {"none", "live", "closed"}
  /\ backend \in 0 .. MaxBackends
  /\ srv \in SrvStates
  /\ db \subseteq 1 .. MaxOps
  /\ err \in Errors \cup {"none"}
  /\ cancelled \in BOOLEAN
  /\ stray \in BOOLEAN
  /\ curTx \in 0 .. MaxOps
  /\ txBackend \in 0 .. MaxBackends

(* A commit answered COMMIT made every write of its transaction that was    *)
(* answered with success durable (tx_commit).                              *)
CommitTruth ==
  \A c \in Reported("commit", {"ok"}) :
    \A n \in Writes(log[c].tx) : log[n].out = "ok" => n \in db

(* A write outside a transaction block that was answered with success is    *)
(* durable (finish_transaction commits before the answer goes out).        *)
SuccessTruth ==
  \A n \in Writes(0) : log[n].out = "ok" => n \in db

(* A query answered with an error, `cancelled' included, has no effect, now *)
(* or after a later COMMIT.  Only commit_outcome_unknown leaves it open.    *)
FailureTruth ==
  \A n \in Queries :
    log[n].out \notin {"running", "ok", "commit_unknown"} => n \notin db

(* transaction_lost_rolled_back, an SQL error on COMMIT and a successful    *)
(* ROLLBACK each mean that nothing of the transaction took effect.         *)
RollbackTruth ==
  \A c \in Reported("commit", {"lost_rolled_back", "failed"})
           \cup Reported("rollback", {"ok", "failed"}) :
    log[c].tx # 0 => Writes(log[c].tx) \cap db = {}

(* A write sent while a begin was unsettled, even a begin that failed, is   *)
(* never committed on its own: only that transaction's COMMIT persists it.  *)
OnlyCommitPersists ==
  \A n \in db : log[n].tx # 0 =>
    \E c \in Reported("commit", {"ok", "commit_unknown"}) :
      log[c].tx = log[n].tx

(* The successful writes of an explicit transaction persist together or not *)
(* at all, however many connections the session went through.              *)
TxAtomic ==
  \A m, n \in Queries :
    /\ log[m].tx # 0 /\ log[m].tx = log[n].tx
    /\ log[n].sql /\ log[n].out = "ok"
    => (m \in db => n \in db)

(* COMMIT goes to the backend that answered the BEGIN (tx_commit's reason   *)
(* for not calling ensure_connected).                                      *)
CommitOnSameBackend == pc = "send_commit" => backend = txBackend

(* A query whose permission is read never changes the database, whatever    *)
(* transaction it runs in, what failed before it, and whether a query in    *)
(* front of it closed the READ ONLY transaction of the session               *)
(* (execute, start_transaction, execute_in_open_tx).                       *)
ReadNeverWrites == \A n \in db : log[n].write

(* Between operations the session's idea of its transaction is the          *)
(* backend's: after a settled transaction the session takes queries again,  *)
(* and one bad query does not abort the transaction around it.             *)
SessionMatchesBackend ==
  pc = "idle" /\ Live /\ explicitTx # 3
  => srv.st \in {"gone", IF Explicit THEN "tx" ELSE "idle"}

-----------------------------------------------------------------------------
(* The statements of an operation, its connection and its backend are        *)
(* hidden; the answer of an operation is the step that takes effect.  Any    *)
(* of the rare faults may hide a failed transaction from the COMMIT.         *)
Mode == CASE explicitTx = 0 -> "idle"
          [] explicitTx = 1 -> "rw"
          [] explicitTx = 2 -> "ro"
          [] OTHER -> "failed"

Contract == INSTANCE TransactionContract WITH
  calls <- [i \in 1 .. cnt |-> log[i]],
  mode <- Mode,
  tx <- curTx,
  HidesFailure <- Faults # {}

(* Whatever statements, savepoints, reconnections and lost backends an       *)
(* operation comes to (db/executor.rs), the session keeps TransactionContract. *)
KeepsContract == Contract!Spec
=============================================================================
