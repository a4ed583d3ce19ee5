---------------------------- MODULE TxExecutorProofs ----------------------------
(***************************************************************************)
(* Theorems about TxExecutor, for any number of operations, connections    *)
(* and kinds of operation.                                                 *)
(***************************************************************************)
EXTENDS TxExecutor, SequenceTheorems, TLAPS

-----------------------------------------------------------------------------
(* The log.  Only the entry of the running operation is still open.         *)

Shaped(o) == o.kind # "query" => ~o.sql

LogInv ==
  /\ log \in [1 .. MaxOps -> Op] /\ cnt \in 0 .. MaxOps
  /\ curTx \in 0 .. cnt /\ db \subseteq 1 .. cnt
  /\ \A n \in 1 .. MaxOps : log[n].tx < n /\ Shaped(log[n])
  /\ pc # "idle" => cnt \in 1 .. MaxOps /\ log[cnt].out = "running"

(* Where the worker stands says what it runs and how far the session is in   *)
(* a transaction.  A query past its admission keeps the answer it was given. *)
InBlock == {"savepoint", "release", "rollback_to"}
Alone == {"begin", "commit_query", "rollback_query"}
Past == {"context", "body", "settle"} \cup InBlock \cup Alone

PcInv ==
  /\ pc \in Pcs /\ explicitTx \in 0 .. 3
  /\ explicitTx = 0 <=> curTx = 0
  /\ pc = "query" => Cur.kind = "query"
  /\ pc = "info" => Cur.kind = "info"
  /\ pc \in {"commit", "send_commit"} => Cur.kind = "commit"
  /\ pc = "rollback" => Cur.kind = "rollback"
  /\ pc \in {"begin_op", "begin_tx"} => Cur.kind = "begin"
  /\ pc = "invalidate" => Cur.kind = "invalidate"
  /\ pc = "connect" => Cur.kind \in {"query", "info", "begin"}
  /\ pc \in Past => Cur.kind \in {"query", "info"}
  /\ pc \in Past \cup {"connect"} /\ Cur.kind # "begin" => explicitTx # 3
  /\ pc \in Past \cup {"connect"} /\ Cur.kind = "info" => explicitTx = 0
  /\ pc \in Past \cup {"connect"} /\ Cur.kind = "query" /\ explicitTx = 1 => Cur.write
  /\ pc \in {"connect", "begin_tx"} /\ Cur.kind = "begin" => explicitTx = 3 /\ curTx = cnt
  /\ pc \in InBlock \cup {"send_commit"} => Explicit
  /\ pc \in Alone => explicitTx = 0
  /\ pc # "idle" /\ Cur.kind # "begin" => Cur.tx = curTx

(* An operation on its way to report an error has one.                      *)
ErrInv == pc \in {"settle", "rollback_to", "rollback_query"} => err \in Errors

(* What the backend holds of a transaction that can still be committed: the *)
(* writes of this one, each answered with success or about to be answered.  *)
Open == srv.st = "tx" \/ (srv.st = "aborted" /\ pc = "rollback_to")

SrvInv ==
  /\ srv \in SrvStates /\ srv.work \subseteq 1 .. cnt /\ srv.spWork \subseteq 1 .. cnt
  /\ srv.st \in {"idle", "gone"} => srv.work = {} /\ srv.spWork = {}
  /\ srv.st = "tx" => Explicit \/ pc \in {"body", "commit_query", "rollback_query"}
  /\ pc = "commit_query" => srv.st \in {"tx", "gone"} \/ (srv.st = "idle" /\ ~Cur.sql)
  /\ srv.st \in {"tx", "aborted"} /\ explicitTx = 2 => srv.ro
  /\ srv.st = "tx" /\ pc = "body" /\ explicitTx = 0 => srv.ro \/ Cur.write

WorkInv ==
  Open =>
    /\ \A n \in srv.work :
         /\ log[n].kind = "query" /\ log[n].write /\ log[n].tx = curTx
         /\ log[n].out = "ok" \/ (n = cnt /\ pc \in {"commit_query", "rollback_query"})
    /\ \A n \in srv.spWork :
         /\ n = cnt /\ pc \in {"release", "rollback_to"}
         /\ log[n].kind = "query" /\ log[n].write /\ log[n].tx = curTx
    /\ pc = "commit_query" /\ Cur.sql => cnt \in srv.work
    /\ pc = "release" /\ Cur.sql => cnt \in srv.spWork
    /\ \A n \in 1 .. cnt :
         log[n].kind = "query" /\ log[n].tx = curTx /\ curTx # 0 /\ log[n].sql
           /\ log[n].out = "ok" => n \in srv.work

(* What became durable, and by which answer.                                *)
Persists == {"ok", "commit_unknown"}
Settled(c) == log[c].kind \in {"commit", "rollback"} /\ log[c].out # "running"

DbInv ==
  \A n \in db :
    /\ log[n].kind = "query" /\ log[n].write /\ log[n].out \in Persists
    /\ log[n].tx # 0 =>
         \E c \in 1 .. cnt : /\ log[c].kind = "commit" /\ log[c].out \in Persists
                             /\ log[c].tx = log[n].tx

(* A transaction is settled once: by one commit, one rollback or not at all. *)
OnceInv ==
  /\ \A c \in 1 .. cnt : Settled(c) /\ log[c].tx # 0 => log[c].tx # curTx
  /\ \A c, d \in 1 .. cnt :
       Settled(c) /\ Settled(d) /\ log[c].tx = log[d].tx /\ log[c].tx # 0 => c = d

HistoryInv == DbInv /\ OnceInv /\ SuccessTruth /\ TxAtomic

TxInv == LogInv /\ PcInv /\ ErrInv /\ SrvInv /\ WorkInv /\ HistoryInv

LEMMA InitTx == Init => TxInv
<1> SUFFICES ASSUME Init PROVE TxInv
  OBVIOUS
<1>1. NoOp \in Op /\ NoOp.kind = "none" /\ NoOp.tx = 0 /\ ~NoOp.sql
  BY TxConstants DEF NoOp, Op, Outcomes
<1>2. LogInv
  BY <1>1, TxConstants DEF Init, LogInv, Shaped
<1>3. PcInv /\ ErrInv
  BY DEF Init, PcInv, ErrInv, Pcs, Past, InBlock, Alone, Explicit
<1>4. SrvInv /\ WorkInv
  BY DEF Init, SrvInv, WorkInv, Open, Gone, SrvStates
<1>5. HistoryInv
  BY DEF Init, HistoryInv, DbInv, OnceInv, SuccessTruth, TxAtomic, Writes, Queries
<1> QED
  BY <1>2, <1>3, <1>4, <1>5 DEF TxInv

-----------------------------------------------------------------------------
(* What the shared parts of the actions do, without the flags of a cancel.  *)

LEMMA ReportMeans ==
  ASSUME NEW out, Report(out)
  PROVE  /\ log' = [log EXCEPT ![cnt].out = Terminal(out)]
         /\ pc' = "idle" /\ cnt' = cnt
  BY DEF Report

LEMMA FailMeans ==
  ASSUME NEW e, NEW next, Fail(e, next)
  PROVE  err' = e /\ pc' = next /\ log' = log /\ cnt' = cnt
  BY DEF Fail, Goto

LEMMA TerminalMeans ==
  ASSUME NEW out
  PROVE  /\ Cur.kind = "info" => Terminal(out) = "ok"
         /\ Cur.kind # "info" /\ out \in Errors => Terminal(out) \in {"failed", "cancelled"}
         /\ Cur.kind # "info" /\ out \notin Errors => Terminal(out) = out
  BY DEF Terminal

LEMMA GoneMeans ==
  /\ Gone \in SrvStates /\ Gone.st = "gone" /\ Gone.work = {} /\ Gone.spWork = {}
  /\ Idle \in SrvStates /\ Idle.st = "idle" /\ Idle.work = {} /\ Idle.spWork = {}
  BY DEF Gone, Idle, SrvStates

LEMMA AbortedMeans ==
  ASSUME srv \in SrvStates
  PROVE  /\ Aborted(srv) \in SrvStates
         /\ Aborted(srv).st = IF srv.st = "idle" THEN "idle" ELSE "aborted"
         /\ Aborted(srv).ro = srv.ro
         /\ Aborted(srv).work = srv.work /\ Aborted(srv).spWork = srv.spWork
  BY DEF Aborted, SrvStates

LEMMA InTxMeans ==
  ASSUME NEW ro \in BOOLEAN
  PROVE  /\ InTx(ro) \in SrvStates /\ InTx(ro).st = "tx" /\ InTx(ro).ro = ro
         /\ InTx(ro).work = {} /\ InTx(ro).spWork = {}
  BY DEF InTx, SrvStates

(* The two ways the work of a query joins its transaction.                  *)
LEMMA WithWorkMeans ==
  ASSUME srv \in SrvStates, cnt \in 1 .. MaxOps, Wrote,
         srv.work \subseteq 1 .. cnt, srv.spWork \subseteq 1 .. cnt
  PROVE  /\ WithWork \in SrvStates /\ WithWork.st = srv.st /\ WithWork.ro = srv.ro
         /\ WithWork.work \subseteq 1 .. cnt /\ WithWork.spWork \subseteq 1 .. cnt
         /\ Explicit => /\ WithWork.work = srv.work
                        /\ WithWork.spWork = srv.spWork \cup {cnt}
         /\ ~Explicit => /\ WithWork.work = srv.work \cup {cnt}
                         /\ WithWork.spWork = srv.spWork
<1>1. CASE Explicit
  <2>1. WithWork = [srv EXCEPT !.spWork = srv.spWork \cup {cnt}]
    BY <1>1 DEF WithWork
  <2> QED
    BY <1>1, <2>1 DEF SrvStates
<1>2. CASE ~Explicit
  <2>1. WithWork = [srv EXCEPT !.work = srv.work \cup {cnt}]
    BY <1>2 DEF WithWork
  <2> QED
    BY <1>2, <2>1 DEF SrvStates
<1> QED
  BY <1>1, <1>2


-----------------------------------------------------------------------------
(* What the kinds of step do to the log and to what was made durable.       *)

LEMMA LogKept ==
  ASSUME TxInv, log' = log, cnt' = cnt, db' = db, pc # "idle" \/ pc' = "idle",
         curTx' = curTx \/ (pc # "idle" /\ curTx' = cnt)
  PROVE  LogInv' /\ HistoryInv'
<1>1. LogInv'
  BY DEF TxInv, LogInv, Shaped
<1>2. DbInv' /\ SuccessTruth' /\ TxAtomic'
  <2>1. DbInv'
    BY DEF TxInv, HistoryInv, DbInv
  <2>2. Queries' = Queries /\ Writes(0)' = Writes(0)
    BY DEF Writes, Queries
  <2>3. SuccessTruth' /\ TxAtomic'
    BY <2>2 DEF TxInv, HistoryInv, SuccessTruth, TxAtomic
  <2> QED
    BY <2>1, <2>3
<1>3. OnceInv'
  <2>1. \A c \in 1 .. cnt : Settled(c) /\ log[c].tx # 0 => log[c].tx # curTx'
    BY TxConstants DEF TxInv, HistoryInv, OnceInv, LogInv, Op
  <2> QED
    BY <2>1 DEF TxInv, HistoryInv, OnceInv, Settled
<1> QED
  BY <1>1, <1>2, <1>3 DEF HistoryInv

LEMMA EntriesKept ==
  ASSUME LogInv, NEW t \in Outcomes, cnt \in 1 .. MaxOps,
         log' = [log EXCEPT ![cnt].out = t]
  PROVE  /\ log' \in [1 .. MaxOps -> Op]
         /\ \A n \in 1 .. MaxOps :
              /\ log'[n].kind = log[n].kind /\ log'[n].write = log[n].write
              /\ log'[n].sql = log[n].sql /\ log'[n].tx = log[n].tx
              /\ log'[n].out = IF n = cnt THEN t ELSE log[n].out
<1> DEFINE o == [log[cnt] EXCEPT !.out = t]
<1>1. log[cnt] \in Op
  BY DEF LogInv
<1>2. o \in Op /\ o.kind = log[cnt].kind /\ o.write = log[cnt].write
        /\ o.sql = log[cnt].sql /\ o.tx = log[cnt].tx /\ o.out = t
  BY <1>1 DEF Op
<1>3. log' = [log EXCEPT ![cnt] = o]
  OBVIOUS
<1> HIDE DEF o
<1> QED
  BY <1>2, <1>3 DEF LogInv

LEMMA LogAnswered ==
  ASSUME TxInv, NEW t \in Outcomes \ {"running"}, pc # "idle", pc' = "idle", cnt' = cnt,
         log' = [log EXCEPT ![cnt].out = t], db' = db,
         curTx' \in {0, curTx},
         (t = "ok" /\ Cur.kind = "query") => Cur.tx # 0 \/ ~Cur.sql,
         Cur.kind \in {"commit", "rollback"} => curTx' = 0
  PROVE  LogInv' /\ HistoryInv'
<1>1. cnt \in 1 .. MaxOps /\ log[cnt].out = "running" /\ db \subseteq 1 .. cnt
  BY DEF TxInv, LogInv
<1>2. /\ log' \in [1 .. MaxOps -> Op]
      /\ \A n \in 1 .. MaxOps :
           /\ log'[n].kind = log[n].kind /\ log'[n].write = log[n].write
           /\ log'[n].sql = log[n].sql /\ log'[n].tx = log[n].tx
           /\ log'[n].out = IF n = cnt THEN t ELSE log[n].out
  BY <1>1, EntriesKept DEF TxInv
<1>3. cnt \notin db
  BY <1>1 DEF TxInv, HistoryInv, DbInv, Persists
<1>4. LogInv'
  BY <1>1, <1>2 DEF TxInv, LogInv, Shaped
<1>5. (Cur.kind \in {"commit", "rollback", "query"}) => Cur.tx = curTx
  BY DEF TxInv, PcInv
<1>6. DbInv'
  <2> SUFFICES ASSUME NEW n \in db
      PROVE  /\ log'[n].kind = "query" /\ log'[n].write /\ log'[n].out \in Persists
             /\ log'[n].tx # 0 =>
                  \E c \in 1 .. cnt : /\ log'[c].kind = "commit" /\ log'[c].out \in Persists
                                      /\ log'[c].tx = log'[n].tx
    BY DEF DbInv
  <2>1. n \in 1 .. MaxOps /\ n # cnt
    BY <1>1, <1>3, TxConstants
  <2>2. log'[n].kind = "query" /\ log'[n].write /\ log'[n].out \in Persists
    BY <1>2, <2>1 DEF TxInv, HistoryInv, DbInv
  <2>3. ASSUME log'[n].tx # 0
        PROVE  \E c \in 1 .. cnt : /\ log'[c].kind = "commit" /\ log'[c].out \in Persists
                                   /\ log'[c].tx = log'[n].tx
    <3>1. PICK c \in 1 .. cnt : /\ log[c].kind = "commit" /\ log[c].out \in Persists
                                /\ log[c].tx = log[n].tx
      BY <1>2, <2>1, <2>3 DEF TxInv, HistoryInv, DbInv
    <3>2. c \in 1 .. MaxOps /\ c # cnt
      BY <1>1, <3>1, TxConstants DEF Persists
    <3> QED
      BY <1>2, <2>1, <3>1, <3>2
  <2> QED
    BY <2>2, <2>3
<1>7. OnceInv'
  <2>1. \A c \in 1 .. cnt : Settled(c)' <=> Settled(c) \/ (c = cnt /\ Cur.kind \in {"commit", "rollback"})
    BY <1>1, <1>2 DEF Settled, Cur
  <2>2. \A c \in 1 .. cnt : Settled(c) /\ log[c].tx # 0 => log[c].tx # curTx
    BY DEF TxInv, HistoryInv, OnceInv
  <2>3. \A c \in 1 .. cnt : log'[c].tx = log[c].tx
    BY <1>1, <1>2
  <2>4. \A c \in 1 .. cnt : Settled(c)' /\ log'[c].tx # 0 => log'[c].tx # curTx'
    BY <2>1, <2>2, <2>3, <1>5 DEF Cur
  <2>5. \A c, d \in 1 .. cnt :
          Settled(c)' /\ Settled(d)' /\ log'[c].tx = log'[d].tx /\ log'[c].tx # 0 => c = d
    BY <2>1, <2>2, <2>3, <1>5 DEF Cur, TxInv, HistoryInv, OnceInv
  <2> QED
    BY <2>4, <2>5 DEF OnceInv
<1>8. SuccessTruth'
  BY <1>1, <1>2 DEF TxInv, HistoryInv, SuccessTruth, Writes, Queries, Cur
<1>9. TxAtomic'
  <2> SUFFICES ASSUME NEW m \in Queries', NEW n \in Queries',
               log'[m].tx # 0, log'[m].tx = log'[n].tx, log'[n].sql, log'[n].out = "ok",
               m \in db
      PROVE  n \in db
    BY DEF TxAtomic
  <2>1. m \in Queries /\ n \in Queries /\ m \in 1 .. MaxOps /\ n \in 1 .. MaxOps
    BY <1>1, <1>2, TxConstants DEF Queries
  <2>2. CASE n # cnt
    BY <1>2, <2>1, <2>2 DEF TxInv, HistoryInv, TxAtomic
  <2>3. CASE n = cnt
    <3>1. log[m].tx = curTx /\ log[m].tx # 0
      BY <1>2, <1>5, <2>1, <2>3 DEF Queries, Cur
    <3>2. PICK c \in 1 .. cnt : /\ log[c].kind = "commit" /\ log[c].out \in Persists
                                /\ log[c].tx = log[m].tx
      BY <3>1 DEF TxInv, HistoryInv, DbInv
    <3>3. Settled(c)
      BY <3>2 DEF Settled, Persists
    <3> QED
      BY <3>1, <3>2, <3>3 DEF TxInv, HistoryInv, OnceInv
  <2> QED
    BY <2>2, <2>3
<1> QED
  BY <1>4, <1>6, <1>7, <1>8, <1>9 DEF HistoryInv

-----------------------------------------------------------------------------
(* What the kinds of step do to the open transaction.                       *)

Closed == srv' \in {Gone, Idle} \/ (srv' = srv /\ srv.st = "gone")

LEMMA NotOpen ==
  ASSUME TxInv, Closed, pc' # "commit_query" \/ srv' # Idle \/ ~Cur'.sql
  PROVE  SrvInv' /\ WorkInv'
<1>1. /\ srv' \in SrvStates /\ srv'.work = {} /\ srv'.spWork = {}
      /\ srv'.st \in {"idle", "gone"} /\ (srv' # Idle => srv'.st = "gone")
  BY GoneMeans DEF TxInv, SrvInv, Closed
<1> QED
  BY <1>1 DEF SrvInv, WorkInv, Open

LEMMA NowAborted ==
  ASSUME TxInv, srv' = Aborted(srv), srv.st # "gone", cnt' = cnt, explicitTx' = explicitTx,
         pc' \notin {"rollback_to", "commit_query"}
  PROVE  SrvInv' /\ WorkInv'
<1>1. srv \in SrvStates
  BY DEF TxInv, SrvInv
<1>2. srv'.st \in {"idle", "aborted"}
  BY <1>1, AbortedMeans
<1>3. WorkInv'
  BY <1>2 DEF WorkInv, Open
<1>4. SrvInv'
  <2>1. /\ srv' \in SrvStates /\ srv'.ro = srv.ro
        /\ srv'.work = srv.work /\ srv'.spWork = srv.spWork
        /\ srv'.st = "idle" => srv.st = "idle"
    BY <1>1, AbortedMeans
  <2>2. /\ srv.work \subseteq 1 .. cnt /\ srv.spWork \subseteq 1 .. cnt
        /\ srv.st = "idle" => srv.work = {} /\ srv.spWork = {}
    BY DEF TxInv, SrvInv
  <2>3. srv'.st = "aborted" /\ explicitTx' = 2 => srv'.ro
    <3>1. srv'.st = "aborted" => srv.st \in {"tx", "aborted"}
      BY <1>1, AbortedMeans DEF SrvStates
    <3> QED
      BY <2>1, <3>1 DEF TxInv, SrvInv
  <2> QED
    BY <1>2, <2>1, <2>2, <2>3 DEF SrvInv
<1> QED
  BY <1>3, <1>4

Working == {"release", "rollback_to", "commit_query", "rollback_query", "body"}

LEMMA WorkMoves ==
  ASSUME TxInv, log' = log, cnt' = cnt, srv' = srv, curTx' = curTx, explicitTx' = explicitTx,
         pc \notin Working, pc' \notin {"commit_query", "release", "rollback_to"}
  PROVE  SrvInv' /\ WorkInv'
<1>1. SrvInv'
  <2>1. srv.st = "tx" => explicitTx \in {1, 2}
    BY DEF TxInv, SrvInv, Working, Explicit
  <2> QED
    BY <2>1 DEF TxInv, SrvInv, Explicit
<1>2. Open' => Open
  BY DEF Open, TxInv, SrvInv, Working
<1>3. WorkInv'
  BY <1>2 DEF TxInv, WorkInv, Working
<1> QED
  BY <1>1, <1>3

LEMMA WorkAnswered ==
  ASSUME TxInv, NEW t \in Outcomes \ {"running"}, pc # "idle", pc' = "idle", cnt' = cnt,
         log' = [log EXCEPT ![cnt].out = t],
         srv' = srv, curTx' = curTx, explicitTx' = explicitTx,
         pc \notin Working, t # "ok" \/ Cur.kind # "query"
  PROVE  SrvInv' /\ WorkInv'
<1>1. cnt \in 1 .. MaxOps /\ log[cnt].out = "running"
  BY DEF TxInv, LogInv
<1>2. /\ log' \in [1 .. MaxOps -> Op]
      /\ \A n \in 1 .. MaxOps :
           /\ log'[n].kind = log[n].kind /\ log'[n].write = log[n].write
           /\ log'[n].sql = log[n].sql /\ log'[n].tx = log[n].tx
           /\ log'[n].out = IF n = cnt THEN t ELSE log[n].out
  BY <1>1, EntriesKept DEF TxInv
<1>3. SrvInv'
  BY DEF TxInv, SrvInv, Working, Explicit
<1>4. WorkInv'
  <2> SUFFICES ASSUME srv.st = "tx" PROVE WorkInv'
    BY DEF WorkInv, Open
  <2>1. /\ \A n \in srv.work : /\ n \in 1 .. cnt /\ log[n].kind = "query" /\ log[n].write
                               /\ log[n].tx = curTx /\ log[n].out = "ok"
        /\ srv.spWork = {}
        /\ \A n \in 1 .. cnt :
             log[n].kind = "query" /\ log[n].tx = curTx /\ curTx # 0 /\ log[n].sql
               /\ log[n].out = "ok" => n \in srv.work
    BY DEF TxInv, SrvInv, WorkInv, Open, Working
  <2> QED
    BY <1>1, <1>2, <2>1 DEF WorkInv, Cur
<1> QED
  BY <1>3, <1>4

LEMMA Rests ==
  ASSUME TxInv, pc' = "idle", explicitTx' \in 0 .. 3, explicitTx' = 0 <=> curTx' = 0
  PROVE  PcInv' /\ ErrInv'
  BY DEF PcInv, ErrInv, Pcs, Past, InBlock, Alone

LEMMA Means ==
  /\ Undisturbed =>
       /\ explicitTx' = explicitTx /\ conn' = conn /\ backend' = backend
       /\ srv' = srv /\ db' = db /\ curTx' = curTx /\ txBackend' = txBackend
  /\ UNCHANGED session =>
       explicitTx' = explicitTx /\ conn' = conn /\ backend' = backend
  /\ UNCHANGED history => curTx' = curTx /\ txBackend' = txBackend
  /\ DropClient => conn' = "none" /\ srv' = Gone /\ backend' = backend
  BY DEF Undisturbed, session, history, DropClient

-----------------------------------------------------------------------------
(* The worker's own steps.                                                  *)

LEMMA StartStep ==
  ASSUME TxInv, NEW kind \in AllKinds, Start(kind)
  PROVE  TxInv'
<1>1. /\ pc = "idle" /\ cnt < MaxOps /\ cnt' = cnt + 1
      /\ pc' = IF kind = "begin" THEN "begin_op" ELSE kind
      /\ explicitTx' = explicitTx /\ srv' = srv /\ db' = db /\ curTx' = curTx
  BY Means DEF Start
<1>2. PICK o : /\ o \in Op /\ log' = [log EXCEPT ![cnt + 1] = o]
               /\ o.kind = kind /\ o.tx = curTx /\ o.out = "running"
               /\ o.kind # "query" => ~o.sql
  <2>1. NoOp \in Op
    BY TxConstants DEF NoOp, Op, Outcomes
  <2>2. curTx \in 0 .. MaxOps
    BY TxConstants DEF TxInv, LogInv
  <2>3. CASE kind = "query"
    <3>1. PICK write \in BOOLEAN, sql \in BOOLEAN : StartQuery(write, sql)
      BY <2>3 DEF Start
    <3> DEFINE o == [NoOp EXCEPT !.kind = "query", !.write = write, !.sql = sql, !.tx = curTx]
    <3>2. log' = [log EXCEPT ![cnt + 1] = o]
      BY <3>1 DEF StartQuery
    <3>3. o \in Op
      BY <2>1, <2>2 DEF Op, AllKinds
    <3>4. o.kind = "query" /\ o.tx = curTx /\ o.out = "running"
      BY DEF NoOp
    <3> QED
      BY <2>3, <3>2, <3>3, <3>4
  <2>4. CASE kind = "begin"
    <3>1. PICK ro \in BOOLEAN :
            log' = [log EXCEPT ![cnt + 1] = [NoOp EXCEPT !.kind = kind, !.ro = ro, !.tx = curTx]]
      BY <2>4 DEF Start
    <3> DEFINE o == [NoOp EXCEPT !.kind = kind, !.ro = ro, !.tx = curTx]
    <3>2. o \in Op
      BY <2>1, <2>2 DEF Op, AllKinds
    <3>3. o.kind = kind /\ o.tx = curTx /\ o.out = "running" /\ ~o.sql
      BY DEF NoOp
    <3> QED
      BY <3>1, <3>2, <3>3
  <2>5. CASE kind \notin {"query", "begin"}
    <3> DEFINE o == [NoOp EXCEPT !.kind = kind, !.tx = curTx]
    <3>1. log' = [log EXCEPT ![cnt + 1] = o]
      BY <2>5 DEF Start
    <3>2. o \in Op
      BY <2>1, <2>2 DEF Op, AllKinds
    <3>3. o.kind = kind /\ o.tx = curTx /\ o.out = "running" /\ ~o.sql
      BY DEF NoOp
    <3> QED
      BY <3>1, <3>2, <3>3
  <2> QED
    BY <2>3, <2>4, <2>5
<1>3. /\ cnt + 1 \in 1 .. MaxOps /\ cnt \in 0 .. MaxOps /\ db \subseteq 1 .. cnt
      /\ curTx \in 0 .. cnt
      /\ log' \in [1 .. MaxOps -> Op] /\ log'[cnt + 1] = o
      /\ \A n \in 1 .. MaxOps : n # cnt + 1 => log'[n] = log[n]
  BY <1>1, <1>2, TxConstants DEF TxInv, LogInv
<1>4. LogInv'
  <2>1. \A n \in 1 .. MaxOps : log'[n].tx < n /\ Shaped(log'[n])
    BY <1>2, <1>3, TxConstants DEF TxInv, LogInv, Shaped
  <2> QED
    BY <1>1, <1>2, <1>3, <2>1, TxConstants DEF LogInv
<1>5. PcInv' /\ ErrInv'
  BY <1>1, <1>2, <1>3 DEF TxInv, PcInv, ErrInv, Pcs, Past, InBlock, Alone, Cur,
     AllKinds, Explicit
<1>6. SrvInv'
  BY <1>1, <1>2, <1>3 DEF TxInv, SrvInv, Explicit, AllKinds
<1>7. WorkInv'
  <2> SUFFICES ASSUME srv.st = "tx" PROVE WorkInv'
    BY <1>1 DEF WorkInv, Open, AllKinds
  <2>1. /\ \A n \in srv.work : /\ n \in 1 .. cnt /\ log[n].kind = "query" /\ log[n].write
                               /\ log[n].tx = curTx /\ log[n].out = "ok"
        /\ srv.spWork = {}
        /\ \A n \in 1 .. cnt :
             log[n].kind = "query" /\ log[n].tx = curTx /\ curTx # 0 /\ log[n].sql
               /\ log[n].out = "ok" => n \in srv.work
    BY <1>1 DEF TxInv, SrvInv, WorkInv, Open
  <2>2. pc' \notin {"commit_query", "release"}
    BY <1>1 DEF AllKinds
  <2>3. \A n \in 1 .. cnt : n \in 1 .. MaxOps /\ n # cnt + 1
    BY <1>3, TxConstants
  <2>4. \A n \in 1 .. cnt + 1 : n # cnt + 1 => n \in 1 .. cnt
    BY <1>3, TxConstants
  <2> QED
    BY <1>1, <1>2, <1>3, <2>1, <2>2, <2>3, <2>4 DEF WorkInv
<1>8. HistoryInv'
  <2>1. \A n \in 1 .. cnt : n \in 1 .. MaxOps /\ n # cnt + 1 /\ log'[n] = log[n] /\ n \in 1 .. cnt + 1
    BY <1>3, TxConstants
  <2>2. \A n \in 1 .. cnt + 1 : n # cnt + 1 => n \in 1 .. cnt
    BY <1>3, TxConstants
  <2>3. DbInv'
    BY <1>1, <1>3, <2>1 DEF TxInv, HistoryInv, DbInv
  <2>4. OnceInv'
    <3>1. \A c \in 1 .. cnt + 1 : Settled(c)' <=> c # cnt + 1 /\ Settled(c)
      BY <1>2, <1>3, <2>1, <2>2 DEF Settled
    <3> QED
      BY <1>1, <2>1, <2>2, <3>1 DEF TxInv, HistoryInv, OnceInv
  <2>5. SuccessTruth'
    BY <1>1, <1>2, <1>3, <2>1, <2>2
       DEF TxInv, HistoryInv, SuccessTruth, Writes, Queries
  <2>6. TxAtomic'
    <3> SUFFICES ASSUME NEW m \in Queries', NEW n \in Queries',
                 log'[m].tx # 0, log'[m].tx = log'[n].tx, log'[n].sql, log'[n].out = "ok",
                 m \in db
        PROVE  n \in db
      BY <1>1 DEF TxAtomic
    <3>1. n # cnt + 1 /\ m # cnt + 1
      BY <1>2, <1>3, <2>1
    <3>2. m \in Queries /\ n \in Queries /\ log'[m] = log[m] /\ log'[n] = log[n]
      BY <1>1, <2>1, <2>2, <3>1 DEF Queries
    <3> QED
      BY <3>2 DEF TxInv, HistoryInv, TxAtomic
  <2> QED
    BY <2>3, <2>4, <2>5, <2>6 DEF HistoryInv
<1> QED
  BY <1>4, <1>5, <1>6, <1>7, <1>8 DEF TxInv

(* An answer that leaves the backend as it is, and one that loses it or ends *)
(* its transaction without making anything durable.                         *)
Said == (Outcomes \cup Errors) \ {"running"}

LEMMA TerminalOutcome ==
  ASSUME NEW out \in Said
  PROVE  /\ Terminal(out) \in Outcomes \ {"running"}
         /\ (Cur.kind = "query" /\ out # "ok") => Terminal(out) # "ok"
  BY TerminalMeans DEF Said, Outcomes, Errors

LEMMA Answered ==
  ASSUME TxInv, pc # "idle", NEW out \in Said, Report(out),
         explicitTx' = explicitTx, srv' = srv, db' = db, curTx' = curTx,
         pc \notin Working, out # "ok" \/ Cur.kind # "query",
         Cur.kind \notin {"commit", "rollback"} \/ explicitTx = 0
  PROVE  TxInv'
<1> DEFINE t == Terminal(out)
<1>1. t \in Outcomes \ {"running"} /\ (t # "ok" \/ Cur.kind # "query")
  BY TerminalOutcome
<1>2. log' = [log EXCEPT ![cnt].out = t] /\ pc' = "idle" /\ cnt' = cnt
  BY ReportMeans
<1>3. explicitTx \in 0 .. 3 /\ (explicitTx = 0 <=> curTx = 0)
  BY DEF TxInv, PcInv
<1> HIDE DEF t
<1>4. LogInv' /\ HistoryInv'
  BY <1>1, <1>2, <1>3, LogAnswered
<1>5. SrvInv' /\ WorkInv'
  BY <1>1, <1>2, WorkAnswered
<1>6. PcInv' /\ ErrInv'
  BY <1>2, <1>3, Rests
<1> QED
  BY <1>4, <1>5, <1>6 DEF TxInv

LEMMA AnsweredAfterLoss ==
  ASSUME TxInv, pc # "idle", NEW out \in Said, Report(out),
         Closed, db' = db, curTx' \in {0, curTx},
         explicitTx' \in 0 .. 3, explicitTx' = 0 <=> curTx' = 0,
         out # "ok" \/ Cur.kind # "query" \/ ~Cur.sql,
         Cur.kind \notin {"commit", "rollback"} \/ curTx' = 0
  PROVE  TxInv'
<1> DEFINE t == Terminal(out)
<1>1. t \in Outcomes \ {"running"} /\ (t # "ok" \/ Cur.kind # "query" \/ ~Cur.sql)
  BY TerminalOutcome
<1>2. log' = [log EXCEPT ![cnt].out = t] /\ pc' = "idle" /\ cnt' = cnt
  BY ReportMeans
<1> HIDE DEF t
<1>4. LogInv' /\ HistoryInv'
  BY <1>1, <1>2, LogAnswered
<1>5. SrvInv' /\ WorkInv'
  BY <1>2, NotOpen
<1>6. PcInv' /\ ErrInv'
  BY <1>2, Rests
<1> QED
  BY <1>4, <1>5, <1>6 DEF TxInv

(* A step to another check of the same operation.                           *)
LEMMA Proceeds ==
  ASSUME TxInv, pc # "idle", log' = log, cnt' = cnt, db' = db,
         explicitTx' = explicitTx, srv' = srv, curTx' = curTx,
         pc \notin Working, pc' \notin {"commit_query", "release", "rollback_to"},
         PcInv', ErrInv'
  PROVE  TxInv'
<1>1. LogInv' /\ HistoryInv'
  BY LogKept
<1>2. SrvInv' /\ WorkInv'
  BY WorkMoves
<1> QED
  BY <1>1, <1>2 DEF TxInv

(* No transaction is open after it.                                         *)
LEMMA ProceedsClosed ==
  ASSUME TxInv, pc # "idle", log' = log, cnt' = cnt, db' = db,
         explicitTx' = explicitTx, curTx' = curTx,
         \/ Closed /\ (pc' # "commit_query" \/ srv' # Idle \/ ~Cur.sql)
         \/ srv' = Aborted(srv) /\ srv.st # "gone" /\ pc' \notin {"rollback_to", "commit_query"},
         PcInv', ErrInv'
  PROVE  TxInv'
<1>1. LogInv' /\ HistoryInv'
  BY LogKept
<1>2. Cur' = Cur
  BY DEF Cur
<1>3. SrvInv' /\ WorkInv'
  BY <1>2, NotOpen, NowAborted
<1> QED
  BY <1>1, <1>3 DEF TxInv

-----------------------------------------------------------------------------
(* execute / execute_streaming up to the first statement.                   *)

LEMMA QueryStep == ASSUME TxInv, Query PROVE TxInv'
<1> USE Means DEF Closed
<1>1. CASE RejectQuery
  <2>1. Cur.kind = "query"
    BY <1>1 DEF RejectQuery, TxInv, PcInv
  <2> QED
    BY <1>1, <2>1, Answered DEF RejectQuery, Said, Errors, Working
<1>2. CASE FailLostTx
  <2>1. Cur.kind = "query" /\ curTx # 0
    BY <1>2 DEF FailLostTx, TxInv, PcInv, Explicit
  <2>2. pc # "idle" /\ Report("error") /\ srv' = Gone /\ db' = db
          /\ curTx' = curTx /\ explicitTx' = 3
    BY <1>2 DEF FailLostTx
  <2> QED
    BY <2>1, <2>2, AnsweredAfterLoss DEF Said, Errors
<1>3. CASE AdmitQuery
  <2>1. /\ pc = "query" /\ Cur.kind = "query" /\ explicitTx # 3
        /\ ~(explicitTx = 1 /\ ~Cur.write)
        /\ pc' = "connect" /\ log' = log /\ cnt' = cnt /\ db' = db
        /\ explicitTx' = explicitTx /\ srv' = srv /\ curTx' = curTx
    BY <1>3 DEF AdmitQuery, Goto, TxInv, PcInv
  <2>2. PcInv' /\ ErrInv'
    BY <2>1 DEF TxInv, PcInv, ErrInv, Pcs, Past, InBlock, Alone, Cur
  <2> QED
    BY <2>1, <2>2, Proceeds DEF Working
<1>4. CASE Info
  <2>1. pc = "info" /\ Cur.kind = "info"
    BY <1>4 DEF Info, TxInv, PcInv
  <2>2. CASE Explicit \/ explicitTx = 3
    BY <1>4, <2>1, <2>2, Answered DEF Info, Said, Outcomes, Working
  <2>3. CASE ~(Explicit \/ explicitTx = 3)
    <3>1. /\ explicitTx = 0 /\ pc' = "connect" /\ log' = log /\ cnt' = cnt /\ db' = db
          /\ explicitTx' = explicitTx /\ srv' = srv /\ curTx' = curTx
      BY <1>4, <2>3 DEF Info, Goto, TxInv, PcInv, Explicit
    <3>2. PcInv' /\ ErrInv'
      BY <2>1, <3>1 DEF TxInv, PcInv, ErrInv, Pcs, Past, InBlock, Alone, Cur
    <3> QED
      BY <2>1, <3>1, <3>2, Proceeds DEF Working
  <2> QED
    BY <2>2, <2>3
<1>5. CASE KeepConnection
  <2>1. /\ pc = "connect" /\ pc' = AfterConnect /\ log' = log /\ cnt' = cnt /\ db' = db
        /\ explicitTx' = explicitTx /\ srv' = srv /\ curTx' = curTx
    BY <1>5 DEF KeepConnection, Goto
  <2>2. PcInv' /\ ErrInv'
    BY <2>1 DEF TxInv, PcInv, ErrInv, Pcs, Past, InBlock, Alone, Cur, AfterConnect
  <2> QED
    BY <2>1, <2>2, Proceeds DEF Working, AfterConnect
<1>6. CASE OpenConnection
  <2>1. /\ pc = "connect" /\ pc' = AfterConnect /\ log' = log /\ cnt' = cnt /\ db' = db
        /\ explicitTx' = explicitTx /\ srv' = Idle /\ curTx' = curTx
    BY <1>6 DEF OpenConnection, Goto
  <2>2. PcInv' /\ ErrInv'
    BY <2>1 DEF TxInv, PcInv, ErrInv, Pcs, Past, InBlock, Alone, Cur, AfterConnect
  <2> QED
    BY <2>1, <2>2, ProceedsClosed DEF AfterConnect
<1>7. CASE ConnectFails
  <2>1. /\ pc # "idle" /\ Report("error") /\ srv' = Gone /\ db' = db
        /\ curTx' = curTx /\ explicitTx' = explicitTx
    BY <1>7 DEF ConnectFails
  <2>2. /\ Cur.kind \notin {"commit", "rollback"} /\ explicitTx \in 0 .. 3
        /\ explicitTx = 0 <=> curTx = 0
    BY <1>7 DEF ConnectFails, TxInv, PcInv
  <2> QED
    BY <2>1, <2>2, AnsweredAfterLoss DEF Said, Errors
<1>8. CASE CheckCancel
  <2>1. pc = "context" /\ Cur.kind \in {"query", "info"}
    BY <1>8 DEF CheckCancel, TxInv, PcInv, Past
  <2>2. /\ explicitTx' = explicitTx /\ srv' = srv /\ db' = db /\ curTx' = curTx
        /\ \/ Report("cancelled")
           \/ Goto(IF Explicit THEN "savepoint" ELSE "begin")
    BY <1>8 DEF CheckCancel
  <2>3. CASE Report("cancelled")
    BY <2>1, <2>2, <2>3, Answered DEF Said, Outcomes, Working
  <2>4. CASE Goto(IF Explicit THEN "savepoint" ELSE "begin")
    <3>1. log' = log /\ cnt' = cnt /\ pc' = IF Explicit THEN "savepoint" ELSE "begin"
      BY <2>4 DEF Goto
    <3>2. PcInv' /\ ErrInv'
      BY <2>1, <2>2, <3>1 DEF TxInv, PcInv, ErrInv, Pcs, Past, InBlock, Alone, Cur,
         Explicit
    <3> QED
      BY <2>1, <2>2, <3>1, <3>2, Proceeds DEF Working
  <2> QED
    BY <2>2, <2>3, <2>4
<1>9. CASE Settle
  <2>1. pc = "settle" /\ Cur.kind \in {"query", "info"} /\ err \in Errors /\ explicitTx # 3
    BY <1>9 DEF Settle, TxInv, PcInv, ErrInv, Past
  <2>2. err \in Said /\ err # "ok"
    BY <2>1 DEF Said, Errors
  <2>3. CASE DropsConnection(err)
    <3>1. /\ Report(err) /\ srv' = Gone /\ db' = db /\ curTx' = curTx
          /\ explicitTx' = IF Explicit THEN 3 ELSE explicitTx
      BY <1>9, <2>3 DEF Settle
    <3>2. explicitTx' \in 0 .. 3 /\ (explicitTx' = 0 <=> curTx' = 0)
      BY <3>1 DEF TxInv, PcInv, Explicit
    <3> QED
      BY <2>1, <2>2, <3>1, <3>2, AnsweredAfterLoss
  <2>4. CASE ~DropsConnection(err)
    <3>1. /\ Report(err) /\ srv' = srv /\ db' = db /\ curTx' = curTx
          /\ explicitTx' = explicitTx
      BY <1>9, <2>4 DEF Settle
    <3> QED
      BY <2>1, <2>2, <3>1, Answered DEF Working
  <2> QED
    BY <2>3, <2>4
<1> QED
  BY <1>1, <1>2, <1>3, <1>4, <1>5, <1>6, <1>7, <1>8, <1>9 DEF Query

-----------------------------------------------------------------------------
(* One statement at a time.                                                 *)

(* Every statement has a backend answer that opens nothing, and a way on.   *)
LEMMA Fails ==
  ASSUME TxInv, NEW e \in Errors, NEW next \in {"settle", "rollback_query"}, Fail(e, next),
         pc \in {"begin", "savepoint", "release", "body"},
         next = "rollback_query" => pc = "body" /\ ~Explicit,
         explicitTx' = explicitTx, db' = db, curTx' = curTx,
         \/ Closed
         \/ srv' = Aborted(srv) /\ srv.st # "gone"
  PROVE  TxInv'
<1>1. err' = e /\ pc' = next /\ log' = log /\ cnt' = cnt
  BY FailMeans
<1>2. ErrInv'
  BY <1>1 DEF ErrInv
<1>3. PcInv'
  BY <1>1 DEF TxInv, PcInv, Pcs, Past, InBlock, Alone, Cur, Explicit
<1> QED
  BY <1>1, <1>2, <1>3, ProceedsClosed

LEMMA BeginStep == ASSUME TxInv, ImplicitBegin PROVE TxInv'
<1> USE Means
<1>1. /\ pc = "begin" /\ db' = db /\ explicitTx' = explicitTx /\ curTx' = curTx
  BY DEF ImplicitBegin
<1>2. CASE srv.st = "idle" /\ srv' = InTx(~Cur.write) /\ Goto("body")
  <2>1. log' = log /\ cnt' = cnt /\ pc' = "body" /\ explicitTx = 0 /\ curTx = 0
    BY <1>1, <1>2 DEF Goto, TxInv, PcInv, Alone
  <2>2. PcInv' /\ ErrInv'
    BY <1>1, <2>1 DEF TxInv, PcInv, ErrInv, Pcs, Past, InBlock, Alone, Cur, Explicit
  <2>3. /\ srv' \in SrvStates /\ srv'.st = "tx" /\ (srv'.ro \/ Cur.write)
        /\ srv'.work = {} /\ srv'.spWork = {}
    <3> DEFINE ro == ~Cur.write
    <3>1. ro \in BOOLEAN /\ (ro \/ Cur.write)
      BY Zenon
    <3> HIDE DEF ro
    <3>2. /\ InTx(ro) \in SrvStates /\ InTx(ro).st = "tx" /\ InTx(ro).ro = ro
          /\ InTx(ro).work = {} /\ InTx(ro).spWork = {}
      BY <3>1, InTxMeans
    <3>3. srv' = InTx(ro)
      BY <1>2 DEF ro
    <3> QED
      BY <3>1, <3>2, <3>3
  <2>4. SrvInv'
    BY <1>1, <2>1, <2>3 DEF SrvInv, Cur
  <2>5. WorkInv'
    BY <1>1, <2>1, <2>3 DEF WorkInv
  <2>6. LogInv' /\ HistoryInv'
    BY <1>1, <2>1, LogKept
  <2> QED
    BY <2>2, <2>4, <2>5, <2>6 DEF TxInv
<1>3. CASE srv.st # "gone" /\ Fail("error", "settle") /\ srv' = Aborted(srv)
  BY <1>1, <1>3, Fails DEF Errors
<1>4. CASE srv.st = "gone" /\ Fail("internal", "settle") /\ srv' = srv
  BY <1>1, <1>4, Fails DEF Errors, Closed
<1> QED
  BY <1>2, <1>3, <1>4 DEF ImplicitBegin

LEMMA SavepointStep == ASSUME TxInv, Savepoint PROVE TxInv'
<1> USE Means
<1>1. /\ pc = "savepoint" /\ db' = db /\ explicitTx' = explicitTx /\ curTx' = curTx
  BY DEF Savepoint
<1>2. CASE srv.st = "tx" /\ Goto("body") /\ srv' = srv
  <2>1. log' = log /\ cnt' = cnt /\ pc' = "body"
    BY <1>1, <1>2 DEF Goto
  <2>2. PcInv' /\ ErrInv'
    BY <1>1, <2>1 DEF TxInv, PcInv, ErrInv, Pcs, Past, InBlock, Alone, Cur, Explicit
  <2> QED
    BY <1>1, <1>2, <2>1, <2>2, Proceeds DEF Working
<1>3. CASE /\ srv.st # "gone" /\ srv' = Aborted(srv)
           /\ \E e \in {"error", "57014"} : Fail(e, "settle")
  BY <1>1, <1>3, Fails DEF Errors
<1>4. CASE srv.st = "gone" /\ Fail("internal", "settle") /\ srv' = srv
  BY <1>1, <1>4, Fails DEF Errors, Closed
<1> QED
  BY <1>2, <1>3, <1>4 DEF Savepoint

(* A body that ran has its work in the transaction, above the savepoint if   *)
(* there is one.  Whatever it does next, the work is its own.                *)
LEMMA BodyWorked ==
  ASSUME TxInv, pc = "body", srv.st = "tx", log' = log, cnt' = cnt, db' = db,
         explicitTx' = explicitTx, curTx' = curTx,
         srv' = WithWork \/ srv' = srv,
         pc' \in IF Explicit THEN {"release", "rollback_to"} ELSE {"commit_query", "rollback_query"},
         (pc' \in {"commit_query", "release"} /\ Cur.sql) => Wrote /\ srv' = WithWork,
         PcInv', ErrInv'
  PROVE  TxInv'
<1>1. LogInv' /\ HistoryInv'
  BY LogKept
<1>2. cnt \in 1 .. MaxOps /\ log[cnt].out = "running" /\ Shaped(log[cnt])
  BY DEF TxInv, LogInv
<1>3. /\ srv \in SrvStates /\ srv.work \subseteq 1 .. cnt /\ srv.spWork = {}
      /\ \A n \in srv.work : /\ log[n].kind = "query" /\ log[n].write
                             /\ log[n].tx = curTx /\ log[n].out = "ok"
      /\ \A n \in 1 .. cnt :
           log[n].kind = "query" /\ log[n].tx = curTx /\ curTx # 0 /\ log[n].sql
             /\ log[n].out = "ok" => n \in srv.work
  BY DEF TxInv, SrvInv, WorkInv, Open
<1>4. Cur.kind \in {"query", "info"} /\ Cur.tx = curTx /\ explicitTx \in {0, 1, 2}
  BY DEF TxInv, PcInv, Past
<1>5. CASE ~(Wrote /\ srv' = WithWork)
  <2>1. srv' = srv /\ ((pc' \in {"commit_query", "release"}) => ~Cur.sql)
    BY <1>5 DEF WithWork
  <2>2. SrvInv'
    BY <1>4, <2>1 DEF TxInv, SrvInv, Explicit
  <2>3. WorkInv'
    BY <1>2, <1>3, <2>1 DEF WorkInv, Cur
  <2> QED
    BY <1>1, <2>2, <2>3 DEF TxInv
<1>6. CASE Wrote /\ srv' = WithWork
  <2>1. /\ WithWork \in SrvStates /\ WithWork.st = "tx" /\ WithWork.ro = srv.ro
        /\ WithWork.work \subseteq 1 .. cnt /\ WithWork.spWork \subseteq 1 .. cnt
        /\ Explicit => WithWork.work = srv.work /\ WithWork.spWork = {cnt}
        /\ ~Explicit => WithWork.work = srv.work \cup {cnt} /\ WithWork.spWork = {}
    BY <1>2, <1>3, <1>6, WithWorkMeans
  <2>2. Cur.kind = "query" /\ Cur.write
    <3>1. Cur.kind = "query" /\ ~srv.ro
      BY <1>2, <1>4, <1>6 DEF Wrote, Shaped, Cur
    <3>2. explicitTx # 2 /\ (explicitTx = 0 => Cur.write)
      BY <3>1 DEF TxInv, SrvInv
    <3>3. explicitTx = 1 => Cur.write
      BY <3>1 DEF TxInv, PcInv, Past
    <3> QED
      BY <1>4, <3>1, <3>2, <3>3
  <2>3. SrvInv'
    BY <1>4, <1>6, <2>1 DEF TxInv, SrvInv, Explicit
  <2>4. WorkInv'
    <3>1. CASE Explicit
      BY <1>2, <1>3, <1>4, <1>6, <2>1, <2>2, <3>1 DEF WorkInv, Cur
    <3>2. CASE ~Explicit
      BY <1>2, <1>3, <1>4, <1>6, <2>1, <2>2, <3>2 DEF WorkInv, Cur
    <3> QED
      BY <3>1, <3>2
  <2> QED
    BY <1>1, <2>3, <2>4 DEF TxInv
<1> QED
  BY <1>5, <1>6

LEMMA BodyStep ==
  ASSUME TxInv, BodySucceeds \/ BodySqlError \/ BodyClientError \/ BodyConnectionLost
                  \/ BodyTruncatedThenFails \/ BodyEndsTransaction
  PROVE  TxInv'
<1> USE Means
<1>1. /\ pc = "body" /\ db' = db /\ explicitTx' = explicitTx /\ curTx' = curTx
  BY DEF BodySucceeds, BodySqlError, BodyClientError, BodyConnectionLost,
     BodyTruncatedThenFails, BodyEndsTransaction
<1>2. /\ Cur.kind \in {"query", "info"} /\ (Explicit <=> explicitTx # 0)
      /\ explicitTx \in {0, 1, 2}
  BY <1>1 DEF TxInv, PcInv, Past, Explicit
<1>3. ASSUME log' = log, cnt' = cnt,
             pc' \in IF Explicit THEN {"release", "rollback_to", "settle"}
                                 ELSE {"commit_query", "rollback_query"}
      PROVE  PcInv'
  BY <1>1, <1>2, <1>3 DEF TxInv, PcInv, Pcs, Past, InBlock, Alone, Cur, Explicit
<1>4. CASE BodySucceeds
  <2>1. /\ log' = log /\ cnt' = cnt /\ pc' = AfterBody(FALSE) /\ srv.st = "tx"
        /\ ~(Cur.sql /\ srv.ro) /\ srv' = WithWork
    BY <1>4 DEF BodySucceeds, Goto
  <2>2. pc' = IF Explicit THEN "release" ELSE "commit_query"
    BY <2>1 DEF AfterBody
  <2>3. PcInv' /\ ErrInv'
    BY <1>3, <2>1, <2>2 DEF ErrInv
  <2>4. Cur.sql => Wrote
    BY <2>1 DEF Wrote
  <2> QED
    BY <1>1, <2>1, <2>2, <2>3, <2>4, BodyWorked
<1>5. CASE BodySqlError
  <2>1. PICK e \in {"error", "57014"} : Fail(e, AfterBody(TRUE))
    BY <1>5 DEF BodySqlError
  <2>2. /\ err' = e /\ pc' = AfterBody(TRUE) /\ log' = log /\ cnt' = cnt
        /\ srv.st = "tx" /\ srv' \in {Aborted(srv), Gone}
    BY <1>5, <2>1, FailMeans DEF BodySqlError
  <2>3. pc' = IF Explicit THEN "rollback_to" ELSE "rollback_query"
    BY <2>2 DEF AfterBody
  <2>4. PcInv' /\ ErrInv'
    BY <1>3, <2>1, <2>2, <2>3 DEF ErrInv, Errors
  <2>5. CASE srv' = Gone \/ ~Explicit
    BY <1>1, <2>2, <2>3, <2>4, <2>5, ProceedsClosed DEF Closed
  <2>6. CASE srv' = Aborted(srv) /\ Explicit
    <3>1. LogInv' /\ HistoryInv'
      BY <1>1, <2>2, LogKept
    <3>2. /\ srv \in SrvStates /\ srv' \in SrvStates /\ srv'.st = "aborted" /\ srv'.ro = srv.ro
          /\ srv'.work = srv.work /\ srv'.spWork = srv.spWork
      BY <2>2, <2>6, AbortedMeans DEF TxInv, SrvInv
    <3>3. SrvInv'
      BY <1>1, <2>2, <2>3, <2>6, <3>2 DEF TxInv, SrvInv
    <3>4. /\ \A n \in srv.work : /\ log[n].kind = "query" /\ log[n].write
                                 /\ log[n].tx = curTx /\ log[n].out = "ok"
          /\ srv.spWork = {}
          /\ \A n \in 1 .. cnt :
               log[n].kind = "query" /\ log[n].tx = curTx /\ curTx # 0 /\ log[n].sql
                 /\ log[n].out = "ok" => n \in srv.work
      BY <1>1, <2>2 DEF TxInv, SrvInv, WorkInv, Open
    <3>5. WorkInv'
      BY <1>1, <2>2, <2>3, <2>6, <3>2, <3>4 DEF WorkInv
    <3> QED
      BY <2>4, <3>1, <3>3, <3>5 DEF TxInv
  <2> QED
    BY <2>2, <2>5, <2>6
<1>6. CASE BodyClientError
  <2>1. /\ srv.st = "tx"
        /\ \/ Fail("error", AfterBody(TRUE)) /\ srv' = srv
           \/ Fail("internal", AfterBody(TRUE)) /\ srv' = WithWork
    BY <1>6 DEF BodyClientError
  <2>2. /\ err' \in {"error", "internal"} /\ pc' = AfterBody(TRUE)
        /\ log' = log /\ cnt' = cnt
    BY <2>1, FailMeans
  <2>3. pc' = IF Explicit THEN "rollback_to" ELSE "rollback_query"
    BY <2>2 DEF AfterBody
  <2>4. PcInv' /\ ErrInv'
    BY <1>3, <2>1, <2>2, <2>3 DEF ErrInv, Errors
  <2> QED
    BY <1>1, <2>1, <2>2, <2>3, <2>4, BodyWorked
<1>7. CASE BodyConnectionLost
  <2>1. /\ err' = "internal" /\ pc' = AfterBody(TRUE) /\ log' = log /\ cnt' = cnt
        /\ srv.st = "gone" /\ srv' = srv
    BY <1>7, FailMeans DEF BodyConnectionLost
  <2>2. pc' = IF Explicit THEN "rollback_to" ELSE "rollback_query"
    BY <2>1 DEF AfterBody
  <2>3. PcInv' /\ ErrInv'
    BY <1>3, <2>1, <2>2 DEF ErrInv, Errors
  <2> QED
    BY <1>1, <2>1, <2>2, <2>3, ProceedsClosed DEF Closed
<1>8. CASE BodyTruncatedThenFails
  <2>1. /\ log' = log /\ cnt' = cnt /\ pc' = "release" /\ Explicit
        /\ srv.st = "tx" /\ srv' = Aborted(srv)
    BY <1>8 DEF BodyTruncatedThenFails, Goto
  <2>2. PcInv' /\ ErrInv'
    BY <1>3, <2>1 DEF ErrInv
  <2> QED
    BY <1>1, <2>1, <2>2, ProceedsClosed
<1>9. CASE BodyEndsTransaction
  <2>1. /\ log' = log /\ cnt' = cnt /\ pc' = AfterBody(FALSE)
        /\ srv.st = "tx" /\ ~Cur.sql
        /\ srv' = Idle \/ (Explicit /\ srv' = Aborted(srv))
    BY <1>9 DEF BodyEndsTransaction, Goto
  <2>2. pc' = IF Explicit THEN "release" ELSE "commit_query"
    BY <2>1 DEF AfterBody
  <2>3. PcInv' /\ ErrInv'
    BY <1>3, <2>1, <2>2 DEF ErrInv
  <2> QED
    BY <1>1, <2>1, <2>2, <2>3, ProceedsClosed DEF Closed
<1> QED
  BY <1>4, <1>5, <1>6, <1>7, <1>8, <1>9

LEMMA RollbackStep == ASSUME TxInv, RollbackQuery \/ RollbackTo PROVE TxInv'
<1> USE Means
<1>1. /\ pc \in {"rollback_query", "rollback_to"} /\ pc' = "settle"
      /\ log' = log /\ cnt' = cnt /\ db' = db /\ explicitTx' = explicitTx /\ curTx' = curTx
      /\ err' = err
  BY DEF RollbackQuery, RollbackTo, Goto
<1>2. PcInv' /\ ErrInv'
  BY <1>1 DEF TxInv, PcInv, ErrInv, Pcs, Past, InBlock, Alone, Cur, Explicit
<1>3. CASE Closed \/ (srv' = Aborted(srv) /\ srv.st # "gone")
  BY <1>1, <1>2, <1>3, ProceedsClosed
<1>4. CASE /\ pc = "rollback_to" /\ srv.st \in {"tx", "aborted"}
           /\ srv' = [srv EXCEPT !.st = "tx", !.spWork = {}]
  <2>1. LogInv' /\ HistoryInv'
    BY <1>1, LogKept
  <2>2. /\ srv' \in SrvStates /\ srv'.st = "tx" /\ srv'.ro = srv.ro
        /\ srv'.work = srv.work /\ srv'.spWork = {}
    BY <1>4 DEF TxInv, SrvInv, SrvStates
  <2>3. Explicit /\ srv.work \subseteq 1 .. cnt
    BY <1>4 DEF TxInv, PcInv, SrvInv, InBlock
  <2>4. SrvInv'
    BY <1>1, <1>4, <2>2, <2>3 DEF TxInv, SrvInv, Explicit
  <2>5. /\ \A n \in srv.work : /\ log[n].kind = "query" /\ log[n].write
                               /\ log[n].tx = curTx /\ log[n].out = "ok"
        /\ \A n \in 1 .. cnt :
             log[n].kind = "query" /\ log[n].tx = curTx /\ curTx # 0 /\ log[n].sql
               /\ log[n].out = "ok" => n \in srv.work
    BY <1>4 DEF TxInv, WorkInv, Open
  <2>6. WorkInv'
    BY <1>1, <2>2, <2>5 DEF WorkInv
  <2> QED
    BY <1>2, <2>1, <2>4, <2>6 DEF TxInv
<1>5. Closed \/ (srv' = Aborted(srv) /\ srv.st # "gone")
        \/ (/\ pc = "rollback_to" /\ srv.st \in {"tx", "aborted"}
            /\ srv' = [srv EXCEPT !.st = "tx", !.spWork = {}])
  BY DEF RollbackQuery, RollbackTo, Closed
<1> QED
  BY <1>3, <1>4, <1>5

(* A COMMIT that persists something reports it, and makes durable what it    *)
(* found in the transaction and nothing else.                               *)
LEMMA Commits ==
  ASSUME TxInv, pc \in {"commit_query", "send_commit"},
         NEW out \in {"ok", "commit_unknown"}, srv.st = "tx", Report(out),
         db' = db \cup srv.work \cup srv.spWork, srv' \in {Idle, Gone},
         explicitTx' = 0, curTx' = 0
  PROVE  TxInv'
<1>1. /\ cnt \in 1 .. MaxOps /\ log[cnt].out = "running" /\ db \subseteq 1 .. cnt
      /\ curTx \in 0 .. cnt /\ srv.work \subseteq 1 .. cnt
  BY DEF TxInv, LogInv, SrvInv
<1>2. /\ Cur.kind \in {"query", "info", "commit"} /\ Cur.tx = curTx
      /\ pc = "commit_query" => curTx = 0 /\ Cur.kind # "commit"
      /\ pc = "send_commit" => curTx # 0 /\ Cur.kind = "commit"
  BY DEF TxInv, PcInv, Past, Alone, Explicit
<1>3. /\ \A n \in srv.work :
           /\ log[n].kind = "query" /\ log[n].write /\ log[n].tx = curTx
           /\ log[n].out = "ok" \/ (n = cnt /\ pc = "commit_query")
      /\ srv.spWork = {}
      /\ pc = "commit_query" /\ Cur.sql => cnt \in srv.work
      /\ \A n \in 1 .. cnt :
           log[n].kind = "query" /\ log[n].tx = curTx /\ curTx # 0 /\ log[n].sql
             /\ log[n].out = "ok" => n \in srv.work
  BY DEF TxInv, WorkInv, Open
<1> DEFINE t == Terminal(out)
<1>4. /\ t \in {"ok", "commit_unknown"} /\ (Cur.kind = "info" => t = "ok")
  BY TerminalMeans DEF Errors
<1>5. log' = [log EXCEPT ![cnt].out = t] /\ pc' = "idle" /\ cnt' = cnt
  BY ReportMeans
<1> HIDE DEF t
<1>6. /\ log' \in [1 .. MaxOps -> Op]
      /\ \A n \in 1 .. MaxOps :
           /\ log'[n].kind = log[n].kind /\ log'[n].write = log[n].write
           /\ log'[n].sql = log[n].sql /\ log'[n].tx = log[n].tx
           /\ log'[n].out = IF n = cnt THEN t ELSE log[n].out
  <2>1. t \in Outcomes
    BY <1>4 DEF Outcomes
  <2> QED
    BY <1>1, <1>5, <2>1, EntriesKept DEF TxInv
<1>7. db' = db \cup srv.work /\ db' \subseteq 1 .. cnt
  BY <1>1, <1>3
<1>8. \A n \in 1 .. cnt : n \in 1 .. MaxOps
  BY <1>1, TxConstants
<1>9. LogInv'
  BY <1>1, <1>5, <1>6, <1>7 DEF TxInv, LogInv, Shaped
<1>10. PcInv' /\ ErrInv'
  BY <1>5, Rests
<1>11. SrvInv' /\ WorkInv'
  BY <1>5, NotOpen DEF Closed
<1>12. cnt \notin db
  BY <1>1 DEF TxInv, HistoryInv, DbInv, Persists
<1>13. DbInv'
  <2> SUFFICES ASSUME NEW n \in db'
      PROVE  /\ log'[n].kind = "query" /\ log'[n].write /\ log'[n].out \in Persists
             /\ log'[n].tx # 0 =>
                  \E c \in 1 .. cnt : /\ log'[c].kind = "commit" /\ log'[c].out \in Persists
                                      /\ log'[c].tx = log'[n].tx
    BY <1>5 DEF DbInv
  <2>1. n \in 1 .. MaxOps
    BY <1>7, <1>8
  <2>2. log'[n].kind = "query" /\ log'[n].write /\ log'[n].out \in Persists
    BY <1>3, <1>4, <1>6, <1>7, <1>12, <2>1 DEF TxInv, HistoryInv, DbInv, Persists
  <2>3. ASSUME log'[n].tx # 0
        PROVE  \E c \in 1 .. cnt : /\ log'[c].kind = "commit" /\ log'[c].out \in Persists
                                   /\ log'[c].tx = log'[n].tx
    <3>1. CASE n \in db
      <4>1. PICK c \in 1 .. cnt : /\ log[c].kind = "commit" /\ log[c].out \in Persists
                                  /\ log[c].tx = log[n].tx
        BY <1>6, <2>1, <2>3, <3>1 DEF TxInv, HistoryInv, DbInv
      <4>2. c \in 1 .. MaxOps /\ c # cnt
        BY <1>1, <1>8, <4>1 DEF Persists
      <4> QED
        BY <1>6, <2>1, <4>1, <4>2
    <3>2. CASE n \in srv.work
      <4>1. log[n].tx = curTx /\ curTx # 0 /\ cnt \in 1 .. cnt
        BY <1>1, <1>3, <1>6, <2>1, <2>3, <3>2
      <4>2. log[cnt].kind = "commit" /\ log[cnt].tx = curTx
        BY <1>2, <4>1 DEF Cur
      <4> QED
        BY <1>1, <1>4, <1>6, <2>1, <4>1, <4>2 DEF Persists
    <3> QED
      BY <1>7, <3>1, <3>2
  <2> QED
    BY <2>2, <2>3
<1>14. OnceInv'
  <2>1. \A c \in 1 .. cnt : Settled(c)' <=> Settled(c) \/ (c = cnt /\ Cur.kind = "commit")
    BY <1>1, <1>2, <1>4, <1>6, <1>8 DEF Settled, Cur
  <2>2. \A c \in 1 .. cnt : Settled(c) /\ log[c].tx # 0 => log[c].tx # curTx
    BY DEF TxInv, HistoryInv, OnceInv
  <2>3. \A c \in 1 .. cnt : log'[c].tx = log[c].tx
    BY <1>6, <1>8
  <2>4. \A c, d \in 1 .. cnt :
          Settled(c)' /\ Settled(d)' /\ log'[c].tx = log'[d].tx /\ log'[c].tx # 0 => c = d
    BY <2>1, <2>2, <2>3, <1>2 DEF Cur, TxInv, HistoryInv, OnceInv
  <2> QED
    BY <1>5, <2>4 DEF OnceInv
<1>15. SuccessTruth'
  <2> SUFFICES ASSUME NEW n \in 1 .. cnt, log'[n].kind = "query", log'[n].tx = 0,
               log'[n].sql, log'[n].out = "ok"
      PROVE  n \in db'
    BY <1>5 DEF SuccessTruth, Writes, Queries
  <2>1. CASE n = cnt
    BY <1>2, <1>3, <1>6, <1>7, <1>8, <2>1 DEF Cur
  <2>2. CASE n # cnt
    BY <1>6, <1>7, <1>8, <2>2 DEF TxInv, HistoryInv, SuccessTruth, Writes, Queries
  <2> QED
    BY <2>1, <2>2
<1>16. TxAtomic'
  <2> SUFFICES ASSUME NEW m \in 1 .. cnt, log'[m].kind = "query",
               NEW n \in 1 .. cnt, log'[n].kind = "query",
               log'[m].tx # 0, log'[m].tx = log'[n].tx, log'[n].sql, log'[n].out = "ok",
               m \in db'
      PROVE  n \in db'
    BY <1>5 DEF TxAtomic, Queries
  <2>1. /\ m \in 1 .. MaxOps /\ n \in 1 .. MaxOps
        /\ log[m].kind = "query" /\ log[n].kind = "query"
        /\ log[m].tx # 0 /\ log[m].tx = log[n].tx /\ log[n].sql
    BY <1>6, <1>8
  <2>2. n # cnt
    BY <1>2, <1>3, <1>7, <2>1 DEF Cur, TxInv
  <2>3. log[n].out = "ok"
    BY <1>6, <2>1, <2>2
  <2>4. CASE m \in srv.work
    BY <1>3, <1>7, <2>1, <2>3, <2>4
  <2>5. CASE m \in db
    BY <1>7, <2>1, <2>3, <2>5 DEF TxInv, HistoryInv, TxAtomic, Queries
  <2> QED
    BY <1>7, <2>4, <2>5
<1>17. HistoryInv'
  BY <1>13, <1>14, <1>15, <1>16 DEF HistoryInv
<1> QED
  BY <1>9, <1>10, <1>11, <1>17 DEF TxInv

(* The other answers to a COMMIT leave the database alone.                   *)
LEMMA CommitAnswers ==
  ASSUME TxInv, pc \in {"commit_query", "send_commit"},
         NEW out \in CommitOutcomes, CommitAnswer(out), Report(out),
         pc = "commit_query" => explicitTx' = explicitTx /\ curTx' = curTx,
         pc = "send_commit" => explicitTx' = 0 /\ curTx' = 0
  PROVE  TxInv'
<1>1. explicitTx' = 0 /\ curTx' = 0 /\ Cur.kind \in {"query", "info", "commit"}
        /\ (pc = "commit_query" =>
              Cur.kind # "commit" /\ (srv.st \in {"tx", "gone"} \/ ~Cur.sql))
        /\ (pc = "send_commit" => Cur.kind = "commit")
  BY DEF TxInv, PcInv, SrvInv, Alone, Past
<1>2. CASE /\ out \in {"ok", "commit_unknown"} /\ srv.st = "tx"
           /\ db' = db \cup srv.work \cup srv.spWork
           /\ srv' = IF out = "ok" THEN Idle ELSE Gone
  BY <1>1, <1>2, Commits
<1>3. CASE /\ out \in {"error", "57014", "commit_unknown"}
           /\ srv' \in {Idle, Gone} /\ db' = db
  BY <1>1, <1>3, AnsweredAfterLoss DEF Said, Errors, Outcomes, Closed
<1>4. CASE out = "ok" /\ srv.st \in {"idle", "aborted"} /\ srv' = Idle /\ db' = db
  BY <1>1, <1>4, AnsweredAfterLoss DEF Said, Errors, Outcomes, Closed
<1> QED
  BY <1>2, <1>3, <1>4 DEF CommitAnswer

LEMMA CommitStep == ASSUME TxInv, CommitQuery \/ TxCommit PROVE TxInv'
<1> USE Means
<1>1. CASE CommitQuery
  BY <1>1, CommitAnswers DEF CommitQuery
<1>2. CASE TxCommit
  BY <1>2, CommitAnswers DEF TxCommit
<1> QED
  BY <1>1, <1>2

LEMMA ReleaseStep == ASSUME TxInv, Release PROVE TxInv'
<1> USE Means
<1>1. /\ pc = "release" /\ db' = db /\ explicitTx' = explicitTx /\ curTx' = curTx
      /\ Explicit /\ curTx # 0 /\ Cur.kind = "query" /\ Cur.tx = curTx
  BY DEF Release, TxInv, PcInv, InBlock, Past, Explicit
<1>2. CASE /\ srv.st = "tx" /\ Report("ok")
           /\ srv' = [srv EXCEPT !.work = @ \cup srv.spWork, !.spWork = {}]
  <2>1. cnt \in 1 .. MaxOps /\ log[cnt].out = "running"
    BY <1>1 DEF TxInv, LogInv
  <2>2. log' = [log EXCEPT ![cnt].out = "ok"] /\ pc' = "idle" /\ cnt' = cnt
    <3>1. Terminal("ok") = "ok"
      BY <1>1, TerminalMeans DEF Errors
    <3> QED
      BY <1>2, <3>1, ReportMeans
  <2>3. /\ log' \in [1 .. MaxOps -> Op]
        /\ \A n \in 1 .. MaxOps :
             /\ log'[n].kind = log[n].kind /\ log'[n].write = log[n].write
             /\ log'[n].sql = log[n].sql /\ log'[n].tx = log[n].tx
             /\ log'[n].out = IF n = cnt THEN "ok" ELSE log[n].out
    BY <2>1, <2>2, EntriesKept DEF TxInv, Outcomes
  <2>4. LogInv' /\ HistoryInv'
    BY <1>1, <2>2, LogAnswered DEF Outcomes
  <2>5. PcInv' /\ ErrInv'
    BY <1>1, <2>2, Rests DEF TxInv, PcInv
  <2>6. /\ srv \in SrvStates /\ srv.work \subseteq 1 .. cnt /\ srv.spWork \subseteq {cnt}
        /\ \A n \in srv.work : /\ log[n].kind = "query" /\ log[n].write
                               /\ log[n].tx = curTx /\ log[n].out = "ok"
        /\ \A n \in srv.spWork : log[n].kind = "query" /\ log[n].write /\ log[n].tx = curTx
        /\ Cur.sql => cnt \in srv.spWork
        /\ \A n \in 1 .. cnt :
             log[n].kind = "query" /\ log[n].tx = curTx /\ curTx # 0 /\ log[n].sql
               /\ log[n].out = "ok" => n \in srv.work
    BY <1>1, <1>2 DEF TxInv, SrvInv, WorkInv, Open
  <2>7. /\ srv' \in SrvStates /\ srv'.st = "tx" /\ srv'.ro = srv.ro
        /\ srv'.work = srv.work \cup srv.spWork /\ srv'.spWork = {}
    BY <1>2, <2>6 DEF SrvStates
  <2>8. SrvInv'
    BY <1>1, <1>2, <2>1, <2>2, <2>6, <2>7 DEF TxInv, SrvInv, Explicit
  <2>9. \A n \in 1 .. cnt : n \in 1 .. MaxOps
    BY <2>1, TxConstants
  <2>10. \A n \in srv'.work : n \in 1 .. cnt
    BY <2>1, <2>6, <2>7
  <2>11. \A n \in srv'.work : /\ log'[n].kind = "query" /\ log'[n].write
                              /\ log'[n].tx = curTx /\ log'[n].out = "ok"
    BY <2>3, <2>6, <2>7, <2>9, <2>10
  <2>12. \A n \in 1 .. cnt :
           log'[n].kind = "query" /\ log'[n].tx = curTx /\ log'[n].sql /\ log'[n].out = "ok"
           => n \in srv'.work
    BY <1>1, <2>3, <2>6, <2>7, <2>9 DEF Cur
  <2>13. WorkInv'
    BY <1>1, <2>2, <2>7, <2>11, <2>12 DEF WorkInv
  <2> QED
    BY <2>4, <2>5, <2>8, <2>13 DEF TxInv
<1>3. CASE /\ srv.st # "gone" /\ srv' = Aborted(srv)
           /\ \E e \in {"error", "57014"} : Fail(e, "settle")
  BY <1>1, <1>3, Fails DEF Errors
<1>4. CASE srv.st = "gone" /\ Fail("internal", "settle") /\ srv' = srv
  BY <1>1, <1>4, Fails DEF Errors, Closed
<1> QED
  BY <1>2, <1>3, <1>4 DEF Release

-----------------------------------------------------------------------------
(* Explicit transaction control, and what happens beside the worker.        *)

LEMMA BeginTxStep == ASSUME TxInv, BeginTx PROVE TxInv'
<1>1. /\ pc = "begin_tx" /\ Cur.kind = "begin" /\ explicitTx = 3 /\ curTx = cnt
      /\ db' = db /\ curTx' = curTx /\ cnt \in 1 .. MaxOps /\ cnt # 0
  BY TxConstants DEF BeginTx, TxInv, PcInv, LogInv
<1>2. CASE /\ srv.st = "idle" /\ srv' = InTx(Cur.ro) /\ Report("ok")
           /\ explicitTx' = IF Cur.ro THEN 2 ELSE 1
  <2>1. Terminal("ok") = "ok"
    BY <1>1, TerminalMeans DEF Errors
  <2>2. log' = [log EXCEPT ![cnt].out = "ok"] /\ pc' = "idle" /\ cnt' = cnt
    BY <1>2, <2>1, ReportMeans
  <2>3. LogInv' /\ HistoryInv'
    BY <1>1, <2>2, LogAnswered DEF Outcomes
  <2>4. PcInv' /\ ErrInv'
    BY <1>1, <1>2, <2>2, Rests
  <2>5. Cur.ro \in BOOLEAN
    BY <1>1 DEF TxInv, LogInv, Op, Cur
  <2>6. /\ srv' \in SrvStates /\ srv'.st = "tx" /\ srv'.ro = Cur.ro
        /\ srv'.work = {} /\ srv'.spWork = {}
    BY <1>2, <2>5, InTxMeans
  <2>7. SrvInv'
    <3>1. explicitTx' = 2 => srv'.ro
      BY <1>2, <2>6
    <3> QED
      BY <1>1, <1>2, <2>2, <2>6, <3>1 DEF SrvInv, Explicit
  <2>8. \A n \in 1 .. cnt : log'[n].kind # "query" \/ log'[n].tx # cnt
    <3>1. \A n \in 1 .. cnt : n \in 1 .. MaxOps /\ log[n].tx < cnt
      BY <1>1, TxConstants DEF TxInv, LogInv, Op
    <3>2. \A n \in 1 .. MaxOps : log'[n].tx = log[n].tx
      BY <1>1, <2>2, EntriesKept DEF TxInv, Outcomes
    <3> QED
      BY <1>1, <3>1, <3>2, TxConstants
  <2>9. WorkInv'
    BY <1>1, <2>2, <2>6, <2>8 DEF WorkInv
  <2> QED
    BY <2>3, <2>4, <2>7, <2>9 DEF TxInv
<1>3. CASE srv' = Aborted(srv) /\ srv.st # "gone" /\ Report("error") /\ explicitTx' = explicitTx
  <2> DEFINE t == Terminal("error")
  <2>1. t \in Outcomes \ {"running"}
    BY TerminalOutcome DEF Said, Errors
  <2>2. log' = [log EXCEPT ![cnt].out = t] /\ pc' = "idle" /\ cnt' = cnt
    BY <1>3, ReportMeans
  <2> HIDE DEF t
  <2>3. LogInv' /\ HistoryInv'
    BY <1>1, <2>1, <2>2, LogAnswered
  <2>4. PcInv' /\ ErrInv'
    BY <1>1, <1>3, <2>2, Rests
  <2>5. SrvInv' /\ WorkInv'
    BY <1>3, <2>2, NowAborted
  <2> QED
    BY <2>3, <2>4, <2>5 DEF TxInv
<1>4. CASE srv.st = "gone" /\ srv' = srv /\ Report("error") /\ explicitTx' = explicitTx
  BY <1>1, <1>4, Answered DEF Said, Errors, Working
<1> QED
  BY <1>2, <1>3, <1>4 DEF BeginTx

LEMMA TxControlStep ==
  ASSUME TxInv, RefuseBegin \/ MarkBegin \/ RefuseFinish \/ SettleLost \/ AdmitCommit
                  \/ TxRollback \/ Invalidate
  PROVE  TxInv'
<1> USE Means
<1>1. CASE RefuseBegin
  <2>1. Cur.kind = "begin"
    BY <1>1 DEF RefuseBegin, TxInv, PcInv
  <2> QED
    BY <1>1, <2>1, Answered DEF RefuseBegin, Said, Errors, Working
<1>2. CASE MarkBegin
  <2>1. /\ pc = "begin_op" /\ Cur.kind = "begin" /\ explicitTx = 0 /\ explicitTx' = 3
        /\ curTx' = cnt /\ pc' = "connect" /\ log' = log /\ cnt' = cnt /\ srv' = srv /\ db' = db
        /\ cnt \in 1 .. MaxOps /\ cnt # 0
    BY <1>2, TxConstants DEF MarkBegin, Goto, TxInv, PcInv, LogInv
  <2>2. LogInv' /\ HistoryInv'
    BY <2>1, LogKept
  <2>3. PcInv' /\ ErrInv'
    BY <2>1 DEF TxInv, PcInv, ErrInv, Pcs, Past, InBlock, Alone, Cur, Explicit
  <2>4. srv.st # "tx"
    BY <2>1 DEF TxInv, SrvInv, Explicit
  <2>5. SrvInv'
    BY <2>1, <2>4 DEF TxInv, SrvInv, Explicit
  <2>6. WorkInv'
    BY <2>1, <2>4 DEF WorkInv, Open
  <2> QED
    BY <2>2, <2>3, <2>5, <2>6 DEF TxInv
<1>3. CASE RefuseFinish
  BY <1>3, Answered DEF RefuseFinish, Said, Errors, Working
<1>4. CASE SettleLost
  <2>1. Cur.kind \in {"commit", "rollback"}
    BY <1>4 DEF SettleLost, TxInv, PcInv
  <2>2. PICK out \in {"lost_rolled_back", "ok"} : Report(out)
    BY <1>4 DEF SettleLost
  <2>3. pc # "idle" /\ srv' = Gone /\ explicitTx' = 0 /\ curTx' = 0 /\ db' = db
    BY <1>4 DEF SettleLost
  <2> QED
    BY <2>1, <2>2, <2>3, AnsweredAfterLoss DEF Said, Outcomes, Errors, Closed
<1>5. CASE AdmitCommit
  <2>1. /\ pc = "commit" /\ Cur.kind = "commit" /\ Explicit /\ pc' = "send_commit"
        /\ log' = log /\ cnt' = cnt /\ db' = db
        /\ explicitTx' = explicitTx /\ srv' = srv /\ curTx' = curTx
    BY <1>5 DEF AdmitCommit, Goto, TxInv, PcInv
  <2>2. PcInv' /\ ErrInv'
    BY <2>1 DEF TxInv, PcInv, ErrInv, Pcs, Past, InBlock, Alone, Cur, Explicit
  <2> QED
    BY <2>1, <2>2, Proceeds DEF Working
<1>6. CASE TxRollback
  <2>1. /\ pc = "rollback" /\ Cur.kind = "rollback" /\ explicitTx' = 0 /\ curTx' = 0 /\ db' = db
    BY <1>6 DEF TxRollback, TxInv, PcInv
  <2>2. CASE Closed
    <3>1. PICK out \in {"ok", "error"} : Report(out)
      BY <1>6 DEF TxRollback
    <3> QED
      BY <2>1, <2>2, <3>1, AnsweredAfterLoss DEF Said, Outcomes, Errors
  <2>3. CASE srv' = Aborted(srv) /\ srv.st # "gone" /\ Report("error")
    <3> DEFINE t == Terminal("error")
    <3>1. t \in Outcomes \ {"running"}
      BY TerminalOutcome DEF Said, Errors
    <3>2. log' = [log EXCEPT ![cnt].out = t] /\ pc' = "idle" /\ cnt' = cnt
      BY <2>3, ReportMeans
    <3> HIDE DEF t
    <3>3. LogInv' /\ HistoryInv'
      BY <2>1, <3>1, <3>2, LogAnswered
    <3>4. PcInv' /\ ErrInv'
      BY <2>1, <3>2, Rests
    <3>5. /\ srv \in SrvStates /\ srv' \in SrvStates
          /\ srv'.st = (IF srv.st = "idle" THEN "idle" ELSE "aborted")
          /\ srv'.work = srv.work /\ srv'.spWork = srv.spWork
      BY <2>3, AbortedMeans DEF TxInv, SrvInv
    <3>6. SrvInv'
      BY <2>1, <3>2, <3>5 DEF TxInv, SrvInv
    <3>7. WorkInv'
      BY <3>2, <3>5 DEF WorkInv, Open
    <3> QED
      BY <3>3, <3>4, <3>6, <3>7 DEF TxInv
  <2>4. Closed \/ (srv' = Aborted(srv) /\ srv.st # "gone" /\ Report("error"))
    BY <1>6 DEF TxRollback, Closed
  <2> QED
    BY <2>2, <2>3, <2>4
<1>7. CASE Invalidate
  <2>1. /\ pc = "invalidate" /\ Cur.kind = "invalidate" /\ Report("ok") /\ srv' = Gone
        /\ explicitTx' = 0 /\ curTx' = 0 /\ db' = db
    BY <1>7 DEF Invalidate, TxInv, PcInv
  <2> QED
    BY <2>1, AnsweredAfterLoss DEF Said, Outcomes, Errors, Closed
<1> QED
  BY <1>1, <1>2, <1>3, <1>4, <1>5, <1>6, <1>7

core == <<log, cnt, pc, explicitTx, srv, db, err, curTx>>

LEMMA Beside == ASSUME TxInv, UNCHANGED core PROVE TxInv'
<1>1. LogInv' /\ PcInv' /\ ErrInv'
  BY DEF core, TxInv, LogInv, PcInv, ErrInv, Shaped, Cur, Explicit
<1>2. SrvInv'
  BY DEF core, TxInv, SrvInv, Cur, Explicit
<1>3. WorkInv'
  BY DEF core, TxInv, WorkInv, Open, Cur
<1>4. HistoryInv'
  <2>1. log' = log /\ cnt' = cnt /\ db' = db /\ pc' = pc /\ curTx' = curTx
    BY DEF core
  <2> QED
    BY <2>1, LogKept
<1> QED
  BY <1>1, <1>2, <1>3, <1>4 DEF TxInv

LEMMA EnvironmentStep == ASSUME TxInv, Environment PROVE TxInv'
<1>1. CASE CancelRunning
  BY <1>1, Beside DEF CancelRunning, core, session, history
<1>2. CASE BackendDies
  <2>1. /\ log' = log /\ cnt' = cnt /\ pc' = pc /\ explicitTx' = explicitTx /\ db' = db
        /\ err' = err /\ curTx' = curTx /\ srv' = Gone
    BY <1>2 DEF BackendDies, session, history
  <2>2. LogInv' /\ HistoryInv'
    BY <2>1, LogKept
  <2>3. PcInv' /\ ErrInv'
    BY <2>1 DEF TxInv, PcInv, ErrInv, Cur, Explicit
  <2>4. SrvInv' /\ WorkInv'
    <3>1. Gone # Idle
      BY GoneMeans
    <3> QED
      BY <2>1, <3>1, NotOpen DEF Closed
  <2> QED
    BY <2>2, <2>3, <2>4 DEF TxInv
<1>3. CASE NoticeClosed
  BY <1>3, Beside DEF NoticeClosed, core, history
<1> QED
  BY <1>1, <1>2, <1>3 DEF Environment

LEMMA NextTx == ASSUME TxInv, [Next]_vars PROVE TxInv'
<1>1. CASE UNCHANGED vars
  BY <1>1, Beside DEF vars, core
<1>2. CASE \E kind \in AllKinds : Start(kind)
  BY <1>2, StartStep
<1>3. CASE Query
  BY <1>3, QueryStep
<1>4. CASE Statement
  BY <1>4, BeginStep, SavepointStep, BodyStep, CommitStep, RollbackStep, ReleaseStep
     DEF Statement
<1>5. CASE TxControl
  BY <1>5, BeginTxStep, CommitStep, TxControlStep DEF TxControl
<1>6. CASE Environment
  BY <1>6, EnvironmentStep
<1> QED
  BY <1>1, <1>2, <1>3, <1>4, <1>5, <1>6 DEF Next

LEMMA TxAlways == Spec => []TxInv
<1> QED
  BY InitTx, NextTx, PTL DEF Spec

-----------------------------------------------------------------------------
(* Types of what the invariant above leaves out: the connection's numbers    *)
(* and the flags of a cancel.                                                *)

SideInv ==
  /\ conn \in {"none", "live", "closed"}
  /\ backend \in 0 .. MaxBackends /\ txBackend \in 0 .. MaxBackends
  /\ err \in Errors \cup {"none"}

FlagsInv == cancelled \in BOOLEAN /\ stray \in BOOLEAN

LEMMA ReportErr == ASSUME NEW out, Report(out) PROVE err' = "none"
  BY DEF Report

LEMMA SideStep == ASSUME TxInv, SideInv, [Next]_vars PROVE SideInv'
<1> USE Means, ReportErr, FailMeans DEF SideInv
<1>1. CASE UNCHANGED vars
  BY <1>1 DEF vars
<1>2. CASE \E kind \in AllKinds : Start(kind)
  BY <1>2 DEF Start
<1>3. CASE Query
  <2>1. CASE RejectQuery
    BY <2>1 DEF RejectQuery
  <2>2. CASE FailLostTx
    BY <2>2 DEF FailLostTx
  <2>3. CASE AdmitQuery
    BY <2>3 DEF AdmitQuery
  <2>4. CASE Info
    BY <2>4 DEF Info
  <2>5. CASE KeepConnection
    BY <2>5 DEF KeepConnection
  <2>6. CASE OpenConnection
    BY <2>6, TxConstants DEF OpenConnection
  <2>7. CASE ConnectFails
    BY <2>7 DEF ConnectFails
  <2>8. CASE CheckCancel
    BY <2>8 DEF CheckCancel
  <2>9. CASE Settle
    BY <2>9 DEF Settle
  <2> QED
    BY <1>3, <2>1, <2>2, <2>3, <2>4, <2>5, <2>6, <2>7, <2>8, <2>9 DEF Query
<1>4. CASE Statement
  <2>1. UNCHANGED session /\ UNCHANGED history
    BY <1>4 DEF Statement, ImplicitBegin, Savepoint, BodySucceeds, BodySqlError,
       BodyClientError, BodyConnectionLost, BodyTruncatedThenFails, BodyEndsTransaction,
       CommitQuery, RollbackQuery, Release, RollbackTo
  <2>2. err' \in {err, "none"} \cup Errors
    <3>1. CASE ImplicitBegin
      BY <3>1 DEF ImplicitBegin, Errors
    <3>2. CASE Savepoint
      BY <3>2 DEF Savepoint, Errors
    <3>3. CASE BodySqlError \/ BodyClientError \/ BodyConnectionLost
      BY <3>3 DEF BodySqlError, BodyClientError, BodyConnectionLost, Errors
    <3>4. CASE BodySucceeds \/ BodyTruncatedThenFails \/ BodyEndsTransaction
                 \/ RollbackQuery \/ RollbackTo
      BY <3>4 DEF BodySucceeds, BodyTruncatedThenFails, BodyEndsTransaction, RollbackQuery,
         RollbackTo
    <3>5. CASE CommitQuery
      BY <3>5 DEF CommitQuery
    <3>6. CASE Release
      BY <3>6 DEF Release, Errors
    <3> QED
      BY <1>4, <3>1, <3>2, <3>3, <3>4, <3>5, <3>6 DEF Statement
  <2> QED
    BY <2>1, <2>2
<1>5. CASE TxControl
  <2>1. CASE RefuseBegin \/ RefuseFinish
    BY <2>1 DEF RefuseBegin, RefuseFinish
  <2>2. CASE MarkBegin
    BY <2>2 DEF MarkBegin
  <2>3. CASE BeginTx
    BY <2>3 DEF BeginTx
  <2>4. CASE SettleLost
    BY <2>4 DEF SettleLost
  <2>5. CASE AdmitCommit
    BY <2>5 DEF AdmitCommit
  <2>6. CASE TxCommit
    BY <2>6 DEF TxCommit
  <2>7. CASE TxRollback
    BY <2>7 DEF TxRollback
  <2>8. CASE Invalidate
    BY <2>8 DEF Invalidate
  <2> QED
    BY <1>5, <2>1, <2>2, <2>3, <2>4, <2>5, <2>6, <2>7, <2>8 DEF TxControl
<1>6. CASE Environment
  BY <1>6 DEF Environment, CancelRunning, BackendDies, NoticeClosed
<1> QED
  BY <1>1, <1>2, <1>3, <1>4, <1>5, <1>6 DEF Next

LEMMA FlagsStep == ASSUME FlagsInv, [Next]_vars PROVE FlagsInv'
<1>1. cancelled' = cancelled \/ cancelled' = FALSE \/ cancelled' = TRUE
  <2>1. ASSUME NEW out, Report(out) PROVE cancelled' = FALSE
    BY <2>1, Zenon DEF Report
  <2>2. ASSUME NEW e, NEW next, Fail(e, next) PROVE cancelled' = cancelled
    BY <2>2, Zenon DEF Fail
  <2>3. CASE UNCHANGED vars \/ \E kind \in AllKinds : Start(kind)
    BY <2>3, Zenon DEF vars, Start
  <2>4. CASE Query
    BY <2>1, <2>2, <2>4, Zenon DEF Query, RejectQuery, FailLostTx, AdmitQuery, Info,
       KeepConnection, OpenConnection, ConnectFails, CheckCancel, Settle
  <2>5. CASE Statement
    BY <2>1, <2>2, <2>5, Zenon DEF Statement, ImplicitBegin, Savepoint, BodySucceeds,
       BodySqlError, BodyClientError, BodyConnectionLost, BodyTruncatedThenFails,
       BodyEndsTransaction, CommitQuery, RollbackQuery, Release, RollbackTo
  <2>6. CASE TxControl
    BY <2>1, <2>2, <2>6, Zenon DEF TxControl, RefuseBegin, MarkBegin, BeginTx,
       RefuseFinish,
       SettleLost, AdmitCommit, TxCommit, TxRollback, Invalidate
  <2>7. CASE Environment
    BY <2>7, Zenon DEF Environment, CancelRunning, BackendDies, NoticeClosed
  <2> QED
    BY <2>3, <2>4, <2>5, <2>6, <2>7, Zenon DEF Next
<1>2. stray' = stray \/ stray' = FALSE \/ stray' = (stray \/ pc \notin {"query", "connect", "context"})
  <2>1. CASE UNCHANGED vars \/ \E kind \in AllKinds : Start(kind)
    BY <2>1, Zenon DEF vars, Start, Undisturbed
  <2>2. CASE Query
    BY <2>2, Zenon DEF Query, RejectQuery, FailLostTx, AdmitQuery, Info, Undisturbed,
       KeepConnection, OpenConnection, ConnectFails, CheckCancel, Settle
  <2>3. CASE Statement
    BY <2>3, Zenon DEF Statement, ImplicitBegin, Savepoint, BodySucceeds, BodySqlError,
       BodyClientError, BodyConnectionLost, BodyTruncatedThenFails, BodyEndsTransaction,
       CommitQuery, RollbackQuery, Release, RollbackTo
  <2>4. CASE TxControl
    BY <2>4, Zenon DEF TxControl, RefuseBegin, MarkBegin, BeginTx, RefuseFinish,
       SettleLost,
       AdmitCommit, TxCommit, TxRollback, Invalidate, Undisturbed
  <2>5. CASE Environment
    BY <2>5, Zenon DEF Environment, CancelRunning, BackendDies, NoticeClosed
  <2> QED
    BY <2>1, <2>2, <2>3, <2>4, <2>5, Zenon DEF Next
<1>3. cancelled' \in BOOLEAN
  BY <1>1, Zenon DEF FlagsInv
<1>4. stray' \in BOOLEAN
  BY <1>2, Zenon DEF FlagsInv
<1> QED
  BY <1>3, <1>4, Zenon DEF FlagsInv

(* Every variable of the executor model keeps its type (TypeOK).            *)
THEOREM ExecutorTypes == Spec => []TypeOK
<1>1. Init => SideInv /\ FlagsInv
  <2>1. Init => SideInv
    BY TxConstants DEF Init, SideInv
  <2>2. Init => FlagsInv
    BY Zenon DEF Init, FlagsInv
  <2> QED
    BY <2>1, <2>2
<1>2. (TxInv /\ SideInv /\ FlagsInv) /\ [Next]_vars => SideInv' /\ FlagsInv'
  BY SideStep, FlagsStep
<1>3. (TxInv /\ SideInv /\ FlagsInv) => TypeOK
  <2> SUFFICES ASSUME TxInv, SideInv, FlagsInv PROVE TypeOK
    OBVIOUS
  <2>1. /\ log \in [1 .. MaxOps -> Op] /\ cnt \in 0 .. MaxOps /\ pc \in Pcs
        /\ explicitTx \in 0 .. 3 /\ srv \in SrvStates
        /\ db \subseteq 1 .. MaxOps /\ curTx \in 0 .. MaxOps
    BY TxConstants DEF TxInv, LogInv, PcInv, SrvInv
  <2>2. /\ conn \in {"none", "live", "closed"} /\ err \in Errors \cup {"none"}
        /\ backend \in 0 .. MaxBackends /\ txBackend \in 0 .. MaxBackends
    BY DEF SideInv
  <2> QED
    BY <2>1, <2>2, Zenon DEF FlagsInv, TypeOK
<1> QED
  BY <1>1, <1>2, <1>3, TxAlways, PTL DEF Spec

-----------------------------------------------------------------------------
(* The theorems.                                                            *)

(* A query whose permission is read never changes the database, whatever    *)
(* transaction it runs in (BEGIN READ ONLY, and the refusal of a read       *)
(* permission inside a read-write transaction).                             *)
THEOREM ReadsNeverWrite == Spec => []ReadNeverWrites
<1>1. TxInv => ReadNeverWrites
  BY DEF TxInv, HistoryInv, DbInv, ReadNeverWrites
<1> QED
  BY <1>1, TxAlways, PTL

(* A write answered with success outside a transaction block is durable     *)
(* (finish_transaction commits before the answer goes out).                 *)
THEOREM SuccessIsTrue == Spec => []SuccessTruth
<1>1. TxInv => SuccessTruth
  BY DEF TxInv, HistoryInv
<1> QED
  BY <1>1, TxAlways, PTL

(* A query answered with an error other than commit_outcome_unknown never    *)
(* takes effect, not even by a later COMMIT.                                *)
THEOREM FailureIsTrue == Spec => []FailureTruth
<1>1. TxInv => FailureTruth
  BY DEF TxInv, HistoryInv, DbInv, Persists, FailureTruth
<1> QED
  BY <1>1, TxAlways, PTL

(* transaction_lost_rolled_back, an SQL error on COMMIT and an answered      *)
(* ROLLBACK each mean that nothing of the transaction took effect, now or   *)
(* later (tx_commit, tx_rollback).                                          *)
THEOREM RollbackIsTrue == Spec => []RollbackTruth
<1>1. TxInv => RollbackTruth
  <2> SUFFICES ASSUME TxInv,
               NEW c \in Reported("commit", {"lost_rolled_back", "failed"})
                         \cup Reported("rollback", {"ok", "failed"}),
               log[c].tx # 0,
               NEW n \in Writes(log[c].tx), n \in db
      PROVE  FALSE
    BY DEF RollbackTruth
  <2>1. PICK d \in 1 .. cnt : /\ log[d].kind = "commit" /\ log[d].out \in Persists
                              /\ log[d].tx = log[n].tx
    BY DEF TxInv, HistoryInv, DbInv, Writes
  <2>2. c \in 1 .. cnt /\ Settled(c) /\ Settled(d) /\ log[c].tx = log[d].tx
    BY <2>1 DEF Reported, Settled, Persists, Writes
  <2>3. c = d
    BY <2>1, <2>2 DEF TxInv, HistoryInv, OnceInv
  <2> QED
    BY <2>1, <2>3 DEF Reported, Persists
<1> QED
  BY <1>1, TxAlways, PTL

(* A write sent while a begin was unsettled is never committed on its own:   *)
(* only a COMMIT of that transaction that was reported as persisting, or as *)
(* unknown, made it durable (tx_begin marks the session first).             *)
THEOREM OnlyCommitsPersist == Spec => []OnlyCommitPersists
<1>1. TxInv => OnlyCommitPersists
  BY DEF TxInv, HistoryInv, DbInv, Persists, OnlyCommitPersists, Reported
<1> QED
  BY <1>1, TxAlways, PTL

(* The successful writes of an explicit transaction persist together or not  *)
(* at all, however many connections the session went through (tx_commit).   *)
THEOREM TransactionsAreAtomic == Spec => []TxAtomic
<1>1. TxInv => TxAtomic
  BY DEF TxInv, HistoryInv
<1> QED
  BY <1>1, TxAlways, PTL

-----------------------------------------------------------------------------
(* What a commit answered COMMIT is worth when none of the rare events of   *)
(* Faults happens, for any number of operations and connections.            *)

(* The session and its backend agree on the transaction, but for the moment *)
(* between a failed query and the ROLLBACK TO of its savepoint; and nothing  *)
(* reconnects inside one.                                                   *)
MatchInv ==
  /\ Explicit => /\ backend = txBackend
                 /\ srv.st \in {"tx", "gone"} \/ (srv.st = "aborted" /\ pc = "rollback_to")
  /\ Explicit /\ pc = "connect" => Live
  /\ explicitTx = 0 /\ pc \notin {"body", "commit_query", "rollback_query"}
       => srv.st \in {"idle", "gone"}

LEMMA MatchesIdle ==
  ASSUME Explicit' => backend' = txBackend' /\ srv'.st \in {"tx", "gone"},
         pc' # "connect" \/ ~Explicit',
         explicitTx' = 0 => srv'.st \in {"idle", "gone"}
  PROVE  MatchInv'
  BY DEF MatchInv

LEMMA NoStray == ASSUME Faults = {} PROVE ~StrayCancel
  BY Zenon DEF StrayCancel

LEMMA ReportIdle == ASSUME NEW out, Report(out) PROVE pc' = "idle"
  BY ReportMeans

LEMMA MatchQuery == ASSUME Faults = {}, TxInv, MatchInv, Query PROVE MatchInv'
<1> USE Means, ReportIdle DEF Explicit, Live
<1>1. CASE RejectQuery
  BY <1>1 DEF RejectQuery, MatchInv
<1>2. CASE FailLostTx
  BY <1>2 DEF FailLostTx, MatchInv
<1>3. CASE AdmitQuery
  BY <1>3 DEF AdmitQuery, Goto, MatchInv
<1>4. CASE Info
  BY <1>4 DEF Info, Goto, MatchInv
<1>5. CASE KeepConnection
  BY <1>5 DEF KeepConnection, Goto, AfterConnect, MatchInv
<1>6. CASE OpenConnection
  BY <1>6, GoneMeans DEF OpenConnection, Goto, AfterConnect, MatchInv
<1>7. CASE ConnectFails
  BY <1>7, GoneMeans DEF ConnectFails, MatchInv
<1>8. CASE CheckCancel
  BY <1>8 DEF CheckCancel, Goto, MatchInv
<1>9. CASE Settle
  BY <1>9, GoneMeans DEF Settle, MatchInv
<1> QED
  BY <1>1, <1>2, <1>3, <1>4, <1>5, <1>6, <1>7, <1>8, <1>9 DEF Query

LEMMA MatchStatement == ASSUME Faults = {}, TxInv, MatchInv, Statement PROVE MatchInv'
<1> USE Means, ReportIdle, FailMeans, NoStray, GoneMeans, AbortedMeans
<1>1. srv \in SrvStates
  BY DEF TxInv, SrvInv
<1>2. CASE ImplicitBegin
  <2>1. explicitTx = 0 /\ explicitTx' = 0 /\ pc = "begin"
    BY <1>2 DEF ImplicitBegin, TxInv, PcInv, Alone
  <2>2. pc' = "body" \/ srv'.st \in {"idle", "gone"}
    BY <1>1, <1>2, <2>1 DEF ImplicitBegin, Goto, MatchInv
  <2> QED
    BY <2>1, <2>2 DEF MatchInv, Explicit
<1>3. CASE Savepoint
  <2>1. Explicit /\ pc = "savepoint" /\ srv.st \in {"tx", "gone"}
    BY <1>3 DEF Savepoint, TxInv, PcInv, InBlock, MatchInv
  <2>2. srv' = srv /\ pc' \in {"body", "settle"}
    BY <1>3, <2>1 DEF Savepoint, Goto
  <2> QED
    BY <1>3, <2>1, <2>2 DEF Savepoint, MatchInv, Explicit
<1>4. CASE BodySucceeds \/ BodyClientError
  <2>1. srv'.st = srv.st
    <3>1. WithWork.st = srv.st
      <4>1. CASE Wrote
        BY <1>1, <1>4, <4>1, WithWorkMeans
           DEF BodySucceeds, BodyClientError, TxInv, LogInv, SrvInv
      <4>2. CASE ~Wrote
        BY <4>2 DEF WithWork
      <4> QED
        BY <4>1, <4>2
    <3> QED
      BY <1>4, <3>1 DEF BodySucceeds, BodyClientError
  <2>2. /\ srv.st = "tx" /\ UNCHANGED session /\ UNCHANGED history
        /\ pc' = AfterBody(TRUE) \/ pc' = AfterBody(FALSE)
    BY <1>4 DEF BodySucceeds, BodyClientError, Goto
  <2> QED
    BY <1>4, <2>1, <2>2 DEF MatchInv, AfterBody, Explicit
<1>5. CASE BodySqlError
  <2>1. /\ srv.st = "tx" /\ UNCHANGED session /\ UNCHANGED history /\ pc' = AfterBody(TRUE)
        /\ srv' \in {Aborted(srv), Gone} /\ pc = "body"
    BY <1>5 DEF BodySqlError
  <2>2. srv'.st \in {"aborted", "gone"}
    BY <1>1, <2>1
  <2> QED
    BY <2>1, <2>2 DEF MatchInv, AfterBody, Explicit
<1>6. CASE BodyConnectionLost
  BY <1>6 DEF BodyConnectionLost, MatchInv, AfterBody, Explicit
<1>7. CASE BodyTruncatedThenFails \/ BodyEndsTransaction
  BY <1>7 DEF BodyTruncatedThenFails, BodyEndsTransaction
<1>8. CASE CommitQuery
  <2>1. explicitTx = 0 /\ explicitTx' = 0 /\ pc' = "idle"
    BY <1>8 DEF CommitQuery, TxInv, PcInv, Alone
  <2>2. srv' \in {Idle, Gone}
    BY <1>8 DEF CommitQuery, CommitAnswer
  <2> QED
    BY <2>1, <2>2, MatchesIdle DEF Explicit
<1>9. CASE RollbackQuery
  <2>1. explicitTx = 0 /\ explicitTx' = 0 /\ pc' = "settle"
    BY <1>9 DEF RollbackQuery, Goto, TxInv, PcInv, Alone
  <2>2. srv'.st \in {"idle", "gone"}
    BY <1>9 DEF RollbackQuery
  <2> QED
    BY <2>1, <2>2, MatchesIdle DEF Explicit
<1>10. CASE Release
  <2>1. Explicit /\ pc = "release" /\ srv.st \in {"tx", "gone"}
    BY <1>10 DEF Release, TxInv, PcInv, InBlock, MatchInv
  <2>2. srv'.st = srv.st /\ pc' \in {"idle", "settle"}
    BY <1>1, <1>10, <2>1 DEF Release, SrvStates
  <2> QED
    BY <1>10, <2>1, <2>2 DEF Release, MatchInv, Explicit
<1>11. CASE RollbackTo
  <2>1. Explicit /\ pc = "rollback_to" /\ pc' = "settle"
    BY <1>11 DEF RollbackTo, Goto, TxInv, PcInv, InBlock
  <2>2. srv'.st \in {"tx", "gone"}
    BY <1>1, <1>11 DEF RollbackTo, SrvStates
  <2> QED
    BY <1>11, <2>1, <2>2 DEF RollbackTo, MatchInv, Explicit
<1> QED
  BY <1>2, <1>3, <1>4, <1>5, <1>6, <1>7, <1>8, <1>9, <1>10, <1>11 DEF Statement

LEMMA MatchTxControl == ASSUME Faults = {}, TxInv, MatchInv, TxControl PROVE MatchInv'
<1> USE Means, ReportIdle, NoStray, GoneMeans, AbortedMeans DEF Explicit
<1>1. CASE RefuseBegin \/ RefuseFinish
  BY <1>1 DEF RefuseBegin, RefuseFinish, MatchInv
<1>2. CASE MarkBegin
  BY <1>2 DEF MarkBegin, MatchInv
<1>3. CASE BeginTx
  <2>1. explicitTx = 3
    BY <1>3 DEF BeginTx, TxInv, PcInv
  <2>2. CASE /\ srv.st = "idle" /\ srv' = InTx(Cur.ro) /\ Report("ok")
             /\ explicitTx' = IF Cur.ro THEN 2 ELSE 1
             /\ txBackend' = backend /\ backend' = backend
    <3>1. Cur.ro \in BOOLEAN
      BY <1>3, TxConstants DEF BeginTx, TxInv, LogInv, Op, Cur
    <3>2. srv'.st = "tx"
      BY <2>2, <3>1, InTxMeans
    <3> QED
      BY <2>2, <3>2, MatchesIdle
  <2>3. CASE explicitTx' = explicitTx
    BY <2>1, <2>3 DEF MatchInv
  <2> QED
    BY <1>3, <2>2, <2>3 DEF BeginTx
<1>4. CASE SettleLost \/ Invalidate
  BY <1>4, MatchesIdle DEF SettleLost, Invalidate
<1>5. CASE AdmitCommit
  BY <1>5 DEF AdmitCommit, Goto, MatchInv
<1>6. CASE TxCommit
  <2>1. explicitTx' = 0 /\ srv' \in {Idle, Gone} /\ pc' = "idle"
    BY <1>6 DEF TxCommit, CommitAnswer
  <2> QED
    BY <2>1, MatchesIdle
<1>7. CASE TxRollback
  <2>1. explicitTx' = 0 /\ srv'.st \in {"idle", "gone"} /\ pc' = "idle"
    BY <1>7 DEF TxRollback
  <2> QED
    BY <2>1, MatchesIdle
<1> QED
  BY <1>1, <1>2, <1>3, <1>4, <1>5, <1>6, <1>7 DEF TxControl

LEMMA MatchNext == ASSUME Faults = {}, TxInv, MatchInv, [Next]_vars PROVE MatchInv'
<1>1. CASE UNCHANGED vars
  BY <1>1 DEF vars, MatchInv, Explicit, Live
<1>2. CASE \E kind \in AllKinds : Start(kind)
  BY <1>2, Means DEF Start, MatchInv, Explicit, Live, AllKinds
<1>3. CASE CancelRunning
  BY <1>3 DEF CancelRunning, session, history, MatchInv, Explicit, Live
<1>4. CASE BackendDies
  BY <1>4, GoneMeans DEF BackendDies, session, history, MatchInv, Explicit, Live
<1>5. CASE NoticeClosed
  BY <1>5 DEF NoticeClosed, history, MatchInv, Explicit, Live
<1> QED
  BY <1>1, <1>2, <1>3, <1>4, <1>5, MatchQuery, MatchStatement, MatchTxControl
     DEF Next, Environment

LEMMA MatchAlways == ASSUME Faults = {} PROVE Spec => []MatchInv
<1>1. Init => MatchInv
  BY GoneMeans DEF Init, MatchInv, Explicit
<1>2. TxInv /\ MatchInv /\ [Next]_vars => MatchInv'
  BY MatchNext
<1> QED
  BY <1>1, <1>2, TxAlways, PTL DEF Spec

(* COMMIT goes to the backend that answered the BEGIN (tx_commit never       *)
(* reconnects; execute refuses a query whose transaction lost its           *)
(* connection).                                                             *)
THEOREM CommitStaysHome == ASSUME Faults = {} PROVE Spec => []CommitOnSameBackend
<1>1. TxInv /\ MatchInv => CommitOnSameBackend
  BY DEF TxInv, PcInv, MatchInv, CommitOnSameBackend
<1> QED
  BY <1>1, TxAlways, MatchAlways, PTL

(* Between operations the session and the backend agree whether a            *)
(* transaction is open, so one bad query does not abort the transaction      *)
(* around it (the savepoint of execute_in_open_tx).                          *)
THEOREM SessionIsBackend == ASSUME Faults = {} PROVE Spec => []SessionMatchesBackend
<1>1. TxInv /\ MatchInv => SessionMatchesBackend
  BY DEF TxInv, PcInv, MatchInv, SessionMatchesBackend, Explicit
<1> QED
  BY <1>1, TxAlways, MatchAlways, PTL

-----------------------------------------------------------------------------
(* A commit answered COMMIT.                                                *)

(* A step that answers no commit with success keeps what earlier ones said:  *)
(* a query that succeeds now belongs to a transaction not settled yet.       *)
LEMMA CommitKept ==
  ASSUME TxInv, TxInv', CommitTruth, cnt' = cnt, db \subseteq db',
         \/ log' = log
         \/ \E t \in Outcomes : /\ log' = [log EXCEPT ![cnt].out = t] /\ pc # "idle"
                                /\ Cur.kind = "commit" => t # "ok"
  PROVE  CommitTruth'
<1> SUFFICES ASSUME NEW c \in 1 .. cnt, log'[c].kind = "commit", log'[c].out = "ok",
                    NEW n \in 1 .. cnt, log'[n].kind = "query", log'[n].tx = log'[c].tx,
                    log'[n].sql, log'[n].out = "ok"
    PROVE  n \in db'
  BY DEF CommitTruth, Reported, Writes, Queries
<1>1. CASE log' = log
  BY <1>1 DEF CommitTruth, Reported, Writes, Queries
<1>2. CASE \E t \in Outcomes : /\ log' = [log EXCEPT ![cnt].out = t] /\ pc # "idle"
                               /\ Cur.kind = "commit" => t # "ok"
  <2>1. PICK t \in Outcomes : /\ log' = [log EXCEPT ![cnt].out = t] /\ pc # "idle"
                              /\ Cur.kind = "commit" => t # "ok"
    BY <1>2
  <2>2. cnt \in 1 .. MaxOps /\ c \in 1 .. MaxOps /\ n \in 1 .. MaxOps
    BY <2>1, TxConstants DEF TxInv, LogInv
  <2>3. \A k \in 1 .. MaxOps :
          /\ log'[k].kind = log[k].kind /\ log'[k].sql = log[k].sql /\ log'[k].tx = log[k].tx
          /\ log'[k].out = IF k = cnt THEN t ELSE log[k].out
    BY <2>1, <2>2, EntriesKept DEF TxInv
  <2>4. c # cnt /\ log[c].kind = "commit" /\ log[c].out = "ok"
    BY <2>1, <2>2, <2>3 DEF Cur
  <2>5. CASE n # cnt
    <3>1. c \in Reported("commit", {"ok"}) /\ n \in Writes(log[c].tx) /\ log[n].out = "ok"
      BY <2>2, <2>3, <2>4, <2>5 DEF Reported, Writes, Queries
    <3> QED
      BY <3>1 DEF CommitTruth
  <2>6. CASE n = cnt
    <3>1. log[n].kind = "query" /\ log[n].tx = curTx
      BY <2>1, <2>2, <2>3, <2>6 DEF TxInv, PcInv, Cur
    <3>2. log[c].tx = curTx
      BY <2>2, <2>3, <3>1
    <3>3. curTx = 0
      BY <2>4, <3>2 DEF TxInv, HistoryInv, OnceInv, Settled
    <3>4. n \in Writes(0)' /\ log'[n].out = "ok"
      BY <2>2, <2>3, <3>1, <3>3 DEF Writes, Queries
    <3> QED
      BY <3>4 DEF TxInv, HistoryInv, SuccessTruth
  <2> QED
    BY <2>5, <2>6
<1> QED
  BY <1>1, <1>2

LEMMA CommitStarts ==
  ASSUME TxInv, TxInv', CommitTruth, NEW kind \in AllKinds, Start(kind)
  PROVE  CommitTruth'
<1>1. cnt' = cnt + 1 /\ db' = db /\ pc' # "idle" /\ cnt \in 0 .. MaxOps
  BY Means DEF Start, AllKinds, TxInv, LogInv
<1>2. log'[cnt + 1].out = "running"
  BY <1>1 DEF TxInv, LogInv
<1>3. PICK o : log' = [log EXCEPT ![cnt + 1] = o]
  BY DEF Start, StartQuery
<1>4. \A n \in 1 .. cnt : log'[n] = log[n]
  BY <1>1, <1>3, TxConstants DEF TxInv, LogInv
<1>5. \A n \in 1 .. cnt + 1 : n # cnt + 1 => n \in 1 .. cnt
  BY <1>1, TxConstants
<1> SUFFICES ASSUME NEW c \in 1 .. cnt + 1, log'[c].kind = "commit", log'[c].out = "ok",
                    NEW n \in 1 .. cnt + 1, log'[n].kind = "query", log'[n].tx = log'[c].tx,
                    log'[n].sql, log'[n].out = "ok"
    PROVE  n \in db
  BY <1>1 DEF CommitTruth, Reported, Writes, Queries
<1>6. c \in 1 .. cnt /\ n \in 1 .. cnt
  BY <1>2, <1>5
<1>7. c \in Reported("commit", {"ok"}) /\ n \in Writes(log[c].tx) /\ log[n].out = "ok"
  BY <1>4, <1>6 DEF Reported, Writes, Queries
<1> QED
  BY <1>7 DEF CommitTruth

(* COMMIT itself: the backend it goes to holds every successful write of the *)
(* transaction.                                                             *)
LEMMA CommitPersists ==
  ASSUME TxInv, TxInv', MatchInv, CommitTruth, TxCommit
  PROVE  CommitTruth'
<1>1. /\ pc = "send_commit" /\ Cur.kind = "commit" /\ Explicit /\ curTx # 0
      /\ Cur.tx = curTx /\ cnt \in 1 .. MaxOps
  BY DEF TxCommit, TxInv, PcInv, LogInv, Explicit
<1>2. srv.st \in {"tx", "gone"}
  BY <1>1 DEF MatchInv
<1>3. PICK out \in CommitOutcomes : CommitAnswer(out) /\ Report(out)
  BY DEF TxCommit
<1>4. log' = [log EXCEPT ![cnt].out = Terminal(out)] /\ cnt' = cnt
  BY <1>3, ReportMeans
<1>5. db \subseteq db'
  BY <1>3 DEF CommitAnswer
<1>6. Terminal(out) \in Outcomes /\ (Terminal(out) = "ok" => out = "ok")
  BY <1>1, TerminalMeans DEF CommitOutcomes, Outcomes, Errors
<1>7. CASE Terminal(out) # "ok"
  BY <1>1, <1>4, <1>5, <1>6, <1>7, CommitKept
<1>8. CASE Terminal(out) = "ok"
  <2>1. db' = db \cup srv.work \cup srv.spWork /\ srv.st = "tx"
    BY <1>2, <1>3, <1>6, <1>8 DEF CommitAnswer
  <2>2. \A n \in 1 .. cnt :
          log[n].kind = "query" /\ log[n].tx = curTx /\ log[n].sql /\ log[n].out = "ok"
          => n \in db'
    BY <1>1, <2>1 DEF TxInv, WorkInv, Open
  <2>3. \A k \in 1 .. MaxOps :
          /\ log'[k].kind = log[k].kind /\ log'[k].sql = log[k].sql /\ log'[k].tx = log[k].tx
          /\ log'[k].out = IF k = cnt THEN "ok" ELSE log[k].out
    BY <1>1, <1>4, <1>8, EntriesKept DEF TxInv, Outcomes
  <2> SUFFICES ASSUME NEW c \in 1 .. cnt, log'[c].kind = "commit", log'[c].out = "ok",
                      NEW n \in 1 .. cnt, log'[n].kind = "query", log'[n].tx = log'[c].tx,
                      log'[n].sql, log'[n].out = "ok"
      PROVE  n \in db'
    BY <1>4 DEF CommitTruth, Reported, Writes, Queries
  <2>4. c \in 1 .. MaxOps /\ n \in 1 .. MaxOps
    BY <1>1, TxConstants
  <2>5. n # cnt /\ log[n].kind = "query" /\ log[n].sql /\ log[n].out = "ok"
    BY <1>1, <2>3, <2>4 DEF Cur
  <2>6. CASE c = cnt
    BY <1>1, <2>2, <2>3, <2>4, <2>5, <2>6 DEF Cur
  <2>7. CASE c # cnt
    <3>1. c \in Reported("commit", {"ok"}) /\ n \in Writes(log[c].tx)
      BY <2>3, <2>4, <2>5, <2>7 DEF Reported, Writes, Queries
    <3> QED
      BY <1>5, <2>5, <3>1 DEF CommitTruth
  <2> QED
    BY <2>6, <2>7
<1> QED
  BY <1>7, <1>8

(* Every other step answers no commit with success.                         *)
Keeps ==
  /\ cnt' = cnt /\ db \subseteq db'
  /\ \/ log' = log
     \/ \E t \in Outcomes : /\ log' = [log EXCEPT ![cnt].out = t] /\ pc # "idle"
                            /\ Cur.kind = "commit" => t # "ok"

LEMMA ReportKeeps ==
  ASSUME NEW out \in Said, Report(out), pc # "idle", db \subseteq db',
         Cur.kind = "commit" => out # "ok"
  PROVE  Keeps
<1>1. Terminal(out) \in Outcomes /\ (Cur.kind = "commit" => Terminal(out) # "ok")
  BY TerminalMeans DEF Said, Outcomes, Errors
<1> QED
  BY <1>1, ReportMeans DEF Keeps

LEMMA OthersKeep ==
  ASSUME TxInv, Query \/ Statement \/ TxControl \/ Environment, ~TxCommit
  PROVE  Keeps
<1> USE Means, FailMeans
<1>0. {"ok", "error", "cancelled", "lost_rolled_back", "57014", "commit_unknown"} \subseteq Said
  BY DEF Said, Outcomes, Errors
<1>1. CASE RejectQuery
  <2>1. pc = "query" /\ Report("error") /\ db' = db
    BY <1>1 DEF RejectQuery
  <2> QED
    BY <1>0, <2>1, ReportKeeps
<1>2. CASE FailLostTx
  <2>1. pc = "query" /\ Report("error") /\ db' = db
    BY <1>2 DEF FailLostTx
  <2> QED
    BY <1>0, <2>1, ReportKeeps
<1>3. CASE AdmitQuery \/ KeepConnection \/ OpenConnection
  BY <1>3 DEF AdmitQuery, KeepConnection, OpenConnection, Goto, Keeps
<1>4. CASE Info
  <2>1. pc = "info" /\ db' = db /\ Cur.kind = "info" /\ (Report("ok") \/ Goto("connect"))
    BY <1>4 DEF Info, TxInv, PcInv
  <2>2. CASE Report("ok")
    BY <1>0, <2>1, <2>2, ReportKeeps
  <2>3. CASE Goto("connect")
    BY <2>1, <2>3 DEF Goto, Keeps
  <2> QED
    BY <2>1, <2>2, <2>3
<1>5. CASE ConnectFails
  <2>1. pc = "connect" /\ Report("error") /\ db' = db
    BY <1>5 DEF ConnectFails
  <2> QED
    BY <1>0, <2>1, ReportKeeps
<1>6. CASE CheckCancel
  <2>1. pc = "context" /\ db' = db /\ (Report("cancelled") \/ (log' = log /\ cnt' = cnt))
    BY <1>6 DEF CheckCancel, Goto
  <2>2. CASE Report("cancelled")
    BY <1>0, <2>1, <2>2, ReportKeeps
  <2> QED
    BY <2>1, <2>2 DEF Keeps
<1>7. CASE Settle
  <2>1. pc = "settle" /\ Report(err) /\ db' = db /\ err \in Errors /\ err \in Said /\ err # "ok"
    BY <1>7 DEF Settle, TxInv, ErrInv, Errors, Said
  <2> QED
    BY <2>1, ReportKeeps
<1>8. CASE ImplicitBegin \/ Savepoint \/ BodySucceeds \/ BodySqlError \/ BodyClientError
             \/ BodyConnectionLost \/ BodyTruncatedThenFails \/ BodyEndsTransaction
             \/ RollbackQuery \/ RollbackTo
  BY <1>8 DEF ImplicitBegin, Savepoint, BodySucceeds, BodySqlError, BodyClientError,
     BodyConnectionLost, BodyTruncatedThenFails, BodyEndsTransaction, RollbackQuery, RollbackTo,
     Goto, Keeps
<1>9. CASE CommitQuery
  <2>1. pc = "commit_query" /\ Cur.kind # "commit"
    BY <1>9 DEF CommitQuery, TxInv, PcInv, Past, Alone
  <2>2. PICK out \in CommitOutcomes : CommitAnswer(out) /\ Report(out)
    BY <1>9 DEF CommitQuery
  <2>3. db \subseteq db' /\ out \in Said
    BY <1>0, <2>2 DEF CommitAnswer, CommitOutcomes
  <2> QED
    BY <2>1, <2>2, <2>3, ReportKeeps
<1>10. CASE Release
  <2>1. pc = "release" /\ Cur.kind # "commit" /\ db' = db
    BY <1>10 DEF Release, TxInv, PcInv, Past, InBlock
  <2>2. Report("ok") \/ (log' = log /\ cnt' = cnt)
    BY <1>10 DEF Release
  <2>3. CASE Report("ok")
    BY <1>0, <2>1, <2>3, ReportKeeps
  <2> QED
    BY <2>1, <2>2, <2>3 DEF Keeps
<1>11. CASE RefuseBegin \/ RefuseFinish
  <2>1. pc # "idle" /\ Report("error") /\ db' = db
    BY <1>11 DEF RefuseBegin, RefuseFinish
  <2> QED
    BY <1>0, <2>1, ReportKeeps
<1>12. CASE MarkBegin \/ AdmitCommit
  BY <1>12 DEF MarkBegin, AdmitCommit, Goto, Keeps
<1>13. CASE BeginTx
  <2>1. pc = "begin_tx" /\ Cur.kind = "begin" /\ db' = db /\ (Report("ok") \/ Report("error"))
    BY <1>13 DEF BeginTx, TxInv, PcInv
  <2> QED
    BY <1>0, <2>1, ReportKeeps
<1>14. CASE SettleLost
  <2>1. /\ pc # "idle" /\ db' = db
        /\ Report("lost_rolled_back") \/ (pc = "rollback" /\ Report("ok"))
    BY <1>14 DEF SettleLost
  <2>2. pc = "rollback" => Cur.kind = "rollback"
    BY DEF TxInv, PcInv
  <2> QED
    BY <1>0, <2>1, <2>2, ReportKeeps
<1>15. CASE TxRollback
  <2>1. pc = "rollback" /\ Cur.kind = "rollback" /\ db' = db /\ (Report("ok") \/ Report("error"))
    BY <1>15 DEF TxRollback, TxInv, PcInv
  <2> QED
    BY <1>0, <2>1, ReportKeeps
<1>16. CASE Invalidate
  <2>1. pc = "invalidate" /\ Cur.kind = "invalidate" /\ db' = db /\ Report("ok")
    BY <1>16 DEF Invalidate, TxInv, PcInv
  <2> QED
    BY <1>0, <2>1, ReportKeeps
<1>17. CASE Environment
  BY <1>17 DEF Environment, CancelRunning, BackendDies, NoticeClosed, Keeps
<1> QED
  BY <1>1, <1>2, <1>3, <1>4, <1>5, <1>6, <1>7, <1>8, <1>9, <1>10, <1>11, <1>12, <1>13,
     <1>14, <1>15, <1>16, <1>17 DEF Query, Statement, TxControl

(* A commit answered COMMIT made every write of its transaction that was     *)
(* answered with success durable, whatever failed, was cancelled or lost its *)
(* connection in between (tx_commit).                                       *)
THEOREM CommitIsTrue == ASSUME Faults = {} PROVE Spec => []CommitTruth
<1>1. Init => CommitTruth
  BY DEF Init, CommitTruth, Reported
<1>2. TxInv /\ TxInv' /\ MatchInv /\ CommitTruth /\ [Next]_vars => CommitTruth'
  <2> SUFFICES ASSUME TxInv, TxInv', MatchInv, CommitTruth, [Next]_vars PROVE CommitTruth'
    OBVIOUS
  <2>1. CASE UNCHANGED vars
    <3>1. cnt' = cnt /\ log' = log /\ db' = db
      BY <2>1 DEF vars
    <3> QED
      BY <3>1, CommitKept
  <2>2. CASE \E kind \in AllKinds : Start(kind)
    BY <2>2, CommitStarts
  <2>3. CASE TxCommit
    BY <2>3, CommitPersists
  <2>4. CASE (Query \/ Statement \/ TxControl \/ Environment) /\ ~TxCommit
    <3>1. Keeps
      BY <2>4, OthersKeep
    <3> QED
      BY <3>1, CommitKept DEF Keeps
  <2> QED
    BY <2>1, <2>2, <2>3, <2>4 DEF Next
<1> QED
  BY <1>1, <1>2, TxAlways, MatchAlways, PTL DEF Spec

-----------------------------------------------------------------------------
(* TransactionContract.  What the executor must know besides, to keep it: a  *)
(* query with the permission to write is one that writes, a read-only         *)
(* transaction has no work, only a query is cancelled, a worker at rest has   *)
(* answered, and what a query commits it was permitted to write.             *)
PermitInv == \A n \in 1 .. MaxOps : log[n].write => log[n].sql
ReadOnlyInv == srv.ro => srv.work = {} /\ srv.spWork = {}
CancelInv == cancelled => pc # "idle" /\ Cur.kind = "query"
AnsweredInv == pc = "idle" /\ cnt # 0 => Cur.out # "running"
CommitsInv == pc = "commit_query" /\ Cur.sql => Cur.write
PureInv == PermitInv /\ ReadOnlyInv /\ CancelInv /\ AnsweredInv /\ CommitsInv

LEMMA InitPure == Init => PureInv
<1>1. Init => PermitInv
  BY DEF Init, PermitInv, NoOp
<1>2. Init => ReadOnlyInv
  BY DEF Init, ReadOnlyInv, Gone
<1>3. Init => CancelInv
  BY Zenon DEF Init, CancelInv
<1>4. Init => AnsweredInv /\ CommitsInv
  BY DEF Init, AnsweredInv, CommitsInv
<1> QED
  BY <1>1, <1>2, <1>3, <1>4 DEF PureInv

(* A step appends one operation, answers it or leaves the log alone.         *)
Tells(t) == log' = [log EXCEPT ![cnt].out = t] /\ cnt' = cnt
Asks(o) ==
  /\ pc = "idle" /\ cnt < MaxOps /\ cnt' = cnt + 1 /\ log' = [log EXCEPT ![cnt + 1] = o]
  /\ o \in Op /\ o.tx = curTx /\ o.out = "running" /\ (o.write => o.sql)

LEMMA StartAsks ==
  ASSUME TxInv, NEW kind \in AllKinds, Start(kind)
  PROVE  \E o : Asks(o) /\ o.kind = kind
<1>1. pc = "idle" /\ cnt < MaxOps /\ cnt' = cnt + 1
  BY DEF Start
<1>2. NoOp \in Op
  BY TxConstants DEF NoOp, Op, Outcomes
<1>3. curTx \in 0 .. MaxOps
  BY TxConstants DEF TxInv, LogInv
<1>4. CASE kind = "query"
  <2>1. PICK write \in BOOLEAN, sql \in BOOLEAN : (write => sql) /\ StartQuery(write, sql)
    BY <1>4 DEF Start
  <2> DEFINE o == [NoOp EXCEPT !.kind = "query", !.write = write, !.sql = sql, !.tx = curTx]
  <2>2. log' = [log EXCEPT ![cnt + 1] = o]
    BY <2>1 DEF StartQuery
  <2>3. o \in Op
    BY <1>2, <1>3 DEF Op, AllKinds
  <2>4. o.kind = "query" /\ o.tx = curTx /\ o.out = "running" /\ (o.write => o.sql)
    BY <2>1 DEF NoOp
  <2> QED
    BY <1>1, <1>4, <2>2, <2>3, <2>4 DEF Asks
<1>5. CASE kind = "begin"
  <2>1. PICK ro \in BOOLEAN :
          log' = [log EXCEPT ![cnt + 1] = [NoOp EXCEPT !.kind = kind, !.ro = ro, !.tx = curTx]]
    BY <1>5 DEF Start
  <2> DEFINE o == [NoOp EXCEPT !.kind = kind, !.ro = ro, !.tx = curTx]
  <2>2. o \in Op
    BY <1>2, <1>3 DEF Op
  <2>3. o.kind = kind /\ o.tx = curTx /\ o.out = "running" /\ ~o.write
    BY DEF NoOp
  <2> QED
    BY <1>1, <2>1, <2>2, <2>3 DEF Asks
<1>6. CASE kind \notin {"query", "begin"}
  <2> DEFINE o == [NoOp EXCEPT !.kind = kind, !.tx = curTx]
  <2>1. log' = [log EXCEPT ![cnt + 1] = o]
    BY <1>6 DEF Start
  <2>2. o \in Op
    BY <1>2, <1>3 DEF Op
  <2>3. o.kind = kind /\ o.tx = curTx /\ o.out = "running" /\ ~o.write
    BY DEF NoOp
  <2> QED
    BY <1>1, <2>1, <2>2, <2>3 DEF Asks
<1> QED
  BY <1>4, <1>5, <1>6

LEMMA ReportTells ==
  ASSUME NEW out \in Said, Report(out)
  PROVE  /\ Tells(Terminal(out)) /\ Terminal(out) \in Outcomes \ {"running"}
         /\ pc' = "idle"
  BY ReportMeans, TerminalOutcome DEF Tells

LEMMA LogSteps ==
  ASSUME TxInv, [Next]_vars
  PROVE  \/ pc' # "idle" /\ \E o : Asks(o)
         \/ pc # "idle" /\ pc' = "idle" /\ \E t \in Outcomes \ {"running"} : Tells(t)
         \/ log' = log /\ cnt' = cnt /\ (pc = "idle" <=> pc' = "idle")
<1> USE FailMeans
<1>0. {"ok", "error", "cancelled", "lost_rolled_back"} \cup CommitOutcomes \subseteq Said
  BY DEF Said, Outcomes, Errors, CommitOutcomes
<1>1. CASE UNCHANGED vars
  BY <1>1 DEF vars
<1>2. CASE \E kind \in AllKinds : Start(kind)
  <2>1. pc' # "idle"
    BY <1>2 DEF Start, AllKinds
  <2> QED
    BY <1>2, <2>1, StartAsks
<1>3. CASE Query
  <2>1. err \in Said \/ ~Settle
    BY DEF Settle, TxInv, ErrInv, Said, Errors
  <2> QED
    BY <1>0, <1>3, <2>1, ReportTells DEF Query, RejectQuery, FailLostTx, AdmitQuery, Info,
       KeepConnection, OpenConnection, ConnectFails, CheckCancel, Settle, Goto, AfterConnect
<1>4. CASE Statement
  BY <1>0, <1>4, ReportTells DEF Statement, ImplicitBegin, Savepoint, BodySucceeds,
     BodySqlError, BodyClientError, BodyConnectionLost, BodyTruncatedThenFails,
     BodyEndsTransaction, CommitQuery, RollbackQuery, Release, RollbackTo, Goto, AfterBody
<1>5. CASE TxControl
  BY <1>0, <1>5, ReportTells DEF TxControl, RefuseBegin, MarkBegin, BeginTx, RefuseFinish,
     SettleLost, AdmitCommit, TxCommit, TxRollback, Invalidate, Goto
<1>6. CASE Environment
  BY <1>6 DEF Environment, CancelRunning, BackendDies, NoticeClosed
<1> QED
  BY <1>1, <1>2, <1>3, <1>4, <1>5, <1>6 DEF Next

(* The running operation stays what it is until it is answered.             *)
LEMMA CurStays ==
  ASSUME TxInv, [Next]_vars, pc # "idle"
  PROVE  /\ cnt' = cnt
         /\ Cur'.kind = Cur.kind /\ Cur'.sql = Cur.sql /\ Cur'.write = Cur.write
         /\ pc' = "idle" => Cur'.out # "running"
<1>1. cnt \in 1 .. MaxOps
  BY DEF TxInv, LogInv
<1>2. CASE log' = log /\ cnt' = cnt /\ (pc = "idle" <=> pc' = "idle")
  BY <1>2 DEF Cur
<1>3. ASSUME NEW t \in Outcomes \ {"running"}, Tells(t)
      PROVE  cnt' = cnt /\ Cur'.kind = Cur.kind /\ Cur'.sql = Cur.sql
             /\ Cur'.write = Cur.write /\ Cur'.out # "running"
  BY <1>1, <1>3, EntriesKept DEF Tells, Cur, TxInv
<1> QED
  BY <1>2, <1>3, LogSteps DEF Asks

LEMMA PermitStep == ASSUME TxInv, PermitInv, [Next]_vars PROVE PermitInv'
<1>1. LogInv
  BY DEF TxInv
<1>2. CASE \E o : Asks(o)
  <2>1. PICK o : Asks(o)
    BY <1>2
  <2>2. \A n \in 1 .. MaxOps : log'[n] = IF n = cnt + 1 THEN o ELSE log[n]
    BY <1>1, <2>1 DEF Asks, LogInv
  <2> QED
    BY <2>1, <2>2 DEF Asks, PermitInv
<1>3. CASE pc # "idle" /\ \E t \in Outcomes \ {"running"} : Tells(t)
  <2>1. PICK t \in Outcomes \ {"running"} : Tells(t)
    BY <1>3
  <2>2. cnt \in 1 .. MaxOps
    BY <1>1, <1>3 DEF LogInv
  <2> QED
    BY <1>1, <2>1, <2>2, EntriesKept DEF Tells, PermitInv
<1>4. CASE log' = log /\ cnt' = cnt
  BY <1>4 DEF PermitInv
<1> QED
  BY <1>2, <1>3, <1>4, LogSteps

LEMMA ReadOnlyStep == ASSUME TxInv, ReadOnlyInv, [Next]_vars PROVE ReadOnlyInv'
<1>0. srv \in SrvStates
  BY DEF TxInv, SrvInv
<1>1. ASSUME \/ srv' \in {srv, Gone, Idle, Aborted(srv)} \/ srv' \in {InTx(TRUE), InTx(FALSE)}
      PROVE  ReadOnlyInv'
  BY <1>0, <1>1, GoneMeans, AbortedMeans, InTxMeans DEF ReadOnlyInv
<1>2. ASSUME srv' = WithWork PROVE ReadOnlyInv'
  <2>1. WithWork = srv \/ (Wrote /\ WithWork.ro = srv.ro)
    BY <1>0 DEF WithWork, SrvStates
  <2> QED
    BY <1>2, <2>1, <1>1 DEF ReadOnlyInv, Wrote
<1>3. ASSUME srv' = [srv EXCEPT !.work = @ \cup srv.spWork, !.spWork = {}]
      PROVE  ReadOnlyInv'
  BY <1>0, <1>3 DEF ReadOnlyInv, SrvStates
<1>4. ASSUME srv' = [srv EXCEPT !.st = "tx", !.spWork = {}] PROVE ReadOnlyInv'
  BY <1>0, <1>4 DEF ReadOnlyInv, SrvStates
<1>5. CASE UNCHANGED vars
  BY <1>1, <1>5 DEF vars
<1>6. CASE \E kind \in AllKinds : Start(kind)
  BY <1>1, <1>6, Means DEF Start
<1>7. CASE Query
  BY <1>1, <1>7, Means DEF Query, RejectQuery, FailLostTx, AdmitQuery, Info, KeepConnection,
     OpenConnection, ConnectFails, CheckCancel, Settle
<1>8. CASE Statement
  <2>1. CASE ImplicitBegin
    <3>1. Cur.write \in BOOLEAN
      BY <2>1 DEF ImplicitBegin, TxInv, LogInv, Op, Cur
    <3> QED
      BY <1>1, <2>1, <3>1 DEF ImplicitBegin
  <2>2. CASE Savepoint
    BY <1>1, <2>2 DEF Savepoint
  <2>3. CASE BodySucceeds \/ BodySqlError \/ BodyClientError \/ BodyConnectionLost
             \/ BodyTruncatedThenFails \/ BodyEndsTransaction
    BY <1>1, <1>2, <2>3 DEF BodySucceeds, BodySqlError, BodyClientError, BodyConnectionLost,
       BodyTruncatedThenFails, BodyEndsTransaction
  <2>4. CASE CommitQuery
    BY <1>1, <2>4 DEF CommitQuery, CommitAnswer
  <2>5. CASE RollbackQuery
    BY <1>1, <2>5 DEF RollbackQuery
  <2>6. CASE Release
    BY <1>1, <1>3, <2>6 DEF Release
  <2>7. CASE RollbackTo
    BY <1>1, <1>4, <2>7 DEF RollbackTo
  <2> QED
    BY <1>8, <2>1, <2>2, <2>3, <2>4, <2>5, <2>6, <2>7 DEF Statement
<1>9. CASE TxControl
  <2>1. CASE BeginTx
    <3>1. Cur.ro \in BOOLEAN
      BY <2>1 DEF BeginTx, TxInv, LogInv, Op, Cur
    <3> QED
      BY <1>1, <2>1, <3>1 DEF BeginTx
  <2>2. CASE TxCommit
    BY <1>1, <2>2 DEF TxCommit, CommitAnswer
  <2>3. CASE RefuseBegin \/ MarkBegin \/ RefuseFinish \/ SettleLost \/ AdmitCommit
             \/ TxRollback \/ Invalidate
    BY <1>1, <2>3, Means DEF RefuseBegin, MarkBegin, RefuseFinish, SettleLost, AdmitCommit,
       TxRollback, Invalidate
  <2> QED
    BY <1>9, <2>1, <2>2, <2>3 DEF TxControl
<1>10. CASE Environment
  BY <1>1, <1>10 DEF Environment, CancelRunning, BackendDies, NoticeClosed
<1> QED
  BY <1>5, <1>6, <1>7, <1>8, <1>9, <1>10 DEF Next

LEMMA CancelStep == ASSUME TxInv, CancelInv, [Next]_vars PROVE CancelInv'
<1>1. \/ cancelled' = FALSE
      \/ cancelled' = cancelled /\ (pc = "idle" \/ pc' # "idle")
      \/ CancelRunning
  <2>1. ASSUME NEW out, Report(out) PROVE cancelled' = FALSE
    BY <2>1, Zenon DEF Report
  <2>2. ASSUME NEW e, NEW next, next # "idle", Fail(e, next)
        PROVE  cancelled' = cancelled /\ pc' # "idle"
    BY <2>2, Zenon DEF Fail, Goto
  <2>3. CASE UNCHANGED vars \/ \E kind \in AllKinds : Start(kind)
    BY <2>3, Zenon DEF vars, Start
  <2>4. CASE Query
    BY <2>1, <2>4, Zenon DEF Query, RejectQuery, FailLostTx, AdmitQuery, Info, Goto,
       AfterConnect, KeepConnection, OpenConnection, ConnectFails, CheckCancel, Settle
  <2>5. CASE Statement
    BY <2>1, <2>2, <2>5, Zenon DEF Statement, ImplicitBegin, Savepoint, BodySucceeds,
       BodySqlError, BodyClientError, BodyConnectionLost, BodyTruncatedThenFails,
       BodyEndsTransaction, CommitQuery, RollbackQuery, Release, RollbackTo, Goto, AfterBody
  <2>6. CASE TxControl
    BY <2>1, <2>6, Zenon DEF TxControl, RefuseBegin, MarkBegin, BeginTx, RefuseFinish,
       SettleLost, AdmitCommit, TxCommit, TxRollback, Invalidate, Goto
  <2>7. CASE Environment
    BY <2>7, Zenon DEF Environment, BackendDies, NoticeClosed
  <2> QED
    BY <2>3, <2>4, <2>5, <2>6, <2>7, Zenon DEF Next
<1>2. CASE cancelled' = FALSE
  BY <1>2, Zenon DEF CancelInv
<1>3. CASE CancelRunning
  BY <1>3, Zenon DEF CancelRunning, CancelInv, Cur
<1>4. CASE cancelled' = cancelled /\ (pc = "idle" \/ pc' # "idle")
  BY <1>4, CurStays, Zenon DEF CancelInv
<1> QED
  BY <1>1, <1>2, <1>3, <1>4, Zenon

LEMMA AnsweredStep == ASSUME TxInv, AnsweredInv, [Next]_vars PROVE AnsweredInv'
<1>1. CASE pc # "idle"
  BY <1>1, CurStays DEF AnsweredInv
<1>2. CASE pc = "idle" /\ pc' = "idle"
  BY <1>2, LogSteps DEF AnsweredInv, Cur
<1> QED
  BY <1>1, <1>2 DEF AnsweredInv

LEMMA CommitsStep == ASSUME TxInv, CommitsInv, [Next]_vars PROVE CommitsInv'
<1> SUFFICES ASSUME pc' = "commit_query" PROVE Cur'.sql => Cur'.write
  BY DEF CommitsInv
<1>1. CASE pc = "commit_query"
  BY <1>1, CurStays DEF CommitsInv
<1>2. CASE pc # "commit_query"
  <2>1. ASSUME NEW out, Report(out) PROVE pc' = "idle"
    BY <2>1, ReportMeans
  <2>2. BodySucceeds \/ BodyEndsTransaction
    <3>1. ~UNCHANGED vars /\ ~(\E kind \in AllKinds : Start(kind))
      BY <1>2 DEF vars, Start, AllKinds
    <3>2. ~Query
      BY <1>2, <2>1 DEF Query, RejectQuery, FailLostTx, AdmitQuery, Info,
         KeepConnection, OpenConnection, ConnectFails, CheckCancel, Settle, Goto, AfterConnect
    <3>3. ~TxControl
      BY <1>2, <2>1 DEF TxControl, RefuseBegin, MarkBegin, BeginTx, RefuseFinish,
         SettleLost, AdmitCommit, TxCommit, TxRollback, Invalidate, Goto
    <3>4. ~Environment
      BY <1>2 DEF Environment, CancelRunning, BackendDies, NoticeClosed
    <3>5. Statement
      BY <3>1, <3>2, <3>3, <3>4 DEF Next
    <3> QED
      BY <1>2, <2>1, <3>5, FailMeans DEF Statement, ImplicitBegin, Savepoint, BodySqlError,
         BodyClientError, BodyConnectionLost, BodyTruncatedThenFails, CommitQuery,
         RollbackQuery, Release, RollbackTo, Goto, AfterBody
  <2>3. /\ pc = "body" /\ srv.st = "tx" /\ ~(Cur.sql /\ srv.ro) /\ ~Explicit
        /\ log' = log /\ cnt' = cnt
    BY <1>2, <2>2 DEF BodySucceeds, BodyEndsTransaction, Goto, AfterBody
  <2>4. explicitTx = 0
    BY <2>3 DEF TxInv, PcInv, Past, Explicit
  <2> QED
    BY <2>3, <2>4 DEF TxInv, SrvInv, Cur
<1> QED
  BY <1>1, <1>2

LEMMA PureAlways == Spec => []PureInv
<1>1. PureInv /\ TxInv /\ [Next]_vars => PureInv'
  BY PermitStep, ReadOnlyStep, CancelStep, AnsweredStep, CommitsStep DEF PureInv
<1> QED
  BY <1>1, InitPure, TxAlways, PTL DEF Spec
(* The session of the contract: what it was sent, and its transaction.       *)
Calls == [i \in 1 .. cnt |-> log[i]]

LEMMA CallsAre ==
  ASSUME LogInv
  PROVE  Calls \in Seq(Op) /\ Len(Calls) = cnt /\ \A i \in 1 .. cnt : Calls[i] = log[i]
<1>1. cnt \in Nat /\ \A i \in 1 .. cnt : log[i] \in Op
  BY TxConstants DEF LogInv
<1>2. Calls \in [1 .. cnt -> Op]
  BY <1>1 DEF Calls
<1>3. Calls \in Seq(Op)
  BY <1>1, <1>2, SeqDef
<1>4. Len(Calls) = cnt
  BY <1>1, <1>2, <1>3, LenProperties
<1> QED
  BY <1>3, <1>4 DEF Calls

LEMMA ModeIs ==
  /\ explicitTx = 0 => Mode = "idle"
  /\ explicitTx = 1 => Mode = "rw"
  /\ explicitTx = 2 => Mode = "ro"
  /\ explicitTx = 3 => Mode = "failed"
  BY DEF Mode

LEMMA ModeIsNext ==
  /\ explicitTx' = 0 => Mode' = "idle"
  /\ explicitTx' = 1 => Mode' = "rw"
  /\ explicitTx' = 2 => Mode' = "ro"
  /\ explicitTx' = 3 => Mode' = "failed"
  /\ explicitTx' = explicitTx => Mode' = Mode
  BY DEF Mode

LEMMA RunsCall ==
  ASSUME TxInv, pc # "idle"
  PROVE  /\ Contract!Last = cnt /\ Contract!Current = Cur
         /\ \A kind : Contract!Running(kind) <=> Cur.kind = kind
<1>1. cnt \in 1 .. MaxOps /\ Cur.out = "running" /\ LogInv
  BY DEF TxInv, LogInv, Cur
<1>2. Len(Calls) = cnt /\ Calls[cnt] = Cur
  BY <1>1, CallsAre DEF Cur
<1>3. Calls # <<>>
  BY <1>1, <1>2
<1>4. Contract!Last = cnt
  BY <1>2 DEF Contract!Last, Calls
<1>5. Contract!Current = Cur
  BY <1>2, <1>4 DEF Contract!Current, Calls
<1> QED
  BY <1>1, <1>3, <1>4, <1>5 DEF Contract!Running, Calls

LEMMA TellsCall ==
  ASSUME TxInv, pc # "idle", NEW t, Tells(t)
  PROVE  Contract!Answer(t)
<1>1. cnt \in 1 .. MaxOps /\ LogInv
  BY DEF TxInv, LogInv
<1>2. Contract!Last = cnt
  BY RunsCall
<1> DEFINE o == [log[cnt] EXCEPT !.out = t]
<1>3. log' = [log EXCEPT ![cnt] = o] /\ cnt' = cnt
  BY DEF Tells
<1>4. Calls[cnt] = log[cnt]
  BY <1>1 DEF Calls
<1>5. [Calls EXCEPT ![cnt].out = t] = [Calls EXCEPT ![cnt] = o]
  BY <1>4
<1> HIDE DEF o
<1>6. Calls' = [Calls EXCEPT ![cnt] = o]
  <2>1. \A i \in 1 .. cnt : log'[i] = IF i = cnt THEN o ELSE log[i]
    BY <1>1, <1>3, TxConstants DEF LogInv
  <2>2. Calls' = [i \in 1 .. cnt |-> IF i = cnt THEN o ELSE log[i]]
    BY <1>3, <2>1 DEF Calls
  <2> QED
    BY <2>2 DEF Calls
<1> QED
  BY <1>2, <1>5, <1>6 DEF Contract!Answer, Calls

LEMMA Hidden ==
  ASSUME log' = log, cnt' = cnt, explicitTx' = explicitTx, curTx' = curTx, db' = db
  PROVE  UNCHANGED Contract!vars
<1>1. Calls' = Calls
  BY DEF Calls
<1> QED
  BY <1>1, ModeIsNext DEF Contract!vars, Calls

(* An operation is sent.                                                    *)
LEMMA SendsCall ==
  ASSUME TxInv, AnsweredInv, NEW o, Asks(o), o.kind \in AllKinds,
         explicitTx' = explicitTx, curTx' = curTx, db' = db
  PROVE  Contract!Next
<1>1. LogInv /\ cnt \in 0 .. MaxOps /\ cnt \in Nat
  BY TxConstants DEF TxInv, LogInv
<1>2. Calls \in Seq(Op) /\ Len(Calls) = cnt /\ \A i \in 1 .. cnt : Calls[i] = log[i]
  BY <1>1, CallsAre
<1>3. Calls # <<>> => Calls[Len(Calls)].out # "running"
  <2>1. CASE cnt = 0
    BY <1>2, <2>1, EmptySeq
  <2>2. CASE cnt # 0
    BY <1>1, <1>2, <2>2 DEF AnsweredInv, Asks, Cur
  <2> QED
    BY <2>1, <2>2
<1> DEFINE r == [kind |-> o.kind, write |-> o.write, sql |-> o.sql, ro |-> o.ro,
                 tx |-> curTx, out |-> "running"]
<1>4. o = r /\ o.write \in BOOLEAN /\ o.sql \in BOOLEAN /\ o.ro \in BOOLEAN
  BY DEF Asks, Op
<1>5. cnt + 1 \in 1 .. MaxOps
  BY <1>1, TxConstants DEF Asks
<1>6. Calls' = Append(Calls, o)
  <2>1. Append(Calls, o) \in Seq(Op) /\ Len(Append(Calls, o)) = cnt + 1
    BY <1>2 DEF Asks
  <2>2. Calls' = [i \in 1 .. cnt + 1 |-> IF i = cnt + 1 THEN o ELSE log[i]]
    BY <1>1, <1>5 DEF Calls, Asks, LogInv
  <2>3. \A i \in 1 .. cnt + 1 : Append(Calls, o)[i] = Calls'[i]
    BY <1>1, <1>2, <2>2
  <2>4. Append(Calls, o) = [i \in 1 .. cnt + 1 |-> Append(Calls, o)[i]]
    BY <2>1, LenProperties
  <2> QED
    BY <2>2, <2>3, <2>4
<1>7. Calls' = Append(Calls, r)
  BY <1>4, <1>6
<1> HIDE DEF r
<1>8. Contract!Send
  BY <1>3, <1>4, <1>7, ModeIsNext DEF Contract!Send, Contract!Operations, Contract!Current,
     Contract!Last, Contract!Same, Calls, r, AllKinds
<1> QED
  BY <1>8 DEF Contract!Next

(* The answers that change no transaction.                                  *)
Quiet == explicitTx' = explicitTx /\ curTx' = curTx /\ db' = db

LEMMA SameCall == ASSUME Quiet PROVE Contract!Same
  BY ModeIsNext DEF Quiet, Contract!Same

LEMMA TerminalIs ==
  ASSUME NEW out, Cur.kind # "info"
  PROVE  /\ out \in {"error", "internal"} => Terminal(out) = "failed"
         /\ ~cancelled /\ out \in Errors => Terminal(out) = "failed"
         /\ out \in Errors \cup {"cancelled"} => Terminal(out) \in {"failed", "cancelled"}
         /\ out \in {"ok", "commit_unknown", "lost_rolled_back"} => Terminal(out) = out
  BY Zenon DEF Terminal, Errors

LEMMA TellsReport == ASSUME NEW out, Report(out) PROVE Tells(Terminal(out))
  BY ReportMeans DEF Tells

LEMMA Informs ==
  ASSUME TxInv, pc # "idle", Cur.kind = "info", NEW out, Report(out), Quiet
  PROVE  Contract!Next
<1>1. Terminal(out) = "ok"
  BY TerminalMeans
<1>2. Contract!Answer("ok")
  BY <1>1, TellsReport, TellsCall
<1> QED
  BY <1>2, RunsCall, SameCall DEF Contract!Inform, Contract!Next

LEMMA Errs ==
  ASSUME TxInv, pc # "idle", Cur.kind \in {"query", "info"},
         NEW out \in Errors \cup {"cancelled"}, Report(out), Quiet
  PROVE  Contract!Next
<1>1. CASE Cur.kind = "query"
  <2>1. PICK t \in {"failed", "cancelled"} : Tells(t)
    BY <1>1, TerminalIs, TellsReport
  <2> QED
    BY <1>1, <2>1, TellsCall, RunsCall, SameCall DEF Contract!QueryFails, Contract!Next
<1> QED
  BY <1>1, Informs

LEMMA LosesTransaction ==
  ASSUME TxInv, pc # "idle", Cur.kind = "query", Explicit,
         NEW out \in {"error", "internal"}, Report(out),
         explicitTx' = 3, curTx' = curTx, db' = db
  PROVE  Contract!Next
<1>1. Contract!Answer("failed")
  BY TerminalIs, TellsReport, TellsCall
<1>2. Mode \in {"rw", "ro"} /\ Mode' = "failed"
  BY ModeIs, ModeIsNext DEF Explicit
<1> QED
  BY <1>1, <1>2, RunsCall DEF Contract!QueryLosesTransaction, Contract!Next

LEMMA BeginFails ==
  ASSUME TxInv, pc # "idle", Cur.kind = "begin", explicitTx # 0, Report("error"), Quiet
  PROVE  Contract!Next
<1>1. Contract!Answer("failed")
  BY TerminalIs, TellsReport, TellsCall
<1>2. Mode # "idle"
  BY ModeIs DEF TxInv, PcInv
<1> QED
  BY <1>1, <1>2, RunsCall, SameCall DEF Contract!NotBegun, Contract!Next

-----------------------------------------------------------------------------
(* Each step of the executor is a step of the contract or none.              *)

LEMMA QueryKeeps ==
  ASSUME TxInv, Query
  PROVE  Contract!Next \/ UNCHANGED Contract!vars
<1> USE Means DEF Quiet
<1>1. CASE RejectQuery
  <2>1. pc = "query" /\ Cur.kind = "query" /\ Report("error") /\ Quiet
    BY <1>1 DEF RejectQuery, TxInv, PcInv
  <2> QED
    BY <2>1, Errs DEF Errors
<1>2. CASE FailLostTx
  <2>1. /\ pc = "query" /\ Cur.kind = "query" /\ Explicit /\ Report("error")
        /\ explicitTx' = 3 /\ curTx' = curTx /\ db' = db
    BY <1>2 DEF FailLostTx, TxInv, PcInv
  <2> QED
    BY <2>1, LosesTransaction
<1>3. CASE AdmitQuery \/ KeepConnection \/ OpenConnection
  BY <1>3, Hidden DEF AdmitQuery, KeepConnection, OpenConnection, Goto
<1>4. CASE Info
  <2>1. pc = "info" /\ Cur.kind = "info" /\ Quiet
    BY <1>4 DEF Info, TxInv, PcInv
  <2>2. Report("ok") \/ (log' = log /\ cnt' = cnt)
    BY <1>4 DEF Info, Goto
  <2> QED
    BY <2>1, <2>2, Informs, Hidden
<1>5. CASE ConnectFails
  <2>1. pc = "connect" /\ Report("error") /\ Quiet
    BY <1>5 DEF ConnectFails
  <2>2. Cur.kind \in {"query", "info", "begin"} /\ (Cur.kind = "begin" => explicitTx = 3)
    BY <2>1 DEF TxInv, PcInv
  <2> QED
    BY <2>1, <2>2, Errs, BeginFails DEF Errors
<1>6. CASE CheckCancel
  <2>1. pc = "context" /\ Cur.kind \in {"query", "info"} /\ Quiet
    BY <1>6 DEF CheckCancel, TxInv, PcInv, Past
  <2>2. Report("cancelled") \/ (log' = log /\ cnt' = cnt)
    BY <1>6, Zenon DEF CheckCancel, Goto
  <2> QED
    BY <2>1, <2>2, Errs, Hidden
<1>7. CASE Settle
  <2>1. /\ pc = "settle" /\ Cur.kind \in {"query", "info"} /\ Report(err)
        /\ err \in Errors /\ db' = db /\ curTx' = curTx
        /\ Cur.kind = "info" => explicitTx = 0
    BY <1>7 DEF Settle, TxInv, PcInv, Past, ErrInv
  <2>2. \/ explicitTx' = explicitTx
        \/ err = "internal" /\ Explicit /\ explicitTx' = 3
    BY <1>7 DEF Settle, DropsConnection
  <2>3. CASE explicitTx' = explicitTx
    BY <2>1, <2>3, Errs
  <2>4. CASE err = "internal" /\ Explicit /\ explicitTx' = 3
    <3>1. Cur.kind = "query"
      BY <2>1, <2>4 DEF Explicit
    <3> QED
      BY <2>1, <2>4, <3>1, LosesTransaction
  <2> QED
    BY <2>2, <2>3, <2>4
<1> QED
  BY <1>1, <1>2, <1>3, <1>4, <1>5, <1>6, <1>7 DEF Query

(* What the COMMIT of a query makes durable is that query, if it writes.     *)
LEMMA QueryCommits ==
  ASSUME TxInv, PureInv, pc = "commit_query", srv.st = "tx"
  PROVE  db \cup srv.work \cup srv.spWork = IF Cur.sql THEN db \cup {cnt} ELSE db
<1>1. /\ cnt \in 1 .. cnt /\ cnt \in 1 .. MaxOps /\ explicitTx = 0 /\ curTx = 0
      /\ srv.work \subseteq 1 .. cnt /\ 1 .. cnt \subseteq 1 .. MaxOps
  BY TxConstants DEF TxInv, LogInv, PcInv, SrvInv, Alone
<1>2. srv.spWork = {}
  BY DEF TxInv, SrvInv, WorkInv, Open
<1>3. ASSUME NEW i \in srv.work, i # cnt PROVE i \in db
  <2>1. log[i].kind = "query" /\ log[i].write /\ log[i].tx = 0 /\ log[i].out = "ok"
    BY <1>1, <1>3 DEF TxInv, WorkInv, Open
  <2>2. i \in Writes(0)
    BY <1>1, <1>3, <2>1 DEF Writes, Queries, PureInv, PermitInv
  <2> QED
    BY <2>1, <2>2 DEF TxInv, HistoryInv, SuccessTruth
<1>4. cnt \in srv.work => Cur.sql
  BY <1>1 DEF TxInv, WorkInv, Open, PureInv, PermitInv, Cur
<1>5. Cur.sql => cnt \in srv.work
  BY DEF TxInv, WorkInv, Open
<1> QED
  BY <1>2, <1>3, <1>4, <1>5

LEMMA StatementKeeps ==
  ASSUME TxInv, PureInv, Statement
  PROVE  Contract!Next \/ UNCHANGED Contract!vars
<1> USE FailMeans, Means
<1>1. explicitTx' = explicitTx /\ curTx' = curTx
  BY Zenon DEF Statement, ImplicitBegin, Savepoint, BodySucceeds, BodySqlError, session,
     history,
     BodyClientError, BodyConnectionLost, BodyTruncatedThenFails,
     BodyEndsTransaction, CommitQuery, RollbackQuery, Release, RollbackTo
<1>2. CASE ImplicitBegin \/ Savepoint \/ BodySucceeds \/ BodySqlError \/ BodyClientError
           \/ BodyConnectionLost \/ BodyTruncatedThenFails \/ BodyEndsTransaction
             \/ RollbackQuery \/ RollbackTo
  <2>1. log' = log /\ cnt' = cnt /\ db' = db
    BY <1>2 DEF ImplicitBegin, Savepoint, BodySucceeds, BodySqlError, BodyClientError,
       BodyConnectionLost, BodyTruncatedThenFails, BodyEndsTransaction, RollbackQuery,
       RollbackTo, Goto
  <2> QED
    BY <1>1, <2>1, Hidden
<1>3. CASE Release
  <2>1. pc = "release" /\ Cur.kind = "query" /\ Explicit /\ db' = db
    BY <1>3 DEF Release, TxInv, PcInv, Past, InBlock, Explicit
  <2>2. CASE srv.st = "tx" /\ Report("ok")
    <3>1. Contract!Answer("ok")
      BY <2>1, <2>2, TerminalIs, TellsReport, TellsCall
    <3>2. Mode = "rw" => Cur.write
      BY <2>1, ModeIs DEF TxInv, PcInv, Past, InBlock, Explicit
    <3>3. Mode = "ro" => ~Cur.sql
      <4> SUFFICES ASSUME explicitTx = 2, Cur.sql PROVE FALSE
        BY <2>1, ModeIs DEF Explicit
      <4>1. srv.ro /\ cnt \in srv.spWork
        BY <2>1, <2>2 DEF TxInv, SrvInv, WorkInv, Open
      <4> QED
        BY <4>1 DEF PureInv, ReadOnlyInv
    <3>4. Mode \in {"rw", "ro"}
      BY <2>1, ModeIs DEF Explicit
    <3> QED
      BY <1>1, <2>1, <3>1, <3>2, <3>3, <3>4, RunsCall, SameCall
         DEF Quiet, Contract!QueryInside, Contract!Next
  <2>3. CASE log' = log /\ cnt' = cnt
    BY <1>1, <2>1, <2>3, Hidden
  <2> QED
    BY <1>3, <2>2, <2>3 DEF Release
<1>4. CASE CommitQuery
  <2>1. /\ pc = "commit_query" /\ explicitTx = 0 /\ Cur.kind \in {"query", "info"}
        /\ srv.st \in {"tx", "gone"} \/ ~Cur.sql
        /\ Cur.sql => Cur.write
        /\ Cur.kind = "info" => ~Cur.sql
    BY <1>4 DEF CommitQuery, TxInv, PcInv, Past, Alone, SrvInv, PureInv, CommitsInv, LogInv,
       Shaped, Cur
  <2>2. PICK out \in CommitOutcomes : CommitAnswer(out) /\ Report(out)
    BY <1>4 DEF CommitQuery
  <2>3. \/ out = "ok" /\ db' = IF Cur.sql THEN db \cup {cnt} ELSE db
        \/ out = "commit_unknown" /\ (db' = db \/ (Cur.sql /\ db' = db \cup {cnt}))
        \/ out \in Errors /\ db' = db
    BY <2>1, <2>2, QueryCommits DEF CommitAnswer, Errors
  <2>4. CASE Cur.kind = "info"
    BY <1>1, <2>1, <2>2, <2>3, <2>4, Informs DEF Quiet
  <2>5. CASE Cur.kind = "query" /\ out \in Errors
    BY <1>1, <2>1, <2>2, <2>3, <2>5, Errs DEF Quiet, Errors
  <2>6. CASE Cur.kind = "query" /\ out \in {"ok", "commit_unknown"}
    <3>1. Contract!Answer(out)
      BY <2>1, <2>2, <2>6, TerminalIs, TellsReport, TellsCall
    <3>2. Mode = "idle" /\ Mode' = Mode
      BY <1>1, <2>1, ModeIs, ModeIsNext
    <3>3. Contract!QueryAlone
      BY <1>1, <2>1, <2>3, <2>6, <3>1, <3>2, RunsCall DEF Contract!QueryAlone, Errors
    <3> QED
      BY <3>3 DEF Contract!Next
  <2> QED
    BY <2>1, <2>2, <2>4, <2>5, <2>6 DEF CommitOutcomes, Errors
<1> QED
  BY <1>2, <1>3, <1>4 DEF Statement

(* What the COMMIT of a transaction makes durable are the writes of it that   *)
(* were answered with success.                                              *)
LEMMA TransactionCommits ==
  ASSUME TxInv, PureInv, pc = "send_commit", srv.st = "tx"
  PROVE  db \cup srv.work \cup srv.spWork = db \cup Contract!Wrote
<1>1. /\ cnt \in 1 .. MaxOps /\ curTx # 0 /\ LogInv /\ srv.work \subseteq 1 .. cnt
      /\ 1 .. cnt \subseteq 1 .. MaxOps
  BY TxConstants DEF TxInv, LogInv, PcInv, SrvInv, Explicit
<1>2. srv.spWork = {}
  BY DEF TxInv, SrvInv, WorkInv, Open
<1>3. \A i \in 1 .. cnt :
        i \in srv.work <=> /\ log[i].kind = "query" /\ log[i].tx = curTx
                           /\ log[i].sql /\ log[i].out = "ok"
  BY <1>1 DEF TxInv, WorkInv, Open, PureInv, PermitInv
<1>4. Contract!Last = cnt
  BY RunsCall
<1>5. Contract!Wrote = {i \in 1 .. cnt : /\ Calls[i].kind = "query" /\ Calls[i].tx = curTx
                                        /\ Calls[i].sql /\ Calls[i].out = "ok"}
  BY <1>4 DEF Contract!Wrote, Calls
<1>6. \A i \in 1 .. cnt : Calls[i] = log[i]
  BY DEF Calls
<1>7. srv.work = Contract!Wrote
  BY <1>1, <1>3, <1>5, <1>6
<1> QED
  BY <1>2, <1>7

Matched == Faults = {} => MatchInv

LEMMA CommitKeeps ==
  ASSUME TxInv, PureInv, Matched, TxCommit
  PROVE  Contract!Next
<1>0. ~cancelled
  BY Zenon DEF TxCommit, TxInv, PcInv, PureInv, CancelInv
<1>1. /\ pc = "send_commit" /\ Cur.kind = "commit" /\ Explicit
      /\ explicitTx' = 0 /\ curTx' = 0
  BY DEF TxCommit, TxInv, PcInv, InBlock
<1>2. PICK out \in CommitOutcomes : CommitAnswer(out) /\ Report(out)
  BY DEF TxCommit
<1>t. PICK t : t = Terminal(out)
  OBVIOUS
<1>3. Contract!Answer(t)
  BY <1>1, <1>2, <1>t, TellsReport, TellsCall
<1>4. /\ Mode \in {"rw", "ro"} /\ Contract!Settled
  BY <1>1, ModeIs, ModeIsNext DEF Explicit, Contract!Settled
<1>5. srv.st \in {"idle", "aborted"} => Faults # {}
  BY <1>1 DEF Matched, MatchInv
<1>6. \/ out = "ok" /\ (db' = db \cup Contract!Wrote \/ (Faults # {} /\ db' = db))
      \/ out = "commit_unknown" /\ db' \in {db, db \cup Contract!Wrote}
      \/ out \in {"error", "57014"} /\ db' = db
  BY <1>1, <1>2, <1>5, TransactionCommits DEF CommitAnswer
<1>7. \/ t = "ok" /\ (db' = db \cup Contract!Wrote \/ (Faults # {} /\ db' = db))
      \/ t = "commit_unknown" /\ db' \in {db, db \cup Contract!Wrote}
      \/ t = "failed" /\ db' = db
  <2>1. /\ out = "ok" => t = "ok"
        /\ out = "commit_unknown" => t = "commit_unknown"
        /\ out \in {"error", "57014"} => t = "failed"
    BY <1>0, <1>1, <1>t, TerminalIs, Zenon DEF Errors
  <2> QED
    BY <1>6, <2>1
<1>8. Contract!Running("commit")
  BY <1>1, RunsCall
<1>9. Contract!Commit
  BY <1>3, <1>4, <1>7, <1>8 DEF Contract!Commit
<1> QED
  BY <1>9 DEF Contract!Next

LEMMA TxControlKeeps ==
  ASSUME TxInv, PureInv, Matched, TxControl
  PROVE  Contract!Next \/ UNCHANGED Contract!vars
<1> USE Means DEF Quiet
<1>1. CASE RefuseBegin
  <2>1. pc = "begin_op" /\ Cur.kind = "begin" /\ explicitTx # 0 /\ Report("error") /\ Quiet
    BY <1>1 DEF RefuseBegin, TxInv, PcInv
  <2> QED
    BY <2>1, BeginFails
<1>2. CASE MarkBegin
  <2>1. /\ pc = "begin_op" /\ Cur.kind = "begin" /\ explicitTx = 0 /\ explicitTx' = 3
        /\ curTx' = cnt /\ log' = log /\ cnt' = cnt /\ db' = db
    BY <1>2 DEF MarkBegin, Goto, TxInv, PcInv
  <2>2. Mode = "idle" /\ Mode' = "failed" /\ Calls' = Calls
    BY <2>1, ModeIs, ModeIsNext DEF Calls
  <2>3. Contract!Enter
    BY <2>1, <2>2, RunsCall DEF Contract!Enter, Calls
  <2> QED
    BY <2>3 DEF Contract!Next
<1>3. CASE BeginTx
  <2>1. /\ pc = "begin_tx" /\ Cur.kind = "begin" /\ explicitTx = 3 /\ curTx = cnt
        /\ curTx' = curTx /\ db' = db
    BY <1>3 DEF BeginTx, TxInv, PcInv
  <2>2. CASE Report("error") /\ explicitTx' = explicitTx
    BY <2>1, <2>2, BeginFails
  <2>3. CASE Report("ok") /\ explicitTx' = IF Cur.ro THEN 2 ELSE 1
    <3>1. Contract!Answer("ok")
      BY <2>1, <2>3, TerminalIs, TellsReport, TellsCall
    <3>2. Mode = "failed" /\ Mode' = IF Cur.ro THEN "ro" ELSE "rw"
      BY <2>1, <2>3, ModeIs, ModeIsNext
    <3>3. Contract!Begun
      BY <2>1, <3>1, <3>2, RunsCall DEF Contract!Begun
    <3> QED
      BY <3>3 DEF Contract!Next
  <2> QED
    BY <1>3, <2>2, <2>3 DEF BeginTx
<1>4. CASE RefuseFinish
  <2>1. /\ pc # "idle" /\ Cur.kind \in {"commit", "rollback"} /\ explicitTx = 0
        /\ Report("error") /\ Quiet
    BY <1>4 DEF RefuseFinish, TxInv, PcInv
  <2>2. Contract!Answer("failed")
    BY <2>1, TerminalIs, TellsReport, TellsCall
  <2>3. Contract!NothingToSettle
    BY <2>1, <2>2, RunsCall, SameCall, ModeIs DEF Contract!NothingToSettle
  <2> QED
    BY <2>3 DEF Contract!Next
<1>5. CASE SettleLost
  <2>1. /\ pc \in {"commit", "rollback"} /\ Cur.kind = pc /\ explicitTx # 0
        /\ explicitTx' = 0 /\ curTx' = 0 /\ db' = db
        /\ Report(IF pc = "commit" THEN "lost_rolled_back" ELSE "ok")
    BY <1>5 DEF SettleLost, Explicit, TxInv, PcInv
  <2>2. Mode # "idle" /\ Contract!Settled
    BY <2>1, ModeIs, ModeIsNext DEF TxInv, PcInv, Contract!Settled
  <2>3. CASE pc = "commit"
    <3>1. Contract!Answer("lost_rolled_back")
      BY <2>1, <2>3, TerminalIs, TellsReport, TellsCall
    <3>2. Contract!CommitLost
      BY <2>1, <2>2, <2>3, <3>1, RunsCall DEF Contract!CommitLost
    <3> QED
      BY <3>2 DEF Contract!Next
  <2>4. CASE pc = "rollback"
    <3>1. Contract!Answer("ok")
      BY <2>1, <2>4, TerminalIs, TellsReport, TellsCall
    <3>2. Contract!Rollback
      BY <2>1, <2>2, <2>4, <3>1, RunsCall DEF Contract!Rollback
    <3> QED
      BY <3>2 DEF Contract!Next
  <2> QED
    BY <2>1, <2>3, <2>4
<1>6. CASE AdmitCommit
  BY <1>6, Hidden DEF AdmitCommit, Goto
<1>7. CASE TxCommit
  BY <1>7, CommitKeeps
<1>8. CASE TxRollback
  <2>1. /\ pc = "rollback" /\ Cur.kind = "rollback" /\ Explicit
        /\ explicitTx' = 0 /\ curTx' = 0 /\ db' = db
        /\ Report("ok") \/ Report("error")
    BY <1>8 DEF TxRollback, TxInv, PcInv
  <2>2. Contract!Answer("ok") \/ Contract!Answer("failed")
    BY <2>1, TerminalIs, TellsReport, TellsCall
  <2>3. Mode \in {"rw", "ro"} /\ Contract!Settled
    BY <2>1, ModeIs, ModeIsNext DEF Explicit, Contract!Settled
  <2>4. Contract!Rollback
    BY <2>1, <2>2, <2>3, RunsCall DEF Contract!Rollback
  <2> QED
    BY <2>4 DEF Contract!Next
<1>9. CASE Invalidate
  <2>1. /\ pc = "invalidate" /\ Cur.kind = "invalidate" /\ Report("ok")
        /\ explicitTx' = 0 /\ curTx' = 0 /\ db' = db
    BY <1>9 DEF Invalidate, TxInv, PcInv
  <2>2. Contract!Answer("ok")
    BY <2>1, TerminalIs, TellsReport, TellsCall
  <2>3. Contract!Invalidate
    BY <2>1, <2>2, RunsCall, ModeIsNext DEF Contract!Invalidate, Contract!Settled
  <2> QED
    BY <2>3 DEF Contract!Next
<1> QED
  BY <1>1, <1>2, <1>3, <1>4, <1>5, <1>6, <1>7, <1>8, <1>9 DEF TxControl

LEMMA NextKeeps ==
  ASSUME TxInv, PureInv, Matched, [Next]_vars
  PROVE  Contract!Next \/ UNCHANGED Contract!vars
<1>1. CASE UNCHANGED vars
  BY <1>1, Hidden DEF vars
<1>2. ASSUME NEW kind \in AllKinds, Start(kind) PROVE Contract!Next
  <2>1. PICK o : Asks(o) /\ o.kind = kind
    BY <1>2, StartAsks
  <2>2. explicitTx' = explicitTx /\ curTx' = curTx /\ db' = db
    BY <1>2, Means DEF Start
  <2> QED
    BY <2>1, <2>2, SendsCall DEF PureInv
<1>3. CASE Query
  BY <1>3, QueryKeeps
<1>4. CASE Statement
  BY <1>4, StatementKeeps
<1>5. CASE TxControl
  BY <1>5, TxControlKeeps
<1>6. CASE Environment
  <2>1. /\ log' = log /\ cnt' = cnt /\ explicitTx' = explicitTx /\ curTx' = curTx /\ db' = db
    BY <1>6, Means DEF Environment, CancelRunning, BackendDies, NoticeClosed
  <2> QED
    BY <2>1, Hidden
<1> QED
  BY <1>1, <1>2, <1>3, <1>4, <1>5, <1>6 DEF Next

(* The executor keeps TransactionContract: each operation takes effect in    *)
(* one step, at its answer, and a transaction at its COMMIT, for any number  *)
(* of operations, connections, lost backends and cancels.                   *)
THEOREM ExecutorKeepsContract == Spec => KeepsContract
<1>1. Init => Contract!Init
  <2> SUFFICES ASSUME Init PROVE Contract!Init
    OBVIOUS
  <2>1. cnt = 0 /\ explicitTx = 0 /\ curTx = 0 /\ db = {}
    BY DEF Init
  <2>2. Calls = <<>>
    BY <2>1 DEF Calls
  <2> QED
    BY <2>1, <2>2, ModeIs DEF Contract!Init, Calls
<1>2. Init => Matched
  BY DEF Init, Matched, MatchInv, Explicit, Gone
<1>3. TxInv /\ Matched /\ [Next]_vars => Matched'
  <2> SUFFICES ASSUME TxInv, Matched, [Next]_vars, Faults = {} PROVE MatchInv'
    BY DEF Matched
  <2> QED
    BY MatchNext DEF Matched
<1> QED
  BY <1>1, <1>2, <1>3, NextKeeps, TxAlways, PureAlways, PTL
     DEF Spec, KeepsContract, Contract!Spec
=============================================================================
