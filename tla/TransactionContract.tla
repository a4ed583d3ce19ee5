------------------------ MODULE TransactionContract ------------------------
(***************************************************************************)
(* What one session promises to a caller who sees its operations and their *)
(* answers, and no statement, connection, savepoint or backend: an answer  *)
(* and what it makes durable are one step.                                 *)
(*                                                                         *)
(* A query outside a transaction takes effect when it is answered.  From    *)
(* the moment a begin is taken until a commit, a rollback or an invalidate *)
(* settles it, nothing takes effect but, at the commit and all at once, the *)
(* writes that were answered with success.  A transaction fails only with  *)
(* an answer that says so, takes no query from then on and cannot commit.  *)
(***************************************************************************)
EXTENDS Naturals, Sequences

CONSTANT HidesFailure  \* may a COMMIT that rolled back be answered as success?

VARIABLES
  calls,  \* the operations sent to the session, each with its answer
  mode,   \* "idle", or of a transaction: "rw", "ro", "failed"
  tx,     \* the begin of that transaction, 0 if there is none
  db      \* the operations whose write is durable

vars == <<calls, mode, tx, db>>

Init == calls = <<>> /\ mode = "idle" /\ tx = 0 /\ db = {}

Operations == {"query", "begin", "commit", "rollback", "info", "invalidate"}

Last == Len(calls)
Current == calls[Last]
Running(kind) ==
  calls # <<>> /\ Current.kind = kind /\ Current.out = "running"

(* What a commit of the transaction makes durable.                          *)
Wrote ==
  {i \in 1 .. Last : /\ calls[i].kind = "query" /\ calls[i].tx = tx
                     /\ calls[i].sql /\ calls[i].out = "ok"}

Answer(out) == calls' = [calls EXCEPT ![Last].out = out]
Same == UNCHANGED <<mode, tx, db>>
Settled == mode' = "idle" /\ tx' = 0

(* One operation at a time.                                                 *)
Send ==
  /\ calls # <<>> => Current.out # "running"
  /\ \E kind \in Operations : \E write, sql, ro \in BOOLEAN :
       calls' = Append(calls, [kind |-> kind, write |-> write, sql |-> sql, ro |-> ro,
                               tx |-> tx, out |-> "running"])
  /\ Same

(* Until it is answered with success, a transaction counts as failed.       *)
Enter ==
  /\ Running("begin") /\ mode = "idle"
  /\ mode' = "failed" /\ tx' = Last
  /\ UNCHANGED <<calls, db>>

Begun ==
  /\ Running("begin") /\ mode = "failed" /\ tx = Last
  /\ Answer("ok")
  /\ mode' = IF Current.ro THEN "ro" ELSE "rw"
  /\ UNCHANGED <<tx, db>>

NotBegun == Running("begin") /\ mode # "idle" /\ Answer("failed") /\ Same

QueryAlone ==
  /\ Running("query") /\ mode = "idle" /\ (Current.sql => Current.write)
  /\ \/ Answer("ok") /\ db' = IF Current.sql THEN db \cup {Last} ELSE db
     \/ Answer("commit_unknown") /\ (db' = db \/ (Current.sql /\ db' = db \cup {Last}))
  /\ UNCHANGED <<mode, tx>>

QueryInside ==
  /\ Running("query") /\ mode \in {"rw", "ro"}
  /\ mode = "rw" => Current.write
  /\ mode = "ro" => ~Current.sql
  /\ Answer("ok") /\ Same

QueryFails ==
  /\ Running("query")
  /\ \E out \in {"failed", "cancelled"} : Answer(out)
  /\ Same

(* The connection is lost under the transaction, and the answer is an error. *)
QueryLosesTransaction ==
  /\ Running("query") /\ mode \in {"rw", "ro"}
  /\ Answer("failed") /\ mode' = "failed"
  /\ UNCHANGED <<tx, db>>

Commit ==
  /\ Running("commit") /\ mode \in {"rw", "ro"}
  /\ \/ Answer("ok") /\ (db' = db \cup Wrote \/ (HidesFailure /\ db' = db))
     \/ Answer("commit_unknown") /\ db' \in {db, db \cup Wrote}
     \/ Answer("failed") /\ db' = db
  /\ Settled

CommitLost ==
  /\ Running("commit") /\ mode # "idle"
  /\ Answer("lost_rolled_back") /\ Settled /\ UNCHANGED db

Rollback ==
  /\ Running("rollback") /\ mode # "idle"
  /\ Answer("ok") \/ (mode # "failed" /\ Answer("failed"))
  /\ Settled /\ UNCHANGED db

NothingToSettle ==
  /\ Running("commit") \/ Running("rollback")
  /\ mode = "idle" /\ Answer("failed") /\ Same

Inform == Running("info") /\ Answer("ok") /\ Same

Invalidate == Running("invalidate") /\ Answer("ok") /\ Settled /\ UNCHANGED db

Next ==
  \/ Send
  \/ Enter \/ Begun \/ NotBegun
  \/ QueryAlone \/ QueryInside \/ QueryFails \/ QueryLosesTransaction
  \/ Commit \/ CommitLost \/ Rollback \/ NothingToSettle
  \/ Inform \/ Invalidate

Spec == Init /\ [][Next]_vars
=============================================================================
