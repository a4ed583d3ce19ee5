----------------------------- MODULE RowDelivery -----------------------------
(***************************************************************************)
(* How the rows of one query reach the caller: collected up to the inline  *)
(* caps and sent in one result, or streamed in batches between a           *)
(* result_start and a result_end.  Inside the query's own transaction the  *)
(* rows come from a portal that is asked for some of them at a time, inside *)
(* an explicit transaction from one unlimited query.  A row is its number; *)
(* what is known of it is the size of its JSON text.                       *)
(*                                                                         *)
(* Sources: src/db/executor.rs (InlineRowCollector, collect_*, drain_*,    *)
(* stream_*, execute_*_in_open_tx_inner), src/handler.rs (OutputRowSink,    *)
(* handle_streaming_result) and what src/pipe.rs does when the writer stops.*)
(***************************************************************************)
EXTENDS Naturals, Sequences, FiniteSets

CONSTANTS
  MaxTotal,      \* rows of a query
  Sizes,         \* sizes of a row
  RowLimits,     \* values of inline_max_rows
  ByteLimits,    \* values of inline_max_bytes and of batch_bytes
  BatchLimits,   \* values of batch_rows, at least 1 by resolve_options
  PortalBatch    \* INLINE_PORTAL_BATCH_ROWS

ASSUME DeliveryConstants ==
  /\ MaxTotal \in Nat
  /\ Sizes \subseteq Nat
  /\ RowLimits \subseteq Nat /\ ByteLimits \subseteq Nat
  /\ BatchLimits \subseteq Nat \ {0}
  /\ PortalBatch \in Nat \ {0}

VARIABLES
  size,        \* size[i]: the bytes of row i of the query's full result
  opt,         \* the resolved options and what the server makes of the query
  pc,          \* where execute, or execute_streaming, is
  pos,         \* rows read so far
  left,        \* rows of the current fetch not read yet
  suspended,   \* did the fetch end at its limit, not at the last row?
  kept,        \* InlineRowCollector.rows
  bytes,       \* its payload_bytes
  cut,         \* truncated_at_rows, truncated_at_bytes: "no", "rows", "bytes"
  batch,       \* OutputRowSink.batch
  batchBytes,  \* OutputRowSink.batch_bytes
  out,         \* the events written for the query
  stopped      \* has the writer stopped, its channel closed?

collector == <<kept, bytes, cut>>
sink == <<batch, batchBytes>>
portal == <<pos, left, suspended>>
vars == <<size, opt, pc, portal, collector, sink, out, stopped>>

Total == Len(size)
Unlimited == MaxTotal + 1
Least(a, b) == IF a <= b THEN a ELSE b
Most(a, b) == IF a >= b THEN a ELSE b

(* stream, openTx: which of the four paths; wraps: is the query accepted    *)
(* inside the to_jsonb wrapper, else decodes: has each column a fallback    *)
(* decoder; writes: a RETURNING whose rows the server computes first;      *)
(* failAt: the row whose computation fails, or 0.                          *)
Options ==
  [stream : BOOLEAN, openTx : BOOLEAN, wraps : BOOLEAN, decodes : BOOLEAN,
   writes : BOOLEAN, failAt : 0 .. MaxTotal, maxRows : RowLimits,
   maxBytes : ByteLimits, batchRows : BatchLimits, batchBytes : ByteLimits]

Init ==
  /\ size \in UNION {[1 .. k -> Sizes] : k \in 0 .. MaxTotal}
  /\ opt \in Options
  /\ pc = "prepare"
  /\ pos = 0 /\ left = 0 /\ suspended = FALSE
  /\ kept = <<>> /\ bytes = 0 /\ cut = "no"
  /\ batch = <<>> /\ batchBytes = 0
  /\ out = <<>> /\ stopped = FALSE

Event(kind, rows, n) == [kind |-> kind, rows |-> rows, n |-> n]
Send(event) == out' = IF stopped THEN out ELSE Append(out, event)

(* emit_exec_error: what is still in the batch is dropped.                  *)
Fail ==
  /\ Send(Event("error", <<>>, 0))
  /\ pc' = "done"
  /\ UNCHANGED <<size, opt, portal, collector, sink, stopped>>

-----------------------------------------------------------------------------
(* Before the first row.                                                   *)

PrepareFails == pc = "prepare" /\ Fail

(* No columns: the answer is a result, in a stream too.                    *)
Command ==
  /\ pc = "prepare" /\ size = <<>>
  /\ Send(Event("result", <<>>, 0))
  /\ pc' = "done"
  /\ UNCHANGED <<size, opt, portal, collector, sink, stopped>>

(* The wrapper is tried first; a query it cannot hold runs unwrapped if     *)
(* every column has a decoder.                                             *)
Prepare ==
  /\ pc = "prepare"
  /\ opt.wraps \/ opt.decodes
  /\ pc' = IF opt.stream THEN "start" ELSE "fetch"
  /\ UNCHANGED <<size, opt, portal, collector, sink, out, stopped>>

(* The sink starts only once the rows are known to come; a closed channel   *)
(* fails the query.                                                        *)
Start ==
  /\ pc = "start" /\ ~stopped
  /\ Send(Event("start", <<>>, 0))
  /\ pc' = "fetch"
  /\ UNCHANGED <<size, opt, portal, collector, sink, stopped>>

StartFails == pc = "start" /\ stopped /\ Fail

-----------------------------------------------------------------------------
(* Fetching.                                                               *)

(* inline_fetch_rows: one more than may still be kept, so that a full       *)
(* collector learns whether it is all.                                      *)
InlineFetch ==
  LET room == IF opt.maxRows > Len(kept) THEN opt.maxRows - Len(kept) ELSE 0
  IN Most(1, Least(room + 1, Least(opt.batchRows, PortalBatch)))

(* query_raw has no limit; a portal is asked for a number of rows.          *)
OneQuery == opt.openTx \/ (opt.stream /\ ~opt.wraps)
Limit == IF OneQuery THEN Unlimited
         ELSE IF opt.stream THEN PortalBatch ELSE InlineFetch

(* A portal stops at its limit without looking for another row.             *)
Fetch ==
  /\ pc = "fetch"
  /\ left' = Least(Limit, Total - pos)
  /\ suspended' = (Limit <= Total - pos)
  /\ pc' = "row"
  /\ UNCHANGED <<size, opt, pos, collector, sink, out, stopped>>

(* The server fails at the row, or before the first of a RETURNING; a row   *)
(* that came cannot be decoded.                                            *)
RowFails ==
  /\ pc = "row" /\ left > 0
  /\ \/ opt.failAt = pos + 1
     \/ opt.writes /\ opt.failAt \in 1 .. Total
     \/ ~opt.wraps
  /\ Fail

Arrives ==
  /\ pc = "row" /\ left > 0
  /\ opt.failAt # pos + 1
  /\ ~(opt.writes /\ opt.failAt \in 1 .. Total)
  /\ pos' = pos + 1

-----------------------------------------------------------------------------
(* The inline collector.                                                   *)

(* Mutant: push does not ask is_truncated first.                            *)
PushAnyway ==
  LET b == bytes + size[pos + 1] IN
    IF Len(kept) + 1 > opt.maxRows
    THEN cut' = "rows" /\ UNCHANGED <<kept, bytes>>
    ELSE IF b > opt.maxBytes
    THEN cut' = "bytes" /\ UNCHANGED <<kept, bytes>>
    ELSE kept' = Append(kept, pos + 1) /\ bytes' = b /\ UNCHANGED cut

Push ==
  LET b == bytes + size[pos + 1] IN
    IF cut # "no" THEN UNCHANGED collector
    ELSE IF Len(kept) + 1 > opt.maxRows
    THEN cut' = "rows" /\ UNCHANGED <<kept, bytes>>
    ELSE IF b > opt.maxBytes
    THEN cut' = "bytes" /\ UNCHANGED <<kept, bytes>>
    ELSE kept' = Append(kept, pos + 1) /\ bytes' = b /\ UNCHANGED cut

(* A truncated portal batch is read to its end; a truncated query in an     *)
(* explicit transaction is dropped at once.                                *)
CollectRow ==
  /\ ~opt.stream /\ Arrives
  /\ Push
  /\ left' = IF opt.openTx /\ cut' # "no" THEN 0 ELSE left - 1
  /\ UNCHANGED <<size, opt, pc, suspended, sink, out, stopped>>

-----------------------------------------------------------------------------
(* The stream's sink.                                                      *)

(* Mutant: a batch goes out when the next row would be one too many.        *)
BatchFullLate(rows, n) == Len(rows) > opt.batchRows \/ n > opt.batchBytes

BatchFull(rows, n) == Len(rows) >= opt.batchRows \/ n >= opt.batchBytes

BatchRow ==
  /\ opt.stream /\ Arrives
  /\ LET rows == Append(batch, pos + 1)
         n == batchBytes + size[pos + 1]
     IN IF BatchFull(rows, n)
        THEN /\ batch' = <<>> /\ batchBytes' = 0
             /\ Send(Event("rows", rows, Len(rows)))
             /\ pc' = IF stopped THEN "broken" ELSE pc
        ELSE batch' = rows /\ batchBytes' = n /\ UNCHANGED <<out, pc>>
  /\ left' = left - 1
  /\ UNCHANGED <<size, opt, suspended, collector, stopped>>

(* The batch could not be sent: the query fails.                           *)
ChannelClosed == pc = "broken" /\ Fail

-----------------------------------------------------------------------------
(* The end of a fetch and of the query.                                     *)

(* Mutant: only the cap ends the reading.                                   *)
EndFetchOnlyAtCap ==
  /\ pc = "row" /\ left = 0
  /\ pc' = IF cut # "no" THEN "finish" ELSE "fetch"
  /\ UNCHANGED <<size, opt, portal, collector, sink, out, stopped>>

(* rows_affected is known when the server said it had no more rows.         *)
EndFetch ==
  /\ pc = "row" /\ left = 0
  /\ pc' = IF ~suspended \/ cut # "no" THEN "finish" ELSE "fetch"
  /\ UNCHANGED <<size, opt, portal, collector, sink, out, stopped>>

(* COMMIT or RELEASE may fail after the last row was delivered.  RELEASE    *)
(* always does when the server failed behind the rows that were read.      *)
FinishFails == pc = "finish" /\ Fail

HiddenFailure == opt.openTx /\ opt.failAt \in 1 .. Total

SendResult ==
  /\ pc = "finish" /\ ~opt.stream /\ ~HiddenFailure
  /\ Send(Event("result", kept, Len(kept)))
  /\ pc' = "done"
  /\ UNCHANGED <<size, opt, portal, collector, sink, stopped>>

(* Mutant: the last batch is left in the sink.                              *)
SkipLastFlush ==
  /\ pc = "finish" /\ opt.stream
  /\ pc' = "end"
  /\ UNCHANGED <<size, opt, portal, collector, sink, out, stopped>>

(* Mutant: the last batch goes out even when it is empty.                   *)
FlushAlways ==
  /\ pc = "finish" /\ opt.stream
  /\ Send(Event("rows", batch, Len(batch)))
  /\ batch' = <<>> /\ batchBytes' = 0
  /\ pc' = "end"
  /\ UNCHANGED <<size, opt, portal, collector, stopped>>

(* flush_batch, its result ignored: there is only the end left to lose.     *)
FlushLast ==
  /\ pc = "finish" /\ opt.stream
  /\ IF batch = <<>> THEN UNCHANGED out
     ELSE Send(Event("rows", batch, Len(batch)))
  /\ batch' = <<>> /\ batchBytes' = 0
  /\ pc' = "end"
  /\ UNCHANGED <<size, opt, portal, collector, stopped>>

SendEnd ==
  /\ pc = "end"
  /\ Send(Event("end", <<>>, pos))
  /\ pc' = "done"
  /\ UNCHANGED <<size, opt, portal, collector, sink, stopped>>

(* stdout is closed: the writer task ends and its channel refuses.          *)
WriterStops ==
  /\ pc # "done" /\ ~stopped
  /\ stopped' = TRUE
  /\ UNCHANGED <<size, opt, pc, portal, collector, sink, out>>

Deliver ==
  \/ PrepareFails \/ Command \/ Prepare \/ Start \/ StartFails
  \/ Fetch \/ RowFails \/ CollectRow \/ BatchRow \/ ChannelClosed
  \/ EndFetch \/ FinishFails \/ SendResult \/ FlushLast \/ SendEnd

Next == Deliver \/ WriterStops

Spec == Init /\ [][Next]_vars

(* The task that runs the query is polled until it is done.                 *)
FairSpec == Spec /\ WF_vars(Deliver)
-----------------------------------------------------------------------------
Events == [kind : {"start", "rows", "end", "result", "error"},
           rows : Seq(1 .. MaxTotal), n : 0 .. MaxTotal]

(* Every variable keeps its type, and neither the collector nor the sink    *)
(* outgrows the limits it was given (InlineRowCollector, OutputRowSink).    *)
TypeOK ==
  /\ size \in Seq(Sizes) /\ Total <= MaxTotal
  /\ opt \in Options
  /\ pc \in {"prepare", "start", "fetch", "row", "broken", "finish", "end",
             "done"}
  /\ pos \in 0 .. Total /\ left \in 0 .. Total - pos
  /\ suspended \in BOOLEAN
  /\ kept \in Seq(1 .. MaxTotal) /\ Len(kept) <= opt.maxRows
  /\ bytes \in 0 .. opt.maxBytes
  /\ cut \in {"no", "rows", "bytes"}
  /\ batch \in Seq(1 .. MaxTotal) /\ Len(batch) < opt.batchRows
  /\ batchBytes \in Nat
  /\ out \in Seq(Events)
  /\ stopped \in BOOLEAN

FirstRows(k) == [i \in 1 .. k |-> i]
BytesOf(sizes, k) ==
  LET sum[i \in 0 .. k] == IF i = 0 THEN 0 ELSE sum[i - 1] + sizes[i]
  IN sum[k]

(* A result holds the first rows of the query, all of them unless it says   *)
(* that it was truncated, and then as many as the cap it names lets through *)
(* ("`true' when `rows' is a prefix of the full result").                   *)
ResultIsPrefix ==
  \A e \in DOMAIN out : out[e].kind = "result" =>
    LET k == out[e].n IN
      /\ out[e].rows = FirstRows(k)
      /\ CASE cut = "no" -> k = Total
           [] cut = "rows" -> k < Total /\ k = opt.maxRows
           [] cut = "bytes" -> k < Total /\ BytesOf(size, k + 1) > opt.maxBytes

(* The number of the last row the events before event e delivered.          *)
Delivered(e) ==
  IF e = 1 \/ out[e - 1].kind # "rows" THEN 0
  ELSE out[e - 1].rows[out[e - 1].n]

(* A stream that ends has delivered every row once, in order, and counts    *)
(* them right; one that does not end has delivered the first of them.       *)
StreamIsWhole ==
  \A e \in DOMAIN out :
    /\ out[e].kind = "rows" =>
         out[e].rows = [i \in 1 .. out[e].n |-> Delivered(e) + i]
    /\ out[e].kind = "end" => Delivered(e) = Total /\ out[e].n = Total

(* The events of a query are result_start, batches that hold rows, and one  *)
(* terminal event; or a terminal event alone, a result only where nothing   *)
(* was streamed.                                                            *)
StreamGrammar ==
  \A e \in DOMAIN out :
    /\ out[e].kind \in {"end", "result", "error"} => e = Len(out)
    /\ out[e].kind \in {"start", "result"} => e = 1
    /\ out[e].kind \in {"rows", "end"} => e > 1 /\ out[1].kind = "start"
    /\ out[e].kind = "rows" => out[e].rows # <<>>

(* A query whose caller still reads is given a terminal event.              *)
EveryQueryEnds == <>(pc = "done" /\ (stopped \/ out # <<>>))
=============================================================================
