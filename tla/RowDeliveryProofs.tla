--------------------------- MODULE RowDeliveryProofs ---------------------------
(***************************************************************************)
(* Theorems about RowDelivery, for results of any length, rows of any size *)
(* and any limits.                                                         *)
(***************************************************************************)
EXTENDS RowDelivery, SequenceTheorems, DataInduction, TLAPS

-----------------------------------------------------------------------------
(* What the query, the portal and the collector hold.                       *)

QueryInv ==
  /\ size \in Seq(Sizes) /\ Total <= MaxTotal
  /\ opt \in Options
  /\ pc \in {"prepare", "start", "fetch", "row", "broken", "finish", "end", "done"}
  /\ pos \in 0 .. Total /\ left \in 0 .. Total - pos

CollectorInv ==
  /\ kept \in Seq(1 .. MaxTotal) /\ Len(kept) <= opt.maxRows /\ Len(kept) <= pos
  /\ bytes \in 0 .. opt.maxBytes
  /\ cut \in {"no", "rows", "bytes"}

SinkInv ==
  /\ batch \in Seq(1 .. MaxTotal) /\ Len(batch) < opt.batchRows
  /\ batchBytes \in Nat

FlagsInv == suspended \in BOOLEAN /\ stopped \in BOOLEAN

(* The batch is the rows read last, and before the end of the stream there   *)
(* is nothing left of the query but what the portal still has.               *)
StreamInv ==
  opt.stream =>
    /\ cut = "no"
    /\ pc \in {"prepare", "start"} => pos = 0
    /\ pc \in {"prepare", "start", "end"} => batch = <<>>
    /\ pc \in {"prepare", "start", "fetch", "row", "finish", "end"} =>
         /\ Len(batch) <= pos
         /\ \A i \in 1 .. Len(batch) : batch[i] = pos - Len(batch) + i
    /\ pc = "row" /\ ~suspended => pos + left = Total
    /\ pc \in {"finish", "end"} => pos = Total

-----------------------------------------------------------------------------
(* The events.                                                              *)

Terminals == {"end", "result", "error"}
Told == Delivered(Len(out) + 1)

EventsInv ==
  /\ out \in Seq(Events)
  /\ StreamGrammar /\ StreamIsWhole
  /\ pc # "done" => \A e \in 1 .. Len(out) : out[e].kind \notin Terminals

(* A stream under way has been started, and told of every row but those of  *)
(* the batch.                                                               *)
ToldInv ==
  /\ ~opt.stream => pc \notin {"start", "broken", "end"}
  /\ pc # "done" /\ (~opt.stream \/ pc \in {"prepare", "start"}) => out = <<>>
  /\ opt.stream /\ pc \in {"fetch", "row", "finish", "end"} /\ ~stopped =>
       /\ out # <<>> /\ out[1].kind = "start"
       /\ Told = pos - Len(batch)
  /\ pc = "broken" => stopped

LEMMA OptionsMean ==
  ASSUME QueryInv
  PROVE  /\ opt.stream \in BOOLEAN /\ opt.openTx \in BOOLEAN /\ opt.wraps \in BOOLEAN
         /\ opt.maxRows \in Nat /\ opt.maxBytes \in Nat
         /\ opt.batchRows \in Nat \ {0} /\ opt.batchBytes \in Nat
         /\ Total \in Nat /\ MaxTotal \in Nat
         /\ \A i \in 1 .. Total : size[i] \in Nat
<1>1. opt \in Options /\ size \in Seq(Sizes)
  BY DEF QueryInv
<1>2. /\ opt.stream \in BOOLEAN /\ opt.openTx \in BOOLEAN /\ opt.wraps \in BOOLEAN
      /\ opt.maxRows \in RowLimits /\ opt.maxBytes \in ByteLimits
      /\ opt.batchRows \in BatchLimits /\ opt.batchBytes \in ByteLimits
  BY <1>1 DEF Options
<1>3. Total \in Nat /\ \A i \in 1 .. Total : size[i] \in Sizes
  BY <1>1 DEF Total
<1> QED
  BY <1>2, <1>3, DeliveryConstants

LEMMA EmptyRows == <<>> \in Seq(1 .. MaxTotal) /\ Len(<<>>) = 0 /\ 0 \in 0 .. MaxTotal
  BY DeliveryConstants

LEMMA InitRows == Init => QueryInv /\ CollectorInv /\ SinkInv /\ StreamInv /\ EventsInv /\ ToldInv
<1> SUFFICES ASSUME Init
    PROVE  QueryInv /\ CollectorInv /\ SinkInv /\ StreamInv /\ EventsInv /\ ToldInv
  OBVIOUS
<1>1. size \in Seq(Sizes) /\ Total \in 0 .. MaxTotal
  <2>1. PICK k \in 0 .. MaxTotal : size \in [1 .. k -> Sizes]
    BY DEF Init
  <2>2. k \in Nat
    BY DeliveryConstants
  <2>3. size \in Seq(Sizes)
    BY <2>1, <2>2, SeqDef
  <2>4. Len(size) = k
    BY <2>1, <2>2, <2>3, LenProperties
  <2> QED
    BY <2>3, <2>4 DEF Total
<1>2. QueryInv
  BY <1>1, DeliveryConstants DEF Init, QueryInv
<1>3. CollectorInv /\ SinkInv
  BY <1>2, OptionsMean, EmptyRows DEF Init, CollectorInv, SinkInv
<1>4. StreamInv
  BY DEF Init, StreamInv
<1>5. EventsInv
  BY DEF Init, EventsInv, StreamGrammar, StreamIsWhole
<1>6. ToldInv
  BY DEF Init, ToldInv
<1> QED
  BY <1>2, <1>3, <1>4, <1>5, <1>6

-----------------------------------------------------------------------------
(* Sending an event.                                                        *)

LEMMA SendMeans ==
  ASSUME out \in Seq(Events), NEW event \in Events, Send(event)
  PROVE  /\ out' \in Seq(Events)
         /\ stopped => out' = out
         /\ ~stopped => /\ Len(out') = Len(out) + 1
                        /\ \A e \in 1 .. Len(out) : out'[e] = out[e]
                        /\ out'[Len(out) + 1] = event
<1>1. CASE stopped
  BY <1>1 DEF Send
<1>2. CASE ~stopped
  <2>1. out' = Append(out, event)
    BY <1>2 DEF Send
  <2> QED
    BY <1>2, <2>1
<1> QED
  BY <1>1, <1>2

LEMMA EventIsOne ==
  ASSUME NEW kind \in {"start", "rows", "end", "result", "error"},
         NEW rows \in Seq(1 .. MaxTotal), NEW n \in 0 .. MaxTotal
  PROVE  Event(kind, rows, n) \in Events
  BY DEF Event, Events

LEMMA Sends ==
  ASSUME EventsInv, NEW event \in Events, Send(event), pc # "done", size' = size,
         event.kind \in {"start", "result"} => out = <<>>,
         (event.kind \in {"rows", "end"} /\ ~stopped) => out # <<>> /\ out[1].kind = "start",
         event.kind = "rows" => event.rows # <<>>,
         (event.kind = "rows" /\ ~stopped) => event.rows = [i \in 1 .. event.n |-> Told + i],
         (event.kind = "end" /\ ~stopped) => Told = Total /\ event.n = Total,
         event.kind \in Terminals => pc' = "done"
  PROVE  /\ EventsInv'
         /\ ~stopped => /\ out' # <<>>
                        /\ out'[1] = IF out = <<>> THEN event ELSE out[1]
                        /\ Told' = IF event.kind = "rows" THEN event.rows[event.n] ELSE 0
<1> DEFINE k == Len(out) + 1
<1>1. out \in Seq(Events) /\ Len(out) \in Nat
  BY DEF EventsInv
<1>2. CASE stopped
  <2>1. out' = out
    BY <1>1, <1>2, SendMeans
  <2>2. StreamGrammar'
    BY <2>1 DEF EventsInv, StreamGrammar
  <2>3. StreamIsWhole'
    <3>1. \A e \in DOMAIN out : Delivered(e)' = Delivered(e)
      BY <2>1 DEF Delivered
    <3>2. Total' = Total /\ DOMAIN out' = DOMAIN out
      BY <2>1 DEF Total
    <3>3. StreamIsWhole
      BY DEF EventsInv
    <3> QED
      BY <2>1, <3>1, <3>2, <3>3 DEF StreamIsWhole
  <2>4. \A e \in 1 .. Len(out') : out'[e].kind \notin Terminals
    BY <2>1 DEF EventsInv
  <2> QED
    BY <1>1, <1>2, <2>1, <2>2, <2>3, <2>4 DEF EventsInv
<1>3. CASE ~stopped
  <2>1. /\ out' \in Seq(Events) /\ Len(out') = k
        /\ \A e \in 1 .. Len(out) : out'[e] = out[e]
        /\ out'[k] = event
    BY <1>1, <1>3, SendMeans
  <2>2. DOMAIN out' = 1 .. k /\ DOMAIN out = 1 .. Len(out)
    BY <1>1, <2>1
  <2>3. \A e \in 1 .. k : e \in 1 .. Len(out) \/ e = k
    BY <1>1
  <2>4. \A e \in 1 .. k : Delivered(e)' = Delivered(e)
    <3>1. ASSUME NEW e \in 1 .. k
          PROVE  Delivered(e)' = Delivered(e)
      <4>1. e = 1 \/ e - 1 \in 1 .. Len(out)
        BY <1>1
      <4>2. e # 1 => out'[e - 1] = out[e - 1]
        BY <2>1, <4>1
      <4> QED
        BY <4>2 DEF Delivered
    <3> QED
      BY <3>1
  <2>5. \A e \in 1 .. k : e = k => Delivered(e)' = Told
    BY <1>1, <2>4 DEF Told
  <2>6. StreamGrammar'
    <3>1. \A e \in 1 .. Len(out) : out[e].kind \notin Terminals
      BY DEF EventsInv
    <3>2. ASSUME NEW e \in 1 .. k
          PROVE  /\ out'[e].kind \in Terminals => e = k
                 /\ out'[e].kind \in {"start", "result"} => e = 1
                 /\ out'[e].kind \in {"rows", "end"} => e > 1 /\ out'[1].kind = "start"
                 /\ out'[e].kind = "rows" => out'[e].rows # <<>>
      <4>1. CASE e \in 1 .. Len(out)
        BY <1>1, <2>1, <2>2, <3>1, <4>1 DEF EventsInv, StreamGrammar
      <4>2. CASE e = k
        BY <1>1, <1>3, <2>1, <4>2
      <4> QED
        BY <2>3, <4>1, <4>2
    <3> QED
      BY <2>1, <2>2, <3>2 DEF StreamGrammar, Terminals
  <2>7. StreamIsWhole'
    <3>1. ASSUME NEW e \in 1 .. k
          PROVE  /\ out'[e].kind = "rows" =>
                      out'[e].rows = [i \in 1 .. out'[e].n |-> Delivered(e)' + i]
                 /\ out'[e].kind = "end" => Delivered(e)' = Total /\ out'[e].n = Total
      <4>1. CASE e \in 1 .. Len(out)
        <5>1. out'[e] = out[e] /\ Delivered(e)' = Delivered(e)
          BY <1>1, <2>1, <2>4, <4>1
        <5>2. /\ out[e].kind = "rows" =>
                    out[e].rows = [i \in 1 .. out[e].n |-> Delivered(e) + i]
              /\ out[e].kind = "end" => Delivered(e) = Total /\ out[e].n = Total
          BY <2>2, <4>1 DEF EventsInv, StreamIsWhole
        <5> QED
          BY <5>1, <5>2
      <4>2. CASE e = k
        <5>1. out'[e] = event /\ Delivered(e)' = Told
          BY <2>1, <2>5, <4>2
        <5> QED
          BY <1>3, <5>1
      <4> QED
        BY <2>3, <4>1, <4>2
    <3> QED
      BY <2>2, <3>1 DEF StreamIsWhole, Total
  <2>8. EventsInv'
    <3>1. pc' # "done" => \A e \in 1 .. Len(out') : out'[e].kind \notin Terminals
      BY <2>1, <2>3 DEF EventsInv
    <3> QED
      BY <2>1, <2>6, <2>7, <3>1 DEF EventsInv
  <2>9. Told' = IF event.kind = "rows" THEN event.rows[event.n] ELSE 0
    BY <1>1, <2>1 DEF Told, Delivered
  <2>10. out' # <<>> /\ out'[1] = IF out = <<>> THEN event ELSE out[1]
    BY <1>1, <2>1
  <2> QED
    BY <1>3, <2>8, <2>9, <2>10
<1> QED
  BY <1>2, <1>3

LEMMA Quiet ==
  ASSUME EventsInv, pc # "done", size' = size, out' = out
  PROVE  EventsInv' /\ Told' = Told
<1>1. \A e \in Nat : Delivered(e)' = Delivered(e)
  BY DEF Delivered
<1>2. Total' = Total /\ DOMAIN out' = DOMAIN out /\ DOMAIN out \subseteq Nat
  BY DEF Total, EventsInv
<1>3. StreamGrammar'
  BY DEF EventsInv, StreamGrammar
<1>4. StreamIsWhole'
  BY <1>1, <1>2 DEF EventsInv, StreamIsWhole
<1>5. out \in Seq(Events) /\ \A e \in 1 .. Len(out) : out[e].kind \notin Terminals
  BY DEF EventsInv
<1>6. EventsInv'
  BY <1>3, <1>4, <1>5 DEF EventsInv
<1>7. Told' = Told
  BY DEF Told, Delivered
<1> QED
  BY <1>6, <1>7

-----------------------------------------------------------------------------
(* Every step keeps what the variables hold.                                *)

TypeInv == QueryInv /\ CollectorInv /\ SinkInv /\ FlagsInv

LEMMA StepTypes == TypeInv /\ [Next]_vars => TypeInv'
<1> SUFFICES ASSUME TypeInv, [Next]_vars
    PROVE  TypeInv'
  OBVIOUS
<1> USE DEF QueryInv, CollectorInv, SinkInv, collector, sink, portal, Total
<1>0. QueryInv /\ CollectorInv /\ SinkInv /\ FlagsInv
  BY DEF TypeInv
<1>1. ASSUME Fail PROVE TypeInv'
  <2>1. QueryInv' /\ CollectorInv' /\ SinkInv'
    BY <1>0, <1>1 DEF Fail
  <2>2. FlagsInv'
    BY <1>0, <1>1, Zenon DEF FlagsInv, Fail, portal
  <2> QED
    BY <2>1, <2>2 DEF TypeInv
<1>2. ASSUME UNCHANGED <<size, opt, portal, collector, sink>>, FlagsInv',
             pc' \in {"start", "fetch", "row", "finish", "end", "done", pc}
      PROVE  TypeInv'
  <2>1. QueryInv' /\ CollectorInv' /\ SinkInv'
    BY <1>0, <1>2
  <2> QED
    BY <1>2, <2>1 DEF TypeInv
<1>3. CASE PrepareFails \/ StartFails \/ RowFails \/ ChannelClosed \/ FinishFails
  BY <1>1, <1>3 DEF PrepareFails, StartFails, RowFails, ChannelClosed, FinishFails
<1>4. CASE Command \/ Prepare \/ Start \/ EndFetch \/ SendResult \/ SendEnd
  <2>1. UNCHANGED <<size, opt, portal, collector, sink, stopped>>
    BY <1>4, Zenon DEF Command, Prepare, Start, EndFetch, SendResult, SendEnd
  <2>2. pc' \in {"start", "fetch", "row", "finish", "end", "done", pc}
    BY <1>4 DEF Command, Prepare, Start, EndFetch, SendResult, SendEnd
  <2>3. FlagsInv'
    BY <1>0, <2>1, Zenon DEF FlagsInv, portal
  <2> QED
    BY <1>2, <2>1, <2>2, <2>3
<1>5. CASE Fetch
  <2>1. Limit \in Nat
    BY <1>0, OptionsMean, DeliveryConstants DEF Limit, Unlimited, InlineFetch, Least, Most
  <2>2. left' \in 0 .. Total - pos
    BY <1>0, <1>5, <2>1 DEF Fetch, Least
  <2>3. QueryInv' /\ CollectorInv' /\ SinkInv'
    BY <1>0, <1>5, <2>2 DEF Fetch
  <2>4. suspended' \in BOOLEAN /\ stopped' = stopped
    <3>1. (Limit <= Total - pos) \in BOOLEAN
      BY <1>0, <2>1
    <3> QED
      BY <1>5, <3>1, Zenon DEF Fetch
  <2>5. FlagsInv'
    BY <1>0, <2>4, Zenon DEF FlagsInv
  <2> QED
    BY <2>3, <2>5 DEF TypeInv
<1>6. CASE CollectRow
  <2>1. pos + 1 \in 1 .. Total /\ left - 1 \in 0 .. Total - (pos + 1)
    BY <1>0, <1>6 DEF CollectRow, Arrives
  <2>2. size[pos + 1] \in Nat /\ opt.maxRows \in Nat /\ opt.maxBytes \in Nat
    BY <1>0, <2>1, OptionsMean
  <2>3. pos' = pos + 1 /\ left' \in {0, left - 1} /\ Push
    BY <1>6 DEF CollectRow, Arrives
  <2>4. UNCHANGED <<size, opt, pc, suspended, sink, stopped>>
    BY <1>6, Zenon DEF CollectRow
  <2>5. QueryInv' /\ SinkInv'
    BY <1>0, <2>1, <2>3, <2>4
  <2>6. CollectorInv'
    <3>1. pos + 1 \in 1 .. MaxTotal
      BY <1>0, <2>1, DeliveryConstants
    <3>2. Append(kept, pos + 1) \in Seq(1 .. MaxTotal)
          /\ Len(Append(kept, pos + 1)) = Len(kept) + 1
      BY <1>0, <3>1
    <3>3. \/ UNCHANGED <<kept, bytes>> /\ cut' \in {"no", "rows", "bytes"}
          \/ /\ kept' = Append(kept, pos + 1) /\ bytes' = bytes + size[pos + 1]
             /\ cut' = cut
             /\ Len(kept) + 1 <= opt.maxRows
             /\ bytes + size[pos + 1] <= opt.maxBytes
      BY <1>0, <2>2, <2>3 DEF Push
    <3>4. opt' = opt
      BY <2>4
    <3>5. bytes \in Nat
      BY <1>0, <2>2
    <3>6. /\ kept' \in Seq(1 .. MaxTotal) /\ Len(kept') <= opt.maxRows
          /\ Len(kept') <= pos'
      <4>1. Len(kept) \in Nat /\ Len(kept) <= pos /\ pos \in Nat /\ pos' = pos + 1
        BY <1>0, <2>3
      <4>2. CASE kept' = kept
        BY <1>0, <4>1, <4>2
      <4>3. CASE kept' = Append(kept, pos + 1) /\ Len(kept) + 1 <= opt.maxRows
        BY <3>2, <4>1, <4>3
      <4> QED
        BY <3>3, <4>2, <4>3
    <3>7. bytes' \in 0 .. opt.maxBytes /\ cut' \in {"no", "rows", "bytes"}
      BY <1>0, <2>2, <3>3, <3>5
    <3> QED
      BY <3>4, <3>6, <3>7
  <2>7. FlagsInv'
    BY <1>0, <2>4, Zenon DEF FlagsInv
  <2> QED
    BY <2>5, <2>6, <2>7 DEF TypeInv
<1>7. CASE BatchRow
  <2>1. pos + 1 \in 1 .. Total /\ left - 1 \in 0 .. Total - (pos + 1)
    BY <1>0, <1>7 DEF BatchRow, Arrives
  <2>2. size[pos + 1] \in Nat /\ opt.batchRows \in Nat \ {0} /\ opt.batchBytes \in Nat
    BY <1>0, <2>1, OptionsMean
  <2>3. /\ pos' = pos + 1 /\ left' = left - 1 /\ pc' \in {pc, "broken"}
        /\ UNCHANGED <<size, opt, collector>>
    BY <1>7 DEF BatchRow, Arrives
  <2>4. QueryInv' /\ CollectorInv'
    <3>1. QueryInv'
      BY <1>0, <2>1, <2>3
    <3>2. Len(kept) <= pos + 1
      BY <1>0
    <3> QED
      BY <1>0, <2>3, <3>1, <3>2
  <2>5. Append(batch, pos + 1) \in Seq(1 .. MaxTotal)
        /\ Len(Append(batch, pos + 1)) = Len(batch) + 1
    BY <1>0, <2>1, DeliveryConstants
  <2>6. SinkInv'
    <3>1. \/ batch' = <<>> /\ batchBytes' = 0
          \/ /\ batch' = Append(batch, pos + 1) /\ batchBytes' = batchBytes + size[pos + 1]
             /\ ~(Len(Append(batch, pos + 1)) >= opt.batchRows)
      BY <1>7, Zenon DEF BatchRow, BatchFull
    <3>2. opt' = opt /\ batchBytes \in Nat /\ Len(batch) \in Nat
      BY <1>0, <2>3
    <3>3. batch' \in Seq(1 .. MaxTotal) /\ Len(batch') < opt.batchRows
      <4>1. CASE batch' = <<>>
        BY <2>2, <4>1, EmptyRows
      <4>2. CASE batch' = Append(batch, pos + 1) /\ ~(Len(batch') >= opt.batchRows)
        BY <2>2, <2>5, <3>2, <4>2
      <4> QED
        BY <3>1, <4>1, <4>2
    <3>4. batchBytes' \in Nat
      BY <2>2, <3>1, <3>2
    <3> QED
      BY <3>2, <3>3, <3>4
  <2>7. FlagsInv'
    BY <1>0, <1>7, Zenon DEF FlagsInv, BatchRow
  <2> QED
    BY <2>4, <2>6, <2>7 DEF TypeInv
<1>8. CASE FlushLast
  <2>1. QueryInv' /\ CollectorInv' /\ SinkInv'
    BY <1>0, <1>8, OptionsMean, EmptyRows DEF FlushLast
  <2>2. FlagsInv'
    BY <1>0, <1>8, Zenon DEF FlagsInv, FlushLast, portal
  <2> QED
    BY <2>1, <2>2 DEF TypeInv
<1>9. CASE WriterStops
  <2>1. UNCHANGED <<size, opt, pc, portal, collector, sink>> /\ stopped' = TRUE
    BY <1>9, Zenon DEF WriterStops
  <2>2. FlagsInv'
    BY <1>0, <2>1, Zenon DEF FlagsInv, portal
  <2> QED
    BY <1>2, <2>1, <2>2
<1>10. CASE UNCHANGED vars
  <2>1. FlagsInv'
    BY <1>0, <1>10, Zenon DEF FlagsInv, vars, portal
  <2> QED
    BY <1>2, <1>10, <2>1 DEF vars
<1> QED
  BY <1>3, <1>4, <1>5, <1>6, <1>7, <1>8, <1>9, <1>10 DEF Next, Deliver

-----------------------------------------------------------------------------
(* Every step keeps what is known of the events.                            *)

RowsInv == TypeInv /\ StreamInv /\ EventsInv /\ ToldInv

LEMMA StepFails ==
  ASSUME RowsInv, pc # "done", Fail
  PROVE  StreamInv' /\ EventsInv' /\ ToldInv'
<1> DEFINE event == Event("error", <<>>, 0)
<1>0. event \in Events /\ event.kind = "error"
  BY EventIsOne, EmptyRows DEF Event
<1>1. /\ event \in Events /\ event.kind = "error"
      /\ Send(event) /\ pc' = "done" /\ size' = size
      /\ UNCHANGED <<opt, pos, batch, cut>>
  BY <1>0 DEF Fail, portal, sink, collector
<1>2. EventsInv'
  <2>1. EventsInv
    BY DEF RowsInv
  <2>2. event.kind \in Terminals
    BY <1>1 DEF Terminals
  <2> HIDE DEF event
  <2> QED
    BY <1>1, <2>1, <2>2, Sends
<1>3. StreamInv'
  BY <1>1 DEF RowsInv, StreamInv
<1>4. ToldInv'
  BY <1>1 DEF ToldInv
<1> QED
  BY <1>2, <1>3, <1>4

LEMMA StepRows == RowsInv /\ [Next]_vars => StreamInv' /\ EventsInv' /\ ToldInv'
<1> SUFFICES ASSUME RowsInv, [Next]_vars
    PROVE  StreamInv' /\ EventsInv' /\ ToldInv'
  OBVIOUS
<1>0. /\ TypeInv /\ QueryInv /\ CollectorInv /\ SinkInv /\ StreamInv /\ EventsInv
      /\ ToldInv
  BY DEF RowsInv, TypeInv
<1>o. /\ opt.stream \in BOOLEAN /\ Total \in Nat /\ MaxTotal \in Nat
      /\ pos \in 0 .. Total /\ Total <= MaxTotal
      /\ batch \in Seq(1 .. MaxTotal) /\ Len(batch) \in Nat
  BY <1>0, OptionsMean DEF QueryInv, SinkInv
<1>1. CASE PrepareFails \/ StartFails \/ RowFails \/ ChannelClosed \/ FinishFails
  BY <1>1, StepFails DEF PrepareFails, StartFails, RowFails, ChannelClosed, FinishFails
<1>2. CASE Command
  <2> DEFINE event == Event("result", <<>>, 0)
  <2>0. event \in Events /\ event.kind = "result"
    BY EventIsOne, EmptyRows DEF Event
  <2>1. /\ event \in Events /\ event.kind = "result"
        /\ Send(event) /\ pc = "prepare" /\ pc' = "done" /\ size' = size
        /\ UNCHANGED <<opt, pos, batch, cut>>
    BY <1>2, <2>0 DEF Command, portal, sink, collector
  <2>2. out = <<>>
    BY <1>0, <2>1 DEF ToldInv
  <2>3. EventsInv'
    <3>1. event.kind \in Terminals
      BY <2>1 DEF Terminals
    <3> HIDE DEF event
    <3> QED
      BY <1>0, <2>1, <2>2, <3>1, Sends
  <2>4. StreamInv'
    BY <1>0, <2>1 DEF StreamInv
  <2>5. ToldInv'
    BY <2>1 DEF ToldInv
  <2> QED
    BY <2>3, <2>4, <2>5
<1>3. CASE Prepare
  <2>1. /\ pc = "prepare" /\ pc' = IF opt.stream THEN "start" ELSE "fetch"
        /\ UNCHANGED <<size, opt, pos, batch, cut, out>>
    BY <1>3 DEF Prepare, portal, sink, collector
  <2>2. EventsInv'
    BY <1>0, <2>1, Quiet
  <2>3. StreamInv'
    BY <1>0, <2>1 DEF StreamInv
  <2>4. ToldInv'
    BY <1>0, <2>1 DEF ToldInv
  <2> QED
    BY <2>2, <2>3, <2>4
<1>4. CASE Start
  <2> DEFINE event == Event("start", <<>>, 0)
  <2>0. event \in Events /\ event.kind = "start"
    BY EventIsOne, EmptyRows DEF Event
  <2>1. /\ event \in Events /\ event.kind = "start"
        /\ Send(event) /\ pc = "start" /\ pc' = "fetch" /\ size' = size
        /\ ~stopped
        /\ UNCHANGED <<opt, pos, batch, cut>>
    BY <1>4, <2>0 DEF Start, portal, sink, collector
  <2>2. out = <<>> /\ opt.stream
    BY <1>0, <1>o, <2>1 DEF ToldInv
  <2>3. EventsInv' /\ out' # <<>> /\ out'[1] = event /\ Told' = 0
    <3>1. event.kind \notin Terminals
      BY <2>1 DEF Terminals
    <3> HIDE DEF event
    <3> QED
      BY <1>0, <2>1, <2>2, <3>1, Sends
  <2>4. pos = 0 /\ batch = <<>>
    BY <1>0, <2>1, <2>2 DEF StreamInv
  <2>5. StreamInv'
    BY <1>0, <2>1, <2>2, <2>4, EmptyRows DEF StreamInv
  <2>6. ToldInv'
    <3> HIDE DEF event
    <3>0. out'[1].kind = "start"
      BY <2>1, <2>3, Zenon
    <3>1. Told' = pos - Len(batch)
      <4>1. Told' = 0
        BY <2>3, Zenon
      <4>2. pos = 0 /\ Len(batch) = 0
        BY <2>4, EmptyRows
      <4> QED
        BY <4>1, <4>2
    <3> QED
      BY <2>1, <2>2, <2>3, <3>0, <3>1 DEF ToldInv
  <2> QED
    BY <2>3, <2>5, <2>6
<1>5. CASE Fetch
  <2>1. /\ pc = "fetch" /\ pc' = "row"
        /\ UNCHANGED <<size, opt, pos, batch, cut, out>>
    BY <1>5 DEF Fetch, sink, collector
  <2>2. stopped' = stopped
    BY <1>5, Zenon DEF Fetch
  <2>3. suspended' \/ pos + left' = Total
    <3>1. CASE Limit <= Total - pos
      BY <1>5, <3>1, Zenon DEF Fetch
    <3>2. CASE ~(Limit <= Total - pos)
      <4>1. left' = Total - pos
        BY <1>5, <3>2 DEF Fetch, Least
      <4> QED
        BY <1>o, <4>1
    <3> QED
      BY <3>1, <3>2
  <2>4. EventsInv' /\ Told' = Told
    BY <1>0, <2>1, Quiet
  <2>5. StreamInv'
    <3>1. Total' = Total
      BY <2>1 DEF Total
    <3> QED
      BY <1>0, <2>1, <2>3, <3>1 DEF StreamInv
  <2>6. ToldInv'
    BY <1>0, <2>1, <2>2, <2>4 DEF ToldInv
  <2> QED
    BY <2>4, <2>5, <2>6
<1>6. CASE CollectRow
  <2>1. /\ ~opt.stream /\ pc = "row"
        /\ UNCHANGED <<size, opt, pc, out>>
    BY <1>6 DEF CollectRow, Arrives
  <2>2. EventsInv'
    BY <1>0, <2>1, Quiet
  <2>3. StreamInv'
    BY <2>1 DEF StreamInv
  <2>4. ToldInv'
    BY <1>0, <2>1 DEF ToldInv
  <2> QED
    BY <2>2, <2>3, <2>4
<1>7. CASE BatchRow
  <2> DEFINE rows == Append(batch, pos + 1)
             n == batchBytes + size[pos + 1]
  <2>1. /\ opt.stream /\ pc = "row" /\ left \in Nat \ {0} /\ pos + left <= Total
        /\ pos' = pos + 1 /\ left' = left - 1
        /\ UNCHANGED <<size, opt, cut>>
    <3>1. /\ opt.stream /\ pc = "row" /\ left > 0 /\ pos' = pos + 1 /\ left' = left - 1
          /\ UNCHANGED <<size, opt, cut>>
      BY <1>7, Zenon DEF BatchRow, Arrives, collector
    <3>2. left \in 0 .. Total - pos
      BY <1>0 DEF QueryInv
    <3> QED
      BY <1>o, <3>1, <3>2
  <2>2. suspended' = suspended /\ stopped' = stopped
    BY <1>7, Zenon DEF BatchRow
  <2>3. /\ cut = "no" /\ Len(batch) <= pos
        /\ \A i \in 1 .. Len(batch) : batch[i] = pos - Len(batch) + i
        /\ suspended \/ pos + left = Total
    BY <1>0, <2>1 DEF StreamInv
  <2>4. /\ rows \in Seq(1 .. MaxTotal) /\ Len(rows) = Len(batch) + 1
        /\ \A i \in 1 .. Len(rows) : rows[i] = pos - Len(batch) + i
    <3>1. pos + 1 \in 1 .. MaxTotal
      BY <1>o, <2>1
    <3>2. /\ rows \in Seq(1 .. MaxTotal) /\ Len(rows) = Len(batch) + 1
          /\ rows[Len(batch) + 1] = pos + 1
          /\ \A i \in 1 .. Len(batch) : rows[i] = batch[i]
      BY <1>o, <3>1
    <3> QED
      BY <1>o, <2>3, <3>2
  <2>5. ~stopped => out # <<>> /\ out[1].kind = "start" /\ Told = pos - Len(batch)
    BY <1>0, <2>1 DEF ToldInv
  <2>6. \/ /\ batch' = <<>> /\ Send(Event("rows", rows, Len(rows)))
           /\ pc' = IF stopped THEN "broken" ELSE pc
        \/ batch' = rows /\ out' = out /\ pc' = pc
    BY <1>7, Zenon DEF BatchRow
  <2>7. StreamInv'
    <3>1. suspended \/ pos' + left' = Total
      BY <1>o, <2>1, <2>3
    <3>2. CASE batch' = <<>>
      BY <1>o, <2>1, <2>2, <2>3, <2>6, <3>1, <3>2, EmptyRows DEF StreamInv, Total
    <3>3. CASE batch' = rows
      BY <1>o, <2>1, <2>2, <2>3, <2>4, <2>6, <3>1, <3>3 DEF StreamInv, Total
    <3> QED
      BY <2>6, <3>2, <3>3
  <2>8. CASE /\ batch' = <<>> /\ Send(Event("rows", rows, Len(rows)))
             /\ pc' = IF stopped THEN "broken" ELSE pc
    <3> DEFINE event == Event("rows", rows, Len(rows))
    <3>1. Len(rows) \in 1 .. MaxTotal
      BY <1>o, <2>1, <2>3, <2>4
    <3>2. /\ event \in Events /\ event.kind = "rows"
          /\ event.rows = rows /\ event.n = Len(rows)
      <4>1. Len(rows) \in 0 .. MaxTotal
        BY <3>1
      <4> QED
        BY <2>4, <4>1, EventIsOne DEF Event
    <3>3. rows # <<>>
      BY <2>4, <3>1
    <3>4. ~stopped => rows = [i \in 1 .. Len(rows) |-> Told + i]
      BY <1>o, <2>4, <2>5
    <3>5. rows[Len(rows)] = pos + 1
      BY <1>o, <2>4, <3>1
    <3>6. Send(event) /\ size' = size /\ pc # "done" /\ event.kind \notin Terminals
      BY <2>1, <2>8, <3>2 DEF Terminals
    <3>7. /\ EventsInv'
          /\ ~stopped => out' # <<>> /\ out'[1].kind = "start" /\ Told' = pos + 1
      <4> HIDE DEF event, rows
      <4> QED
        BY <1>0, <2>5, <3>2, <3>3, <3>4, <3>5, <3>6, Sends
    <3>8. ToldInv'
      <4> HIDE DEF event, rows
      <4> QED
        BY <1>o, <2>1, <2>2, <2>8, <3>7, EmptyRows DEF ToldInv
    <3> QED
      BY <2>7, <3>7, <3>8
  <2>9. CASE batch' = rows /\ out' = out /\ pc' = pc
    <3>1. EventsInv' /\ Told' = Told
      BY <1>0, <2>1, <2>9, Quiet
    <3>2. pos' - Len(batch') = pos - Len(batch)
      BY <1>o, <2>1, <2>4, <2>9
    <3>3. ToldInv'
      BY <2>1, <2>2, <2>5, <2>9, <3>1, <3>2 DEF ToldInv
    <3> QED
      BY <2>7, <3>1, <3>3
  <2> QED
    BY <2>6, <2>8, <2>9
<1>8. CASE EndFetch
  <2>1. /\ pc = "row" /\ left = 0 /\ pc' \in {"finish", "fetch"}
        /\ UNCHANGED <<size, opt, pos, batch, cut, out>>
    BY <1>8 DEF EndFetch, portal, sink, collector
  <2>2. stopped' = stopped
    BY <1>8, Zenon DEF EndFetch
  <2>3. opt.stream /\ pc' = "finish" => pos = Total
    <3>1. pc' = "finish" => ~suspended \/ cut # "no"
      BY <1>8 DEF EndFetch
    <3>2. opt.stream => cut = "no" /\ (suspended \/ pos + left = Total)
      BY <1>0, <2>1, Zenon DEF StreamInv
    <3>3. opt.stream /\ pc' = "finish" => pos + left = Total
      BY <3>1, <3>2, Zenon
    <3> QED
      BY <1>o, <2>1, <3>3
  <2>4. EventsInv' /\ Told' = Told
    BY <1>0, <2>1, Quiet
  <2>5. StreamInv'
    <3>1. Total' = Total
      BY <2>1 DEF Total
    <3> QED
      BY <1>0, <2>1, <2>3, <3>1 DEF StreamInv
  <2>6. ToldInv'
    BY <1>0, <2>1, <2>2, <2>4 DEF ToldInv
  <2> QED
    BY <2>4, <2>5, <2>6
<1>9. CASE SendResult
  <2> DEFINE event == Event("result", kept, Len(kept))
  <2>1. kept \in Seq(1 .. MaxTotal) /\ Len(kept) \in 0 .. MaxTotal
    BY <1>0, <1>o DEF CollectorInv
  <2>2. /\ event \in Events /\ event.kind = "result"
        /\ Send(event) /\ pc = "finish" /\ pc' = "done" /\ size' = size
        /\ ~opt.stream /\ opt' = opt
    BY <1>9, <2>1, EventIsOne DEF SendResult, Event
  <2>3. out = <<>>
    BY <1>0, <2>2 DEF ToldInv
  <2>4. EventsInv'
    <3>1. event.kind \in Terminals
      BY <2>2 DEF Terminals
    <3> HIDE DEF event
    <3> QED
      BY <1>0, <2>2, <2>3, <3>1, Sends
  <2>5. StreamInv' /\ ToldInv'
    BY <2>2 DEF StreamInv, ToldInv
  <2> QED
    BY <2>4, <2>5
<1>10. CASE FlushLast
  <2> DEFINE event == Event("rows", batch, Len(batch))
  <2>1. /\ opt.stream /\ pc = "finish" /\ pc' = "end"
        /\ batch' = <<>> /\ UNCHANGED <<size, opt, pos, cut>>
    BY <1>10 DEF FlushLast, portal, collector
  <2>2. stopped' = stopped
    BY <1>10, Zenon DEF FlushLast
  <2>3. /\ cut = "no" /\ Len(batch) <= pos /\ pos = Total
        /\ \A i \in 1 .. Len(batch) : batch[i] = pos - Len(batch) + i
    BY <1>0, <2>1 DEF StreamInv
  <2>4. ~stopped => out # <<>> /\ out[1].kind = "start" /\ Told = pos - Len(batch)
    BY <1>0, <2>1 DEF ToldInv
  <2>5. StreamInv'
    BY <1>o, <2>1, <2>3, EmptyRows DEF StreamInv, Total
  <2>6. CASE batch = <<>>
    <3>1. out' = out
      BY <1>10, <2>6 DEF FlushLast
    <3>2. EventsInv' /\ Told' = Told
      BY <1>0, <2>1, <3>1, Quiet
    <3>3. ToldInv'
      BY <1>o, <2>1, <2>2, <2>4, <2>6, <3>1, <3>2, EmptyRows DEF ToldInv
    <3> QED
      BY <2>5, <3>2, <3>3
  <2>7. CASE batch # <<>>
    <3>1. Send(event)
      BY <1>10, <2>7 DEF FlushLast
    <3>2. Len(batch) \in 1 .. MaxTotal
      BY <1>o, <2>3, <2>7
    <3>3. /\ event \in Events /\ event.kind = "rows"
          /\ event.rows = batch /\ event.n = Len(batch)
      BY <1>o, <3>2, EventIsOne DEF Event
    <3>4. ~stopped => batch = [i \in 1 .. Len(batch) |-> Told + i]
      BY <1>o, <2>3, <2>4
    <3>5. batch[Len(batch)] = pos
      BY <1>o, <2>3, <3>2
    <3>6. size' = size /\ pc # "done" /\ event.kind \notin Terminals
      BY <2>1, <3>3 DEF Terminals
    <3>7. /\ EventsInv'
          /\ ~stopped => out' # <<>> /\ out'[1].kind = "start" /\ Told' = pos
      <4> HIDE DEF event
      <4> QED
        BY <1>0, <2>4, <2>7, <3>1, <3>3, <3>4, <3>5, <3>6, Sends
    <3>8. ToldInv'
      <4> HIDE DEF event
      <4> QED
        BY <1>o, <2>1, <2>2, <3>7, EmptyRows DEF ToldInv
    <3> QED
      BY <2>5, <3>7, <3>8
  <2> QED
    BY <2>6, <2>7
<1>11. CASE SendEnd
  <2> DEFINE event == Event("end", <<>>, pos)
  <2>e. pos \in 0 .. MaxTotal
    BY <1>o
  <2>0. event \in Events /\ event.kind = "end" /\ event.n = pos
    BY EventIsOne, EmptyRows, <2>e DEF Event
  <2>1. /\ event \in Events /\ event.kind = "end" /\ event.n = pos
        /\ Send(event) /\ pc = "end" /\ pc' = "done" /\ size' = size
        /\ UNCHANGED <<opt, pos, batch, cut>>
    BY <1>11, <2>0 DEF SendEnd, portal, sink, collector
  <2>2. opt.stream
    BY <1>0, <1>o, <2>1 DEF ToldInv
  <2>3. batch = <<>> /\ pos = Total
    BY <1>0, <2>1, <2>2 DEF StreamInv
  <2>4. ~stopped => out # <<>> /\ out[1].kind = "start" /\ Told = Total
    BY <1>0, <1>o, <2>1, <2>2, <2>3, EmptyRows DEF ToldInv
  <2>5. EventsInv'
    <3>1. event.kind \in Terminals
      BY <2>1 DEF Terminals
    <3> HIDE DEF event
    <3> QED
      BY <1>0, <2>1, <2>3, <2>4, <3>1, Sends
  <2>6. StreamInv'
    BY <1>0, <2>1, <2>2 DEF StreamInv
  <2>7. ToldInv'
    BY <2>1 DEF ToldInv
  <2> QED
    BY <2>5, <2>6, <2>7
<1>12. CASE WriterStops
  <2>1. pc # "done" /\ UNCHANGED <<size, opt, pc, pos, left, batch, cut, out>>
    BY <1>12 DEF WriterStops, portal, sink, collector
  <2>2. stopped' /\ suspended' = suspended
    BY <1>12, Zenon DEF WriterStops, portal
  <2>3. EventsInv'
    BY <1>0, <2>1, Quiet
  <2>4. StreamInv'
    <3>1. Total' = Total
      BY <2>1 DEF Total
    <3> QED
      BY <1>0, <2>1, <2>2, <3>1 DEF StreamInv
  <2>5. ToldInv'
    BY <1>0, <2>1, <2>2 DEF ToldInv
  <2> QED
    BY <2>3, <2>4, <2>5
<1>13. CASE UNCHANGED vars
  <2>1. /\ UNCHANGED <<size, opt, pc, pos, left, suspended, batch, cut, out>>
        /\ stopped' = stopped
    BY <1>13, Zenon DEF vars, portal, sink, collector
  <2> QED
    BY <1>0, <2>1 DEF StreamInv, EventsInv, StreamGrammar, StreamIsWhole, ToldInv,
                      Told, Delivered, Total
<1> QED
  BY <1>1, <1>2, <1>3, <1>4, <1>5, <1>6, <1>7, <1>8, <1>9,
     <1>10, <1>11, <1>12, <1>13
     DEF Next, Deliver

-----------------------------------------------------------------------------
(* The bytes of the first rows.                                             *)

(* g[i] is the size of the first i rows of those of the sizes sz.           *)
SumsTo(sz, g, k) == g = [i \in 0 .. k |-> IF i = 0 THEN 0 ELSE g[i - 1] + sz[i]]
SumTo(sz, k) == CHOOSE g : SumsTo(sz, g, k)

LEMMA SumsExist == ASSUME NEW sz PROVE \A k \in Nat : SumsTo(sz, SumTo(sz, k), k)
<1> DEFINE S == {k \in Nat : \E g : SumsTo(sz, g, k)}
<1>1. 0 \in S
  <2> DEFINE g == [i \in 0 .. 0 |-> 0]
  <2>1. SumsTo(sz, g, 0)
    BY DEF SumsTo
  <2> QED
    BY <2>1
<1>2. ASSUME NEW k \in Nat, k \in S PROVE k + 1 \in S
  <2>1. PICK g : SumsTo(sz, g, k)
    BY <1>2
  <2> DEFINE h == [i \in 0 .. k + 1 |-> IF i = k + 1 THEN g[k] + sz[k + 1] ELSE g[i]]
  <2>2. \A i \in 0 .. k + 1 : h[i] = IF i = 0 THEN 0 ELSE h[i - 1] + sz[i]
    BY <2>1 DEF SumsTo
  <2>3. SumsTo(sz, h, k + 1)
    BY <2>2 DEF SumsTo
  <2> QED
    BY <2>3
<1> HIDE DEF S
<1>3. \A k \in Nat : k \in S
  BY <1>1, <1>2, Induction
<1> QED
  BY <1>3 DEF S, SumTo

(* Two sums agree as far as both go.                                        *)
LEMMA SumsAgree ==
  ASSUME NEW sz, NEW m \in Nat, NEW n \in Nat, NEW g, NEW h,
         SumsTo(sz, g, m), SumsTo(sz, h, n)
  PROVE  \A i \in Nat : i <= m /\ i <= n => g[i] = h[i]
<1> DEFINE S == {i \in Nat : i <= m /\ i <= n => g[i] = h[i]}
<1>1. 0 \in S
  BY DEF SumsTo
<1>2. ASSUME NEW i \in Nat, i \in S PROVE i + 1 \in S
  BY <1>2 DEF SumsTo
<1> HIDE DEF S
<1>3. \A i \in Nat : i \in S
  BY <1>1, <1>2, Induction
<1> QED
  BY <1>3 DEF S

LEMMA BytesOfNext ==
  ASSUME NEW sz
  PROVE  /\ BytesOf(sz, 0) = 0
         /\ \A k \in Nat : BytesOf(sz, k + 1) = BytesOf(sz, k) + sz[k + 1]
<1>1. \A k \in Nat : BytesOf(sz, k) = SumTo(sz, k)[k]
  BY DEF BytesOf, SumTo, SumsTo
<1>2. SumTo(sz, 0)[0] = 0
  BY SumsExist DEF SumsTo
<1>3. ASSUME NEW k \in Nat PROVE BytesOf(sz, k + 1) = BytesOf(sz, k) + sz[k + 1]
  <2>1. SumTo(sz, k + 1)[k + 1] = SumTo(sz, k + 1)[k] + sz[k + 1]
    BY SumsExist DEF SumsTo
  <2>2. SumTo(sz, k + 1)[k] = SumTo(sz, k)[k]
    BY SumsExist, SumsAgree
  <2> QED
    BY <1>1, <2>1, <2>2
<1> QED
  BY <1>1, <1>2, <1>3

-----------------------------------------------------------------------------
(* What is collected.                                                       *)

(* The collector holds the first rows, each it was given until it was cut,  *)
(* and the next row is the one that did not fit.                            *)
CollectedInv ==
  /\ kept = FirstRows(Len(kept))
  /\ pc = "prepare" => pos = 0 /\ cut = "no"
  /\ ~opt.stream =>
       /\ cut = "no" => Len(kept) = pos /\ bytes = BytesOf(size, pos)
       /\ cut = "rows" => Len(kept) < pos /\ Len(kept) = opt.maxRows
       /\ cut = "bytes" => Len(kept) < pos /\ BytesOf(size, Len(kept) + 1) > opt.maxBytes
       /\ cut = "no" /\ pc = "row" /\ ~suspended => pos + left = Total
       /\ cut = "no" /\ pc = "finish" => pos = Total

LEMMA InitCollected == Init => CollectedInv
  BY BytesOfNext DEF Init, CollectedInv, FirstRows

(* push adds the next of the first rows, or names the limit it would pass.   *)
LEMMA PushCollects ==
  ASSUME TypeInv, CollectedInv, ~opt.stream, pos < Total, Push, pos' = pos + 1,
         size' = size, opt' = opt, pc # "prepare", pc' # "prepare",
         cut' = "no" /\ pc' = "row" /\ ~suspended' => pos' + left' = Total',
         pc' # "finish"
  PROVE  CollectedInv'
<1> DEFINE b == bytes + size[pos + 1]
<1>1. /\ kept \in Seq(1 .. MaxTotal) /\ pos \in Nat /\ Len(kept) \in Nat
      /\ bytes \in Nat /\ size[pos + 1] \in Nat
      /\ opt.maxRows \in Nat /\ opt.maxBytes \in Nat /\ Len(kept) <= opt.maxRows
      /\ pos + 1 \in 1 .. MaxTotal
      /\ cut \in {"no", "rows", "bytes"}
  BY OptionsMean DEF TypeInv, QueryInv, CollectorInv, Total
<1>2. BytesOf(size, pos + 1) = BytesOf(size, pos) + size[pos + 1]
  BY <1>1, BytesOfNext
<1>4. CASE cut # "no"
  <2>1. kept' = kept /\ bytes' = bytes /\ cut' = cut
    BY <1>4 DEF Push, collector
  <2>2. /\ kept' = FirstRows(Len(kept'))
        /\ cut' = "rows" => Len(kept') < pos' /\ Len(kept') = opt'.maxRows
        /\ cut' = "bytes" => /\ Len(kept') < pos'
                            /\ BytesOf(size', Len(kept') + 1) > opt'.maxBytes
    BY <1>1, <2>1 DEF CollectedInv
  <2> QED
    BY <1>4, <2>1, <2>2 DEF CollectedInv, FirstRows
<1>5. CASE cut = "no" /\ Len(kept) + 1 > opt.maxRows
  <2>1. kept' = kept /\ bytes' = bytes /\ cut' = "rows"
    BY <1>5 DEF Push
  <2>2. kept = FirstRows(Len(kept)) /\ Len(kept) = pos
    BY <1>5 DEF CollectedInv
  <2>3. Len(kept) < pos' /\ Len(kept) = opt.maxRows
    BY <1>1, <1>5, <2>2
  <2> QED
    BY <2>1, <2>2, <2>3 DEF CollectedInv, FirstRows
<1>6. CASE cut = "no" /\ ~(Len(kept) + 1 > opt.maxRows) /\ b > opt.maxBytes
  <2>1. kept' = kept /\ bytes' = bytes /\ cut' = "bytes"
    BY <1>6 DEF Push
  <2>2. Len(kept) = pos /\ BytesOf(size, Len(kept) + 1) > opt.maxBytes
    BY <1>2, <1>6 DEF CollectedInv
  <2> QED
    BY <1>1, <1>6, <2>1, <2>2 DEF CollectedInv, FirstRows
<1>7. CASE cut = "no" /\ ~(Len(kept) + 1 > opt.maxRows) /\ ~(b > opt.maxBytes)
  <2>1. kept' = Append(kept, pos + 1) /\ bytes' = b /\ cut' = "no"
    BY <1>7 DEF Push
  <2>2. Len(kept) = pos /\ bytes = BytesOf(size, pos) /\ kept = FirstRows(pos)
    BY <1>7 DEF CollectedInv
  <2>3. Append(kept, pos + 1) = FirstRows(pos + 1)
    BY <1>1, <2>2 DEF FirstRows
  <2>4. Len(kept') = pos + 1 /\ bytes' = BytesOf(size, pos + 1)
    BY <1>1, <1>2, <2>1, <2>2
  <2> QED
    BY <1>1, <2>1, <2>3, <2>4 DEF CollectedInv, FirstRows
<1> QED
  BY <1>4, <1>5, <1>6, <1>7

(* No other step touches the collector, and reading ends where the rows do.  *)
LEMMA StepCollects == TypeInv /\ CollectedInv /\ [Next]_vars => CollectedInv'
<1> SUFFICES ASSUME TypeInv, CollectedInv, [Next]_vars PROVE CollectedInv'
  OBVIOUS
<1>0. /\ pos \in Nat /\ Total \in Nat /\ left \in Nat /\ left <= Total - pos /\ pos <= Total
      /\ opt.stream \in BOOLEAN /\ MaxTotal \in Nat /\ Total <= MaxTotal
  BY OptionsMean DEF TypeInv, QueryInv
<1>k. ASSUME UNCHANGED <<size, opt, pos, collector>>,
             pc' # "prepare" \/ pc = "prepare",
             ~opt.stream /\ cut = "no" /\ pc' = "row" /\ ~suspended' => pos + left' = Total,
             ~opt.stream /\ cut = "no" /\ pc' = "finish" => pos = Total
      PROVE  CollectedInv'
  <2>2. Total' = Total
    BY <1>k DEF Total
  <2>3. Len(kept) \in Nat
    BY DEF TypeInv, CollectorInv
  <2> QED
    BY <1>0, <1>k, <2>2, <2>3 DEF CollectedInv, FirstRows, collector
<1>1. CASE PrepareFails \/ StartFails \/ RowFails \/ ChannelClosed \/ FinishFails
  <2>1. pc' = "done" /\ UNCHANGED <<size, opt, pos, collector>>
    BY <1>1 DEF PrepareFails, StartFails, RowFails, ChannelClosed, FinishFails, Fail,
                portal
  <2> QED
    BY <1>k, <2>1
<1>2. CASE Command \/ Prepare \/ Start \/ SendResult \/ FlushLast \/ SendEnd
  <2>1. /\ pc' \in {"start", "fetch", "end", "done"}
        /\ UNCHANGED <<size, opt, pos, collector>>
    BY <1>2 DEF Command, Prepare, Start, SendResult, FlushLast, SendEnd, portal
  <2> QED
    BY <1>k, <2>1
<1>3. CASE Fetch
  <2>1. /\ left' = Least(Limit, Total - pos) /\ suspended' = (Limit <= Total - pos)
        /\ pc' = "row" /\ UNCHANGED <<size, opt, pos, collector>>
    BY <1>3 DEF Fetch
  <2>2. Limit \in Nat
    BY <1>0, OptionsMean, DeliveryConstants
       DEF Limit, OneQuery, Unlimited, InlineFetch, Least, Most, TypeInv, CollectorInv
  <2>s. ~suspended' => ~(Limit <= Total - pos)
    BY <2>1, Zenon
  <2>3. ~suspended' => pos + left' = Total
    <3> SUFFICES ASSUME ~(Limit <= Total - pos) PROVE pos + left' = Total
      BY <2>s
    <3>1. left' = Total - pos
      BY <2>1 DEF Least
    <3> QED
      BY <1>0, <3>1
  <2> QED
    BY <1>k, <2>1, <2>3
<1>4. CASE CollectRow
  <2>1. /\ ~opt.stream /\ Push /\ pos' = pos + 1 /\ pos < Total /\ pc = "row"
        /\ left' = IF opt.openTx /\ cut' # "no" THEN 0 ELSE left - 1
        /\ suspended' = suspended
        /\ pc' = pc /\ size' = size /\ opt' = opt
    BY <1>0, <1>4 DEF CollectRow, Arrives
  <2>2. cut' = "no" => cut = "no"
    BY <2>1 DEF Push, collector
  <2>3. cut' = "no" /\ ~suspended' => pos' + left' = Total'
    BY <1>0, <2>1, <2>2 DEF CollectedInv, Total
  <2> QED
    BY <2>1, <2>3, PushCollects
<1>5. CASE BatchRow
  <2>1. /\ opt.stream /\ pc = "row" /\ pc' \in {"broken", pc}
        /\ UNCHANGED <<size, opt, collector>>
    BY <1>5 DEF BatchRow, Arrives
  <2> QED
    BY <2>1 DEF CollectedInv, FirstRows, collector
<1>6. CASE EndFetch
  <2>1. /\ pc = "row" /\ left = 0 /\ pc' \in {"finish", "fetch"}
        /\ pc' = "finish" => ~suspended \/ cut # "no"
        /\ UNCHANGED <<size, opt, pos, collector>>
    BY <1>6 DEF EndFetch, portal
  <2>2. ~opt.stream /\ cut = "no" /\ pc' = "finish" => pos = Total
    BY <1>0, <2>1 DEF CollectedInv
  <2> QED
    BY <1>k, <2>1, <2>2
<1>7. CASE WriterStops \/ UNCHANGED vars
  <2>1. UNCHANGED <<size, opt, pc, pos, collector>> /\ left' = left /\ suspended' = suspended
    BY <1>7, Zenon DEF WriterStops, vars, portal
  <2> QED
    BY <1>0, <1>k, <2>1 DEF CollectedInv
<1> QED
  BY <1>1, <1>2, <1>3, <1>4, <1>5, <1>6, <1>7 DEF Next, Deliver

-----------------------------------------------------------------------------
(* The theorems.                                                            *)

LEMMA RowsAlways == Spec => []RowsInv
<1>1. Init => RowsInv
  <2>1. Init => FlagsInv
    BY Zenon DEF Init, FlagsInv
  <2> QED
    BY <2>1, InitRows DEF RowsInv, TypeInv
<1>2. RowsInv /\ [Next]_vars => RowsInv'
  BY StepTypes, StepRows DEF RowsInv
<1> QED
  BY <1>1, <1>2, PTL DEF Spec

(* Every variable keeps its type, and neither the collector nor the sink    *)
(* outgrows its limits (InlineRowCollector, OutputRowSink).                 *)
THEOREM DeliveryTypes == Spec => []TypeOK
<1>1. RowsInv => TypeOK
  BY DEF RowsInv, TypeInv, QueryInv, CollectorInv, SinkInv, FlagsInv, EventsInv, TypeOK
<1> QED
  BY <1>1, RowsAlways, PTL

(* A stream that ends has delivered every row once, in order, whatever the  *)
(* batches, the portal and the limits are (stream_query, OutputRowSink).    *)
THEOREM StreamsAreWhole == Spec => []StreamIsWhole
<1>1. RowsInv => StreamIsWhole
  BY DEF RowsInv, EventsInv
<1> QED
  BY <1>1, RowsAlways, PTL

(* The events of a query are a start, batches that hold rows and one        *)
(* terminal event, or a terminal event alone (handle_streaming_result).     *)
THEOREM StreamsAreWellFormed == Spec => []StreamGrammar
<1>1. RowsInv => StreamGrammar
  BY DEF RowsInv, EventsInv
<1> QED
  BY <1>1, RowsAlways, PTL

(* A step that sends no result keeps those that were sent true.             *)
LEMMA ResultsKeep ==
  ASSUME RowsInv, ResultIsPrefix, pc # "done", out' = out
         \/ \E event \in Events : Send(event) /\ event.kind # "result"
  PROVE  ResultIsPrefix'
<1>1. out \in Seq(Events) /\ \A e \in 1 .. Len(out) : out[e].kind # "result"
  BY DEF RowsInv, EventsInv, Terminals
<1>2. CASE out' = out
  BY <1>1, <1>2 DEF ResultIsPrefix
<1>3. CASE \E event \in Events : Send(event) /\ event.kind # "result"
  <2>1. PICK event \in Events : Send(event) /\ event.kind # "result"
    BY <1>3
  <2>2. \A e \in DOMAIN out' : out'[e].kind # "result"
    <3>1. CASE stopped
      BY <1>1, <2>1, <3>1, SendMeans
    <3>2. CASE ~stopped
      <4>1. /\ out' \in Seq(Events) /\ Len(out') = Len(out) + 1
            /\ \A e \in 1 .. Len(out) : out'[e] = out[e]
            /\ out'[Len(out) + 1] = event
        BY <1>1, <2>1, <3>2, SendMeans
      <4>2. \A e \in 1 .. Len(out) + 1 : out'[e].kind # "result"
        BY <1>1, <2>1, <4>1
      <4> QED
        BY <4>1, <4>2
    <3> QED
      BY <3>1, <3>2
  <2> QED
    BY <2>2 DEF ResultIsPrefix
<1> QED
  BY <1>2, <1>3

(* The one that is sent is what was collected.                              *)
LEMMA ResultIsCollected ==
  ASSUME RowsInv, CollectedInv, pc # "done", NEW k \in Nat, kept = FirstRows(k),
         k <= MaxTotal, Send(Event("result", kept, k)), size' = size, opt' = opt, cut' = cut,
         cut = "no" => k = Total,
         cut = "rows" => k < Total /\ k = opt.maxRows,
         cut = "bytes" => k < Total /\ BytesOf(size, k + 1) > opt.maxBytes
  PROVE  ResultIsPrefix'
<1> DEFINE event == Event("result", kept, k)
<1>1. out \in Seq(Events) /\ \A e \in 1 .. Len(out) : out[e].kind # "result"
  BY DEF RowsInv, EventsInv, Terminals
<1>2. event \in Events /\ event.rows = kept /\ event.n = k
  BY EventIsOne DEF RowsInv, TypeInv, CollectorInv, Event
<1>3. Total' = Total
  BY DEF Total
<1>4. \A e \in DOMAIN out' : out'[e].kind = "result" => out'[e] = event
  <2> HIDE DEF event
  <2>1. CASE stopped
    BY <1>1, <1>2, <2>1, SendMeans DEF event
  <2>2. CASE ~stopped
    <3>1. /\ out' \in Seq(Events) /\ Len(out') = Len(out) + 1
          /\ \A e \in 1 .. Len(out) : out'[e] = out[e]
          /\ out'[Len(out) + 1] = event
      BY <1>1, <1>2, <2>2, SendMeans DEF event
    <3> QED
      BY <1>1, <3>1
  <2> QED
    BY <2>1, <2>2
<1> HIDE DEF event
<1>5. ASSUME NEW e \in DOMAIN out', out'[e].kind = "result"
      PROVE  /\ out'[e].rows = FirstRows(out'[e].n)
             /\ cut' = "no" => out'[e].n = Total'
             /\ cut' = "rows" => out'[e].n < Total' /\ out'[e].n = opt'.maxRows
             /\ cut' = "bytes" => /\ out'[e].n < Total'
                                 /\ BytesOf(size', out'[e].n + 1) > opt'.maxBytes
  BY <1>2, <1>3, <1>4, <1>5
<1>6. cut' \in {"no", "rows", "bytes"}
  BY DEF RowsInv, TypeInv, CollectorInv
<1> QED
  BY <1>5, <1>6 DEF ResultIsPrefix, FirstRows

LEMMA StepResults ==
  RowsInv /\ CollectedInv /\ ResultIsPrefix /\ [Next]_vars => ResultIsPrefix'
<1> SUFFICES ASSUME RowsInv, CollectedInv, ResultIsPrefix, [Next]_vars
    PROVE  ResultIsPrefix'
  OBVIOUS
<1>0. /\ pos \in Nat /\ Total \in Nat /\ pos <= Total /\ Total <= MaxTotal /\ MaxTotal \in Nat
      /\ kept \in Seq(1 .. MaxTotal) /\ batch \in Seq(1 .. MaxTotal)
      /\ cut \in {"no", "rows", "bytes"}
      /\ Len(kept) \in Nat /\ Len(kept) <= pos
  BY OptionsMean DEF RowsInv, TypeInv, QueryInv, CollectorInv, SinkInv
<1>1. CASE PrepareFails \/ StartFails \/ RowFails \/ ChannelClosed \/ FinishFails
  <2>1. pc # "done" /\ Send(Event("error", <<>>, 0))
    BY <1>1 DEF PrepareFails, StartFails, RowFails, ChannelClosed, FinishFails, Fail
  <2>2. Event("error", <<>>, 0) \in Events /\ Event("error", <<>>, 0).kind # "result"
    BY EventIsOne, EmptyRows DEF Event
  <2> QED
    BY <2>1, <2>2, ResultsKeep
<1>2. CASE Command
  <2>1. /\ pc = "prepare" /\ Total = 0 /\ size' = size /\ opt' = opt /\ cut' = cut
        /\ Send(Event("result", <<>>, 0))
    BY <1>2 DEF Command, collector, Total
  <2>2. kept = <<>> /\ cut = "no"
    BY <1>0, <2>1 DEF CollectedInv
  <2>3. kept = FirstRows(0)
    BY <2>2 DEF FirstRows
  <2> QED
    BY <1>0, <2>1, <2>2, <2>3, ResultIsCollected
<1>3. CASE SendResult
  <2>1. /\ pc = "finish" /\ ~opt.stream /\ size' = size /\ opt' = opt /\ cut' = cut
        /\ Send(Event("result", kept, Len(kept)))
    BY <1>3 DEF SendResult, collector
  <2>2. kept = FirstRows(Len(kept))
    BY DEF CollectedInv
  <2>3. /\ cut = "no" => Len(kept) = Total
        /\ cut = "rows" => Len(kept) < Total /\ Len(kept) = opt.maxRows
        /\ cut = "bytes" => Len(kept) < Total /\ BytesOf(size, Len(kept) + 1) > opt.maxBytes
    BY <1>0, <2>1 DEF CollectedInv
  <2> QED
    BY <1>0, <2>1, <2>2, <2>3, ResultIsCollected
<1>4. CASE Prepare \/ Fetch \/ CollectRow \/ EndFetch \/ WriterStops
  <2>1. pc # "done" /\ out' = out
    BY <1>4 DEF Prepare, Fetch, CollectRow, Arrives, EndFetch, WriterStops
  <2> QED
    BY <2>1, ResultsKeep
<1>5. CASE Start
  <2>1. Event("start", <<>>, 0) \in Events /\ Event("start", <<>>, 0).kind # "result"
    BY EventIsOne, EmptyRows DEF Event
  <2> QED
    BY <1>5, <2>1, ResultsKeep DEF Start
<1>6. CASE BatchRow
  <2> DEFINE rows == Append(batch, pos + 1)
  <2>1. pc = "row" /\ (out' = out \/ Send(Event("rows", rows, Len(rows)))) /\ left > 0
    BY <1>6 DEF BatchRow, Arrives
  <2>2. left <= Total - pos /\ left \in Nat /\ Len(batch) <= pos
    BY <1>0, <1>6, <2>1 DEF RowsInv, TypeInv, QueryInv, StreamInv, BatchRow
  <2>3. rows \in Seq(1 .. MaxTotal) /\ Len(rows) \in 0 .. MaxTotal
    BY <1>0, <2>1, <2>2
  <2>4. Event("rows", rows, Len(rows)) \in Events /\ Event("rows", rows, Len(rows)).kind # "result"
    BY <2>3, EventIsOne DEF Event
  <2> QED
    BY <2>1, <2>4, ResultsKeep
<1>7. CASE FlushLast
  <2>1. pc = "finish" /\ (out' = out \/ Send(Event("rows", batch, Len(batch)))) /\ opt.stream
    BY <1>7 DEF FlushLast
  <2>2. Len(batch) \in 0 .. MaxTotal
    BY <1>0, <2>1 DEF RowsInv, StreamInv
  <2>3. /\ Event("rows", batch, Len(batch)) \in Events
        /\ Event("rows", batch, Len(batch)).kind # "result"
    BY <1>0, <2>2, EventIsOne DEF Event
  <2> QED
    BY <2>1, <2>3, ResultsKeep
<1>8. CASE SendEnd
  <2>0. pos \in 0 .. MaxTotal
    BY <1>0
  <2>1. Event("end", <<>>, pos) \in Events /\ Event("end", <<>>, pos).kind # "result"
    BY <2>0, EventIsOne, EmptyRows DEF Event
  <2> QED
    BY <1>8, <2>1, ResultsKeep DEF SendEnd
<1>9. CASE UNCHANGED vars
  BY <1>9 DEF vars, collector, ResultIsPrefix, FirstRows, Total
<1> QED
  BY <1>1, <1>2, <1>3, <1>4, <1>5, <1>6, <1>7, <1>8, <1>9 DEF Next, Deliver

(* A result holds the first rows of the query: all of them, or, where it     *)
(* says that it was cut, as many as the cap it names lets through, whatever  *)
(* the sizes of the rows and the rounds to the portal were                   *)
(* (InlineRowCollector::push, inline_fetch_rows).                            *)
THEOREM ResultsArePrefixes == Spec => []ResultIsPrefix
<1>1. Init => ResultIsPrefix
  BY DEF Init, ResultIsPrefix
<1>2. RowsInv => TypeInv
  BY DEF RowsInv
<1>3. Spec => []CollectedInv
  BY <1>2, RowsAlways, InitCollected, StepCollects, PTL DEF Spec
<1> QED
  BY <1>1, <1>3, RowsAlways, StepResults, PTL DEF Spec
=============================================================================
