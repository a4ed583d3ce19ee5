-------------------------- MODULE SessionFifoProofs --------------------------
(***************************************************************************)
(* Theorems about SessionFifo, for every set of sessions and endpoints and *)
(* every capacity of the channels.                                         *)
(*                                                                         *)
(* What one session's channel, worker and connection owe each other is     *)
(* stated about values (Settled, Chain) and proved about what the actions   *)
(* do to them, an Append or a Tail; the invariants then only say it of     *)
(* every session.                                                          *)
(***************************************************************************)
EXTENDS SessionFifo, TLAPS

Carrier(op) == op.kind \in {"query", "begin"}
NoMarker(q, i, j) == \A k \in i .. j : q[k].kind # "invalidate"

(* Nothing is on its way that must move the session: what is behind the     *)
(* last Invalidate, or connected if there is none, is of endpoint g.        *)
Settled(q, r, c, g) ==
  /\ \A k \in 1 .. Len(q) :
       Carrier(q[k]) /\ NoMarker(q, k, Len(q)) => q[k].ep = g
  /\ NoMarker(q, 1, Len(q)) =>
       /\ r.kind \in {"query", "begin", "info"} => r.ep = g
       /\ r.kind # "invalidate" => c \in {NoConn, g}

(* With no Invalidate between them, two operations, or an operation and the *)
(* connection it will find, are of one endpoint.                            *)
Chain(q, r, c) ==
  /\ \A j, k \in 1 .. Len(q) :
       j < k /\ Carrier(q[j]) /\ Carrier(q[k]) /\ NoMarker(q, j, k)
       => q[j].ep = q[k].ep
  /\ \A k \in 1 .. Len(q) : Carrier(q[k]) /\ NoMarker(q, 1, k) =>
       /\ Carrier(r) => r.ep = q[k].ep
       /\ r.kind # "invalidate" => c \in {NoConn, q[k].ep}
  /\ Carrier(r) => c \in {NoConn, r.ep}

LEMMA Appended ==
  ASSUME NEW S, NEW q \in Seq(S), NEW e \in S
  PROVE  /\ Append(q, e) \in Seq(S)
         /\ Len(q) \in Nat
         /\ Len(Append(q, e)) = Len(q) + 1
         /\ Append(q, e)[Len(q) + 1] = e
         /\ \A k \in 1 .. Len(q) : Append(q, e)[k] = q[k]
OBVIOUS

LEMMA Taken ==
  ASSUME NEW S, NEW q \in Seq(S), q # <<>>
  PROVE  /\ Tail(q) \in Seq(S)
         /\ Len(q) \in Nat /\ 1 \in 1 .. Len(q)
         /\ Head(q) = q[1] /\ Head(q) \in S
         /\ Len(Tail(q)) = Len(q) - 1
         /\ \A k \in 1 .. Len(q) - 1 :
              Tail(q)[k] = q[k + 1] /\ k + 1 \in 1 .. Len(q)
OBVIOUS

(* An operation accepted for the current endpoint joins a settled channel.  *)
LEMMA SettledAccept ==
  ASSUME NEW q \in Seq(Op), NEW op \in Op, NEW r, NEW c, NEW g,
         Settled(q, r, c, g), op.kind # "invalidate",
         Carrier(op) => op.ep = g
  PROVE  Settled(Append(q, op), r, c, g)
<1> DEFINE p == Append(q, op)
<1>1. /\ Len(q) \in Nat /\ Len(p) = Len(q) + 1 /\ p[Len(q) + 1] = op
      /\ \A k \in 1 .. Len(q) : p[k] = q[k]
  BY Appended
<1> HIDE DEF p
<1>2. \A k \in 1 .. Len(q) : NoMarker(p, k, Len(p)) => NoMarker(q, k, Len(q))
  BY <1>1 DEF NoMarker
<1>3. NoMarker(p, 1, Len(p)) => NoMarker(q, 1, Len(q))
  BY <1>1 DEF NoMarker
<1>4. ASSUME NEW k \in 1 .. Len(p), Carrier(p[k]), NoMarker(p, k, Len(p))
      PROVE  p[k].ep = g
  <2>1. CASE k = Len(q) + 1
    BY <2>1, <1>1, <1>4
  <2>2. CASE k \in 1 .. Len(q)
    BY <2>2, <1>1, <1>2, <1>4 DEF Settled
  <2> QED BY <2>1, <2>2, <1>1
<1>5. Settled(p, r, c, g)
  BY <1>3, <1>4 DEF Settled
<1> QED BY <1>5 DEF p

LEMMA ChainAccept ==
  ASSUME NEW q \in Seq(Op), NEW op \in Op, NEW r, NEW c, NEW g,
         Settled(q, r, c, g), Chain(q, r, c),
         Carrier(op) => op.ep = g
  PROVE  Chain(Append(q, op), r, c)
<1> DEFINE p == Append(q, op)
<1>1. /\ Len(q) \in Nat /\ Len(p) = Len(q) + 1 /\ p[Len(q) + 1] = op
      /\ \A k \in 1 .. Len(q) : p[k] = q[k]
  BY Appended
<1> HIDE DEF p
<1>2. \A j, k \in 1 .. Len(q) : NoMarker(p, j, k) => NoMarker(q, j, k)
  BY <1>1 DEF NoMarker
<1>3. \A j \in 1 .. Len(q) : NoMarker(p, j, Len(q) + 1) => NoMarker(q, j, Len(q))
  BY <1>1 DEF NoMarker
<1>4. NoMarker(p, 1, Len(q) + 1) => NoMarker(q, 1, Len(q))
  BY <1>1 DEF NoMarker
<1>5. ASSUME NEW j \in 1 .. Len(p), NEW k \in 1 .. Len(p), j < k,
             Carrier(p[j]), Carrier(p[k]), NoMarker(p, j, k)
      PROVE  p[j].ep = p[k].ep
  <2>1. CASE k = Len(q) + 1
    <3>1. j \in 1 .. Len(q) /\ NoMarker(q, j, Len(q)) /\ Carrier(q[j])
      BY <2>1, <1>1, <1>3, <1>5
    <3>2. q[j].ep = g
      BY <3>1 DEF Settled
    <3> QED BY <3>1, <3>2, <2>1, <1>1, <1>5
  <2>2. CASE k \in 1 .. Len(q)
    <3>1. j \in 1 .. Len(q)
      BY <2>2, <1>1, <1>5
    <3> QED BY <2>2, <3>1, <1>1, <1>2, <1>5 DEF Chain
  <2> QED BY <2>1, <2>2, <1>1
<1>6. ASSUME NEW k \in 1 .. Len(p), Carrier(p[k]), NoMarker(p, 1, k)
      PROVE  /\ Carrier(r) => r.ep = p[k].ep
             /\ r.kind # "invalidate" => c \in {NoConn, p[k].ep}
  <2>1. CASE k = Len(q) + 1
    BY <2>1, <1>1, <1>4, <1>6 DEF Settled, Carrier
  <2>2. CASE k \in 1 .. Len(q)
    <3>1. NoMarker(q, 1, k) /\ Carrier(q[k])
      BY <2>2, <1>1, <1>2, <1>6
    <3> QED BY <3>1, <2>2, <1>1 DEF Chain
  <2> QED BY <2>1, <2>2, <1>1
<1>7. Chain(p, r, c)
  BY <1>5, <1>6 DEF Chain
<1> QED BY <1>7 DEF p

(* An Invalidate settles whatever it is put behind.                         *)
LEMMA MarkerSettles ==
  ASSUME NEW q \in Seq(Op), NEW op \in Op, NEW r, NEW c, NEW g,
         op.kind = "invalidate"
  PROVE  /\ Settled(Append(q, op), r, c, g)
         /\ Chain(q, r, c) => Chain(Append(q, op), r, c)
<1> DEFINE p == Append(q, op)
<1>1. /\ Len(q) \in Nat /\ Len(p) = Len(q) + 1 /\ p[Len(q) + 1] = op
      /\ \A k \in 1 .. Len(q) : p[k] = q[k]
  BY Appended
<1> HIDE DEF p
<1>2. \A k \in 1 .. Len(p) : ~NoMarker(p, k, Len(p))
  BY <1>1 DEF NoMarker
<1>3. ~NoMarker(p, 1, Len(p))
  BY <1>1 DEF NoMarker
<1>4. Settled(p, r, c, g)
  BY <1>2, <1>3 DEF Settled
<1>5. ASSUME Chain(q, r, c) PROVE Chain(p, r, c)
  <2>1. \A j, k \in 1 .. Len(q) : NoMarker(p, j, k) => NoMarker(q, j, k)
    BY <1>1 DEF NoMarker
  <2>2. \A k \in 1 .. Len(p) : Carrier(p[k]) => k \in 1 .. Len(q)
    BY <1>1 DEF Carrier
  <2>3. ASSUME NEW j \in 1 .. Len(p), NEW k \in 1 .. Len(p), j < k,
               Carrier(p[j]), Carrier(p[k]), NoMarker(p, j, k)
        PROVE  p[j].ep = p[k].ep
    BY <2>1, <2>2, <2>3, <1>1, <1>5 DEF Chain
  <2>4. ASSUME NEW k \in 1 .. Len(p), Carrier(p[k]), NoMarker(p, 1, k)
        PROVE  /\ Carrier(r) => r.ep = p[k].ep
               /\ r.kind # "invalidate" => c \in {NoConn, p[k].ep}
    <3>1. k \in 1 .. Len(q) /\ 1 \in 1 .. Len(q)
      BY <2>2, <2>4, <1>1
    <3>2. NoMarker(q, 1, k) /\ Carrier(q[k]) /\ p[k] = q[k]
      BY <3>1, <2>1, <2>4, <1>1
    <3> QED BY <3>1, <3>2, <1>5 DEF Chain
  <2> QED BY <2>3, <2>4, <1>5 DEF Chain
<1> QED BY <1>4, <1>5 DEF p

(* The worker takes the head; a session_info reads the current endpoint.    *)
LEMMA SettledTake ==
  ASSUME NEW q \in Seq(Op), q # <<>>, NEW c, NEW g, NEW r,
         Settled(q, Nothing, c, g),
         r.kind = Head(q).kind,
         r.ep = IF Head(q).kind = "info" THEN g ELSE Head(q).ep
  PROVE  Settled(Tail(q), r, c, g)
<1> DEFINE p == Tail(q)
<1>1. /\ Len(q) \in Nat /\ 1 \in 1 .. Len(q) /\ Len(p) = Len(q) - 1
      /\ Head(q) = q[1]
      /\ \A k \in 1 .. Len(q) - 1 : p[k] = q[k + 1] /\ k + 1 \in 1 .. Len(q)
  BY Taken
<1> HIDE DEF p
<1>2. ASSUME NEW k \in 1 .. Len(p), NoMarker(p, k, Len(p))
      PROVE  NoMarker(q, k + 1, Len(q))
  <2>1. ASSUME NEW m \in k + 1 .. Len(q) PROVE q[m].kind # "invalidate"
    <3>1. m - 1 \in k .. Len(p) /\ m - 1 \in 1 .. Len(q) - 1
      BY <1>1
    <3>2. p[m - 1] = q[m]
      BY <3>1, <1>1
    <3> QED BY <3>1, <3>2, <1>2 DEF NoMarker
  <2> QED BY <2>1 DEF NoMarker
<1>3. ASSUME NoMarker(p, 1, Len(p)), r.kind # "invalidate"
      PROVE  NoMarker(q, 1, Len(q))
  <2>1. ASSUME NEW m \in 1 .. Len(q) PROVE q[m].kind # "invalidate"
    <3>1. CASE m = 1
      BY <3>1, <1>1, <1>3
    <3>2. CASE m # 1
      <4>1. m - 1 \in 1 .. Len(p) /\ m - 1 \in 1 .. Len(q) - 1
        BY <1>1, <3>2
      <4>2. p[m - 1] = q[m]
        BY <4>1, <1>1
      <4> QED BY <4>1, <4>2, <1>3 DEF NoMarker
    <3> QED BY <3>1, <3>2
  <2> QED BY <2>1 DEF NoMarker
<1>4. ASSUME NEW k \in 1 .. Len(p), Carrier(p[k]), NoMarker(p, k, Len(p))
      PROVE  p[k].ep = g
  BY <1>1, <1>2, <1>4 DEF Settled
<1>5. ASSUME NoMarker(p, 1, Len(p))
      PROVE  /\ r.kind \in {"query", "begin", "info"} => r.ep = g
             /\ r.kind # "invalidate" => c \in {NoConn, g}
  <2>1. r.kind # "invalidate" => c \in {NoConn, g}
    BY <1>3, <1>5 DEF Settled, Nothing
  <2>2. ASSUME r.kind \in {"query", "begin"} PROVE r.ep = g
    <3>1. NoMarker(q, 1, Len(q)) /\ Carrier(q[1]) /\ r.ep = q[1].ep
      BY <2>2, <1>1, <1>3, <1>5 DEF Carrier
    <3> QED BY <3>1, <1>1 DEF Settled
  <2> QED BY <2>1, <2>2
<1>6. Settled(p, r, c, g)
  BY <1>4, <1>5 DEF Settled
<1> QED BY <1>6 DEF p

LEMMA ChainTake ==
  ASSUME NEW q \in Seq(Op), q # <<>>, NEW c, NEW r,
         Chain(q, Nothing, c),
         r.kind = Head(q).kind, Carrier(r) => r.ep = Head(q).ep
  PROVE  Chain(Tail(q), r, c)
<1> DEFINE p == Tail(q)
<1>1. /\ Len(q) \in Nat /\ 1 \in 1 .. Len(q) /\ Len(p) = Len(q) - 1
      /\ Head(q) = q[1]
      /\ \A k \in 1 .. Len(q) - 1 : p[k] = q[k + 1] /\ k + 1 \in 1 .. Len(q)
  BY Taken
<1> HIDE DEF p
<1>2. ASSUME NEW j \in 1 .. Len(p), NEW k \in 1 .. Len(p), NoMarker(p, j, k)
      PROVE  NoMarker(q, j + 1, k + 1)
  <2>1. ASSUME NEW m \in j + 1 .. k + 1 PROVE q[m].kind # "invalidate"
    <3>1. m - 1 \in j .. k /\ m - 1 \in 1 .. Len(q) - 1
      BY <1>1
    <3>2. p[m - 1] = q[m]
      BY <3>1, <1>1
    <3> QED BY <3>1, <3>2, <1>2 DEF NoMarker
  <2> QED BY <2>1 DEF NoMarker
<1>3. ASSUME NEW k \in 1 .. Len(p), NoMarker(p, 1, k), r.kind # "invalidate"
      PROVE  NoMarker(q, 1, k + 1)
  <2>1. 1 \in 1 .. Len(p) /\ NoMarker(q, 2, k + 1)
    BY <1>1, <1>2, <1>3
  <2>2. q[1].kind # "invalidate"
    BY <1>1, <1>3
  <2> QED BY <2>1, <2>2 DEF NoMarker
<1>4. ASSUME NEW j \in 1 .. Len(p), NEW k \in 1 .. Len(p), j < k,
             Carrier(p[j]), Carrier(p[k]), NoMarker(p, j, k)
      PROVE  p[j].ep = p[k].ep
  <2>1. /\ j + 1 \in 1 .. Len(q) /\ k + 1 \in 1 .. Len(q) /\ j + 1 < k + 1
        /\ p[j] = q[j + 1] /\ p[k] = q[k + 1]
    BY <1>1, <1>4
  <2> QED BY <2>1, <1>2, <1>4 DEF Chain
<1>5. ASSUME NEW k \in 1 .. Len(p), Carrier(p[k]), NoMarker(p, 1, k),
             r.kind # "invalidate"
      PROVE  /\ Carrier(r) => r.ep = p[k].ep
             /\ c \in {NoConn, p[k].ep}
  <2>1. k + 1 \in 1 .. Len(q) /\ p[k] = q[k + 1] /\ NoMarker(q, 1, k + 1)
    BY <1>1, <1>3, <1>5
  <2>2. c \in {NoConn, p[k].ep}
    BY <2>1, <1>5 DEF Chain, Nothing
  <2>3. ASSUME Carrier(r) PROVE r.ep = p[k].ep
    <3>1. Carrier(q[1]) /\ r.ep = q[1].ep /\ 1 < k + 1
      BY <2>3, <1>1 DEF Carrier
    <3> QED BY <3>1, <2>1, <1>1, <1>5 DEF Chain
  <2> QED BY <2>2, <2>3
<1>6. ASSUME Carrier(r) PROVE c \in {NoConn, r.ep}
  <2>1. Carrier(q[1]) /\ r.ep = q[1].ep /\ NoMarker(q, 1, 1)
    BY <1>6, <1>1 DEF Carrier, NoMarker
  <2> QED BY <2>1, <1>1 DEF Chain, Nothing
<1>7. Chain(p, r, c)
  BY <1>4, <1>5, <1>6 DEF Chain, Carrier
<1> QED BY <1>7 DEF p

(* The running operation is done: it used the connection it found or opened *)
(* one of its own, it touched none, or it dropped it.                       *)
LEMMA SettledUse ==
  ASSUME NEW q \in Seq(Op), NEW r, NEW c, NEW g,
         Settled(q, r, c, g), r.kind \in {"query", "begin", "info"}
  PROVE  Settled(q, Nothing, IF c = NoConn THEN r.ep ELSE c, g)
BY DEF Settled, Nothing

LEMMA SettledLeave ==
  ASSUME NEW q \in Seq(Op), NEW r, NEW c, NEW g,
         Settled(q, r, c, g), r.kind # "invalidate"
  PROVE  Settled(q, Nothing, c, g)
BY DEF Settled, Nothing

LEMMA SettledDrop ==
  ASSUME NEW q \in Seq(Op), NEW r, NEW c, NEW g, Settled(q, r, c, g)
  PROVE  Settled(q, r, NoConn, g) /\ Settled(q, Nothing, NoConn, g)
BY DEF Settled, Nothing

LEMMA ChainUse ==
  ASSUME NEW q \in Seq(Op), NEW r, NEW c, Chain(q, r, c), Carrier(r)
  PROVE  Chain(q, Nothing, IF c = NoConn THEN r.ep ELSE c)
BY DEF Chain, Carrier, Nothing

LEMMA ChainLeave ==
  ASSUME NEW q \in Seq(Op), NEW r, NEW c, Chain(q, r, c),
         r.kind # "invalidate"
  PROVE  Chain(q, Nothing, c)
BY DEF Chain, Carrier, Nothing

LEMMA ChainDrop ==
  ASSUME NEW q \in Seq(Op), NEW r, NEW c, Chain(q, r, c)
  PROVE  Chain(q, r, NoConn) /\ Chain(q, Nothing, NoConn)
BY DEF Chain, Carrier, Nothing

LEMMA EmptyChannel ==
  ASSUME NEW g
  PROVE  Settled(<<>>, Nothing, NoConn, g) /\ Chain(<<>>, Nothing, NoConn)
<1>1. \A k \in 1 .. Len(<<>>) : FALSE
  OBVIOUS
<1> QED BY <1>1 DEF Settled, Chain, Carrier, Nothing

-----------------------------------------------------------------------------
(* Types, and how far a patch has come.                                    *)

PatchInv ==
  /\ dpc = "read" => reserved = {}
  /\ dpc = "reserve" =>
       \A s \in Sessions : s \notin todo \cup reserved => next[s] = config[s]

BaseInv == TypeOK /\ PatchInv

LEMMA OpTypes ==
  ASSUME NEW s \in Sessions, NEW kind \in AllKinds, TypeOK
  PROVE  /\ [kind |-> kind, ep |-> Carried(kind, s)] \in Op
         /\ [kind |-> "invalidate", ep |-> NoConn] \in Op
         /\ Nothing \notin Op
BY DEF TypeOK, Op, Nothing, Carried, AllKinds

LEMMA TypeStep == BaseInv /\ [Next]_vars => BaseInv'
<1> SUFFICES ASSUME BaseInv, [Next]_vars PROVE BaseInv'
  OBVIOUS
<1> USE FifoConstants DEF BaseInv
<1>1. ASSUME NEW kind \in AllKinds, NEW s \in Sessions, Accept(kind, s)
      PROVE  BaseInv'
  <2> DEFINE op == [kind |-> kind, ep |-> Carried(kind, s)]
  <2>1. op \in Op
    BY OpTypes
  <2>2. /\ queue' = [queue EXCEPT ![s] = Append(queue[s], op)]
        /\ Len(queue[s]) < QueueCap /\ reserved = {} /\ reserved' = reserved
    BY <1>1 DEF Accept, Enqueue, HasRoom, PatchInv, patch
  <2>3. /\ Append(queue[s], op) \in Seq(Op) /\ Len(queue[s]) \in Nat
        /\ Len(Append(queue[s], op)) = Len(queue[s]) + 1
    BY <2>1, Appended DEF TypeOK
  <2> HIDE DEF op
  <2>4. /\ queue' \in [Sessions -> Seq(Op)]
        /\ \A t \in Sessions : Len(queue'[t])
             + (IF t \in reserved' THEN 1 ELSE 0) <= QueueCap
    BY <2>2, <2>3 DEF TypeOK
  <2> QED BY <1>1, <2>4 DEF Accept, patch, TypeOK, PatchInv
<1>2. ASSUME NEW named \in SUBSET Sessions, NEW ep \in [Sessions -> Endpoints],
             StartPatch(named, ep)
      PROVE  BaseInv'
  BY <1>2 DEF StartPatch, TypeOK, PatchInv
<1>3. ASSUME NEW s \in Sessions, Reserve(s) PROVE BaseInv'
  <2>1. /\ Len(queue[s]) < QueueCap /\ reserved' = reserved \cup {s}
        /\ queue' = queue /\ Len(queue[s]) \in Nat
    BY <1>3 DEF Reserve, HasRoom, TypeOK
  <2>2. \A t \in Sessions :
          Len(queue'[t]) + (IF t \in reserved' THEN 1 ELSE 0) <= QueueCap
    BY <2>1 DEF TypeOK
  <2> QED BY <1>3, <2>2 DEF Reserve, TypeOK, PatchInv
<1>4. ASSUME NEW s \in Sessions, RejectPatch(s) PROVE BaseInv'
  <2>1. \A t \in Sessions : Len(queue[t]) \in Nat
    BY DEF TypeOK
  <2>2. \A t \in Sessions :
          Len(queue'[t]) + (IF t \in reserved' THEN 1 ELSE 0) <= QueueCap
    BY <1>4, <2>1 DEF RejectPatch, TypeOK
  <2> QED BY <1>4, <2>2 DEF RejectPatch, TypeOK, PatchInv
<1>5. ASSUME NEW s \in Sessions, SendInvalidate(s) PROVE BaseInv'
  <2> DEFINE op == [kind |-> "invalidate", ep |-> NoConn]
  <2>1. op \in Op
    BY DEF Op
  <2>2. /\ queue' = [queue EXCEPT ![s] = Append(queue[s], op)]
        /\ s \in reserved /\ reserved' = reserved \ {s}
    BY <1>5 DEF SendInvalidate, Enqueue
  <2>3. /\ Append(queue[s], op) \in Seq(Op) /\ Len(queue[s]) \in Nat
        /\ Len(Append(queue[s], op)) = Len(queue[s]) + 1
    BY <2>1, Appended DEF TypeOK
  <2> HIDE DEF op
  <2>4. queue' \in [Sessions -> Seq(Op)]
    BY <2>2, <2>3 DEF TypeOK
  <2>5. ASSUME NEW t \in Sessions
        PROVE  Len(queue'[t]) + (IF t \in reserved' THEN 1 ELSE 0) <= QueueCap
    <3>1. Len(queue[t]) + (IF t \in reserved THEN 1 ELSE 0) <= QueueCap
      BY DEF TypeOK
    <3>2. CASE t = s
      BY <3>1, <3>2, <2>2, <2>3 DEF TypeOK
    <3>3. CASE t # s
      BY <3>1, <3>3, <2>2 DEF TypeOK
    <3> QED BY <3>2, <3>3
  <2> QED BY <2>5, <1>5, <2>4 DEF SendInvalidate, TypeOK, PatchInv
<1>6. CASE Install
  BY <1>6 DEF Install, TypeOK, PatchInv
<1>7. CASE EndPatch
  BY <1>7 DEF EndPatch, TypeOK, PatchInv
<1>8. ASSUME NEW s \in Sessions, Take(s) PROVE BaseInv'
  <2>1. /\ queue[s] \in Seq(Op) /\ queue[s] # <<>>
        /\ queue' = [queue EXCEPT ![s] = Tail(queue[s])]
        /\ UNCHANGED <<config, dpc, next, todo, reserved, conn>>
    BY <1>8 DEF Take, patch, TypeOK
  <2>2. /\ Tail(queue[s]) \in Seq(Op) /\ Len(queue[s]) \in Nat
        /\ Len(Tail(queue[s])) = Len(queue[s]) - 1 /\ Head(queue[s]) \in Op
    BY <2>1, Taken
  <2>3. ASSUME NEW t \in Sessions
        PROVE  Len(queue'[t]) + (IF t \in reserved' THEN 1 ELSE 0) <= QueueCap
    <3>1. Len(queue[t]) + (IF t \in reserved THEN 1 ELSE 0) <= QueueCap
      BY DEF TypeOK
    <3>2. CASE t = s
      BY <3>1, <3>2, <2>1, <2>2 DEF TypeOK
    <3>3. CASE t # s
      BY <3>1, <3>3, <2>1 DEF TypeOK
    <3> QED BY <3>2, <3>3
  <2>4. queue' \in [Sessions -> Seq(Op)]
    BY <2>1, <2>2 DEF TypeOK
  <2>5. [kind |-> "info", ep |-> config[s]] \in Op
    BY DEF Op, AllKinds, TypeOK
  <2>6. running' \in [Sessions -> Op \cup {Nothing}]
    BY <1>8, <2>2, <2>5 DEF Take, TypeOK
  <2> QED BY <2>1, <2>3, <2>4, <2>6 DEF TypeOK, PatchInv
<1>9. ASSUME NEW s \in Sessions, Execute(s) PROVE BaseInv'
  <2>1. Reached(s) \in Endpoints \cup {NoConn}
    BY <1>9, OpTypes DEF Execute, Reached, TypeOK, Op, Nothing
  <2> QED BY <1>9, <2>1 DEF Execute, Done, patch, TypeOK, PatchInv
<1>10. ASSUME NEW s \in Sessions, EndWithoutBackend(s) PROVE BaseInv'
  BY <1>10 DEF EndWithoutBackend, Done, patch, TypeOK, PatchInv
<1>11. ASSUME NEW s \in Sessions, Invalidate(s) PROVE BaseInv'
  BY <1>11 DEF Invalidate, Done, patch, TypeOK, PatchInv
<1>12. ASSUME NEW s \in Sessions, ConnectionLost(s) PROVE BaseInv'
  BY <1>12 DEF ConnectionLost, patch, TypeOK, PatchInv
<1>13. CASE UNCHANGED vars
  BY <1>13 DEF vars, patch, TypeOK, PatchInv
<1> QED
  BY <1>1, <1>2, <1>3, <1>4, <1>5, <1>6, <1>7, <1>8, <1>9, <1>10, <1>11,
     <1>12, <1>13 DEF Next, Dispatcher, Worker

(* No session's channel is overrun by an Invalidate that was promised a     *)
(* place in it, and every variable keeps its type.                         *)
THEOREM FifoTypeCorrect == Spec => []TypeOK
<1>1. Init => BaseInv
  BY FifoConstants DEF Init, BaseInv, TypeOK, PatchInv
<1>2. BaseInv => TypeOK
  BY DEF BaseInv
<1> QED BY <1>1, <1>2, TypeStep, PTL DEF Spec

(* A patch is installed whole, with a permit for every session it moves.    *)
THEOREM PatchIsWhole == Spec => PatchIsAtomic
<1>1. Init => BaseInv
  BY FifoConstants DEF Init, BaseInv, TypeOK, PatchInv
<1>2. ASSUME BaseInv, [Next]_vars
      PROVE  [\A s \in Sessions : config'[s] # config[s] =>
                s \in reserved /\ config' = next]_vars
  <2>1. CASE Install
    BY <1>2, <2>1 DEF Install, BaseInv, PatchInv
  <2>2. CASE ~Install
    <3>1. config' = config
      BY <1>2, <2>2 DEF Next, Dispatcher, Worker, Accept, StartPatch, Reserve,
         RejectPatch, SendInvalidate, EndPatch, Take, Execute,
         EndWithoutBackend, Invalidate, ConnectionLost, vars
    <3> QED BY <3>1
  <2> QED BY <2>1, <2>2
<1> QED BY <1>1, <1>2, TypeStep, PTL DEF Spec, PatchIsAtomic

-----------------------------------------------------------------------------
(* Where each session stands while no Invalidate is promised to it.        *)

Moving(s) == dpc = "send" /\ s \in reserved

SettledInv ==
  \A s \in Sessions :
    Moving(s) \/ Settled(queue[s], running[s], conn[s], config[s])

(* What an action does to one session leaves the others as they were.       *)
LEMMA SettledOthers ==
  ASSUME SettledInv, NEW s \in Sessions,
         config' = config, dpc' = dpc, reserved' = reserved,
         \A t \in Sessions \ {s} :
           queue'[t] = queue[t] /\ running'[t] = running[t] /\ conn'[t] = conn[t],
         Settled(queue[s], running[s], conn[s], config[s])
           => Settled(queue'[s], running'[s], conn'[s], config[s])
  PROVE  SettledInv'
BY DEF SettledInv, Moving

LEMMA SettledStep == BaseInv /\ SettledInv /\ [Next]_vars => SettledInv'
<1> SUFFICES ASSUME BaseInv, SettledInv, [Next]_vars PROVE SettledInv'
  OBVIOUS
<1>0. TypeOK /\ PatchInv
  BY DEF BaseInv
<1>1. ASSUME NEW kind \in AllKinds, NEW s \in Sessions, Accept(kind, s)
      PROVE  SettledInv'
  <2> DEFINE op == [kind |-> kind, ep |-> Carried(kind, s)]
  <2>1. /\ op \in Op /\ op.kind # "invalidate"
        /\ Carrier(op) => op.ep = config[s]
    BY <1>0, OpTypes DEF AllKinds, Carrier, Carried
  <2>2. /\ queue' = [queue EXCEPT ![s] = Append(queue[s], op)]
        /\ queue \in [Sessions -> Seq(Op)]
        /\ UNCHANGED <<config, dpc, reserved, running, conn>>
    BY <1>0, <1>1 DEF Accept, Enqueue, patch, TypeOK
  <2> HIDE DEF op
  <2>3. queue'[s] = Append(queue[s], op) /\ queue[s] \in Seq(Op)
    BY <2>2
  <2>4. Settled(queue[s], running[s], conn[s], config[s])
        => Settled(queue'[s], running'[s], conn'[s], config[s])
    BY <2>1, <2>2, <2>3, SettledAccept
  <2>5. \A t \in Sessions \ {s} : queue'[t] = queue[t]
    BY <2>2
  <2> QED BY <2>2, <2>4, <2>5, SettledOthers
<1>2. ASSUME NEW named \in SUBSET Sessions, NEW ep \in [Sessions -> Endpoints],
             StartPatch(named, ep)
      PROVE  SettledInv'
  BY <1>2 DEF StartPatch, SettledInv, Moving
<1>3. ASSUME NEW s \in Sessions, Reserve(s) PROVE SettledInv'
  BY <1>3 DEF Reserve, SettledInv, Moving
<1>4. ASSUME NEW s \in Sessions, RejectPatch(s) PROVE SettledInv'
  BY <1>4 DEF RejectPatch, SettledInv, Moving
<1>5. ASSUME NEW s \in Sessions, SendInvalidate(s) PROVE SettledInv'
  <2> DEFINE op == [kind |-> "invalidate", ep |-> NoConn]
  <2>1. op \in Op /\ op.kind = "invalidate"
    BY <1>0, OpTypes DEF Op
  <2>2. /\ queue' = [queue EXCEPT ![s] = Append(queue[s], op)]
        /\ queue \in [Sessions -> Seq(Op)]
        /\ reserved' = reserved \ {s}
        /\ UNCHANGED <<config, dpc, running, conn>>
    BY <1>0, <1>5 DEF SendInvalidate, Enqueue, TypeOK
  <2> HIDE DEF op
  <2>3. Settled(queue'[s], running'[s], conn'[s], config'[s])
    BY <2>1, <2>2, MarkerSettles
  <2>4. \A t \in Sessions \ {s} :
          queue'[t] = queue[t] /\ (Moving(t) => Moving(t)')
    BY <2>2 DEF Moving
  <2> QED BY <2>2, <2>3, <2>4 DEF SettledInv
<1>6. CASE Install
  BY <1>0, <1>6 DEF Install, PatchInv, SettledInv, Moving
<1>7. CASE EndPatch
  BY <1>7 DEF EndPatch, SettledInv, Moving
<1>8. ASSUME NEW s \in Sessions, Take(s) PROVE SettledInv'
  <2> DEFINE r == IF Head(queue[s]).kind = "info"
                  THEN [kind |-> "info", ep |-> config[s]] ELSE Head(queue[s])
  <2>1. /\ queue[s] \in Seq(Op) /\ queue[s] # <<>> /\ running[s] = Nothing
        /\ queue'[s] = Tail(queue[s]) /\ running'[s] = r
        /\ \A t \in Sessions \ {s} :
             queue'[t] = queue[t] /\ running'[t] = running[t]
        /\ UNCHANGED <<config, dpc, reserved, conn>>
    BY <1>0, <1>8 DEF Take, patch, TypeOK
  <2>2. /\ r.kind = Head(queue[s]).kind
        /\ r.ep = IF Head(queue[s]).kind = "info" THEN config[s]
                  ELSE Head(queue[s]).ep
    OBVIOUS
  <2> HIDE DEF r
  <2>3. Settled(queue[s], running[s], conn[s], config[s])
        => Settled(queue'[s], running'[s], conn'[s], config[s])
    BY <2>1, <2>2, SettledTake
  <2> QED BY <2>1, <2>3, SettledOthers
<1>9. ASSUME NEW s \in Sessions, Execute(s) PROVE SettledInv'
  <2>1. /\ queue[s] \in Seq(Op) /\ queue' = queue
        /\ running[s].kind \in {"query", "begin", "info"}
        /\ running'[s] = Nothing
        /\ conn'[s] = IF conn[s] = NoConn THEN running[s].ep ELSE conn[s]
        /\ \A t \in Sessions \ {s} :
             running'[t] = running[t] /\ conn'[t] = conn[t]
        /\ UNCHANGED <<config, dpc, reserved>>
    BY <1>0, <1>9 DEF Execute, Done, Reached, patch, TypeOK
  <2>2. Settled(queue[s], running[s], conn[s], config[s])
        => Settled(queue'[s], running'[s], conn'[s], config[s])
    BY <2>1, SettledUse
  <2> QED BY <2>1, <2>2, SettledOthers
<1>10. ASSUME NEW s \in Sessions, EndWithoutBackend(s) PROVE SettledInv'
  <2>1. /\ queue[s] \in Seq(Op) /\ queue' = queue /\ conn' = conn
        /\ running[s].kind # "invalidate" /\ running'[s] = Nothing
        /\ \A t \in Sessions \ {s} : running'[t] = running[t]
        /\ UNCHANGED <<config, dpc, reserved>>
    BY <1>0, <1>10 DEF EndWithoutBackend, Done, patch, TypeOK, AllKinds
  <2>2. Settled(queue[s], running[s], conn[s], config[s])
        => Settled(queue'[s], running'[s], conn'[s], config[s])
    BY <2>1, SettledLeave
  <2> QED BY <2>1, <2>2, SettledOthers
<1>11. ASSUME NEW s \in Sessions, Invalidate(s) PROVE SettledInv'
  <2>1. /\ queue[s] \in Seq(Op) /\ queue' = queue
        /\ conn'[s] = NoConn /\ running'[s] = Nothing
        /\ \A t \in Sessions \ {s} :
             running'[t] = running[t] /\ conn'[t] = conn[t]
        /\ UNCHANGED <<config, dpc, reserved>>
    BY <1>0, <1>11 DEF Invalidate, Done, patch, TypeOK
  <2>2. Settled(queue[s], running[s], conn[s], config[s])
        => Settled(queue'[s], running'[s], conn'[s], config[s])
    BY <2>1, SettledDrop
  <2> QED BY <2>1, <2>2, SettledOthers
<1>12. ASSUME NEW s \in Sessions, ConnectionLost(s) PROVE SettledInv'
  <2>1. /\ queue[s] \in Seq(Op) /\ queue' = queue /\ running' = running
        /\ conn'[s] = NoConn
        /\ \A t \in Sessions \ {s} : conn'[t] = conn[t]
        /\ UNCHANGED <<config, dpc, reserved>>
    BY <1>0, <1>12 DEF ConnectionLost, patch, TypeOK
  <2>2. Settled(queue[s], running[s], conn[s], config[s])
        => Settled(queue'[s], running'[s], conn'[s], config[s])
    BY <2>1, SettledDrop
  <2> QED BY <2>1, <2>2, SettledOthers
<1>13. CASE UNCHANGED vars
  BY <1>13 DEF vars, patch, SettledInv, Moving
<1> QED
  BY <1>1, <1>2, <1>3, <1>4, <1>5, <1>6, <1>7, <1>8, <1>9, <1>10, <1>11,
     <1>12, <1>13 DEF Next, Dispatcher, Worker

LEMMA FifoInit == Init => BaseInv /\ SettledInv
<1> SUFFICES ASSUME Init PROVE BaseInv /\ SettledInv
  OBVIOUS
<1>1. BaseInv
  BY FifoConstants DEF Init, BaseInv, TypeOK, PatchInv
<1>2. ASSUME NEW s \in Sessions
      PROVE  Settled(queue[s], running[s], conn[s], config[s])
  <2>1. queue[s] = <<>> /\ running[s] = Nothing /\ conn[s] = NoConn
    BY DEF Init
  <2> QED BY <2>1, EmptyChannel
<1> QED BY <1>1, <1>2 DEF SettledInv

(* A connection to an endpoint the configuration has left is never what an  *)
(* operation accepted from now on will find.                               *)
THEOREM StaleIsDoomed == Spec => []StaleConnectionIsDoomed
<1>1. ASSUME BaseInv, SettledInv PROVE StaleConnectionIsDoomed
  <2> SUFFICES ASSUME NEW s \in Sessions, conn[s] \notin {NoConn, config[s]},
                      s \notin reserved, running[s].kind # "invalidate"
               PROVE  \E k \in DOMAIN queue[s] : queue[s][k].kind = "invalidate"
    BY DEF StaleConnectionIsDoomed
  <2>1. Settled(queue[s], running[s], conn[s], config[s])
    BY <1>1 DEF SettledInv, Moving
  <2>2. ~NoMarker(queue[s], 1, Len(queue[s]))
    BY <2>1 DEF Settled
  <2>3. DOMAIN queue[s] = 1 .. Len(queue[s])
    BY <1>1 DEF BaseInv, TypeOK
  <2> QED BY <2>2, <2>3 DEF NoMarker
<1> QED BY <1>1, FifoInit, TypeStep, SettledStep, PTL DEF Spec

-----------------------------------------------------------------------------
(* Where each session stands while its Invalidates have still to come; true  *)
(* where nobody asks for session_info.                                     *)

NoInfo ==
  \A s \in Sessions :
    /\ running[s].kind # "info"
    /\ \A k \in 1 .. Len(queue[s]) : queue[s][k].kind # "info"

ChainInv == \A s \in Sessions : Chain(queue[s], running[s], conn[s])

LEMMA ChainOthers ==
  ASSUME ChainInv, NoInfo, NEW s \in Sessions,
         \A t \in Sessions \ {s} :
           queue'[t] = queue[t] /\ running'[t] = running[t] /\ conn'[t] = conn[t],
         running'[s].kind # "info",
         \A k \in 1 .. Len(queue'[s]) : queue'[s][k].kind # "info",
         Chain(queue'[s], running'[s], conn'[s])
  PROVE  ChainInv' /\ NoInfo'
BY DEF ChainInv, NoInfo

LEMMA ChainSame ==
  ASSUME ChainInv, NoInfo, UNCHANGED <<queue, running, conn>>
  PROVE  ChainInv' /\ NoInfo'
BY DEF ChainInv, NoInfo

LEMMA ChainStep ==
  ASSUME "info" \notin Kinds
  PROVE  BaseInv /\ SettledInv /\ ChainInv /\ NoInfo /\ [Next]_vars
         => ChainInv' /\ NoInfo'
<1> SUFFICES ASSUME BaseInv, SettledInv, ChainInv, NoInfo, [Next]_vars
             PROVE  ChainInv' /\ NoInfo'
  OBVIOUS
<1>0. TypeOK /\ PatchInv
  BY DEF BaseInv
<1>1. ASSUME NEW kind \in AllKinds, NEW s \in Sessions, Accept(kind, s)
      PROVE  ChainInv' /\ NoInfo'
  <2> DEFINE op == [kind |-> kind, ep |-> Carried(kind, s)]
  <2>1. /\ op \in Op /\ op.kind # "info"
        /\ Carrier(op) => op.ep = config[s]
    BY <1>0, <1>1, OpTypes DEF Accept, Carrier, Carried
  <2>2. /\ queue' = [queue EXCEPT ![s] = Append(queue[s], op)]
        /\ queue \in [Sessions -> Seq(Op)]
        /\ dpc = "read" /\ UNCHANGED <<running, conn>>
    BY <1>0, <1>1 DEF Accept, Enqueue, TypeOK
  <2> HIDE DEF op
  <2>3. queue'[s] = Append(queue[s], op) /\ queue[s] \in Seq(Op)
    BY <2>2
  <2>4. Settled(queue[s], running[s], conn[s], config[s])
    BY <2>2 DEF SettledInv, Moving
  <2>5. Chain(queue'[s], running'[s], conn'[s])
    BY <2>1, <2>2, <2>3, <2>4, ChainAccept DEF ChainInv
  <2>6. \A k \in 1 .. Len(queue'[s]) : queue'[s][k].kind # "info"
    BY <2>1, <2>3, Appended DEF NoInfo
  <2>7. \A t \in Sessions \ {s} : queue'[t] = queue[t]
    BY <2>2
  <2>8. running'[s].kind # "info"
    BY <2>2 DEF NoInfo
  <2> QED BY <2>2, <2>5, <2>6, <2>7, <2>8, ChainOthers
<1>2. ASSUME NEW named \in SUBSET Sessions, NEW ep \in [Sessions -> Endpoints],
             StartPatch(named, ep)
      PROVE  ChainInv' /\ NoInfo'
  BY <1>2, ChainSame DEF StartPatch
<1>3. ASSUME NEW s \in Sessions, Reserve(s) \/ RejectPatch(s)
      PROVE  ChainInv' /\ NoInfo'
  BY <1>3, ChainSame DEF Reserve, RejectPatch
<1>4. CASE Install \/ EndPatch
  BY <1>4, ChainSame DEF Install, EndPatch
<1>5. ASSUME NEW s \in Sessions, SendInvalidate(s)
      PROVE  ChainInv' /\ NoInfo'
  <2> DEFINE op == [kind |-> "invalidate", ep |-> NoConn]
  <2>1. op \in Op /\ op.kind = "invalidate"
    BY <1>0, OpTypes DEF Op
  <2>2. /\ queue' = [queue EXCEPT ![s] = Append(queue[s], op)]
        /\ queue \in [Sessions -> Seq(Op)]
        /\ UNCHANGED <<running, conn>>
    BY <1>0, <1>5 DEF SendInvalidate, Enqueue, TypeOK
  <2> HIDE DEF op
  <2>3. queue'[s] = Append(queue[s], op) /\ queue[s] \in Seq(Op)
    BY <2>2
  <2>4. Chain(queue'[s], running'[s], conn'[s])
    BY <2>1, <2>2, <2>3, MarkerSettles DEF ChainInv
  <2>5. \A k \in 1 .. Len(queue'[s]) : queue'[s][k].kind # "info"
    BY <2>1, <2>3, Appended DEF NoInfo
  <2>6. \A t \in Sessions \ {s} : queue'[t] = queue[t]
    BY <2>2
  <2>7. running'[s].kind # "info"
    BY <2>2 DEF NoInfo
  <2> QED BY <2>2, <2>4, <2>5, <2>6, <2>7, ChainOthers
<1>6. ASSUME NEW s \in Sessions, Take(s) PROVE ChainInv' /\ NoInfo'
  <2>1. /\ queue[s] \in Seq(Op) /\ queue[s] # <<>> /\ running[s] = Nothing
        /\ queue'[s] = Tail(queue[s]) /\ conn' = conn
        /\ \A t \in Sessions \ {s} :
             queue'[t] = queue[t] /\ running'[t] = running[t]
    BY <1>0, <1>6 DEF Take, TypeOK
  <2>2. Head(queue[s]).kind # "info"
    BY <2>1, Taken DEF NoInfo
  <2>3. running'[s] = Head(queue[s])
    BY <1>0, <1>6, <2>2 DEF Take, TypeOK
  <2>4. Chain(queue'[s], running'[s], conn'[s])
    BY <2>1, <2>3, ChainTake DEF ChainInv
  <2>5. \A k \in 1 .. Len(queue'[s]) : queue'[s][k].kind # "info"
    BY <2>1, Taken DEF NoInfo
  <2> QED BY <2>1, <2>2, <2>3, <2>4, <2>5, ChainOthers
<1>7. ASSUME NEW s \in Sessions, Execute(s) PROVE ChainInv' /\ NoInfo'
  <2>1. /\ queue[s] \in Seq(Op) /\ queue' = queue
        /\ Carrier(running[s]) /\ running'[s] = Nothing
        /\ conn'[s] = IF conn[s] = NoConn THEN running[s].ep ELSE conn[s]
        /\ \A t \in Sessions \ {s} :
             running'[t] = running[t] /\ conn'[t] = conn[t]
    BY <1>0, <1>7 DEF Execute, Done, Reached, TypeOK, NoInfo, Carrier
  <2>2. Chain(queue'[s], running'[s], conn'[s])
    BY <2>1, ChainUse DEF ChainInv
  <2> QED BY <2>1, <2>2, ChainOthers DEF NoInfo, Nothing
<1>8. ASSUME NEW s \in Sessions, EndWithoutBackend(s)
      PROVE  ChainInv' /\ NoInfo'
  <2>1. /\ queue[s] \in Seq(Op) /\ queue' = queue /\ conn' = conn
        /\ running[s].kind # "invalidate" /\ running'[s] = Nothing
        /\ \A t \in Sessions \ {s} : running'[t] = running[t]
    BY <1>0, <1>8 DEF EndWithoutBackend, Done, TypeOK, AllKinds
  <2>2. Chain(queue'[s], running'[s], conn'[s])
    BY <2>1, ChainLeave DEF ChainInv
  <2> QED BY <2>1, <2>2, ChainOthers DEF NoInfo, Nothing
<1>9. ASSUME NEW s \in Sessions, Invalidate(s) PROVE ChainInv' /\ NoInfo'
  <2>1. /\ queue[s] \in Seq(Op) /\ queue' = queue
        /\ conn'[s] = NoConn /\ running'[s] = Nothing
        /\ \A t \in Sessions \ {s} :
             running'[t] = running[t] /\ conn'[t] = conn[t]
    BY <1>0, <1>9 DEF Invalidate, Done, TypeOK
  <2>2. Chain(queue'[s], running'[s], conn'[s])
    BY <2>1, ChainDrop DEF ChainInv
  <2> QED BY <2>1, <2>2, ChainOthers DEF NoInfo, Nothing
<1>10. ASSUME NEW s \in Sessions, ConnectionLost(s) PROVE ChainInv' /\ NoInfo'
  <2>1. /\ queue[s] \in Seq(Op) /\ queue' = queue /\ running' = running
        /\ conn'[s] = NoConn
        /\ \A t \in Sessions \ {s} : conn'[t] = conn[t]
    BY <1>0, <1>10 DEF ConnectionLost, TypeOK
  <2>2. Chain(queue'[s], running'[s], conn'[s])
    BY <2>1, ChainDrop DEF ChainInv
  <2> QED BY <2>1, <2>2, ChainOthers DEF NoInfo
<1>11. CASE UNCHANGED vars
  BY <1>11, ChainSame DEF vars
<1> QED
  BY <1>1, <1>2, <1>3, <1>4, <1>5, <1>6, <1>7, <1>8, <1>9, <1>10, <1>11
  DEF Next, Dispatcher, Worker

(* Without session_info, a query and a begin reach the endpoint they were   *)
(* accepted for or none: one channel orders the operations of a session and *)
(* the Invalidates between them.                                           *)
THEOREM RunsOnItsEndpoint ==
  ASSUME "info" \notin Kinds
  PROVE  Spec => []RunsWhereAccepted
<1>1. Init => ChainInv /\ NoInfo
  <2> SUFFICES ASSUME Init PROVE ChainInv /\ NoInfo
    OBVIOUS
  <2>1. ASSUME NEW s \in Sessions
        PROVE  queue[s] = <<>> /\ running[s] = Nothing /\ conn[s] = NoConn
    BY DEF Init
  <2>2. \A k \in 1 .. Len(<<>>) : FALSE
    OBVIOUS
  <2> QED BY <2>1, <2>2, EmptyChannel DEF ChainInv, NoInfo, Nothing
<1>2. ChainInv => RunsWhereAccepted
  BY DEF ChainInv, Chain, Carrier, RunsWhereAccepted
<1> QED
  BY <1>1, <1>2, FifoInit, TypeStep, SettledStep, ChainStep, PTL DEF Spec
=============================================================================
