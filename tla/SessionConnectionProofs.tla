----------------------- MODULE SessionConnectionProofs -----------------------
(***************************************************************************)
(* Theorems about SessionConnection, for every set of transports and every *)
(* number of queries, connections and Invalidates.                         *)
(***************************************************************************)
EXTENDS SessionConnection, TLAPS

(* Types of the variables, the records with the values of their fields.    *)
AttemptPhases == {"unused", "handshake", "connecting", "failing", "pid", "open",
                  "closing", "gone"}
AttemptRecords == [phase : AttemptPhases, todo : Seq(Parts), up : SUBSET Parts]
Holding == {"token", "pid", "cfg", "check", "run"}
WorkerRecords ==
  [pc : {"idle", "ensure", "connecting", "closing", "aborted"} \cup Holding,
   q : Queries \cup {None}, at : Attempts \cup {None}]
QueryRecords == [phase : {"queued", "running", "finished", "cancelled"}, ran : BOOLEAN]
SlotRecords ==
  [cancelled : BOOLEAN, token : Attempts \cup {None}, pid : Attempts \cup {None},
   cfg : Attempts \cup {None}]
Asking == {"token", "request", "pid", "cfg"}
OnTheSide == {"side", "ask", "closing"}
CancelRecords ==
  [pc : {"idle", "failed"} \cup Asking \cup OnTheSide, q : Queries \cup {None},
   token : Attempts \cup {None}, pid : Attempts \cup {None}, cfg : Attempts \cup {None},
   at : Attempts \cup {None}, result : {"none", "sent", "nothing", "error"}]

TypeInv ==
  /\ transport \in Transports
  /\ att \in [Attempts -> AttemptRecords]
  /\ sess \in Attempts \cup {None}
  /\ worker \in WorkerRecords
  /\ query \in [Queries -> QueryRecords]
  /\ slot \in [Queries -> SlotRecords]
  /\ cancel \in CancelRecords
  /\ ack \in [Queries -> {"none", "cancelled", "over", "sent", "nothing", "error"}]
  /\ stage \in {"reading", "joining", "closing", "exited"}
  /\ told \in SUBSET (Queries \X Attempts)
  /\ drops \in 0 .. MaxInvalidate

(* Every part that runs is one its holder will end: a set-up has no driver  *)
(* yet, a direct connection never a process, a shutdown still has to settle *)
(* what runs, and nothing was left behind.                                  *)
SetUp == {"handshake", "connecting", "failing"}
Runners == {"driver", "child"}

AttemptOK(c) ==
  /\ c \in AttemptRecords
  /\ c.phase = "closing" <=> c.todo # <<>>
  /\ ~Bridged => c.up \subseteq {"driver"}
  /\ c.phase \in SetUp => "driver" \notin c.up
  /\ c.phase = "closing" => Runners \cap c.up \subseteq ToSet(c.todo)
  /\ c.phase \in {"unused", "gone"} => Runners \cap c.up = {}

AttOK == \A a \in Attempts : AttemptOK(att[a])

(* Where the worker and the cancel stand says what they hold.               *)
WorkerOK ==
  /\ worker.pc \in {"connecting", "closing"} <=> worker.at # None
  /\ worker.pc = "connecting" => sess = None
  /\ worker.pc \in Holding => sess # None
  /\ worker.pc \in Holding \cup {"ensure", "connecting"} =>
       worker.q \in Queries /\ query[worker.q].phase = "running"
CancelOK ==
  /\ cancel.pc \in OnTheSide => cancel.at # None
  /\ cancel.pc \in Asking \cup {"idle"} => cancel.at = None
  /\ cancel.pc = "failed" /\ cancel.at # None =>
       ~Live(cancel.at) \/ cancel.at \in {sess, worker.at}
  /\ cancel.pc # "idle" => cancel.q \in Queries /\ slot[cancel.q].cancelled
  /\ cancel.pc = "request" => cancel.token # None
  /\ cancel.pc \in {"side", "ask"} => cancel.pid # None
StageOK ==
  /\ stage # "reading" => cancel.pc = "idle"
  /\ stage \in {"closing", "exited"} =>
       \/ worker.pc = "aborted"
       \/ worker.pc = "idle" /\ \A q \in Queries : query[q].phase # "queued"
  /\ stage = "exited" => sess = None

(* A connection that is up is in somebody's hands.                          *)
HeldInv == \A a \in Attempts : Live(a) => a \in {sess, worker.at, cancel.at}

ConnInv == TypeInv /\ AttOK /\ WorkerOK /\ CancelOK /\ StageOK /\ HeldInv

-----------------------------------------------------------------------------
(* Attempts.                                                               *)

LEMMA NoneIsNoNumber == None \notin Attempts /\ None \notin Queries
BY DEF None, Attempts, Queries

LEMMA TailKeeps ==
  ASSUME NEW s \in Seq(Parts), s # <<>>
  PROVE  Tail(s) \in Seq(Parts) /\ ToSet(s) = {Head(s)} \cup ToSet(Tail(s))
<1>1. Tail(s) \in Seq(Parts) /\ Len(s) >= 1 /\ Len(Tail(s)) = Len(s) - 1
  OBVIOUS
<1>2. \A i \in 1 .. Len(s) : i = 1 \/ (i - 1 \in 1 .. Len(Tail(s)) /\ Tail(s)[i - 1] = s[i])
  OBVIOUS
<1>3. \A i \in 1 .. Len(Tail(s)) : i + 1 \in 1 .. Len(s) /\ Tail(s)[i] = s[i + 1]
  OBVIOUS
<1>4. Head(s) = s[1] /\ DOMAIN s = 1 .. Len(s) /\ DOMAIN Tail(s) = 1 .. Len(Tail(s))
  OBVIOUS
<1>5. ToSet(s) \subseteq {Head(s)} \cup ToSet(Tail(s))
  BY <1>2, <1>4 DEF ToSet
<1>6. {Head(s)} \cup ToSet(Tail(s)) \subseteq ToSet(s)
  BY <1>1, <1>3, <1>4 DEF ToSet
<1> QED BY <1>1, <1>5, <1>6

(* Wherever the value that holds an attempt is dropped, no driver and no    *)
(* process is left: the types of the code own what they must.               *)
LEMMA DroppedOK ==
  ASSUME NEW c, AttemptOK(c)
  PROVE  AttemptOK(Dropped(c)) /\ Dropped(c).phase = "gone"
<1>1. Runners \cap (c.up \ Owned(c)) = {}
  <2>1. CASE c.phase \in SetUp
    BY <2>1 DEF AttemptOK, AttemptRecords, Owned, SetUp, Runners, Parts
  <2>2. CASE c.phase \in {"pid", "open"}
    BY <2>2 DEF AttemptOK, AttemptRecords, Owned, Guarded, Runners, Parts
  <2>3. CASE c.phase = "closing"
    BY <2>3 DEF AttemptOK, Owned
  <2>4. CASE c.phase \in {"unused", "gone"}
    BY <2>4 DEF AttemptOK
  <2> QED BY <2>1, <2>2, <2>3, <2>4
          DEF AttemptOK, AttemptRecords, AttemptPhases, SetUp
<1>2. <<>> \in Seq(Parts)
  OBVIOUS
<1> QED BY <1>1, <1>2 DEF AttemptOK, Dropped, AttemptRecords, AttemptPhases, SetUp

LEMMA StartedOK == AttemptOK(Started) /\ Started.phase \in SetUp
<1>1. <<>> \in Seq(Parts)
  OBVIOUS
<1> QED BY <1>1 DEF AttemptOK, Started, AttemptRecords, AttemptPhases, SetUp, Runners,
           Parts, Bridged

LEMMA ClosingOK ==
  ASSUME NEW c, AttemptOK(c), transport \in Transports
  PROVE  AttemptOK(Closing(c)) /\ Closing(c).phase = "closing"
<1>1. transport \in {"direct", "ssh", "container"}
  BY ConnectionConstants
<1>2. ShutdownOrder \in Seq(Parts) /\ ShutdownOrder # <<>>
  <2>1. /\ <<"driver">> \in Seq(Parts) /\ <<"driver">> # <<>>
        /\ <<"driver", "child", "stderr">> \in Seq(Parts)
        /\ <<"driver", "child", "stderr">> # <<>>
        /\ <<"driver", "stderr", "child">> \in Seq(Parts)
        /\ <<"driver", "stderr", "child">> # <<>>
    BY DEF Parts
  <2> QED BY <1>1, <2>1 DEF ShutdownOrder
<1>3. Runners \cap c.up \subseteq ToSet(ShutdownOrder)
  <2>1. CASE transport = "direct"
    <3>1. ShutdownOrder = <<"driver">>
      BY <2>1 DEF ShutdownOrder
    <3>2. ShutdownOrder[1] = "driver" /\ 1 \in DOMAIN ShutdownOrder
      BY <3>1
    <3> QED BY <2>1, <3>2 DEF AttemptOK, ToSet, Bridged
  <2>2. CASE transport = "ssh"
    <3>1. ShutdownOrder = <<"driver", "child", "stderr">>
      BY <2>2 DEF ShutdownOrder
    <3>2. ShutdownOrder[1] = "driver" /\ ShutdownOrder[2] = "child"
          /\ 1 \in DOMAIN ShutdownOrder /\ 2 \in DOMAIN ShutdownOrder
      BY <3>1
    <3> QED BY <3>2 DEF ToSet, Runners
  <2>3. CASE transport = "container"
    <3>1. ShutdownOrder = <<"driver", "stderr", "child">>
      BY <2>3 DEF ShutdownOrder
    <3>2. ShutdownOrder[1] = "driver" /\ ShutdownOrder[3] = "child"
          /\ 1 \in DOMAIN ShutdownOrder /\ 3 \in DOMAIN ShutdownOrder
      BY <3>1
    <3> QED BY <3>2 DEF ToSet, Runners
  <2> QED BY <1>1, <2>1, <2>2, <2>3
<1>4. /\ Closing(c) \in AttemptRecords
      /\ Closing(c).phase = "closing" /\ Closing(c).todo = ShutdownOrder
      /\ Closing(c).up = c.up
  BY <1>2 DEF Closing, AttemptOK, AttemptRecords, AttemptPhases
<1> QED BY <1>2, <1>3, <1>4 DEF AttemptOK, AttemptRecords, AttemptPhases, SetUp

(* One attempt becomes another that is in order, the rest stays.            *)
LEMMA BecomeKeeps ==
  ASSUME TypeInv, AttOK, transport' = transport, NEW a, NEW c, AttemptOK(c), Become(a, c)
  PROVE  /\ att' \in [Attempts -> AttemptRecords] /\ AttOK'
         /\ \A b \in Attempts : att'[b] = IF b = a THEN c ELSE att[b]
BY DEF TypeInv, AttOK, AttemptOK, Become, Bridged

LEMMA StaysOK ==
  ASSUME TypeInv, AttOK, transport' = transport, att' = att
  PROVE  att' \in [Attempts -> AttemptRecords] /\ AttOK'
BY DEF TypeInv, AttOK, AttemptOK, Bridged

(* What an attempt does by itself, at every await.                          *)
LEMMA AttemptMoves ==
  ASSUME TypeInv, AttOK, NEW a \in Attempts, Peer(a) \/ Timer(a) \/ Os(a)
  PROVE  Live(a) /\ \E c : AttemptOK(c) /\ Become(a, c)
<1> DEFINE r == att[a]
<1>0. AttemptOK(r) /\ r \in AttemptRecords
  BY DEF AttOK, TypeInv
<1>1. ASSUME NEW p \in {"connecting", "failing", "open"}, Phase(a, p),
             \/ r.phase \in SetUp /\ p \in SetUp
             \/ r.phase = "pid" /\ p = "open"
      PROVE  Live(a) /\ \E c : AttemptOK(c) /\ Become(a, c)
  <2>1. AttemptOK([r EXCEPT !.phase = p])
    BY <1>0, <1>1 DEF AttemptOK, AttemptRecords, AttemptPhases, SetUp
  <2> QED BY <1>0, <1>1, <2>1 DEF Phase, Live, SetUp
<1>2. ASSUME NEW part, Ends(a, part)
      PROVE  Live(a) /\ \E c : AttemptOK(c) /\ Become(a, c)
  <2> DEFINE d == [r EXCEPT !.up = r.up \ {part}]
  <2>1. d \in AttemptRecords /\ d.phase = r.phase /\ d.todo = r.todo /\ d.up = r.up \ {part}
    BY <1>0 DEF AttemptRecords
  <2>2. Live(a) /\ Become(a, d)
    BY <1>2 DEF Ends
  <2> HIDE DEF d
  <2>3. AttemptOK(d)
    BY <1>0, <2>1 DEF AttemptOK
  <2> QED BY <2>2, <2>3
<1>3. ASSUME r.phase \in {"connecting", "failing", "pid"}, Become(a, Dropped(r))
      PROVE  Live(a) /\ \E c : AttemptOK(c) /\ Become(a, c)
  BY <1>0, <1>3, DroppedOK DEF Live
<1>4. CASE Connected(a)
  <2> DEFINE d == [r EXCEPT !.phase = "pid", !.up = r.up \cup {"driver"}]
  <2>1. d \in AttemptRecords /\ d.phase = "pid" /\ d.todo = r.todo
        /\ d.up = r.up \cup {"driver"}
    BY <1>0 DEF AttemptRecords, AttemptPhases, Parts
  <2>2. r.phase = "connecting" /\ Become(a, d)
    BY <1>4 DEF Connected
  <2> HIDE DEF d
  <2>3. AttemptOK(d)
    BY <1>0, <2>1, <2>2 DEF AttemptOK, SetUp
  <2> QED BY <2>2, <2>3 DEF Live
<1>5. CASE Settle(a)
  <2> DEFINE rest == Tail(r.todo)
             d == [phase |-> IF rest = <<>> THEN "gone" ELSE "closing", todo |-> rest,
                   up |-> r.up \ {Head(r.todo)}]
  <2>1. r.phase = "closing" /\ Become(a, d)
    BY <1>5 DEF Settle
  <2>2. r.todo \in Seq(Parts) /\ r.todo # <<>>
    BY <1>0, <2>1 DEF AttemptOK, AttemptRecords
  <2>3. rest \in Seq(Parts) /\ ToSet(r.todo) = {Head(r.todo)} \cup ToSet(rest)
    BY <2>2, TailKeeps
  <2>4. rest = <<>> => ToSet(rest) = {}
    BY DEF ToSet
  <2>5. d.phase = (IF rest = <<>> THEN "gone" ELSE "closing") /\ d.todo = rest
        /\ d.up = r.up \ {Head(r.todo)}
    OBVIOUS
  <2>6. d \in AttemptRecords
    BY <1>0, <2>3 DEF AttemptRecords, AttemptPhases
  <2> HIDE DEF d, rest
  <2>7. AttemptOK(d)
    BY <1>0, <2>1, <2>3, <2>4, <2>5, <2>6 DEF AttemptOK, SetUp
  <2> QED BY <2>1, <2>7 DEF Live
<1>6. CASE HandshakeSeen(a) \/ HandshakeLost(a)
  <2>1. r.phase \in SetUp
    BY <1>6 DEF HandshakeSeen, HandshakeLost, SetUp
  <2>2. CASE Phase(a, "connecting")
    BY <1>1, <2>1, <2>2 DEF SetUp
  <2>3. CASE Phase(a, "failing")
    BY <1>1, <2>1, <2>3 DEF SetUp
  <2> QED BY <1>6, <2>2, <2>3 DEF HandshakeSeen, HandshakeLost
<1>7. CASE ConnectFails(a)
  <2>1. r.phase \in SetUp /\ r.phase = "connecting"
    BY <1>7 DEF ConnectFails, SetUp
  <2>2. CASE Phase(a, "failing")
    BY <1>1, <2>1, <2>2 DEF SetUp
  <2>3. CASE Become(a, Dropped(r))
    BY <1>3, <2>1, <2>3
  <2> QED BY <1>7, <2>2, <2>3 DEF ConnectFails
<1>8. CASE FailureReported(a) \/ PidFails(a)
  BY <1>3, <1>8 DEF FailureReported, PidFails
<1>9. CASE PidKnown(a)
  BY <1>1, <1>9 DEF PidKnown
<1>10. CASE ChildExits(a) \/ StderrEnds(a) \/ DriverEnds(a)
  BY <1>2, <1>10 DEF ChildExits, StderrEnds, DriverEnds
<1> QED BY <1>4, <1>5, <1>6, <1>7, <1>8, <1>9, <1>10 DEF Peer, Timer, Os

(* The record that Started puts in an unused slot was no attempt before.    *)
LEMMA FreshIsUnused ==
  ASSUME Fresh # {}, TypeInv
  PROVE  NextAttempt \in Attempts /\ att[NextAttempt].phase = "unused" /\ ~Live(NextAttempt)
BY DEF NextAttempt, Fresh, Live

(* Giving an attempt up, closing it and starting one.                       *)
LEMMA DropKeeps ==
  ASSUME TypeInv, AttOK, transport' = transport, NEW a \in Attempts,
         Become(a, Dropped(att[a]))
  PROVE  /\ att' \in [Attempts -> AttemptRecords] /\ AttOK' /\ att'[a].phase = "gone"
         /\ \A b \in Attempts : b # a => att'[b] = att[b]
<1>1. AttemptOK(Dropped(att[a])) /\ Dropped(att[a]).phase = "gone"
  BY DroppedOK DEF AttOK
<1> QED BY <1>1, BecomeKeeps

LEMMA CloseKeeps ==
  ASSUME TypeInv, AttOK, transport' = transport, NEW a \in Attempts,
         Become(a, Closing(att[a]))
  PROVE  /\ att' \in [Attempts -> AttemptRecords] /\ AttOK' /\ att'[a].phase = "closing"
         /\ \A b \in Attempts : b # a => att'[b] = att[b]
<1>1. AttemptOK(Closing(att[a])) /\ Closing(att[a]).phase = "closing"
  BY ClosingOK DEF AttOK, TypeInv
<1> QED BY <1>1, BecomeKeeps

LEMMA StartKeeps ==
  ASSUME TypeInv, AttOK, transport' = transport, Fresh # {}, Become(NextAttempt, Started)
  PROVE  /\ NextAttempt \in Attempts
         /\ att' \in [Attempts -> AttemptRecords] /\ AttOK'
         /\ \A b \in Attempts : b # NextAttempt => att'[b] = att[b]
BY FreshIsUnused, StartedOK, BecomeKeeps

-----------------------------------------------------------------------------
(* The invariant of the connections.                                       *)

LEMMA InitConnInv == Init => ConnInv
<1> SUFFICES ASSUME Init PROVE ConnInv
  OBVIOUS
<1>1. <<>> \in Seq(Parts)
  OBVIOUS
<1>2. TypeInv
  BY <1>1, ConnectionConstants DEF Init, TypeInv, Unused, AttemptRecords, AttemptPhases,
     Idle,
     WorkerRecords, QueryRecords, SlotRecords, NoCancel, CancelRecords, Asking, OnTheSide
<1>3. AttOK
  BY <1>1 DEF Init, AttOK, AttemptOK, Unused, AttemptRecords, AttemptPhases, SetUp
<1> QED BY <1>2, <1>3 DEF Init, ConnInv, WorkerOK, CancelOK, StageOK, HeldInv, Live,
   Unused,
        Idle, NoCancel, Holding, OnTheSide

LEMMA WorkerUpdate ==
  ASSUME NEW w \in WorkerRecords, NEW pc \in {"token", "connecting"},
         NEW at \in Attempts \cup {None}
  PROVE  LET v == [w EXCEPT !.pc = pc, !.at = at]
         IN v \in WorkerRecords /\ v.pc = pc /\ v.at = at /\ v.q = w.q
BY DEF WorkerRecords, Holding

LEMMA SlotUpdate ==
  ASSUME NEW s \in [Queries -> SlotRecords], NEW q \in Queries,
         NEW field \in {"token", "pid", "cfg"}, NEW a \in Attempts \cup {None}
  PROVE  LET t == [s EXCEPT ![q][field] = a]
         IN /\ t \in [Queries -> SlotRecords] /\ t[q][field] = a
            /\ \A r \in Queries : r # q => t[r] = s[r]
            /\ t[q].cancelled = s[q].cancelled
            /\ field # "token" => t[q].token = s[q].token
            /\ field # "pid" => t[q].pid = s[q].pid
            /\ field # "cfg" => t[q].cfg = s[q].cfg
<1>1. CASE field = "token"
  BY <1>1 DEF SlotRecords
<1>2. CASE field = "pid"
  BY <1>2 DEF SlotRecords
<1>3. CASE field = "cfg"
  BY <1>3 DEF SlotRecords
<1> QED BY <1>1, <1>2, <1>3

LEMMA SlotCancelled ==
  ASSUME NEW s \in [Queries -> SlotRecords], NEW q \in Queries
  PROVE  LET t == [s EXCEPT ![q].cancelled = TRUE]
         IN /\ t \in [Queries -> SlotRecords] /\ t[q].cancelled
            /\ \A r \in Queries : r # q => t[r] = s[r]
            /\ t[q].token = s[q].token /\ t[q].pid = s[q].pid /\ t[q].cfg = s[q].cfg
BY DEF SlotRecords

LEMMA NextConnInv == ConnInv /\ [Next]_vars => ConnInv'
<1> SUFFICES ASSUME ConnInv, [Next]_vars PROVE ConnInv'
  OBVIOUS
<1> USE NoneIsNoNumber
<1>0. TypeInv /\ AttOK /\ WorkerOK /\ CancelOK /\ StageOK /\ HeldInv
  BY DEF ConnInv
<1>t. transport' = transport
  BY DEF Next, vars
<1>1. CASE Attempt
  <2>1. PICK a \in Attempts : Peer(a) \/ Timer(a) \/ Os(a)
    BY <1>1 DEF Attempt
  <2>2. PICK c : AttemptOK(c) /\ Become(a, c)
    BY <1>0, <2>1, AttemptMoves
  <2>3. Live(a)
    BY <1>0, <2>1, AttemptMoves
  <2>4. att' \in [Attempts -> AttemptRecords] /\ AttOK'
        /\ \A b \in Attempts : b # a => att'[b] = att[b]
    BY <1>0, <1>t, <2>2, BecomeKeeps
  <2>5. TypeInv'
    BY <1>0, <1>t, <1>1, <2>4 DEF Attempt, TypeInv
  <2>6. WorkerOK' /\ StageOK'
    BY <1>0, <1>1 DEF Attempt, WorkerOK, StageOK
  <2>7. CancelOK'
    BY <1>0, <1>1, <2>3, <2>4 DEF Attempt, CancelOK, Live, TypeInv, CancelRecords
  <2>8. HeldInv'
    BY <1>0, <1>1, <2>3, <2>4 DEF Attempt, HeldInv, Live
  <2> QED BY <2>4, <2>5, <2>6, <2>7, <2>8 DEF ConnInv
<1>2. CASE Ensure
  <2>1. worker.pc = "ensure" /\ worker.at = None /\ worker.q \in Queries
        /\ query[worker.q].phase = "running"
    BY <1>0, <1>2 DEF Ensure, WorkerOK
  <2>2. CASE HasClient
    <3>1. att' = att /\ sess' = sess /\ query' = query /\ Goto("token") /\ sess # None
      BY <1>2, <2>2 DEF Ensure, HasClient
    <3>2. worker' \in WorkerRecords /\ worker'.pc = "token" /\ worker'.at = None
          /\ worker'.q = worker.q
      BY <1>0, <2>1, <3>1 DEF Goto, TypeInv, WorkerRecords, Holding
    <3>3. att' \in [Attempts -> AttemptRecords] /\ AttOK'
      BY <1>0, <1>t, <3>1, StaysOK
    <3>4. TypeInv'
      BY <1>0, <1>t, <1>2, <3>1, <3>2, <3>3 DEF Ensure, TypeInv
    <3>5. WorkerOK' /\ CancelOK' /\ StageOK' /\ HeldInv'
      BY <1>0, <1>2, <2>1, <3>1, <3>2
         DEF Ensure, WorkerOK, CancelOK, StageOK, HeldInv, Live, Holding
    <3> QED BY <3>3, <3>4, <3>5 DEF ConnInv
  <2>3. CASE ~HasClient
    <3> DEFINE rest == IF sess = None THEN att ELSE [att EXCEPT ![sess] = Dropped(@)]
    <3>1. /\ rest \in [Attempts -> AttemptRecords]
          /\ \A a \in Attempts : AttemptOK(rest[a])
          /\ \A a \in Attempts : rest[a] = IF a = sess THEN Dropped(att[a]) ELSE att[a]
      <4>1. sess # None => AttemptOK(Dropped(att[sess]))
        BY <1>0, DroppedOK DEF TypeInv, AttOK
      <4>2. sess # None => Dropped(att[sess]) \in AttemptRecords
        BY <4>1 DEF AttemptOK
      <4> QED BY <1>0, <4>1, <4>2 DEF TypeInv, AttOK
    <3>2. \A a \in Attempts : a = sess => rest[a].phase = "gone"
      BY <1>0, <3>1, DroppedOK DEF TypeInv, AttOK
    <3> HIDE DEF rest
    <3>3. CASE /\ Fresh # {}
               /\ att' = [rest EXCEPT ![NextAttempt] = Started]
               /\ worker' = [worker EXCEPT !.pc = "connecting", !.at = NextAttempt]
               /\ UNCHANGED query
      <4> DEFINE new == NextAttempt
      <4>1. new \in Attempts /\ att[new].phase = "unused"
        BY <1>0, <3>3, FreshIsUnused
      <4>2. AttemptOK(Started) /\ Started \in AttemptRecords
        BY StartedOK DEF AttemptOK
      <4> HIDE DEF new
      <4>3. att' \in [Attempts -> AttemptRecords]
            /\ \A a \in Attempts : att'[a] = IF a = new THEN Started ELSE rest[a]
        BY <3>1, <3>3, <4>1, <4>2 DEF new
      <4>4. AttOK'
        BY <1>t, <3>1, <4>2, <4>3 DEF AttOK, AttemptOK, Bridged
      <4>5. worker' \in WorkerRecords /\ worker'.pc = "connecting" /\ worker'.at = new
            /\ worker'.q = worker.q
        BY <1>0, <3>3, <4>1, WorkerUpdate DEF TypeInv, new
      <4>6. sess' = None
        BY <1>2, <2>3 DEF Ensure
      <4>7. TypeInv'
        BY <1>0, <1>t, <1>2, <3>3, <4>3, <4>5, <4>6 DEF Ensure, TypeInv
      <4>8. WorkerOK' /\ StageOK'
        BY <1>0, <1>2, <2>1, <3>3, <4>1, <4>5, <4>6 DEF Ensure, WorkerOK, StageOK, Holding
      <4>9. CancelOK'
        BY <1>0, <1>2, <2>1, <3>1, <3>2, <4>1, <4>3, <4>5, <4>6
           DEF Ensure, CancelOK, TypeInv, CancelRecords, Live
      <4>10. HeldInv'
        BY <1>0, <1>2, <2>1, <3>1, <3>2, <4>3, <4>5, <4>6 DEF Ensure, HeldInv, Live
      <4> QED BY <4>4, <4>7, <4>8, <4>9, <4>10 DEF ConnInv
    <3>4. CASE att' = rest /\ worker' = Idle /\ Finish(worker.q, "finished")
      <4>1. query' \in [Queries -> QueryRecords]
            /\ \A q \in Queries : query'[q].phase \in {query[q].phase, "finished"}
        BY <1>0, <2>1, <3>4 DEF Finish, TypeInv, QueryRecords
      <4>2. worker' \in WorkerRecords /\ worker'.pc = "idle" /\ worker'.at = None
        BY <3>4 DEF Idle, WorkerRecords
      <4>3. AttOK'
        BY <1>t, <3>1, <3>4 DEF AttOK, AttemptOK, Bridged
      <4>4. sess' = None
        BY <1>2, <2>3 DEF Ensure
      <4>5. TypeInv'
        BY <1>0, <1>t, <1>2, <3>1, <3>4, <4>1, <4>2, <4>4 DEF Ensure, TypeInv
      <4>6. WorkerOK' /\ StageOK'
        BY <1>0, <1>2, <4>1, <4>2, <4>4 DEF Ensure, WorkerOK, StageOK, Holding
      <4>7. CancelOK'
        BY <1>0, <1>2, <2>1, <3>1, <3>2, <3>4, <4>2, <4>4
           DEF Ensure, CancelOK, TypeInv, CancelRecords, Live
      <4>8. HeldInv'
        BY <1>0, <1>2, <2>1, <3>1, <3>2, <3>4, <4>2, <4>4 DEF Ensure, HeldInv, Live
      <4> QED BY <4>3, <4>5, <4>6, <4>7, <4>8 DEF ConnInv
    <3> QED BY <1>2, <2>3, <3>3, <3>4 DEF Ensure, rest
  <2> QED BY <2>2, <2>3
<1>3. CASE TakeQuery
  <2>0. att' = att
    BY <1>3 DEF TakeQuery, Finish
  <2>1. att' \in [Attempts -> AttemptRecords] /\ AttOK'
    BY <1>0, <1>t, <2>0, StaysOK
  <2>2. TypeInv'
    BY <1>0, <1>t, <1>3, <2>1 DEF TakeQuery, Finish, TypeInv, WorkerOK, CancelOK,
       WorkerRecords, QueryRecords, SlotRecords, CancelRecords, Asking, OnTheSide,
       Holding, Live
  <2>3. WorkerOK'
    BY <1>0, <1>3 DEF TakeQuery, Finish, TypeInv, WorkerOK, StageOK, WorkerRecords,
       QueryRecords, SlotRecords, CancelRecords, Asking, OnTheSide, Holding
  <2>4. CancelOK'
    BY <1>0, <1>3 DEF TakeQuery, Finish, TypeInv, WorkerOK, CancelOK, WorkerRecords,
       QueryRecords, SlotRecords, CancelRecords, Asking, OnTheSide, Holding, Live
  <2>5. StageOK'
    BY <1>0, <1>3 DEF TakeQuery, Finish, TypeInv, WorkerOK, CancelOK, StageOK,
       WorkerRecords, QueryRecords, SlotRecords, CancelRecords, Asking, OnTheSide,
       Holding, Live
  <2>6. HeldInv'
    BY <1>0, <1>3 DEF TakeQuery, Finish, TypeInv, WorkerOK, CancelOK, HeldInv, Live,
       WorkerRecords, QueryRecords, SlotRecords, CancelRecords, Asking, OnTheSide, Holding
  <2> QED BY <2>1, <2>2, <2>3, <2>4, <2>5, <2>6 DEF ConnInv
<1>4. CASE ConnectReturns
  <2>0. att' = att
    BY <1>4 DEF ConnectReturns
  <2>1. att' \in [Attempts -> AttemptRecords] /\ AttOK'
    BY <1>0, <1>t, <2>0, StaysOK
  <2>2. worker.pc = "connecting" /\ worker.at # None /\ worker.q \in Queries /\ sess = None
    BY <1>0, <1>4 DEF ConnectReturns, WorkerOK
  <2>3. CASE /\ sess' = worker.at /\ query' = query
             /\ worker' = [worker EXCEPT !.pc = "token", !.at = None]
    <3>1. worker' \in WorkerRecords /\ worker'.pc = "token" /\ worker'.at = None
          /\ worker'.q = worker.q
      BY <1>0, <2>3, WorkerUpdate DEF TypeInv, Holding
    <3>2. TypeInv'
      BY <1>0, <1>t, <1>4, <2>1, <2>3, <3>1 DEF ConnectReturns, TypeInv, WorkerRecords
    <3>3. WorkerOK' /\ CancelOK' /\ StageOK'
      BY <1>0, <1>4, <2>2, <2>3, <3>1 DEF ConnectReturns, WorkerOK, CancelOK, StageOK,
         Holding, Live
    <3>4. HeldInv'
      BY <1>0, <1>4, <2>2, <2>3, <3>1 DEF ConnectReturns, HeldInv, Live
    <3> QED BY <2>1, <3>2, <3>3, <3>4 DEF ConnInv
  <2>4. CASE att[worker.at].phase = "gone" /\ worker' = Idle /\ Finish(worker.q, "finished")
             /\ UNCHANGED sess
    <3>1. query' \in [Queries -> QueryRecords]
      BY <1>0, <2>4 DEF Finish, TypeInv, QueryRecords
    <3>2. TypeInv'
      BY <1>0, <1>t, <1>4, <2>1, <2>4, <3>1 DEF ConnectReturns, TypeInv, WorkerRecords,
         Idle
    <3>3. WorkerOK' /\ CancelOK' /\ StageOK'
      BY <1>0, <1>4, <2>2, <2>4 DEF ConnectReturns, WorkerOK, CancelOK, StageOK,
         Holding, Idle, Live
    <3>4. HeldInv'
      BY <1>0, <1>4, <2>2, <2>4 DEF ConnectReturns, HeldInv, Live, Idle
    <3> QED BY <2>1, <3>2, <3>3, <3>4 DEF ConnInv
  <2> QED BY <1>4, <2>3, <2>4 DEF ConnectReturns
<1>5. CASE InstallContext
  <2>0. PICK field \in {"token", "pid", "cfg"}, next \in {"pid", "cfg", "check"} :
          Install(field, next)
    BY <1>5 DEF InstallContext
  <2>1. att' \in [Attempts -> AttemptRecords] /\ AttOK'
    BY <1>0, <1>t, <2>0, StaysOK DEF Install
  <2>2. worker' \in WorkerRecords /\ worker'.pc = next /\ worker'.at = worker.at
        /\ worker'.q = worker.q /\ worker.q \in Queries
    BY <1>0, <2>0 DEF Install, Goto, TypeInv, WorkerRecords, Holding, WorkerOK
  <2>3. slot' \in [Queries -> SlotRecords]
        /\ \A q \in Queries : slot'[q].cancelled = slot[q].cancelled
    BY <1>0, <2>0, <2>2, SlotUpdate DEF Install, TypeInv
  <2>4. TypeInv'
    BY <1>0, <1>t, <2>0, <2>1, <2>2, <2>3 DEF Install, TypeInv
  <2>5. WorkerOK' /\ CancelOK' /\ StageOK'
    BY <1>0, <2>0, <2>2, <2>3 DEF Install, WorkerOK, CancelOK, StageOK, Holding, Live
  <2>6. HeldInv'
    BY <1>0, <2>0, <2>2 DEF Install, HeldInv, Live
  <2> QED BY <2>1, <2>4, <2>5, <2>6 DEF ConnInv
<1>6. CASE CheckCancelled
  <2>1. att' \in [Attempts -> AttemptRecords] /\ AttOK'
    BY <1>0, <1>t, <1>6, StaysOK DEF CheckCancelled
  <2>2. worker.pc = "check" /\ worker.q \in Queries /\ query[worker.q].phase = "running"
        /\ worker.at = None
    BY <1>0, <1>6 DEF CheckCancelled, WorkerOK, Holding
  <2>3. CASE Goto("run") /\ query' = [query EXCEPT ![worker.q].ran = TRUE]
    <3>1. query' \in [Queries -> QueryRecords]
          /\ \A q \in Queries : query'[q].phase = query[q].phase
      BY <1>0, <2>2, <2>3 DEF TypeInv, QueryRecords
    <3>2. worker' \in WorkerRecords /\ worker'.pc = "run" /\ worker'.q = worker.q
          /\ worker'.at = worker.at
      BY <1>0, <2>3 DEF Goto, TypeInv, WorkerRecords, Holding
    <3>3. TypeInv'
      BY <1>0, <1>t, <1>6, <2>1, <3>1, <3>2 DEF CheckCancelled, TypeInv
    <3>4. WorkerOK' /\ CancelOK' /\ StageOK'
      BY <1>0, <1>6, <2>2, <3>1, <3>2
         DEF CheckCancelled, WorkerOK, CancelOK, StageOK, Holding, Live
    <3>5. HeldInv'
      BY <1>0, <1>6, <3>2 DEF CheckCancelled, HeldInv, Live
    <3> QED BY <2>1, <3>3, <3>4, <3>5 DEF ConnInv
  <2>4. CASE worker' = Idle /\ Finish(worker.q, "finished")
    <3>1. query' \in [Queries -> QueryRecords]
          /\ \A q \in Queries : query'[q].phase \in {query[q].phase, "finished"}
      BY <1>0, <2>2, <2>4 DEF Finish, TypeInv, QueryRecords
    <3>2. worker' \in WorkerRecords /\ worker'.pc = "idle" /\ worker'.at = None
      BY <2>4 DEF Idle, WorkerRecords
    <3>3. TypeInv'
      BY <1>0, <1>t, <1>6, <2>1, <3>1, <3>2 DEF CheckCancelled, TypeInv
    <3>4. WorkerOK' /\ CancelOK' /\ StageOK'
      BY <1>0, <1>6, <2>2, <3>1, <3>2
         DEF CheckCancelled, WorkerOK, CancelOK, StageOK, Holding, Live
    <3>5. HeldInv'
      BY <1>0, <1>6, <2>2, <3>2 DEF CheckCancelled, HeldInv, Live
    <3> QED BY <2>1, <3>3, <3>4, <3>5 DEF ConnInv
  <2> QED BY <1>6, <2>3, <2>4 DEF CheckCancelled
<1>7. CASE InvalidateReturns
  <2>0. att' = att
    BY <1>7 DEF InvalidateReturns, Idle
  <2>1. att' \in [Attempts -> AttemptRecords] /\ AttOK'
    BY <1>0, <1>t, <2>0, StaysOK
  <2>2. TypeInv'
    BY <1>0, <1>t, <1>7, <2>1 DEF InvalidateReturns, Idle, TypeInv, WorkerOK, CancelOK,
       WorkerRecords, QueryRecords, SlotRecords, CancelRecords, Asking, OnTheSide,
       Holding, Live
  <2>3. WorkerOK'
    BY <1>0, <1>7 DEF InvalidateReturns, Idle, TypeInv, WorkerOK, StageOK,
       WorkerRecords, QueryRecords, SlotRecords, CancelRecords, Asking, OnTheSide, Holding
  <2>4. CancelOK'
    BY <1>0, <1>7 DEF InvalidateReturns, Idle, TypeInv, WorkerOK, CancelOK,
       WorkerRecords, QueryRecords, SlotRecords, CancelRecords, Asking, OnTheSide,
       Holding, Live
  <2>5. StageOK'
    BY <1>0, <1>7 DEF InvalidateReturns, Idle, TypeInv, WorkerOK, CancelOK, StageOK,
       WorkerRecords, QueryRecords, SlotRecords, CancelRecords, Asking, OnTheSide,
       Holding, Live
  <2>6. HeldInv'
    BY <1>0, <1>7 DEF InvalidateReturns, Idle, TypeInv, WorkerOK, CancelOK, HeldInv,
       Live, WorkerRecords, QueryRecords, SlotRecords, CancelRecords, Asking, OnTheSide,
       Holding
  <2> QED BY <2>1, <2>2, <2>3, <2>4, <2>5, <2>6 DEF ConnInv
<1>8. CASE Cancel
  <2>0. PICK q \in Queries :
          /\ stage = "reading" /\ cancel.pc = "idle" /\ ack[q] = "none"
          /\ \/ Finish(q, "cancelled") /\ Answer(q, "cancelled") /\ UNCHANGED slot
                /\ query[q].phase = "queued"
             \/ /\ query[q].phase = "running"
                /\ slot' = [slot EXCEPT ![q].cancelled = TRUE]
                /\ cancel' = [NoCancel EXCEPT !.pc = "token", !.q = q]
                /\ UNCHANGED <<query, ack>>
             \/ Answer(q, "over") /\ UNCHANGED <<query, slot>>
          /\ UNCHANGED <<att, sess, worker, stage, told, drops>>
    BY <1>8 DEF Cancel
  <2>1. att' \in [Attempts -> AttemptRecords] /\ AttOK'
    BY <1>0, <1>t, <2>0, StaysOK
  <2>2. /\ query' \in [Queries -> QueryRecords]
        /\ \A r \in Queries : query'[r].phase \in {query[r].phase, "cancelled"}
        /\ \A r \in Queries : query[r].phase = "running" => query'[r].phase = "running"
    BY <1>0, <2>0 DEF Finish, TypeInv, QueryRecords
  <2>3. slot' \in [Queries -> SlotRecords]
        /\ \A r \in Queries : slot[r].cancelled => slot'[r].cancelled
    <3>1. CASE slot' = slot
      BY <1>0, <3>1 DEF TypeInv
    <3>2. CASE slot' = [slot EXCEPT ![q].cancelled = TRUE]
      <4>1. \A r \in Queries : r = q \/ slot'[r] = slot[r]
        BY <1>0, <3>2, SlotCancelled DEF TypeInv
      <4>2. slot' \in [Queries -> SlotRecords] /\ slot'[q].cancelled
        BY <1>0, <3>2, SlotCancelled DEF TypeInv
      <4> QED BY <4>1, <4>2
    <3> QED BY <2>0, <3>1, <3>2
  <2>4. \/ cancel' = NoCancel
        \/ cancel' = [NoCancel EXCEPT !.pc = "token", !.q = q] /\ slot'[q].cancelled
    BY <1>0, <2>0, SlotCancelled DEF Answer, TypeInv
  <2>5. cancel' \in CancelRecords /\ cancel'.at = None
        /\ \/ cancel'.pc = "idle"
           \/ cancel'.pc = "token" /\ cancel'.q = q /\ slot'[q].cancelled
    <3>1. CASE cancel' = NoCancel
      BY <3>1 DEF NoCancel, CancelRecords, Asking, OnTheSide
    <3>2. CASE cancel' = [NoCancel EXCEPT !.pc = "token", !.q = q]
      <4>1. cancel' = [pc |-> "token", q |-> q, token |-> None, pid |-> None, cfg |-> None,
                       at |-> None, result |-> "none"]
        BY <3>2 DEF NoCancel
      <4> QED BY <2>4, <4>1 DEF CancelRecords, Asking, OnTheSide, NoCancel
    <3> QED BY <2>4, <3>1, <3>2
  <2>6. ack' \in [Queries -> {"none", "cancelled", "over", "sent", "nothing", "error"}]
    BY <1>0, <2>0 DEF Answer, TypeInv
  <2>7. TypeInv'
    BY <1>0, <1>t, <2>0, <2>1, <2>2, <2>3, <2>5, <2>6 DEF TypeInv
  <2>8. WorkerOK' /\ CancelOK' /\ StageOK'
    BY <1>0, <2>0, <2>2, <2>3, <2>5 DEF WorkerOK, CancelOK, StageOK, Asking, OnTheSide,
       Live
  <2>9. HeldInv'
    BY <1>0, <2>0 DEF HeldInv, Live, CancelOK
  <2> QED BY <2>1, <2>7, <2>8, <2>9 DEF ConnInv
<1>9. CASE ReadToken
  <2>0. att' = att
    BY <1>9 DEF ReadToken
  <2>1. att' \in [Attempts -> AttemptRecords] /\ AttOK'
    BY <1>0, <1>t, <2>0, StaysOK
  <2>2. TypeInv'
    <3>1. cancel' \in CancelRecords
      BY <1>0, <1>9 DEF ReadToken, TypeInv, CancelRecords, Asking, OnTheSide,
         SlotRecords, CancelOK, Live
    <3> QED BY <1>0, <1>t, <1>9, <2>1, <3>1 DEF ReadToken, TypeInv
  <2>3. WorkerOK'
    BY <1>0, <1>9 DEF ReadToken, TypeInv, WorkerOK, StageOK, WorkerRecords,
       QueryRecords, SlotRecords, CancelRecords, Asking, OnTheSide, Holding
  <2>4. CancelOK'
    BY <1>0, <1>9 DEF ReadToken, TypeInv, WorkerOK, CancelOK, WorkerRecords,
       QueryRecords, SlotRecords, CancelRecords, Asking, OnTheSide, Holding, Live
  <2>5. StageOK'
    BY <1>0, <1>9 DEF ReadToken, TypeInv, WorkerOK, CancelOK, StageOK, WorkerRecords,
       QueryRecords, SlotRecords, CancelRecords, Asking, OnTheSide, Holding, Live
  <2>6. HeldInv'
    BY <1>0, <1>9 DEF ReadToken, TypeInv, WorkerOK, CancelOK, HeldInv, Live,
       WorkerRecords, QueryRecords, SlotRecords, CancelRecords, Asking, OnTheSide, Holding
  <2> QED BY <2>1, <2>2, <2>3, <2>4, <2>5, <2>6 DEF ConnInv
<1>10. CASE Request
  <2>0. att' = att
    BY <1>10 DEF Request, Answer, NoCancel
  <2>1. att' \in [Attempts -> AttemptRecords] /\ AttOK'
    BY <1>0, <1>t, <2>0, StaysOK
  <2>2. TypeInv'
    <3>1. told' \in SUBSET (Queries \X Attempts)
      BY <1>0, <1>10 DEF Request, Answer, NoCancel, TypeInv, CancelRecords, CancelOK, Live
    <3>2. cancel' \in CancelRecords
      BY <1>0, <1>10 DEF Request, Answer, NoCancel, TypeInv, CancelRecords, Asking,
         OnTheSide, SlotRecords, CancelOK, Live
    <3>3. ack' \in [Queries -> {"none", "cancelled", "over", "sent", "nothing", "error"}]
      BY <1>0, <1>10 DEF Request, Answer, NoCancel, TypeInv, CancelRecords, CancelOK, Live
    <3> QED BY <1>0, <1>t, <1>10, <2>1, <3>1, <3>2, <3>3 DEF Request, Answer, NoCancel,
       TypeInv
  <2>3. WorkerOK'
    BY <1>0, <1>10 DEF Request, Answer, NoCancel, TypeInv, WorkerOK, StageOK,
       WorkerRecords, QueryRecords, SlotRecords, CancelRecords, Asking, OnTheSide, Holding
  <2>4. CancelOK'
    BY <1>0, <1>10 DEF Request, Answer, NoCancel, TypeInv, WorkerOK, CancelOK,
       WorkerRecords, QueryRecords, SlotRecords, CancelRecords, Asking, OnTheSide,
       Holding, Live
  <2>5. StageOK'
    BY <1>0, <1>10 DEF Request, Answer, NoCancel, TypeInv, WorkerOK, CancelOK, StageOK,
       WorkerRecords, QueryRecords, SlotRecords, CancelRecords, Asking, OnTheSide,
       Holding, Live
  <2>6. HeldInv'
    BY <1>0, <1>10 DEF Request, Answer, NoCancel, TypeInv, WorkerOK, CancelOK, HeldInv,
       Live, WorkerRecords, QueryRecords, SlotRecords, CancelRecords, Asking, OnTheSide,
       Holding
  <2> QED BY <2>1, <2>2, <2>3, <2>4, <2>5, <2>6 DEF ConnInv
<1>11. CASE ReadPid
  <2>0. att' = att
    BY <1>11 DEF ReadPid
  <2>1. att' \in [Attempts -> AttemptRecords] /\ AttOK'
    BY <1>0, <1>t, <2>0, StaysOK
  <2>2. TypeInv'
    BY <1>0, <1>t, <1>11, <2>1 DEF ReadPid, TypeInv, WorkerOK, CancelOK, WorkerRecords,
       QueryRecords, SlotRecords, CancelRecords, Asking, OnTheSide, Holding, Live
  <2>3. WorkerOK'
    BY <1>0, <1>11 DEF ReadPid, TypeInv, WorkerOK, StageOK, WorkerRecords, QueryRecords,
       SlotRecords, CancelRecords, Asking, OnTheSide, Holding
  <2>4. CancelOK'
    BY <1>0, <1>11 DEF ReadPid, TypeInv, WorkerOK, CancelOK, WorkerRecords,
       QueryRecords, SlotRecords, CancelRecords, Asking, OnTheSide, Holding, Live
  <2>5. StageOK'
    BY <1>0, <1>11 DEF ReadPid, TypeInv, WorkerOK, CancelOK, StageOK, WorkerRecords,
       QueryRecords, SlotRecords, CancelRecords, Asking, OnTheSide, Holding, Live
  <2>6. HeldInv'
    BY <1>0, <1>11 DEF ReadPid, TypeInv, WorkerOK, CancelOK, HeldInv, Live,
       WorkerRecords, QueryRecords, SlotRecords, CancelRecords, Asking, OnTheSide, Holding
  <2> QED BY <2>1, <2>2, <2>3, <2>4, <2>5, <2>6 DEF ConnInv
<1>12. CASE SideReturns
  <2>0. att' = att
    BY <1>12 DEF SideReturns
  <2>1. att' \in [Attempts -> AttemptRecords] /\ AttOK'
    BY <1>0, <1>t, <2>0, StaysOK
  <2>2. TypeInv'
    <3>1. cancel' \in CancelRecords
      BY <1>0, <1>12 DEF SideReturns, TypeInv, CancelRecords, Asking, OnTheSide,
         SlotRecords, CancelOK, Live
    <3> QED BY <1>0, <1>t, <1>12, <2>1, <3>1 DEF SideReturns, TypeInv
  <2>3. WorkerOK'
    BY <1>0, <1>12 DEF SideReturns, TypeInv, WorkerOK, StageOK, WorkerRecords,
       QueryRecords, SlotRecords, CancelRecords, Asking, OnTheSide, Holding
  <2>4. CancelOK'
    BY <1>0, <1>12 DEF SideReturns, TypeInv, WorkerOK, CancelOK, WorkerRecords,
       QueryRecords, SlotRecords, CancelRecords, Asking, OnTheSide, Holding, Live
  <2>5. StageOK'
    BY <1>0, <1>12 DEF SideReturns, TypeInv, WorkerOK, CancelOK, StageOK, WorkerRecords,
       QueryRecords, SlotRecords, CancelRecords, Asking, OnTheSide, Holding, Live
  <2>6. HeldInv'
    BY <1>0, <1>12 DEF SideReturns, TypeInv, WorkerOK, CancelOK, HeldInv, Live,
       WorkerRecords, QueryRecords, SlotRecords, CancelRecords, Asking, OnTheSide, Holding
  <2> QED BY <2>1, <2>2, <2>3, <2>4, <2>5, <2>6 DEF ConnInv
<1>13. CASE SideClosed
  <2>0. att' = att
    BY <1>13 DEF SideClosed, Answer, NoCancel
  <2>1. att' \in [Attempts -> AttemptRecords] /\ AttOK'
    BY <1>0, <1>t, <2>0, StaysOK
  <2>2. TypeInv'
    BY <1>0, <1>t, <1>13, <2>1 DEF SideClosed, Answer, NoCancel, TypeInv, WorkerOK,
       CancelOK, WorkerRecords, QueryRecords, SlotRecords, CancelRecords, Asking,
       OnTheSide, Holding, Live
  <2>3. WorkerOK'
    BY <1>0, <1>13 DEF SideClosed, Answer, NoCancel, TypeInv, WorkerOK, StageOK,
       WorkerRecords, QueryRecords, SlotRecords, CancelRecords, Asking, OnTheSide, Holding
  <2>4. CancelOK'
    BY <1>0, <1>13 DEF SideClosed, Answer, NoCancel, TypeInv, WorkerOK, CancelOK,
       WorkerRecords, QueryRecords, SlotRecords, CancelRecords, Asking, OnTheSide,
       Holding, Live
  <2>5. StageOK'
    BY <1>0, <1>13 DEF SideClosed, Answer, NoCancel, TypeInv, WorkerOK, CancelOK,
       StageOK, WorkerRecords, QueryRecords, SlotRecords, CancelRecords, Asking,
       OnTheSide, Holding, Live
  <2>6. HeldInv'
    BY <1>0, <1>13 DEF SideClosed, Answer, NoCancel, TypeInv, WorkerOK, CancelOK,
       HeldInv, Live, WorkerRecords, QueryRecords, SlotRecords, CancelRecords, Asking,
       OnTheSide, Holding
  <2> QED BY <2>1, <2>2, <2>3, <2>4, <2>5, <2>6 DEF ConnInv
<1>14. CASE EndOfInput
  <2>0. att' = att
    BY <1>14 DEF EndOfInput
  <2>1. att' \in [Attempts -> AttemptRecords] /\ AttOK'
    BY <1>0, <1>t, <2>0, StaysOK
  <2>2. TypeInv'
    BY <1>0, <1>t, <1>14, <2>1 DEF EndOfInput, TypeInv, WorkerOK, CancelOK,
       WorkerRecords, QueryRecords, SlotRecords, CancelRecords, Asking, OnTheSide,
       Holding, Live
  <2>3. WorkerOK'
    BY <1>0, <1>14 DEF EndOfInput, TypeInv, WorkerOK, StageOK, WorkerRecords,
       QueryRecords, SlotRecords, CancelRecords, Asking, OnTheSide, Holding
  <2>4. CancelOK'
    BY <1>0, <1>14 DEF EndOfInput, TypeInv, WorkerOK, CancelOK, WorkerRecords,
       QueryRecords, SlotRecords, CancelRecords, Asking, OnTheSide, Holding, Live
  <2>5. StageOK'
    BY <1>0, <1>14 DEF EndOfInput, TypeInv, WorkerOK, CancelOK, StageOK, WorkerRecords,
       QueryRecords, SlotRecords, CancelRecords, Asking, OnTheSide, Holding, Live
  <2>6. HeldInv'
    BY <1>0, <1>14 DEF EndOfInput, TypeInv, WorkerOK, CancelOK, HeldInv, Live,
       WorkerRecords, QueryRecords, SlotRecords, CancelRecords, Asking, OnTheSide, Holding
  <2> QED BY <2>1, <2>2, <2>3, <2>4, <2>5, <2>6 DEF ConnInv
<1>15. CASE Join
  <2>0. att' = att
    BY <1>15 DEF Join
  <2>1. att' \in [Attempts -> AttemptRecords] /\ AttOK'
    BY <1>0, <1>t, <2>0, StaysOK
  <2>2. TypeInv'
    BY <1>0, <1>t, <1>15, <2>1 DEF Join, TypeInv, WorkerOK, CancelOK, WorkerRecords,
       QueryRecords, SlotRecords, CancelRecords, Asking, OnTheSide, Holding, Live
  <2>3. WorkerOK'
    BY <1>0, <1>15 DEF Join, TypeInv, WorkerOK, StageOK, WorkerRecords, QueryRecords,
       SlotRecords, CancelRecords, Asking, OnTheSide, Holding
  <2>4. CancelOK'
    BY <1>0, <1>15 DEF Join, TypeInv, WorkerOK, CancelOK, WorkerRecords, QueryRecords,
       SlotRecords, CancelRecords, Asking, OnTheSide, Holding, Live
  <2>5. StageOK'
    BY <1>0, <1>15 DEF Join, TypeInv, WorkerOK, CancelOK, StageOK, WorkerRecords,
       QueryRecords, SlotRecords, CancelRecords, Asking, OnTheSide, Holding, Live
  <2>6. HeldInv'
    BY <1>0, <1>15 DEF Join, TypeInv, WorkerOK, CancelOK, HeldInv, Live, WorkerRecords,
       QueryRecords, SlotRecords, CancelRecords, Asking, OnTheSide, Holding
  <2> QED BY <2>1, <2>2, <2>3, <2>4, <2>5, <2>6 DEF ConnInv
<1>16. CASE QueryEnds
  <2>1. worker.pc = "run" /\ worker.q \in Queries /\ query[worker.q].phase = "running"
        /\ sess \in Attempts /\ worker.at = None
    BY <1>0, <1>16 DEF QueryEnds, WorkerOK, Holding, TypeInv
  <2>2. query' \in [Queries -> QueryRecords]
        /\ \A q \in Queries : query'[q].phase \in {query[q].phase, "finished"}
    BY <1>0, <1>16, <2>1 DEF QueryEnds, Finish, TypeInv, QueryRecords
  <2>3. worker' \in WorkerRecords /\ worker'.pc = "idle" /\ worker'.at = None
    BY <1>16 DEF QueryEnds, Idle, WorkerRecords
  <2>4. CASE att' = att /\ sess' = sess
    <3>1. att' \in [Attempts -> AttemptRecords] /\ AttOK'
      BY <1>0, <1>t, <2>4, StaysOK
    <3>2. TypeInv'
      BY <1>0, <1>t, <1>16, <2>2, <2>3, <2>4, <3>1 DEF QueryEnds, TypeInv
    <3>3. WorkerOK' /\ StageOK' /\ CancelOK' /\ HeldInv'
      BY <1>0, <1>16, <2>1, <2>2, <2>3, <2>4
         DEF QueryEnds, WorkerOK, StageOK, CancelOK, HeldInv, Live, Holding
    <3> QED BY <3>1, <3>2, <3>3 DEF ConnInv
  <2>5. CASE sess' = None /\ Become(sess, Dropped(att[sess]))
    <3>1. /\ att' \in [Attempts -> AttemptRecords] /\ AttOK' /\ att'[sess].phase = "gone"
          /\ \A b \in Attempts : b # sess => att'[b] = att[b]
      BY <1>0, <1>t, <2>1, <2>5, DropKeeps
    <3>2. TypeInv'
      BY <1>0, <1>t, <1>16, <2>2, <2>3, <2>5, <3>1 DEF QueryEnds, TypeInv
    <3>3. WorkerOK' /\ StageOK'
      BY <1>0, <1>16, <2>1, <2>2, <2>3, <2>5 DEF QueryEnds, WorkerOK, StageOK, Holding
    <3>4. CancelOK'
      BY <1>0, <1>16, <2>1, <2>3, <2>5, <3>1
         DEF QueryEnds, CancelOK, TypeInv, CancelRecords, Live
    <3>5. HeldInv'
      BY <1>0, <1>16, <2>1, <2>3, <2>5, <3>1 DEF QueryEnds, HeldInv, Live
    <3> QED BY <3>1, <3>2, <3>3, <3>4, <3>5 DEF ConnInv
  <2> QED BY <1>16, <2>4, <2>5 DEF QueryEnds
<1>17. CASE Invalidate
  <2>1. worker.pc = "idle" /\ worker.at = None /\ sess \in Attempts /\ sess' = None
        /\ stage = "reading" /\ stage' = "reading"
    BY <1>0, <1>17 DEF Invalidate, WorkerOK, TypeInv
  <2>2. worker' \in WorkerRecords /\ worker'.pc = "closing" /\ worker'.at = sess
    BY <1>17, <2>1 DEF Invalidate, Idle, WorkerRecords
  <2>3. /\ att' \in [Attempts -> AttemptRecords] /\ AttOK'
        /\ \A b \in Attempts : b # sess => att'[b] = att[b]
    BY <1>0, <1>t, <1>17, <2>1, CloseKeeps DEF Invalidate
  <2>4. TypeInv'
    BY <1>0, <1>t, <1>17, <2>1, <2>2, <2>3, ConnectionConstants DEF Invalidate, TypeInv
  <2>5. WorkerOK' /\ StageOK'
    BY <1>0, <1>17, <2>1, <2>2 DEF Invalidate, WorkerOK, StageOK, Holding
  <2>6. CancelOK'
    BY <1>0, <1>17, <2>1, <2>3 DEF Invalidate, CancelOK, TypeInv, CancelRecords, Live
  <2>7. HeldInv'
    BY <1>0, <1>17, <2>1, <2>2, <2>3 DEF Invalidate, HeldInv, Live
  <2> QED BY <2>3, <2>4, <2>5, <2>6, <2>7 DEF ConnInv
<1>18. CASE ReadConfig
  <2>1. cancel.pc = "cfg" /\ cancel.at = None /\ cancel.q \in Queries
        /\ slot[cancel.q].cancelled
    BY <1>0, <1>18 DEF ReadConfig, CancelOK, Asking, Live
  <2>2. CASE cancel' = NoCancel
    <3>1. att' = att
      <4>1. Fresh # {} /\ cancel' = [cancel EXCEPT !.pc = "side", !.at = NextAttempt] => FALSE
        BY <1>0, <2>2 DEF NoCancel, TypeInv, CancelRecords
      <4>2. cancel' # [cancel EXCEPT !.pc = "failed"]
        BY <1>0, <2>2 DEF NoCancel, TypeInv, CancelRecords
      <4> QED BY <1>18, <4>1, <4>2 DEF ReadConfig
    <3>2. att' \in [Attempts -> AttemptRecords] /\ AttOK'
      BY <1>0, <1>t, <3>1, StaysOK
    <3>3. cancel' \in CancelRecords /\ cancel'.pc = "idle" /\ cancel'.at = None
      BY <2>2 DEF NoCancel, CancelRecords
    <3>4. ack' \in [Queries -> {"none", "cancelled", "over", "sent", "nothing", "error"}]
      BY <1>0, <1>18 DEF ReadConfig, Answer, Unsent, TypeInv
    <3>5. TypeInv'
      BY <1>0, <1>t, <1>18, <3>2, <3>3, <3>4 DEF ReadConfig, TypeInv
    <3>6. WorkerOK' /\ StageOK' /\ CancelOK' /\ HeldInv'
      BY <1>0, <1>18, <2>1, <3>1, <3>3
         DEF ReadConfig, WorkerOK, StageOK, CancelOK, HeldInv, Live, Asking, OnTheSide
    <3> QED BY <3>2, <3>5, <3>6 DEF ConnInv
  <2>3. CASE /\ Fresh # {} /\ Become(NextAttempt, Started) /\ UNCHANGED ack
             /\ cancel.pid # None
             /\ cancel' = [cancel EXCEPT !.pc = "side", !.at = NextAttempt]
    <3> DEFINE new == NextAttempt
    <3>1. /\ new \in Attempts
          /\ att' \in [Attempts -> AttemptRecords] /\ AttOK'
          /\ \A b \in Attempts : b # new => att'[b] = att[b]
      BY <1>0, <1>t, <2>3, StartKeeps
    <3>2. cancel' = [cancel EXCEPT !.pc = "side", !.at = new]
      BY <2>3
    <3> HIDE DEF new
    <3>3. cancel' \in CancelRecords /\ cancel'.pc = "side" /\ cancel'.at = new
          /\ cancel'.q = cancel.q /\ cancel'.pid = cancel.pid
      BY <1>0, <3>1, <3>2 DEF TypeInv, CancelRecords, Asking, OnTheSide
    <3>4. TypeInv'
      BY <1>0, <1>t, <1>18, <2>3, <3>1, <3>3 DEF ReadConfig, TypeInv
    <3>5. WorkerOK' /\ StageOK' /\ CancelOK'
      BY <1>0, <1>18, <2>1, <2>3, <3>1, <3>3
         DEF ReadConfig, WorkerOK, StageOK, CancelOK, Asking, OnTheSide, Live
    <3>6. HeldInv'
      BY <1>0, <1>18, <2>1, <3>1, <3>3 DEF ReadConfig, HeldInv, Live
    <3> QED BY <3>1, <3>4, <3>5, <3>6 DEF ConnInv
  <2>4. CASE UNCHANGED att /\ cancel' = [cancel EXCEPT !.pc = "failed"] /\ UNCHANGED ack
    <3>1. att' \in [Attempts -> AttemptRecords] /\ AttOK'
      BY <1>0, <1>t, <2>4, StaysOK
    <3>2. cancel' \in CancelRecords /\ cancel'.pc = "failed" /\ cancel'.at = cancel.at
          /\ cancel'.q = cancel.q
      BY <1>0, <2>4 DEF TypeInv, CancelRecords, Asking, OnTheSide
    <3>3. TypeInv'
      BY <1>0, <1>t, <1>18, <2>4, <3>1, <3>2 DEF ReadConfig, TypeInv
    <3>4. WorkerOK' /\ StageOK' /\ CancelOK' /\ HeldInv'
      BY <1>0, <1>18, <2>1, <2>4, <3>2
         DEF ReadConfig, WorkerOK, StageOK, CancelOK, HeldInv, Live, Asking, OnTheSide
    <3> QED BY <3>1, <3>3, <3>4 DEF ConnInv
  <2> QED BY <1>18, <2>2, <2>3, <2>4 DEF ReadConfig, Answer
<1>19. CASE AskBackend
  <2>1. cancel.pc = "ask" /\ cancel.at \in Attempts /\ cancel.q \in Queries
        /\ slot[cancel.q].cancelled /\ cancel.pid \in Attempts
    BY <1>0, <1>19 DEF AskBackend, CancelOK, OnTheSide, TypeInv, CancelRecords, Live
  <2>2. PICK result \in {"sent", Unsent(cancel.token), "error"} :
          /\ told' = IF result = "sent" THEN told \cup {<<cancel.q, cancel.pid>>} ELSE told
          /\ cancel' = [cancel EXCEPT !.pc = "closing", !.result = result]
    BY <1>19 DEF AskBackend
  <2>3. result \in {"sent", "nothing", "error"}
    BY <2>2 DEF Unsent
  <2>4. cancel' \in CancelRecords /\ cancel'.pc = "closing" /\ cancel'.at = cancel.at
        /\ cancel'.q = cancel.q
    BY <1>0, <2>2, <2>3 DEF TypeInv, CancelRecords, OnTheSide
  <2>5. told' \in SUBSET (Queries \X Attempts)
    BY <1>0, <2>1, <2>2 DEF TypeInv
  <2>6. /\ att' \in [Attempts -> AttemptRecords] /\ AttOK'
        /\ \A b \in Attempts : b # cancel.at => att'[b] = att[b]
    BY <1>0, <1>t, <1>19, <2>1, CloseKeeps DEF AskBackend
  <2>7. TypeInv'
    BY <1>0, <1>t, <1>19, <2>4, <2>5, <2>6 DEF AskBackend, TypeInv
  <2>8. WorkerOK' /\ StageOK' /\ CancelOK' /\ HeldInv'
    BY <1>0, <1>19, <2>1, <2>4, <2>6
       DEF AskBackend, WorkerOK, StageOK, CancelOK, HeldInv, Live, Asking, OnTheSide
  <2> QED BY <2>6, <2>7, <2>8 DEF ConnInv
<1>20. CASE CancelTimesOut
  <2>1. cancel' \in CancelRecords /\ cancel'.pc = "idle" /\ cancel'.at = None
    BY <1>20 DEF CancelTimesOut, Answer, NoCancel, CancelRecords
  <2>2. /\ att' \in [Attempts -> AttemptRecords] /\ AttOK'
        /\ \A b \in Attempts : b # cancel.at => att'[b] = att[b]
        /\ cancel.at # None => att'[cancel.at].phase = "gone"
    <3>1. CASE cancel.at = None
      BY <1>0, <1>t, <1>20, <3>1, StaysOK DEF CancelTimesOut
    <3>2. CASE cancel.at # None
      <4>1. cancel.at \in Attempts
        BY <1>0, <3>2 DEF TypeInv, CancelRecords
      <4> QED BY <1>0, <1>t, <1>20, <3>2, <4>1, DropKeeps DEF CancelTimesOut
    <3> QED BY <3>1, <3>2
  <2>3. ack' \in [Queries -> {"none", "cancelled", "over", "sent", "nothing", "error"}]
    BY <1>0, <1>20 DEF CancelTimesOut, Answer, TypeInv
  <2>4. TypeInv'
    BY <1>0, <1>t, <1>20, <2>1, <2>2, <2>3 DEF CancelTimesOut, TypeInv
  <2>5. WorkerOK' /\ StageOK' /\ CancelOK'
    BY <1>0, <1>20, <2>1 DEF CancelTimesOut, WorkerOK, StageOK, CancelOK, Asking,
       OnTheSide, Live
  <2>6. HeldInv'
    BY <1>0, <1>20, <2>1, <2>2 DEF CancelTimesOut, HeldInv, Live
  <2> QED BY <2>2, <2>4, <2>5, <2>6 DEF ConnInv
<1>21. CASE JoinTimesOut
  <2>0. stage = "joining" /\ cancel.pc = "idle" /\ cancel.at = None
    BY <1>0, <1>21 DEF JoinTimesOut, StageOK, CancelOK, Live
  <2>1. worker' \in WorkerRecords /\ worker'.pc = "aborted" /\ worker'.at = None
    BY <1>21 DEF JoinTimesOut, Idle, WorkerRecords
  <2>2. /\ att' \in [Attempts -> AttemptRecords] /\ AttOK'
        /\ \A b \in Attempts : b # worker.at => att'[b] = att[b]
        /\ worker.at # None => att'[worker.at].phase = "gone"
    <3>1. CASE worker.at = None
      BY <1>0, <1>t, <1>21, <3>1, StaysOK DEF JoinTimesOut
    <3>2. CASE worker.at # None
      <4>1. worker.at \in Attempts
        BY <1>0, <3>2 DEF TypeInv, WorkerRecords
      <4> QED BY <1>0, <1>t, <1>21, <3>2, <4>1, DropKeeps DEF JoinTimesOut
    <3> QED BY <3>1, <3>2
  <2>3. TypeInv'
    BY <1>0, <1>t, <1>21, <2>1, <2>2 DEF JoinTimesOut, TypeInv
  <2>4. WorkerOK' /\ StageOK' /\ CancelOK'
    BY <1>0, <1>21, <2>0, <2>1
       DEF JoinTimesOut, WorkerOK, StageOK, CancelOK, Asking, OnTheSide, Holding, Live
  <2>5. HeldInv'
    BY <1>0, <1>21, <2>1, <2>2 DEF JoinTimesOut, HeldInv, Live
  <2> QED BY <2>2, <2>3, <2>4, <2>5 DEF ConnInv
<1>22. CASE CloseSession
  <2>1. stage = "closing" /\ cancel.pc = "idle" /\ sess \in Attempts
    BY <1>0, <1>22 DEF CloseSession, StageOK, TypeInv
  <2>2. /\ att' \in [Attempts -> AttemptRecords] /\ AttOK'
        /\ \A b \in Attempts : b # sess => att'[b] = att[b]
    BY <1>0, <1>t, <1>22, <2>1, CloseKeeps DEF CloseSession
  <2>3. TypeInv'
    BY <1>0, <1>t, <1>22, <2>2 DEF CloseSession, TypeInv
  <2>4. WorkerOK' /\ StageOK' /\ CancelOK' /\ HeldInv'
    BY <1>0, <1>22, <2>1, <2>2
       DEF CloseSession, WorkerOK, StageOK, CancelOK, HeldInv, Live
  <2> QED BY <2>2, <2>3, <2>4 DEF ConnInv
<1>23. CASE Exit
  <2>1. stage = "closing" /\ stage' = "exited" /\ cancel.pc = "idle" /\ sess' = None
    BY <1>0, <1>23 DEF Exit, StageOK
  <2>2. /\ att' \in [Attempts -> AttemptRecords] /\ AttOK'
        /\ \A b \in Attempts : b # sess => att'[b] = att[b]
        /\ sess # None => att'[sess].phase = "gone"
    <3>1. CASE sess = None
      BY <1>0, <1>t, <1>23, <3>1, StaysOK DEF Exit
    <3>2. CASE sess # None
      <4>1. sess \in Attempts
        BY <1>0, <3>2 DEF TypeInv
      <4> QED BY <1>0, <1>t, <1>23, <3>2, <4>1, DropKeeps DEF Exit
    <3> QED BY <3>1, <3>2
  <2>3. TypeInv'
    BY <1>0, <1>t, <1>23, <2>2 DEF Exit, TypeInv
  <2>4. WorkerOK' /\ StageOK' /\ CancelOK'
    BY <1>0, <1>23, <2>1 DEF Exit, WorkerOK, StageOK, CancelOK, Holding, Live
  <2>5. HeldInv'
    BY <1>0, <1>23, <2>1, <2>2 DEF Exit, HeldInv, Live
  <2> QED BY <2>2, <2>3, <2>4, <2>5 DEF ConnInv
<1>24. CASE UNCHANGED vars
  BY <1>0, <1>24 DEF vars, ConnInv, TypeInv, AttOK, AttemptOK, Bridged, WorkerOK,
     CancelOK,
     StageOK, HeldInv, Live
<1> QED
  BY <1>1, <1>2, <1>3, <1>4, <1>5, <1>6, <1>7, <1>8, <1>9, <1>10, <1>11, <1>12, <1>13,
     <1>14, <1>15, <1>16, <1>17, <1>18, <1>19, <1>20, <1>21, <1>22, <1>23, <1>24
     DEF Next, WorkerStep, CancelStep, Shutdown

-----------------------------------------------------------------------------
(* Every variable has its type, a connection in its shutdown still has a    *)
(* part to settle, and no other has one.                                    *)
THEOREM ConnectionTypes == Spec => []TypeOK
<1>1. ConnInv => TypeOK
  <2> SUFFICES ASSUME ConnInv PROVE TypeOK
    OBVIOUS
  <2>1. \A a \in Attempts : ToSet(att[a].todo) \subseteq Parts
    BY DEF ConnInv, TypeInv, AttemptRecords, ToSet
  <2> QED BY <2>1 DEF ConnInv, TypeInv, AttOK, AttemptOK, AttemptRecords, AttemptPhases,
          WorkerRecords, QueryRecords, SlotRecords, CancelRecords, TypeOK
<1> QED BY <1>1, InitConnInv, NextConnInv, PTL DEF Spec

(* Whatever is dropped and wherever it stands, a connection that is up is   *)
(* in somebody's hands, one that was given up left no driver and no process *)
(* running, and none is left at the exit.                                   *)
THEOREM ConnectionsAreHeld == Spec => []NothingOrphaned
<1>1. ConnInv => NothingOrphaned
  <2> SUFFICES ASSUME ConnInv PROVE NothingOrphaned
    OBVIOUS
  <2>1. \A a \in Attempts : Live(a) => a \in {sess, worker.at, cancel.at}
    BY DEF ConnInv, HeldInv
  <2>2. \A a \in Attempts : att[a].phase = "gone" => {"driver", "child"} \cap att[a].up = {}
    BY DEF ConnInv, AttOK, AttemptOK, Runners
  <2>3. stage = "exited" => sess = None /\ worker.at = None /\ cancel.at = None
    BY DEF ConnInv, StageOK, WorkerOK, CancelOK
  <2> QED BY <2>1, <2>2, <2>3, NoneIsNoNumber DEF NothingOrphaned
<1> QED BY <1>1, InitConnInv, NextConnInv, PTL DEF Spec

-----------------------------------------------------------------------------
(* What a cancel is answered.  A context is installed once, so what either  *)
(* side has read of it stays true; a query that was cancelled before its    *)
(* check is never started.                                                  *)
QueryTruth(q) ==
  /\ query[q].phase \in {"queued", "cancelled"} => ~query[q].ran
  /\ query[q].phase = "queued" => slot[q].token = None /\ slot[q].pid = None
  /\ query[q].ran => slot[q].token # None
  /\ slot[q].pid # None => slot[q].pid = slot[q].token
  /\ ack[q] = "cancelled" => query[q].phase = "cancelled"
  /\ ack[q] = "nothing" => slot[q].cancelled /\ ~query[q].ran
  /\ ack[q] = "sent" => slot[q].token # None /\ <<q, slot[q].token>> \in told
WorkerTruth ==
  /\ worker.pc \in {"ensure", "connecting", "token"} =>
       slot[worker.q].token = None /\ slot[worker.q].pid = None
  /\ worker.pc \in {"pid", "cfg", "check"} => slot[worker.q].token = sess
CancelTruth ==
  /\ cancel.pc \in {"token", "request", "pid"} => cancel.pid = None
  /\ cancel.pc \notin {"idle", "token"} =>
       /\ cancel.token = None => ~query[cancel.q].ran
       /\ cancel.token # None => slot[cancel.q].token = cancel.token
       /\ cancel.pid # None => slot[cancel.q].token = cancel.pid
  /\ cancel.pc = "closing" /\ cancel.result = "sent" =>
       slot[cancel.q].token # None /\ <<cancel.q, slot[cancel.q].token>> \in told
  /\ cancel.pc = "closing" /\ cancel.result = "nothing" => cancel.token = None

TruthInv == (\A q \in Queries : QueryTruth(q)) /\ WorkerTruth /\ CancelTruth

LEMMA InitTruth == Init => TruthInv
BY DEF Init, TruthInv, QueryTruth, WorkerTruth, CancelTruth, Idle, NoCancel, Answer

(* The worker alone moves, and at most the phase of its query with it.      *)
LEMMA WorkerMoves ==
  ASSUME ConnInv, TruthInv, UNCHANGED <<slot, cancel, ack, told>>,
         \A q \in Queries : query'[q].ran = query[q].ran,
         \A q \in Queries :
           \/ query'[q].phase = query[q].phase
           \/ /\ query[q].phase # "cancelled"
              /\ query'[q].phase \in {"running", "finished"},
         WorkerTruth'
  PROVE  TruthInv'
<1>1. ASSUME NEW q \in Queries PROVE QueryTruth(q)'
  BY <1>1 DEF TruthInv, QueryTruth
<1>2. CancelTruth'
  BY DEF ConnInv, CancelOK, TruthInv, CancelTruth
<1> QED BY <1>1, <1>2 DEF TruthInv

(* The cancel moves on by itself, and at most adds to what was told.        *)
LEMMA CancelMoves ==
  ASSUME ConnInv, TruthInv, UNCHANGED <<sess, worker, query, slot, ack>>,
         told \subseteq told', CancelTruth'
  PROVE  TruthInv'
BY DEF TruthInv, QueryTruth, WorkerTruth

(* The cancel answers and is over.                                          *)
LEMMA CancelAnswers ==
  ASSUME ConnInv, TruthInv, UNCHANGED <<sess, worker, query, slot>>,
         told \subseteq told', cancel.q \in Queries, NEW a, Answer(cancel.q, a),
         a = "cancelled" => query[cancel.q].phase = "cancelled",
         a = "nothing" => slot[cancel.q].cancelled /\ ~query[cancel.q].ran,
         a = "sent" => slot[cancel.q].token # None /\ <<cancel.q, slot[cancel.q].token>> \in told'
  PROVE  TruthInv'
<1>1. \A q \in Queries : ack'[q] = IF q = cancel.q THEN a ELSE ack[q]
  BY DEF Answer, ConnInv, TypeInv
<1>2. ASSUME NEW q \in Queries PROVE QueryTruth(q)'
  BY <1>1, <1>2 DEF TruthInv, QueryTruth
<1>3. CancelTruth' /\ WorkerTruth'
  BY DEF Answer, NoCancel, CancelTruth, WorkerTruth, TruthInv
<1> QED BY <1>2, <1>3 DEF TruthInv

(* A context is installed once, a field at a time, by the worker that has    *)
(* the connection.                                                          *)
LEMMA InstallTruth ==
  ASSUME ConnInv, TruthInv, InstallContext
  PROVE  TruthInv'
<1> USE NoneIsNoNumber
<1>0. PICK field \in {"token", "pid", "cfg"} :
        /\ worker.pc = field
        /\ slot' = [slot EXCEPT ![worker.q][field] = sess]
        /\ worker'.pc = (CASE field = "token" -> "pid" [] field = "pid" -> "cfg"
                           [] field = "cfg" -> "check")
        /\ worker'.q = worker.q
        /\ UNCHANGED <<sess, query, cancel, ack, told>>
  BY DEF InstallContext, Install, Goto, ConnInv, TypeInv, WorkerRecords
<1>1. worker.q \in Queries /\ sess # None /\ sess \in Attempts
  BY <1>0 DEF ConnInv, WorkerOK, Holding, TypeInv
<1>2. /\ slot' \in [Queries -> SlotRecords] /\ slot'[worker.q][field] = sess
      /\ \A r \in Queries : r # worker.q => slot'[r] = slot[r]
      /\ slot'[worker.q].cancelled = slot[worker.q].cancelled
      /\ field # "token" => slot'[worker.q].token = slot[worker.q].token
      /\ field # "pid" => slot'[worker.q].pid = slot[worker.q].pid
  BY <1>0, <1>1, SlotUpdate DEF ConnInv, TypeInv
<1>3. /\ field = "token" => slot[worker.q].token = None /\ slot[worker.q].pid = None
      /\ field # "token" => slot[worker.q].token = sess
      /\ slot'[worker.q].token = sess
      /\ slot'[worker.q].pid \in {slot[worker.q].pid, sess}
  BY <1>0, <1>2 DEF TruthInv, WorkerTruth
<1>4. ASSUME NEW q \in Queries PROVE QueryTruth(q)'
  <2>1. QueryTruth(q)
    BY DEF TruthInv
  <2>2. CASE q # worker.q
    BY <1>0, <1>2, <2>1, <2>2 DEF QueryTruth
  <2>3. CASE q = worker.q
    BY <1>0, <1>1, <1>2, <1>3, <2>1, <2>3 DEF QueryTruth, ConnInv, WorkerOK, Holding
  <2> QED BY <2>2, <2>3
<1>5. WorkerTruth'
  BY <1>0, <1>3 DEF WorkerTruth
<1>6. \A q \in Queries : slot[q].token # None => slot'[q].token = slot[q].token
  BY <1>2, <1>3
<1>7. CancelTruth'
  BY <1>0, <1>6 DEF TruthInv, CancelTruth, ConnInv, CancelOK, TypeInv, CancelRecords
<1> QED BY <1>4, <1>5, <1>7 DEF TruthInv

LEMMA NextTruth == ConnInv /\ TruthInv /\ [Next]_vars => TruthInv'
<1> SUFFICES ASSUME ConnInv, TruthInv, [Next]_vars PROVE TruthInv'
  OBVIOUS
<1> USE NoneIsNoNumber
<1>0. TypeInv /\ WorkerOK /\ CancelOK /\ StageOK /\ WorkerTruth /\ CancelTruth
  BY DEF ConnInv, TruthInv
<1>1. CASE Attempt \/ EndOfInput \/ Join \/ CloseSession \/ UNCHANGED vars
  BY <1>1 DEF Attempt, EndOfInput, Join, CloseSession, vars, TruthInv, QueryTruth,
     WorkerTruth,
     CancelTruth
<1>2. CASE Exit
  <2>1. WorkerTruth'
    BY <1>0, <1>2 DEF Exit, StageOK, WorkerTruth
  <2> QED BY <1>2, <2>1, WorkerMoves DEF Exit
<1>3. CASE Invalidate \/ InvalidateReturns \/ JoinTimesOut
  <2>1. worker'.pc \in {"idle", "closing", "aborted"} /\ query' = query
    <3>1. CASE Invalidate
      BY <3>1 DEF Invalidate, Idle
    <3>2. CASE InvalidateReturns
      BY <3>2 DEF InvalidateReturns, Idle
    <3>3. CASE JoinTimesOut
      BY <3>3 DEF JoinTimesOut, Idle
    <3> QED BY <1>3, <3>1, <3>2, <3>3
  <2>2. WorkerTruth'
    BY <2>1 DEF WorkerTruth
  <2> QED BY <1>3, <2>1, <2>2, WorkerMoves DEF Invalidate, InvalidateReturns, JoinTimesOut
<1>4. ASSUME worker.q \in Queries, query[worker.q].phase = "running",
             Finish(worker.q, "finished"), worker' = Idle,
             UNCHANGED <<slot, cancel, ack, told>>
      PROVE  TruthInv'
  <2>1. WorkerTruth'
    BY <1>4 DEF WorkerTruth, Idle
  <2>2. \A q \in Queries : query'[q].ran = query[q].ran
           /\ query'[q].phase = IF q = worker.q THEN "finished" ELSE query[q].phase
    BY <1>0, <1>4 DEF Finish, TypeInv, QueryRecords
  <2> QED BY <1>4, <2>1, <2>2, WorkerMoves
<1>5. CASE TakeQuery
  <2>1. PICK q \in Queries :
          /\ query[q].phase = "queued" /\ Finish(q, "running")
          /\ worker' = [pc |-> "ensure", q |-> q, at |-> None]
          /\ UNCHANGED <<sess, slot, cancel, ack, told>>
    BY <1>5 DEF TakeQuery
  <2>2. \A r \in Queries : query'[r].ran = query[r].ran
           /\ query'[r].phase = IF r = q THEN "running" ELSE query[r].phase
    BY <1>0, <2>1 DEF Finish, TypeInv, QueryRecords
  <2>3. WorkerTruth'
    BY <2>1 DEF WorkerTruth, TruthInv, QueryTruth
  <2> QED BY <2>1, <2>2, <2>3, WorkerMoves
<1>6. CASE Ensure
  <2>1. worker.q \in Queries /\ query[worker.q].phase = "running" /\ worker.pc = "ensure"
        /\ UNCHANGED <<slot, cancel, ack, told>>
    BY <1>0, <1>6 DEF Ensure, WorkerOK
  <2>2. CASE query' = query /\ worker'.pc \in {"token", "connecting"} /\ worker'.q = worker.q
    <3>1. WorkerTruth'
      BY <1>0, <2>1, <2>2 DEF WorkerTruth
    <3> QED BY <2>1, <2>2, <3>1, WorkerMoves
  <2>3. CASE worker' = Idle /\ Finish(worker.q, "finished")
    BY <1>4, <2>1, <2>3
  <2>4. Goto("token") => worker'.pc = "token" /\ worker'.q = worker.q
    BY <1>0 DEF Goto, TypeInv, WorkerRecords
  <2>5. ASSUME Fresh # {}, worker' = [worker EXCEPT !.pc = "connecting", !.at = NextAttempt]
        PROVE  worker'.pc = "connecting" /\ worker'.q = worker.q
    BY <1>0, <2>5 DEF TypeInv, WorkerRecords
  <2> QED BY <1>6, <2>2, <2>3, <2>4, <2>5 DEF Ensure
<1>7. CASE ConnectReturns
  <2>1. worker.q \in Queries /\ query[worker.q].phase = "running" /\ worker.pc = "connecting"
        /\ UNCHANGED <<slot, cancel, ack, told>>
    BY <1>0, <1>7 DEF ConnectReturns, WorkerOK
  <2>2. CASE query' = query /\ worker' = [worker EXCEPT !.pc = "token", !.at = None]
    <3>1. worker'.pc = "token" /\ worker'.q = worker.q
      BY <1>0, <2>2 DEF TypeInv, WorkerRecords
    <3>2. WorkerTruth'
      BY <1>0, <2>1, <3>1 DEF WorkerTruth
    <3> QED BY <2>1, <2>2, <3>2, WorkerMoves
  <2>3. CASE worker' = Idle /\ Finish(worker.q, "finished")
    BY <1>4, <2>1, <2>3
  <2> QED BY <1>7, <2>2, <2>3 DEF ConnectReturns
<1>8. CASE QueryEnds
  BY <1>0, <1>4, <1>8 DEF QueryEnds, WorkerOK, Holding
<1>9. CASE InstallContext
  BY <1>9, InstallTruth
<1>10. CASE CheckCancelled
  <2>1. worker.q \in Queries /\ query[worker.q].phase = "running" /\ worker.pc = "check"
        /\ sess # None /\ slot[worker.q].token = sess
        /\ UNCHANGED <<sess, slot, cancel, ack, told>>
    BY <1>0, <1>10 DEF CheckCancelled, WorkerOK, Holding, WorkerTruth
  <2>2. CASE slot[worker.q].cancelled
    BY <1>4, <1>10, <2>1, <2>2 DEF CheckCancelled
  <2>3. CASE ~slot[worker.q].cancelled
    <3>1. Goto("run") /\ query' = [query EXCEPT ![worker.q].ran = TRUE]
      BY <1>10, <2>3 DEF CheckCancelled
    <3>2. worker'.pc = "run"
      BY <1>0, <3>1 DEF Goto, TypeInv, WorkerRecords
    <3>3. \A q \in Queries : query'[q].phase = query[q].phase
            /\ query'[q].ran = IF q = worker.q THEN TRUE ELSE query[q].ran
      BY <1>0, <3>1 DEF TypeInv, QueryRecords
    <3>4. ASSUME NEW q \in Queries PROVE QueryTruth(q)'
      BY <2>1, <2>3, <3>3, <3>4 DEF TruthInv, QueryTruth
    <3>5. cancel.pc # "idle" => cancel.q \in Queries /\ cancel.q # worker.q
      BY <1>0, <2>3 DEF CancelOK
    <3>6. CancelTruth'
      BY <1>0, <2>1, <3>3, <3>5 DEF CancelTruth
    <3> QED BY <3>2, <3>4, <3>6 DEF TruthInv, WorkerTruth
  <2> QED BY <2>2, <2>3
<1>11. CASE Cancel
  <2>1. PICK q \in Queries :
          /\ cancel.pc = "idle" /\ ack[q] = "none"
          /\ CASE query[q].phase = "queued" ->
                    Finish(q, "cancelled") /\ Answer(q, "cancelled") /\ UNCHANGED slot
               [] query[q].phase = "running" ->
                    /\ slot' = [slot EXCEPT ![q].cancelled = TRUE]
                    /\ cancel' = [NoCancel EXCEPT !.pc = "token", !.q = q]
                    /\ UNCHANGED <<query, ack>>
               [] OTHER -> Answer(q, "over") /\ UNCHANGED <<query, slot>>
          /\ UNCHANGED <<att, sess, worker, stage, told, drops>>
    BY <1>11 DEF Cancel
  <2>2. CASE query[q].phase = "queued"
    <3>1. Finish(q, "cancelled") /\ Answer(q, "cancelled") /\ UNCHANGED slot
      BY <2>1, <2>2
    <3>2. \A r \in Queries : query'[r].ran = query[r].ran
            /\ query'[r].phase = (IF r = q THEN "cancelled" ELSE query[r].phase)
            /\ ack'[r] = (IF r = q THEN "cancelled" ELSE ack[r])
      BY <1>0, <3>1 DEF Finish, Answer, TypeInv, QueryRecords
    <3>3. ASSUME NEW r \in Queries PROVE QueryTruth(r)'
      BY <2>1, <2>2, <3>1, <3>2, <3>3 DEF TruthInv, QueryTruth
    <3>4. CancelTruth' /\ WorkerTruth'
      BY <1>0, <2>1, <3>1 DEF Answer, NoCancel, CancelTruth, WorkerTruth
    <3> QED BY <3>3, <3>4 DEF TruthInv
  <2>3. CASE query[q].phase = "running"
    <3>1. /\ slot' = [slot EXCEPT ![q].cancelled = TRUE]
          /\ cancel' = [NoCancel EXCEPT !.pc = "token", !.q = q]
          /\ UNCHANGED <<query, ack>>
      BY <2>1, <2>3
    <3>2. \A r \in Queries : slot'[r].token = slot[r].token /\ slot'[r].pid = slot[r].pid
            /\ (slot[r].cancelled => slot'[r].cancelled)
      BY <1>0, <3>1, SlotCancelled DEF TypeInv
    <3>3. ASSUME NEW r \in Queries PROVE QueryTruth(r)'
      BY <2>1, <3>1, <3>2, <3>3 DEF TruthInv, QueryTruth
    <3>4. CancelTruth'
      BY <3>1 DEF NoCancel, CancelTruth
    <3>5. WorkerTruth'
      BY <1>0, <2>1, <3>2 DEF WorkerTruth, WorkerOK, Holding
    <3> QED BY <3>3, <3>4, <3>5 DEF TruthInv
  <2>4. CASE query[q].phase \notin {"queued", "running"}
    <3>1. Answer(q, "over") /\ UNCHANGED <<query, slot>>
      BY <2>1, <2>4
    <3>2. \A r \in Queries : ack'[r] = IF r = q THEN "over" ELSE ack[r]
      BY <1>0, <3>1 DEF Answer, TypeInv
    <3>3. ASSUME NEW r \in Queries PROVE QueryTruth(r)'
      BY <2>1, <3>1, <3>2, <3>3 DEF TruthInv, QueryTruth
    <3>4. CancelTruth' /\ WorkerTruth'
      BY <1>0, <2>1, <3>1 DEF Answer, NoCancel, CancelTruth, WorkerTruth
    <3> QED BY <3>3, <3>4 DEF TruthInv
  <2> QED BY <2>2, <2>3, <2>4
<1>12. CASE ReadToken
  <2>1. cancel.pc = "token" /\ cancel.q \in Queries /\ cancel.pid = None
    BY <1>0, <1>12 DEF ReadToken, CancelOK, CancelTruth
  <2>2. /\ cancel'.token = slot[cancel.q].token /\ cancel'.pc \in {"pid", "request"}
        /\ cancel'.q = cancel.q /\ cancel'.pid = None
    BY <1>0, <1>12, <2>1 DEF ReadToken, TypeInv, CancelRecords
  <2>3. CancelTruth'
    BY <1>12, <2>1, <2>2 DEF ReadToken, CancelTruth, TruthInv, QueryTruth
  <2> QED BY <1>12, <2>3, CancelMoves DEF ReadToken
<1>13. CASE Request
  <2>1. cancel.pc = "request" /\ cancel.q \in Queries /\ cancel.token # None
        /\ slot[cancel.q].token = cancel.token
    BY <1>0, <1>13 DEF Request, CancelOK, CancelTruth
  <2>2. CASE told' = told \cup {<<cancel.q, cancel.token>>} /\ Answer(cancel.q, "sent")
    BY <1>13, <2>1, <2>2, CancelAnswers DEF Request
  <2>3. CASE cancel' = [cancel EXCEPT !.pc = "pid"] /\ UNCHANGED <<told, ack>>
    <3>1. cancel'.pc = "pid" /\ cancel'.token = cancel.token /\ cancel'.q = cancel.q
          /\ cancel'.pid = cancel.pid
      BY <1>0, <2>3 DEF TypeInv, CancelRecords
    <3>2. CancelTruth'
      BY <1>0, <1>13, <2>1, <3>1 DEF Request, CancelTruth
    <3> QED BY <1>13, <2>3, <3>2, CancelMoves DEF Request
  <2> QED BY <1>13, <2>2, <2>3 DEF Request
<1>14. CASE ReadPid
  <2>1. cancel.pc = "pid" /\ cancel.q \in Queries
    BY <1>0, <1>14 DEF ReadPid, CancelOK
  <2>2. /\ cancel'.pid = slot[cancel.q].pid /\ cancel'.pc = "cfg"
        /\ cancel'.q = cancel.q /\ cancel'.token = cancel.token
    BY <1>0, <1>14, <2>1 DEF ReadPid, TypeInv, CancelRecords
  <2>3. CancelTruth'
    BY <1>0, <1>14, <2>1, <2>2 DEF ReadPid, CancelTruth, TruthInv, QueryTruth
  <2> QED BY <1>14, <2>3, CancelMoves DEF ReadPid
<1>15. ASSUME NEW pc \in {"side", "ask", "failed", "closing"}, cancel'.pc = pc,
              cancel'.q = cancel.q, cancel'.token = cancel.token, cancel'.pid = cancel.pid,
              cancel.pc \notin {"idle", "token"}, told \subseteq told',
              UNCHANGED <<sess, worker, query, slot, ack>>,
              pc = "closing" /\ cancel'.result = "sent" =>
                slot[cancel.q].token # None /\ <<cancel.q, slot[cancel.q].token>> \in told',
              pc = "closing" /\ cancel'.result = "nothing" => cancel.token = None
       PROVE  TruthInv'
  <2>1. CancelTruth'
    BY <1>0, <1>15 DEF CancelTruth
  <2> QED BY <1>15, <2>1, CancelMoves
<1>16. CASE ReadConfig
  <2>1. cancel.pc = "cfg" /\ cancel.q \in Queries /\ slot[cancel.q].cancelled
        /\ (cancel.token = None => ~query[cancel.q].ran)
    BY <1>0, <1>16 DEF ReadConfig, CancelOK, CancelTruth
  <2>2. CASE Answer(cancel.q, Unsent(cancel.token))
    BY <1>16, <2>1, <2>2, CancelAnswers DEF ReadConfig, Unsent
  <2>3. ASSUME NEW new, UNCHANGED ack,
               \/ cancel' = [cancel EXCEPT !.pc = "side", !.at = new]
               \/ cancel' = [cancel EXCEPT !.pc = "failed"]
        PROVE  TruthInv'
    <3>1. cancel'.pc \in {"side", "failed"} /\ cancel'.token = cancel.token
          /\ cancel'.q = cancel.q /\ cancel'.pid = cancel.pid
      BY <1>0, <2>3 DEF TypeInv, CancelRecords
    <3> QED BY <1>15, <1>16, <2>1, <2>3, <3>1 DEF ReadConfig
  <2> QED BY <1>16, <2>2, <2>3 DEF ReadConfig
<1>17. CASE SideReturns
  <2>1. cancel'.pc \in {"ask", "failed"} /\ cancel'.token = cancel.token
        /\ cancel'.q = cancel.q /\ cancel'.pid = cancel.pid /\ cancel.pc = "side"
    BY <1>0, <1>17 DEF SideReturns, TypeInv, CancelRecords
  <2> QED BY <1>15, <1>17, <2>1 DEF SideReturns
<1>18. CASE AskBackend
  <2>1. cancel.pc = "ask" /\ cancel.q \in Queries /\ cancel.pid # None
        /\ slot[cancel.q].token = cancel.pid
    BY <1>0, <1>18 DEF AskBackend, CancelOK, CancelTruth
  <2>2. PICK result \in {"sent", Unsent(cancel.token), "error"} :
          /\ told' = IF result = "sent" THEN told \cup {<<cancel.q, cancel.pid>>} ELSE told
          /\ cancel' = [cancel EXCEPT !.pc = "closing", !.result = result]
    BY <1>18 DEF AskBackend
  <2>3. cancel'.pc = "closing" /\ cancel'.token = cancel.token /\ cancel'.q = cancel.q
        /\ cancel'.pid = cancel.pid /\ cancel'.result = result
    BY <1>0, <2>2 DEF TypeInv, CancelRecords
  <2>4. result = "nothing" => cancel.token = None
    BY <2>2 DEF Unsent
  <2> QED BY <1>15, <1>18, <2>1, <2>2, <2>3, <2>4 DEF AskBackend
<1>19. CASE SideClosed
  <2>1. cancel.q \in Queries /\ slot[cancel.q].cancelled
    BY <1>0, <1>19 DEF SideClosed, CancelOK
  <2>2. CASE cancel.pc = "closing" /\ Answer(cancel.q, cancel.result)
    <3>1. cancel.result # "cancelled"
      BY <1>0 DEF TypeInv, CancelRecords
    <3>2. /\ cancel.result = "nothing" => ~query[cancel.q].ran
          /\ cancel.result = "sent" =>
               slot[cancel.q].token # None /\ <<cancel.q, slot[cancel.q].token>> \in told
      BY <1>0, <2>2 DEF CancelTruth
    <3> QED BY <1>19, <2>1, <2>2, <3>1, <3>2, CancelAnswers DEF SideClosed
  <2>3. CASE Answer(cancel.q, "error")
    BY <1>19, <2>1, <2>3, CancelAnswers DEF SideClosed
  <2> QED BY <1>19, <2>2, <2>3 DEF SideClosed
<1>20. CASE CancelTimesOut
  BY <1>0, <1>20, CancelAnswers DEF CancelTimesOut, CancelOK
<1> QED
  BY <1>1, <1>2, <1>3, <1>5, <1>6, <1>7, <1>8, <1>9, <1>10, <1>11, <1>12, <1>13, <1>14,
     <1>16, <1>17, <1>18, <1>19, <1>20
     DEF Next, WorkerStep, CancelStep, Shutdown

(* "Nothing sent" and "cancelled" mean that the SQL never starts; "sent"    *)
(* that the backend this query was given was told to stop.                  *)
THEOREM CancelIsTrue == Spec => []CancelAnswerTruth
<1>1. TruthInv => CancelAnswerTruth
  BY DEF TruthInv, QueryTruth, CancelAnswerTruth
<1>2. ConnInv /\ TruthInv /\ [Next]_vars => (ConnInv /\ TruthInv)'
  BY NextConnInv, NextTruth
<1> QED BY <1>1, <1>2, InitConnInv, InitTruth, PTL DEF Spec
=============================================================================
