----------------------------- MODULE SessionFifo -----------------------------
(***************************************************************************)
(* Configuration against the session queues of one pipe.  A `config' line  *)
(* may move a session to another endpoint while operations accepted under  *)
(* the old configuration still wait in that session's channel.  The pipe   *)
(* keeps them apart by freezing the configuration a query or a begin was   *)
(* accepted with, and by sending an Invalidate down the same channel.      *)
(*                                                                         *)
(* Sources: src/pipe.rs (dispatch_*, session_worker_loop),                 *)
(* src/handler.rs (execute_query, handle_session_info), src/db/session.rs  *)
(* (the session map).  Transactions are in TxExecutor, in_flight and       *)
(* shutdown in QueryLifecycle.                                             *)
(***************************************************************************)
EXTENDS Naturals, Sequences

CONSTANTS
  Sessions,    \* the named sessions
  Endpoints,   \* what a session's configuration can point at
  QueueCap,    \* MAX_ACTIVE_QUERIES as the capacity of a session's channel
  Kinds,       \* operation kinds the caller sends, a subset of AllKinds
  NoConn       \* no connection

AllKinds == {"query", "begin", "finish", "info"}

ASSUME FifoConstants ==
  /\ Endpoints # {}
  /\ QueueCap \in Nat \ {0}
  /\ Kinds \subseteq AllKinds
  /\ NoConn \notin Endpoints

VARIABLES
  config,    \* App.config: the endpoint of each session
  dpc,       \* where the dispatcher is in dispatch_config_invalidation
  next,      \* cfg_snapshot, the configuration with the patch applied
  todo,      \* sessions whose channel it has still to reserve
  reserved,  \* sessions it holds a permit of
  queue,     \* queue[s]: the operations in the session's channel
  running,   \* running[s]: the operation its worker executes, or Nothing
  conn       \* conn[s]: the endpoint its open connection reaches, or NoConn

patch == <<dpc, next, todo, reserved>>
vars == <<config, patch, queue, running, conn>>

Op == [kind : AllKinds \cup {"invalidate"}, ep : Endpoints \cup {NoConn}]
Nothing == [kind |-> "nothing", ep |-> NoConn]

Init ==
  /\ config \in [Sessions -> Endpoints]
  /\ dpc = "read" /\ next = config /\ todo = {} /\ reserved = {}
  /\ queue = [s \in Sessions |-> <<>>]
  /\ running = [s \in Sessions |-> Nothing]
  /\ conn = [s \in Sessions |-> NoConn]

HasRoom(s) == Len(queue[s]) < QueueCap
Enqueue(s, kind, ep) ==
  queue' = [queue EXCEPT ![s] = Append(@, [kind |-> kind, ep |-> ep])]

-----------------------------------------------------------------------------
(* The dispatcher.                                                         *)

(* A query and a begin carry the configuration they were accepted with; the *)
(* other operations only name their session.  A full channel refuses.       *)
Carried(kind, s) == IF kind \in {"query", "begin"} THEN config[s] ELSE NoConn

Accept(kind, s) ==
  /\ dpc = "read" /\ HasRoom(s) /\ kind \in Kinds
  /\ Enqueue(s, kind, Carried(kind, s))
  /\ UNCHANGED <<config, patch, running, conn>>

(* Mutant: only the sessions that are connected now are invalidated.        *)
StartPatchConnected(named, ep) ==
  /\ dpc = "read"
  /\ dpc' = "reserve"
  /\ next' = [s \in Sessions |-> IF s \in named THEN ep[s] ELSE config[s]]
  /\ todo' = {s \in named : conn[s] # NoConn}
  /\ UNCHANGED <<config, reserved, queue, running, conn>>

(* sessions_to_invalidate: every session the patch names, moved or not.     *)
StartPatch(named, ep) ==
  /\ dpc = "read"
  /\ dpc' = "reserve"
  /\ next' = [s \in Sessions |-> IF s \in named THEN ep[s] ELSE config[s]]
  /\ todo' = named
  /\ UNCHANGED <<config, reserved, queue, running, conn>>

(* Mutant: a reservation waits for nothing.                                 *)
ReserveBlindly(s) ==
  /\ dpc = "reserve" /\ s \in todo
  /\ todo' = todo \ {s}
  /\ reserved' = reserved \cup {s}
  /\ UNCHANGED <<config, dpc, next, queue, running, conn>>

Reserve(s) ==
  /\ dpc = "reserve" /\ s \in todo /\ HasRoom(s)
  /\ todo' = todo \ {s}
  /\ reserved' = reserved \cup {s}
  /\ UNCHANGED <<config, dpc, next, queue, running, conn>>

(* One full channel drops every reservation: nothing has been changed.      *)
RejectPatch(s) ==
  /\ dpc = "reserve" /\ s \in todo /\ ~HasRoom(s)
  /\ dpc' = "read" /\ next' = config /\ todo' = {} /\ reserved' = {}
  /\ UNCHANGED <<config, queue, running, conn>>

(* Mutant: the snapshot is installed before every channel has room.         *)
InstallEarly ==
  /\ dpc = "reserve"
  /\ config' = next
  /\ dpc' = "send"
  /\ UNCHANGED <<next, todo, reserved, queue, running, conn>>

(* The whole snapshot is installed, then the permits are used.              *)
Install ==
  /\ dpc = "reserve" /\ todo = {}
  /\ config' = next
  /\ dpc' = "send"
  /\ UNCHANGED <<next, todo, reserved, queue, running, conn>>

(* Mutant: the session is removed at once, ahead of what waits for it.      *)
InvalidateOvertakes(s) ==
  /\ dpc = "send" /\ s \in reserved
  /\ conn' = [conn EXCEPT ![s] = NoConn]
  /\ reserved' = reserved \ {s}
  /\ UNCHANGED <<config, dpc, next, todo, queue, running>>

SendInvalidate(s) ==
  /\ dpc = "send" /\ s \in reserved
  /\ Enqueue(s, "invalidate", NoConn)
  /\ reserved' = reserved \ {s}
  /\ UNCHANGED <<config, dpc, next, todo, running, conn>>

EndPatch ==
  /\ dpc = "send" /\ reserved = {}
  /\ dpc' = "read"
  /\ UNCHANGED <<config, next, todo, reserved, queue, running, conn>>

-----------------------------------------------------------------------------
(* The worker of a session, and the session's entry in the executor.        *)

(* session_info looks its configuration up when it runs, not when it was    *)
(* accepted.                                                               *)
Take(s) ==
  /\ running[s] = Nothing /\ queue[s] # <<>>
  /\ LET op == Head(queue[s]) IN
       running' = [running EXCEPT ![s] =
         IF op.kind = "info" THEN [kind |-> "info", ep |-> config[s]] ELSE op]
  /\ queue' = [queue EXCEPT ![s] = Tail(@)]
  /\ UNCHANGED <<config, patch, conn>>

Done(s) == running' = [running EXCEPT ![s] = Nothing]

(* ensure_connected: an open connection is used whatever it reaches.        *)
Reached(s) == IF conn[s] = NoConn THEN running[s].ep ELSE conn[s]

(* execute, tx_begin, and probe_session_identity, the query session_info    *)
(* runs on the session: the operation reaches a backend.                    *)
Execute(s) ==
  /\ running[s].kind \in {"query", "begin", "info"}
  /\ conn' = [conn EXCEPT ![s] = Reached(s)]
  /\ Done(s)
  /\ UNCHANGED <<config, patch, queue>>

(* Rejected, cancelled or unable to connect; and tx_commit and tx_rollback, *)
(* which never open a connection.                                          *)
EndWithoutBackend(s) ==
  /\ running[s].kind \in AllKinds
  /\ Done(s)
  /\ UNCHANGED <<config, patch, queue, conn>>

(* remove_sessions: the entry and its connection go.                       *)
Invalidate(s) ==
  /\ running[s].kind = "invalidate"
  /\ conn' = [conn EXCEPT ![s] = NoConn]
  /\ Done(s)
  /\ UNCHANGED <<config, patch, queue>>

(* The connection ends, and is_closed() says so.                           *)
ConnectionLost(s) ==
  /\ conn[s] # NoConn
  /\ conn' = [conn EXCEPT ![s] = NoConn]
  /\ UNCHANGED <<config, patch, queue, running>>

-----------------------------------------------------------------------------
Dispatcher ==
  \/ \E kind \in AllKinds, s \in Sessions : Accept(kind, s)
  \/ \E named \in SUBSET Sessions, ep \in [Sessions -> Endpoints] :
       StartPatch(named, ep)
  \/ \E s \in Sessions : Reserve(s) \/ RejectPatch(s) \/ SendInvalidate(s)
  \/ Install \/ EndPatch

Worker(s) ==
  \/ Take(s) \/ Execute(s) \/ EndWithoutBackend(s) \/ Invalidate(s)

Next == Dispatcher \/ \E s \in Sessions : Worker(s) \/ ConnectionLost(s)

Spec == Init /\ [][Next]_vars
-----------------------------------------------------------------------------
(* Every variable keeps its type, and no channel holds more than it has     *)
(* room for, the permits included (permit.send cannot fail).               *)
TypeOK ==
  /\ config \in [Sessions -> Endpoints] /\ next \in [Sessions -> Endpoints]
  /\ dpc \in {"read", "reserve", "send"}
  /\ todo \subseteq Sessions /\ reserved \subseteq Sessions
  /\ queue \in [Sessions -> Seq(Op)]
  /\ \A s \in Sessions :
       Len(queue[s]) + (IF s \in reserved THEN 1 ELSE 0) <= QueueCap
  /\ running \in [Sessions -> Op \cup {Nothing}]
  /\ conn \in [Sessions -> Endpoints \cup {NoConn}]

(* A query or a begin that runs never finds a connection to another         *)
(* endpoint than it was accepted for, whatever `config' lines were read     *)
(* while it waited (Queued::accepted_config, SessionOp::Begin).             *)
RunsWhereAccepted ==
  \A s \in Sessions :
    running[s].kind \in {"query", "begin"}
    => conn[s] \in {NoConn, running[s].ep}

(* A connection the configuration no longer names is on its way out: its    *)
(* Invalidate is held as a permit, waits in the channel, or runs, so no     *)
(* operation accepted from now on can find it.                             *)
StaleConnectionIsDoomed ==
  \A s \in Sessions : conn[s] \notin {NoConn, config[s]} =>
    \/ s \in reserved
    \/ running[s].kind = "invalidate"
    \/ \E k \in DOMAIN queue[s] : queue[s][k].kind = "invalidate"

(* A patch is installed as a whole, and only with a permit in hand for      *)
(* every session it moves; a refused patch moves none.                     *)
PatchIsAtomic ==
  [][\A s \in Sessions : config'[s] # config[s] =>
       s \in reserved /\ config' = next]_vars
=============================================================================
