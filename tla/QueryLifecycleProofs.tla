------------------------ MODULE QueryLifecycleProofs ------------------------
(***************************************************************************)
(* Theorems about QueryLifecycle, for every set of ids and sessions and    *)
(* every value of its bounds.                                              *)
(***************************************************************************)
EXTENDS QueryLifecycle, TLAPS

(* Types, in parts, with what the code relies on when it uses them: the     *)
(* handler the dispatcher is in has a query to handle, and so does a worker *)
(* that is not waiting for one.                                             *)
Handling == dpc \in {"admit", "send", "cancel", "cancel_settle",
                     "cancel_answer", "cancel_started"}
Busy(s) == wpc[s] \in {"run", "claim", "answer", "finish"}

LinesOK ==
  /\ n \in 0 .. MaxQueries
  /\ qid \in [Queries -> Ids]
  /\ qsession \in [Queries -> Sessions]
RecordsOK ==
  /\ phase \in [Queries -> Phases]
  /\ cancelled \subseteq Queries
  /\ claimed \subseteq Queries
  /\ answers \in [Queries -> Nat]
  /\ started \subseteq Queries
MapOK == inFlight \in [Ids -> Queries \cup {NoQuery}]
QueueOK == queue \in [Sessions -> Seq(Queries \cup {NoQuery})]
WorkerOK ==
  /\ wpc \in [Sessions -> {"recv", "run", "claim", "answer", "finish", "dead"}]
  /\ wq \in [Sessions -> Queries \cup {NoQuery}]
  /\ \A s \in Sessions : Busy(s) => wq[s] \in Queries
DispatcherOK ==
  /\ dpc \in {"read", "drain", "closed"} \/ Handling
  /\ dq \in Queries \cup {NoQuery}
  /\ Handling => dq \in Queries
  /\ dpc = "admit" => dq = n
  /\ late \in BOOLEAN

TypeInv ==
  LinesOK /\ RecordsOK /\ MapOK /\ QueueOK /\ WorkerOK /\ DispatcherOK

(* A channel holds queries and control operations; its head and its tail.   *)
LEMMA QueueEntries ==
  ASSUME QueueOK, NEW s \in Sessions
  PROVE  /\ \A k \in 1 .. Len(queue[s]) : queue[s][k] \in Queries \cup {NoQuery}
         /\ queue[s] # <<>> =>
              /\ Head(queue[s]) = queue[s][1]
              /\ 1 \in 1 .. Len(queue[s])
              /\ Len(Tail(queue[s])) = Len(queue[s]) - 1
              /\ \A k \in 1 .. Len(queue[s]) - 1 :
                   /\ Tail(queue[s])[k] = queue[s][k + 1]
                   /\ k + 1 \in 1 .. Len(queue[s])
<1> DEFINE Entry == Queries \cup {NoQuery}
<1>1. queue[s] \in Seq(Entry)
  BY DEF QueueOK
<1> HIDE DEF Entry
<1> QED BY <1>1 DEF Entry

(* The pipe starts with every variable in its type.                         *)
LEMMA InitTypeInv == Init => TypeInv
<1> SUFFICES ASSUME Init PROVE TypeInv
  OBVIOUS
<1>1. LinesOK
  BY LifecycleConstants DEF Init, LinesOK, Queries
<1>2. RecordsOK
  BY DEF Init, RecordsOK, Phases
<1>3. MapOK /\ QueueOK
  BY DEF Init, MapOK, QueueOK
<1>4. WorkerOK /\ DispatcherOK
  BY DEF Init, WorkerOK, DispatcherOK, Busy, Handling
<1> QED BY <1>1, <1>2, <1>3, <1>4 DEF TypeInv

(* No step of the dispatcher or of a worker leaves the types.               *)
LEMMA NextTypeInv == TypeInv /\ [Next]_vars => TypeInv'
<1> SUFFICES ASSUME TypeInv, [Next]_vars PROVE TypeInv'
  OBVIOUS
<1> USE DEF TypeInv, lines, queries, worker, dispatcher
<1>1. ASSUME NEW id \in Ids, NEW s \in Sessions, Submit(id, s) PROVE TypeInv'
  <2>1. RecordsOK' /\ QueueOK' /\ WorkerOK'
    BY <1>1 DEF Submit, RecordsOK, QueueOK, WorkerOK, Busy
  <2>2. LinesOK'
    BY <1>1, LifecycleConstants DEF Submit, Reap, Finished, LinesOK, Queries
  <2>3. MapOK'
    BY <1>1 DEF Submit, Reap, Finished, MapOK
  <2>4. DispatcherOK'
    BY <1>1, LifecycleConstants DEF Submit, Reap, Finished, DispatcherOK,
       Handling, LinesOK, Queries, NoQuery
  <2> QED BY <2>1, <2>2, <2>3, <2>4
<1>2. ASSUME NEW id \in Ids, CancelLookup(id) PROVE TypeInv'
  <2>1. LinesOK' /\ RecordsOK' /\ MapOK' /\ QueueOK' /\ WorkerOK'
    BY <1>2 DEF CancelLookup, LinesOK, RecordsOK, MapOK, QueueOK, WorkerOK,
       Busy
  <2>2. DispatcherOK'
    BY <1>2 DEF CancelLookup, DispatcherOK, Handling, MapOK
  <2> QED BY <2>1, <2>2
<1>3. ASSUME NEW s \in Sessions, SendControl(s) PROVE TypeInv'
  <2>1. LinesOK' /\ RecordsOK' /\ MapOK' /\ WorkerOK' /\ DispatcherOK'
    BY <1>3 DEF SendControl, LinesOK, RecordsOK, MapOK, WorkerOK, Busy,
       DispatcherOK, Handling
  <2>2. QueueOK'
    BY <1>3 DEF SendControl, QueueOK
  <2> QED BY <2>1, <2>2
<1>4. CASE Ping
  <2>1. LinesOK' /\ RecordsOK' /\ QueueOK' /\ WorkerOK' /\ DispatcherOK'
    BY <1>4 DEF Ping, LinesOK, RecordsOK, QueueOK, WorkerOK, Busy,
       DispatcherOK, Handling
  <2>2. MapOK'
    BY <1>4 DEF Ping, Reap, Finished, MapOK
  <2> QED BY <2>1, <2>2
<1>5. CASE StartShutdown
  <2>1. LinesOK' /\ RecordsOK' /\ MapOK' /\ QueueOK' /\ WorkerOK'
    BY <1>5 DEF StartShutdown, LinesOK, RecordsOK, MapOK, QueueOK, WorkerOK,
       Busy
  <2>2. DispatcherOK'
    BY <1>5 DEF StartShutdown, DispatcherOK, Handling
  <2> QED BY <2>1, <2>2
<1>6. CASE DeadlinePasses
  <2>1. LinesOK' /\ RecordsOK' /\ MapOK' /\ QueueOK' /\ WorkerOK'
    BY <1>6 DEF DeadlinePasses, LinesOK, RecordsOK, MapOK, QueueOK, WorkerOK,
       Busy
  <2>2. DispatcherOK'
    BY <1>6 DEF DeadlinePasses, DispatcherOK, Handling
  <2> QED BY <2>1, <2>2
<1>7. CASE Admit
  <2>1. LinesOK' /\ QueueOK' /\ WorkerOK'
    BY <1>7 DEF Admit, LinesOK, QueueOK, WorkerOK, Busy
  <2>2. RecordsOK'
    BY <1>7 DEF Admit, SetPhase, RecordsOK, DispatcherOK, Handling, Phases
  <2>3. MapOK'
    BY <1>7 DEF Admit, SetPhase, MapOK, DispatcherOK, Handling, LinesOK
  <2>4. DispatcherOK'
    BY <1>7 DEF Admit, SetPhase, DispatcherOK, Handling
  <2> QED BY <2>1, <2>2, <2>3, <2>4
<1>8. CASE Refuse
  <2>1. LinesOK' /\ QueueOK' /\ WorkerOK'
    BY <1>8 DEF Refuse, LinesOK, QueueOK, WorkerOK, Busy
  <2>2. RecordsOK'
    BY <1>8 DEF Refuse, SetPhase, Answer, Unmap, RecordsOK, DispatcherOK,
       Handling, Phases
  <2>3. MapOK'
    BY <1>8 DEF Refuse, SetPhase, Answer, Unmap, MapOK, DispatcherOK,
       Handling, LinesOK
  <2>4. DispatcherOK'
    BY <1>8 DEF Refuse, SetPhase, Answer, Unmap, DispatcherOK, Handling
  <2> QED BY <2>1, <2>2, <2>3, <2>4
<1>9. CASE Send
  <2>1. LinesOK' /\ RecordsOK' /\ MapOK' /\ WorkerOK'
    BY <1>9 DEF Send, LinesOK, RecordsOK, MapOK, WorkerOK, Busy
  <2>2. QueueOK'
    BY <1>9 DEF Send, QueueOK, DispatcherOK, Handling, LinesOK
  <2>3. DispatcherOK'
    BY <1>9 DEF Send, DispatcherOK, Handling
  <2> QED BY <2>1, <2>2, <2>3
<1>10. CASE SendFails
  <2>1. LinesOK' /\ QueueOK' /\ WorkerOK'
    BY <1>10 DEF SendFails, LinesOK, QueueOK, WorkerOK, Busy
  <2>2. RecordsOK'
    BY <1>10 DEF SendFails, SetPhase, Answer, Unmap, RecordsOK, DispatcherOK,
       Handling, Phases
  <2>3. MapOK'
    BY <1>10 DEF SendFails, SetPhase, Answer, Unmap, MapOK, DispatcherOK,
       Handling, LinesOK
  <2>4. DispatcherOK'
    BY <1>10 DEF SendFails, SetPhase, Answer, Unmap, DispatcherOK, Handling
  <2> QED BY <2>1, <2>2, <2>3, <2>4
<1>11. CASE CancelQueued
  <2>1. LinesOK' /\ MapOK' /\ QueueOK' /\ WorkerOK'
    BY <1>11 DEF CancelQueued, LinesOK, MapOK, QueueOK, WorkerOK, Busy
  <2>2. RecordsOK'
    BY <1>11 DEF CancelQueued, SetPhase, RecordsOK, DispatcherOK, Handling,
       Phases
  <2>3. DispatcherOK'
    BY <1>11 DEF CancelQueued, SetPhase, DispatcherOK, Handling
  <2> QED BY <2>1, <2>2, <2>3
<1>12. CASE CancelNotQueued
  <2>1. LinesOK' /\ RecordsOK' /\ MapOK' /\ QueueOK' /\ WorkerOK'
    BY <1>12 DEF CancelNotQueued, LinesOK, RecordsOK, MapOK, QueueOK,
       WorkerOK, Busy
  <2>2. DispatcherOK'
    BY <1>12 DEF CancelNotQueued, DispatcherOK, Handling
  <2> QED BY <2>1, <2>2
<1>13. CASE CancelSettle
  <2>1. LinesOK' /\ QueueOK' /\ WorkerOK'
    BY <1>13 DEF CancelSettle, LinesOK, QueueOK, WorkerOK, Busy
  <2>2. RecordsOK'
    BY <1>13 DEF CancelSettle, Unmap, RecordsOK, DispatcherOK, Handling,
       Phases
  <2>3. MapOK'
    BY <1>13 DEF CancelSettle, Unmap, MapOK, DispatcherOK, Handling, LinesOK
  <2>4. DispatcherOK'
    BY <1>13 DEF CancelSettle, Unmap, DispatcherOK, Handling
  <2> QED BY <2>1, <2>2, <2>3, <2>4
<1>14. CASE CancelAnswer
  <2>1. LinesOK' /\ MapOK' /\ QueueOK' /\ WorkerOK'
    BY <1>14 DEF CancelAnswer, LinesOK, MapOK, QueueOK, WorkerOK, Busy
  <2>2. RecordsOK'
    BY <1>14 DEF CancelAnswer, Answer, RecordsOK, DispatcherOK, Handling,
       Phases
  <2>3. DispatcherOK'
    BY <1>14 DEF CancelAnswer, Answer, DispatcherOK, Handling
  <2> QED BY <2>1, <2>2, <2>3
<1>15. CASE CancelStarted
  <2>1. LinesOK' /\ QueueOK' /\ WorkerOK'
    BY <1>15 DEF CancelStarted, LinesOK, QueueOK, WorkerOK, Busy
  <2>2. RecordsOK'
    BY <1>15 DEF CancelStarted, Unmap, RecordsOK, DispatcherOK, Handling,
       Phases
  <2>3. MapOK'
    BY <1>15 DEF CancelStarted, Unmap, MapOK, DispatcherOK, Handling, LinesOK
  <2>4. DispatcherOK'
    BY <1>15 DEF CancelStarted, Unmap, DispatcherOK, Handling
  <2> QED BY <2>1, <2>2, <2>3, <2>4
<1>16. CASE SendClose
  <2>1. LinesOK' /\ RecordsOK' /\ MapOK' /\ QueueOK' /\ WorkerOK'
    BY <1>16 DEF SendClose, LinesOK, RecordsOK, MapOK, QueueOK, WorkerOK, Busy
  <2>2. DispatcherOK'
    BY <1>16 DEF SendClose, DispatcherOK, Handling
  <2> QED BY <2>1, <2>2
<1>17. ASSUME NEW s \in Sessions, AbortWorker(s) PROVE TypeInv'
  <2>1. LinesOK' /\ RecordsOK' /\ MapOK' /\ DispatcherOK'
    BY <1>17 DEF AbortWorker, LinesOK, RecordsOK, MapOK, DispatcherOK,
       Handling
  <2>2. QueueOK'
    BY <1>17 DEF AbortWorker, QueueOK
  <2>3. WorkerOK'
    BY <1>17 DEF AbortWorker, WorkerOK, Busy
  <2> QED BY <2>1, <2>2, <2>3
<1>18. ASSUME NEW s \in Sessions, TakeOther(s) PROVE TypeInv'
  <2>1. LinesOK' /\ RecordsOK' /\ MapOK' /\ WorkerOK' /\ DispatcherOK'
    BY <1>18 DEF TakeOther, LinesOK, RecordsOK, MapOK, WorkerOK, Busy,
       DispatcherOK, Handling
  <2>2. QueueOK'
    BY <1>18 DEF TakeOther, Pop, QueueOK
  <2> QED BY <2>1, <2>2
<1>19. ASSUME NEW s \in Sessions, TakeQuery(s) PROVE TypeInv'
  <2>1. LinesOK' /\ MapOK' /\ DispatcherOK'
    BY <1>19 DEF TakeQuery, LinesOK, MapOK, DispatcherOK, Handling
  <2>2. RecordsOK'
    BY <1>19, QueueEntries DEF TakeQuery, Pop, SetPhase, RecordsOK, QueueOK,
       Phases
  <2>3. QueueOK'
    BY <1>19 DEF TakeQuery, Pop, SetPhase, QueueOK
  <2>4. WorkerOK'
    BY <1>19, QueueEntries DEF TakeQuery, Pop, SetPhase, WorkerOK, Busy,
       QueueOK
  <2> QED BY <2>1, <2>2, <2>3, <2>4
<1>20. ASSUME NEW s \in Sessions, RunRejected(s) PROVE TypeInv'
  <2>1. LinesOK' /\ RecordsOK' /\ MapOK' /\ QueueOK' /\ DispatcherOK'
    BY <1>20 DEF RunRejected, LinesOK, RecordsOK, MapOK, QueueOK,
       DispatcherOK, Handling
  <2>2. WorkerOK'
    BY <1>20 DEF RunRejected, WorkerGoto, WorkerOK, Busy
  <2> QED BY <2>1, <2>2
<1>21. ASSUME NEW s \in Sessions, Run(s) PROVE TypeInv'
  <2>1. LinesOK' /\ RecordsOK' /\ MapOK' /\ QueueOK' /\ DispatcherOK'
    BY <1>21 DEF Run, LinesOK, RecordsOK, MapOK, QueueOK, DispatcherOK,
       Handling
  <2>2. WorkerOK'
    BY <1>21 DEF Run, WorkerGoto, WorkerOK, Busy
  <2> QED BY <2>1, <2>2
<1>22. ASSUME NEW s \in Sessions, Claim(s) PROVE TypeInv'
  <2>1. LinesOK' /\ MapOK' /\ QueueOK' /\ DispatcherOK'
    BY <1>22 DEF Claim, LinesOK, MapOK, QueueOK, DispatcherOK, Handling
  <2>2. RecordsOK'
    BY <1>22 DEF Claim, WorkerGoto, RecordsOK, WorkerOK, Busy
  <2>3. WorkerOK'
    BY <1>22 DEF Claim, WorkerGoto, WorkerOK, Busy
  <2> QED BY <2>1, <2>2, <2>3
<1>23. ASSUME NEW s \in Sessions, WriteAnswer(s) PROVE TypeInv'
  <2>1. LinesOK' /\ MapOK' /\ QueueOK' /\ DispatcherOK'
    BY <1>23 DEF WriteAnswer, LinesOK, MapOK, QueueOK, DispatcherOK, Handling
  <2>2. RecordsOK'
    BY <1>23 DEF WriteAnswer, WorkerGoto, Answer, RecordsOK, WorkerOK, Busy
  <2>3. WorkerOK'
    BY <1>23 DEF WriteAnswer, WorkerGoto, Answer, WorkerOK, Busy
  <2> QED BY <2>1, <2>2, <2>3
<1>24. ASSUME NEW s \in Sessions, Finish(s) PROVE TypeInv'
  <2>1. LinesOK' /\ MapOK' /\ QueueOK' /\ DispatcherOK'
    BY <1>24 DEF Finish, LinesOK, MapOK, QueueOK, DispatcherOK, Handling
  <2>2. RecordsOK'
    BY <1>24 DEF Finish, SetPhase, RecordsOK, WorkerOK, Busy, Phases
  <2>3. WorkerOK'
    BY <1>24 DEF Finish, SetPhase, WorkerOK, Busy
  <2> QED BY <2>1, <2>2, <2>3
<1>25. ASSUME NEW s \in Sessions, WorkerDies(s) PROVE TypeInv'
  <2>1. LinesOK' /\ RecordsOK' /\ MapOK' /\ DispatcherOK'
    BY <1>25 DEF WorkerDies, LinesOK, RecordsOK, MapOK, DispatcherOK, Handling
  <2>2. QueueOK'
    BY <1>25 DEF WorkerDies, QueueOK
  <2>3. WorkerOK'
    BY <1>25 DEF WorkerDies, WorkerOK, Busy
  <2> QED BY <2>1, <2>2, <2>3
<1>26. CASE UNCHANGED vars
  BY <1>26 DEF vars, LinesOK, RecordsOK, MapOK, QueueOK, WorkerOK, Busy,
     DispatcherOK, Handling
<1> QED
  BY <1>1, <1>2, <1>3, <1>4, <1>5, <1>6, <1>7, <1>8, <1>9, <1>10, <1>11,
     <1>12, <1>13, <1>14, <1>15, <1>16, <1>17, <1>18, <1>19, <1>20, <1>21,
     <1>22, <1>23, <1>24, <1>25, <1>26 DEF Next, Caller, Dispatch, Work

(* Every variable keeps its type, in every behaviour of the pipe.           *)
THEOREM TypeCorrect == Spec => []TypeOK
<1>1. TypeInv => TypeOK
  BY DEF TypeInv, LinesOK, RecordsOK, MapOK, QueueOK, WorkerOK, DispatcherOK,
         Handling, TypeOK
<1> QED BY <1>1, InitTypeInv, NextTypeInv, PTL DEF Spec

-----------------------------------------------------------------------------
(* The inductive invariant.  A query that was not read has no state; one    *)
(* that is being handed over is in no queue, so no worker can have it.      *)
FreshInv ==
  /\ \A q \in Queries : q > n => phase[q] = "none"
  /\ dpc = "admit" => phase[dq] = "none"
  /\ dpc = "send" => phase[dq] = "queued"
QueueInv ==
  \A s \in Sessions : \A k \in 1 .. Len(queue[s]) :
    queue[s][k] # NoQuery =>
      phase[queue[s][k]] # "none" /\ (dpc = "send" => queue[s][k] # dq)
(* Before a query is started or cancelled nobody has spoken for it.         *)
SilentInv ==
  \A q \in Queries : phase[q] \in {"none", "queued"} =>
    answers[q] = 0 /\ q \notin claimed /\ q \notin started
(* The dispatcher owns what it cancelled until it has answered it ...       *)
SettleInv ==
  /\ dpc \in {"cancel_settle", "cancel_answer"} =>
       phase[dq] = "cancelled" /\ answers[dq] = 0
  /\ dpc = "cancel_settle" => dq \notin claimed
(* ... and a worker what it runs, alone.                                    *)
WorkInv ==
  \A s \in Sessions : Busy(s) =>
    /\ phase[wq[s]] = "running"
    /\ answers[wq[s]] = (IF wpc[s] = "finish" THEN 1 ELSE 0)
    /\ wpc[s] \in {"run", "claim"} => wq[s] \notin claimed
ApartInv ==
  \A s, t \in Sessions : s # t /\ Busy(s) /\ Busy(t) => wq[s] # wq[t]
DoneInv ==
  \A q \in Queries :
    /\ answers[q] <= 1
    /\ phase[q] = "finished" => answers[q] = 1
    /\ phase[q] = "cancelled" => q \notin started

SafetyInv ==
  /\ FreshInv /\ QueueInv /\ SilentInv /\ SettleInv
  /\ WorkInv /\ ApartInv /\ DoneInv

(* At the start there is no query.                                          *)
LEMMA InitSafetyInv == Init => SafetyInv
  BY DEF Init, SafetyInv, FreshInv, QueueInv, SilentInv, SettleInv, WorkInv,
         ApartInv, DoneInv, Busy

(* Every step keeps the inductive invariant.                                *)
LEMMA NextSafetyInv == TypeInv /\ SafetyInv /\ [Next]_vars => SafetyInv'
<1> SUFFICES ASSUME TypeInv, SafetyInv, [Next]_vars PROVE SafetyInv'
  OBVIOUS
<1> USE DEF TypeInv, SafetyInv, lines, queries, worker, dispatcher
<1>1. ASSUME NEW id \in Ids, NEW s \in Sessions, Submit(id, s) PROVE SafetyInv'
  <2>1. SilentInv' /\ WorkInv' /\ ApartInv' /\ DoneInv'
    BY <1>1 DEF Submit, SilentInv, WorkInv, Busy, ApartInv, DoneInv
  <2>2. FreshInv'
    BY <1>1, LifecycleConstants DEF Submit, Reap, Finished, FreshInv, LinesOK,
       Queries
  <2>3. QueueInv'
    BY <1>1 DEF Submit, Reap, Finished, QueueInv
  <2>4. SettleInv'
    BY <1>1 DEF Submit, Reap, Finished, SettleInv
  <2> QED BY <2>1, <2>2, <2>3, <2>4
<1>2. ASSUME NEW id \in Ids, CancelLookup(id) PROVE SafetyInv'
  <2>1. SilentInv' /\ WorkInv' /\ ApartInv' /\ DoneInv'
    BY <1>2 DEF CancelLookup, SilentInv, WorkInv, Busy, ApartInv, DoneInv
  <2>2. FreshInv'
    BY <1>2 DEF CancelLookup, FreshInv
  <2>3. QueueInv'
    BY <1>2 DEF CancelLookup, QueueInv
  <2>4. SettleInv'
    BY <1>2 DEF CancelLookup, SettleInv
  <2> QED BY <2>1, <2>2, <2>3, <2>4
<1>3. ASSUME NEW s \in Sessions, SendControl(s) PROVE SafetyInv'
  <2>1. FreshInv' /\ SilentInv' /\ SettleInv' /\ WorkInv' /\ ApartInv' /\
     DoneInv'
    BY <1>3 DEF SendControl, FreshInv, SilentInv, SettleInv, WorkInv, Busy,
       ApartInv, DoneInv
  <2>2. QueueInv'
    BY <1>3, QueueEntries DEF SendControl, QueueInv, QueueOK
  <2> QED BY <2>1, <2>2
<1>4. CASE Ping
  BY <1>4 DEF Ping, FreshInv, QueueInv, SilentInv, SettleInv, WorkInv, Busy,
     ApartInv, DoneInv
<1>5. CASE StartShutdown
  <2>1. SilentInv' /\ WorkInv' /\ ApartInv' /\ DoneInv'
    BY <1>5 DEF StartShutdown, SilentInv, WorkInv, Busy, ApartInv, DoneInv
  <2>2. FreshInv'
    BY <1>5 DEF StartShutdown, FreshInv
  <2>3. QueueInv'
    BY <1>5 DEF StartShutdown, QueueInv
  <2>4. SettleInv'
    BY <1>5 DEF StartShutdown, SettleInv
  <2> QED BY <2>1, <2>2, <2>3, <2>4
<1>6. CASE DeadlinePasses
  BY <1>6 DEF DeadlinePasses, FreshInv, QueueInv, SilentInv, SettleInv,
     WorkInv, Busy, ApartInv, DoneInv
<1>7. CASE Admit
  <2>1. ApartInv'
    BY <1>7 DEF Admit, ApartInv, Busy
  <2>2. FreshInv'
    BY <1>7 DEF Admit, SetPhase, FreshInv, RecordsOK, DispatcherOK, Handling,
       LinesOK, Queries
  <2>3. QueueInv'
    BY <1>7, QueueEntries DEF Admit, SetPhase, QueueInv, RecordsOK,
       DispatcherOK, Handling, FreshInv, QueueOK
  <2>4. SilentInv'
    BY <1>7 DEF Admit, SetPhase, SilentInv, RecordsOK, DispatcherOK, Handling,
       FreshInv
  <2>5. SettleInv'
    BY <1>7 DEF Admit, SetPhase, SettleInv, RecordsOK, DispatcherOK, Handling,
       FreshInv, SilentInv
  <2>6. WorkInv'
    BY <1>7 DEF Admit, SetPhase, WorkInv, Busy, RecordsOK, DispatcherOK,
       Handling, FreshInv, WorkerOK, SilentInv
  <2>7. DoneInv'
    BY <1>7 DEF Admit, SetPhase, DoneInv, RecordsOK, DispatcherOK, Handling,
       FreshInv, SilentInv
  <2> QED BY <2>1, <2>2, <2>3, <2>4, <2>5, <2>6, <2>7
<1>8. CASE Refuse
  <2>1. ApartInv'
    BY <1>8 DEF Refuse, ApartInv, Busy
  <2>2. FreshInv'
    BY <1>8 DEF Refuse, SetPhase, Answer, Unmap, FreshInv, RecordsOK,
       DispatcherOK, Handling, LinesOK, Queries
  <2>3. QueueInv'
    BY <1>8, QueueEntries DEF Refuse, SetPhase, Answer, Unmap, QueueInv,
       RecordsOK, DispatcherOK, Handling, FreshInv, QueueOK
  <2>4. SilentInv'
    BY <1>8 DEF Refuse, SetPhase, Answer, Unmap, SilentInv, RecordsOK,
       DispatcherOK, Handling, FreshInv
  <2>5. SettleInv'
    BY <1>8 DEF Refuse, SetPhase, Answer, Unmap, SettleInv, RecordsOK,
       DispatcherOK, Handling, FreshInv, SilentInv
  <2>6. WorkInv'
    BY <1>8 DEF Refuse, SetPhase, Answer, Unmap, WorkInv, Busy, RecordsOK,
       DispatcherOK, Handling, FreshInv, WorkerOK, SilentInv
  <2>7. DoneInv'
    BY <1>8 DEF Refuse, SetPhase, Answer, Unmap, DoneInv, RecordsOK,
       DispatcherOK, Handling, FreshInv, SilentInv
  <2> QED BY <2>1, <2>2, <2>3, <2>4, <2>5, <2>6, <2>7
<1>9. CASE Send
  <2>1. SilentInv' /\ WorkInv' /\ ApartInv' /\ DoneInv'
    BY <1>9 DEF Send, SilentInv, WorkInv, Busy, ApartInv, DoneInv
  <2>2. FreshInv'
    BY <1>9 DEF Send, FreshInv
  <2>3. QueueInv'
    BY <1>9, QueueEntries DEF Send, QueueInv, QueueOK, FreshInv, LinesOK,
       DispatcherOK, Handling
  <2>4. SettleInv'
    BY <1>9 DEF Send, SettleInv
  <2> QED BY <2>1, <2>2, <2>3, <2>4
<1>10. CASE SendFails
  <2>1. ApartInv'
    BY <1>10 DEF SendFails, ApartInv, Busy
  <2>2. FreshInv'
    BY <1>10 DEF SendFails, SetPhase, Answer, Unmap, FreshInv, RecordsOK,
       DispatcherOK, Handling, LinesOK, Queries
  <2>3. QueueInv'
    BY <1>10, QueueEntries DEF SendFails, SetPhase, Answer, Unmap, QueueInv,
       RecordsOK, DispatcherOK, Handling, FreshInv, QueueOK
  <2>4. SilentInv'
    BY <1>10 DEF SendFails, SetPhase, Answer, Unmap, SilentInv, RecordsOK,
       DispatcherOK, Handling, FreshInv
  <2>5. SettleInv'
    BY <1>10 DEF SendFails, SetPhase, Answer, Unmap, SettleInv, RecordsOK,
       DispatcherOK, Handling, FreshInv, SilentInv
  <2>6. WorkInv'
    BY <1>10 DEF SendFails, SetPhase, Answer, Unmap, WorkInv, Busy, RecordsOK,
       DispatcherOK, Handling, FreshInv, WorkerOK, SilentInv
  <2>7. DoneInv'
    BY <1>10 DEF SendFails, SetPhase, Answer, Unmap, DoneInv, RecordsOK,
       DispatcherOK, Handling, FreshInv, SilentInv
  <2> QED BY <2>1, <2>2, <2>3, <2>4, <2>5, <2>6, <2>7
<1>11. CASE CancelQueued
  <2>1. ApartInv'
    BY <1>11 DEF CancelQueued, ApartInv, Busy
  <2>2. FreshInv'
    BY <1>11 DEF CancelQueued, SetPhase, FreshInv, RecordsOK, DispatcherOK,
       Handling, LinesOK, Queries
  <2>3. QueueInv'
    BY <1>11, QueueEntries DEF CancelQueued, SetPhase, QueueInv, RecordsOK,
       DispatcherOK, Handling, QueueOK
  <2>4. SilentInv'
    BY <1>11 DEF CancelQueued, SetPhase, SilentInv, RecordsOK, DispatcherOK,
       Handling
  <2>5. SettleInv'
    BY <1>11 DEF CancelQueued, SetPhase, SettleInv, RecordsOK, DispatcherOK,
       Handling, SilentInv
  <2>6. WorkInv'
    BY <1>11 DEF CancelQueued, SetPhase, WorkInv, Busy, RecordsOK,
       DispatcherOK, Handling, WorkerOK, SilentInv
  <2>7. DoneInv'
    BY <1>11 DEF CancelQueued, SetPhase, DoneInv, RecordsOK, DispatcherOK,
       Handling, SilentInv
  <2> QED BY <2>1, <2>2, <2>3, <2>4, <2>5, <2>6, <2>7
<1>12. CASE CancelNotQueued
  <2>1. SilentInv' /\ WorkInv' /\ ApartInv' /\ DoneInv'
    BY <1>12 DEF CancelNotQueued, SilentInv, WorkInv, Busy, ApartInv, DoneInv
  <2>2. FreshInv'
    BY <1>12 DEF CancelNotQueued, FreshInv
  <2>3. QueueInv'
    BY <1>12 DEF CancelNotQueued, QueueInv
  <2>4. SettleInv'
    BY <1>12 DEF CancelNotQueued, SettleInv
  <2> QED BY <2>1, <2>2, <2>3, <2>4
<1>13. CASE CancelSettle
  <2>1. ApartInv' /\ DoneInv'
    BY <1>13 DEF CancelSettle, ApartInv, Busy, DoneInv
  <2>2. FreshInv'
    BY <1>13 DEF CancelSettle, Unmap, FreshInv, RecordsOK, DispatcherOK,
       Handling, SettleInv, LinesOK, Queries
  <2>3. QueueInv'
    BY <1>13, QueueEntries DEF CancelSettle, Unmap, QueueInv, RecordsOK,
       DispatcherOK, Handling, SettleInv, QueueOK
  <2>4. SilentInv'
    BY <1>13 DEF CancelSettle, Unmap, SilentInv, RecordsOK, DispatcherOK,
       Handling, SettleInv
  <2>5. SettleInv'
    BY <1>13 DEF CancelSettle, Unmap, SettleInv, RecordsOK, DispatcherOK,
       Handling, SilentInv
  <2>6. WorkInv'
    BY <1>13 DEF CancelSettle, Unmap, WorkInv, Busy, RecordsOK, DispatcherOK,
       Handling, SettleInv, WorkerOK, SilentInv
  <2> QED BY <2>1, <2>2, <2>3, <2>4, <2>5, <2>6
<1>14. CASE CancelAnswer
  <2>1. ApartInv'
    BY <1>14 DEF CancelAnswer, ApartInv, Busy
  <2>2. FreshInv'
    BY <1>14 DEF CancelAnswer, Answer, FreshInv, RecordsOK, DispatcherOK,
       Handling, SettleInv, LinesOK, Queries
  <2>3. QueueInv'
    BY <1>14, QueueEntries DEF CancelAnswer, Answer, QueueInv, RecordsOK,
       DispatcherOK, Handling, SettleInv, QueueOK
  <2>4. SilentInv'
    BY <1>14 DEF CancelAnswer, Answer, SilentInv, RecordsOK, DispatcherOK,
       Handling, SettleInv
  <2>5. SettleInv'
    BY <1>14 DEF CancelAnswer, Answer, SettleInv, RecordsOK, DispatcherOK,
       Handling, SilentInv
  <2>6. WorkInv'
    BY <1>14 DEF CancelAnswer, Answer, WorkInv, Busy, RecordsOK, DispatcherOK,
       Handling, SettleInv, WorkerOK, SilentInv
  <2>7. DoneInv'
    BY <1>14 DEF CancelAnswer, Answer, DoneInv, RecordsOK, DispatcherOK,
       Handling, SettleInv, SilentInv
  <2> QED BY <2>1, <2>2, <2>3, <2>4, <2>5, <2>6, <2>7
<1>15. CASE CancelStarted
  <2>1. SilentInv' /\ WorkInv' /\ ApartInv' /\ DoneInv'
    BY <1>15 DEF CancelStarted, SilentInv, WorkInv, Busy, ApartInv, DoneInv
  <2>2. FreshInv'
    BY <1>15 DEF CancelStarted, Unmap, FreshInv, RecordsOK, DispatcherOK,
       Handling, LinesOK, Queries
  <2>3. QueueInv'
    BY <1>15, QueueEntries DEF CancelStarted, Unmap, QueueInv, RecordsOK,
       DispatcherOK, Handling, QueueOK
  <2>4. SettleInv'
    BY <1>15 DEF CancelStarted, Unmap, SettleInv, RecordsOK, DispatcherOK,
       Handling, SilentInv
  <2> QED BY <2>1, <2>2, <2>3, <2>4
<1>16. CASE SendClose
  <2>1. SilentInv' /\ WorkInv' /\ ApartInv' /\ DoneInv'
    BY <1>16 DEF SendClose, SilentInv, WorkInv, Busy, ApartInv, DoneInv
  <2>2. FreshInv'
    BY <1>16 DEF SendClose, FreshInv
  <2>3. QueueInv'
    BY <1>16 DEF SendClose, QueueInv
  <2>4. SettleInv'
    BY <1>16 DEF SendClose, SettleInv
  <2> QED BY <2>1, <2>2, <2>3, <2>4
<1>17. ASSUME NEW s \in Sessions, AbortWorker(s) PROVE SafetyInv'
  <2>1. FreshInv' /\ SilentInv' /\ SettleInv' /\ DoneInv'
    BY <1>17 DEF AbortWorker, FreshInv, SilentInv, SettleInv, DoneInv
  <2>2. QueueInv'
    BY <1>17 DEF AbortWorker, QueueInv
  <2>3. WorkInv'
    BY <1>17 DEF AbortWorker, WorkInv, Busy, WorkerOK
  <2>4. ApartInv'
    BY <1>17 DEF AbortWorker, ApartInv, Busy, WorkerOK
  <2> QED BY <2>1, <2>2, <2>3, <2>4
<1>18. ASSUME NEW s \in Sessions, TakeOther(s) PROVE SafetyInv'
  <2>1. FreshInv' /\ SilentInv' /\ SettleInv' /\ WorkInv' /\ ApartInv' /\
     DoneInv'
    BY <1>18 DEF TakeOther, FreshInv, SilentInv, SettleInv, WorkInv, Busy,
       ApartInv, DoneInv
  <2>2. QueueInv'
    BY <1>18, QueueEntries DEF TakeOther, Pop, QueueInv, QueueOK
  <2> QED BY <2>1, <2>2
<1>19. ASSUME NEW s \in Sessions, TakeQuery(s) PROVE SafetyInv'
  <2>1. FreshInv'
    BY <1>19, QueueEntries DEF TakeQuery, Pop, SetPhase, FreshInv, RecordsOK,
       QueueOK, QueueInv, DispatcherOK, Handling
  <2>2. QueueInv'
    BY <1>19, QueueEntries DEF TakeQuery, Pop, SetPhase, QueueInv, RecordsOK,
       QueueOK
  <2>3. SilentInv'
    BY <1>19, QueueEntries DEF TakeQuery, Pop, SetPhase, SilentInv, RecordsOK,
       QueueOK
  <2>4. SettleInv'
    BY <1>19, QueueEntries DEF TakeQuery, Pop, SetPhase, SettleInv, RecordsOK,
       QueueOK, DispatcherOK, Handling
  <2>5. WorkInv'
    BY <1>19, QueueEntries DEF TakeQuery, Pop, SetPhase, WorkInv, Busy,
       RecordsOK, QueueOK, WorkerOK, SilentInv
  <2>6. ApartInv'
    BY <1>19, QueueEntries DEF TakeQuery, Pop, SetPhase, ApartInv, Busy,
       RecordsOK, QueueOK, WorkerOK, WorkInv
  <2>7. DoneInv'
    BY <1>19, QueueEntries DEF TakeQuery, Pop, SetPhase, DoneInv, RecordsOK,
       QueueOK, SilentInv
  <2> QED BY <2>1, <2>2, <2>3, <2>4, <2>5, <2>6, <2>7
<1>20. ASSUME NEW s \in Sessions, RunRejected(s) PROVE SafetyInv'
  <2>1. FreshInv' /\ QueueInv' /\ SilentInv' /\ SettleInv' /\ DoneInv'
    BY <1>20 DEF RunRejected, FreshInv, QueueInv, SilentInv, SettleInv,
       DoneInv
  <2>2. WorkInv'
    BY <1>20 DEF RunRejected, WorkerGoto, WorkInv, Busy
  <2>3. ApartInv'
    BY <1>20 DEF RunRejected, WorkerGoto, ApartInv, Busy
  <2> QED BY <2>1, <2>2, <2>3
<1>21. ASSUME NEW s \in Sessions, Run(s) PROVE SafetyInv'
  <2>1. FreshInv' /\ QueueInv' /\ SilentInv' /\ SettleInv' /\ DoneInv'
    BY <1>21 DEF Run, FreshInv, QueueInv, SilentInv, SettleInv, DoneInv
  <2>2. WorkInv'
    BY <1>21 DEF Run, WorkerGoto, WorkInv, Busy
  <2>3. ApartInv'
    BY <1>21 DEF Run, WorkerGoto, ApartInv, Busy
  <2> QED BY <2>1, <2>2, <2>3
<1>22. ASSUME NEW s \in Sessions, Claim(s) PROVE SafetyInv'
  <2>1. FreshInv' /\ QueueInv' /\ DoneInv'
    BY <1>22 DEF Claim, FreshInv, QueueInv, DoneInv
  <2>2. SilentInv'
    BY <1>22 DEF Claim, WorkerGoto, SilentInv, RecordsOK, WorkerOK, Busy,
       WorkInv
  <2>3. SettleInv'
    BY <1>22 DEF Claim, WorkerGoto, SettleInv, RecordsOK, WorkerOK, Busy,
       WorkInv, DispatcherOK, Handling
  <2>4. WorkInv'
    BY <1>22 DEF Claim, WorkerGoto, WorkInv, Busy, RecordsOK, WorkerOK,
       ApartInv
  <2>5. ApartInv'
    BY <1>22 DEF Claim, WorkerGoto, ApartInv, Busy, RecordsOK, WorkerOK,
       WorkInv
  <2> QED BY <2>1, <2>2, <2>3, <2>4, <2>5
<1>23. ASSUME NEW s \in Sessions, WriteAnswer(s) PROVE SafetyInv'
  <2>1. FreshInv' /\ QueueInv'
    BY <1>23 DEF WriteAnswer, FreshInv, QueueInv
  <2>2. SilentInv'
    BY <1>23 DEF WriteAnswer, WorkerGoto, Answer, SilentInv, RecordsOK,
       WorkerOK, Busy, WorkInv
  <2>3. SettleInv'
    BY <1>23 DEF WriteAnswer, WorkerGoto, Answer, SettleInv, RecordsOK,
       WorkerOK, Busy, WorkInv, DispatcherOK, Handling
  <2>4. WorkInv'
    BY <1>23 DEF WriteAnswer, WorkerGoto, Answer, WorkInv, Busy, RecordsOK,
       WorkerOK, ApartInv
  <2>5. ApartInv'
    BY <1>23 DEF WriteAnswer, WorkerGoto, Answer, ApartInv, Busy, RecordsOK,
       WorkerOK, WorkInv
  <2>6. DoneInv'
    BY <1>23 DEF WriteAnswer, WorkerGoto, Answer, DoneInv, RecordsOK,
       WorkerOK, Busy, WorkInv
  <2> QED BY <2>1, <2>2, <2>3, <2>4, <2>5, <2>6
<1>24. ASSUME NEW s \in Sessions, Finish(s) PROVE SafetyInv'
  <2>1. FreshInv'
    BY <1>24 DEF Finish, SetPhase, FreshInv, RecordsOK, WorkerOK, Busy,
       WorkInv, DispatcherOK, Handling
  <2>2. QueueInv'
    BY <1>24, QueueEntries DEF Finish, SetPhase, QueueInv, RecordsOK,
       WorkerOK, Busy, WorkInv, QueueOK
  <2>3. SilentInv'
    BY <1>24 DEF Finish, SetPhase, SilentInv, RecordsOK, WorkerOK, Busy,
       WorkInv
  <2>4. SettleInv'
    BY <1>24 DEF Finish, SetPhase, SettleInv, RecordsOK, WorkerOK, Busy,
       WorkInv, DispatcherOK, Handling
  <2>5. WorkInv'
    BY <1>24 DEF Finish, SetPhase, WorkInv, Busy, RecordsOK, WorkerOK,
       ApartInv
  <2>6. ApartInv'
    BY <1>24 DEF Finish, SetPhase, ApartInv, Busy, RecordsOK, WorkerOK,
       WorkInv
  <2>7. DoneInv'
    BY <1>24 DEF Finish, SetPhase, DoneInv, RecordsOK, WorkerOK, Busy, WorkInv
  <2> QED BY <2>1, <2>2, <2>3, <2>4, <2>5, <2>6, <2>7
<1>25. ASSUME NEW s \in Sessions, WorkerDies(s) PROVE SafetyInv'
  <2>1. FreshInv' /\ SilentInv' /\ SettleInv' /\ DoneInv'
    BY <1>25 DEF WorkerDies, FreshInv, SilentInv, SettleInv, DoneInv
  <2>2. QueueInv'
    BY <1>25 DEF WorkerDies, QueueInv
  <2>3. WorkInv'
    BY <1>25 DEF WorkerDies, WorkInv, Busy, WorkerOK
  <2>4. ApartInv'
    BY <1>25 DEF WorkerDies, ApartInv, Busy, WorkerOK
  <2> QED BY <2>1, <2>2, <2>3, <2>4
<1>26. CASE UNCHANGED vars
  BY <1>26 DEF vars, FreshInv, QueueInv, SilentInv, SettleInv, WorkInv, Busy,
     ApartInv, DoneInv
<1> QED
  BY <1>1, <1>2, <1>3, <1>4, <1>5, <1>6, <1>7, <1>8, <1>9, <1>10, <1>11,
     <1>12, <1>13, <1>14, <1>15, <1>16, <1>17, <1>18, <1>19, <1>20, <1>21,
     <1>22, <1>23, <1>24, <1>25, <1>26 DEF Next, Caller, Dispatch, Work

LEMMA SafetyAlways == Spec => []SafetyInv
  BY InitTypeInv, NextTypeInv, InitSafetyInv, NextSafetyInv, PTL DEF Spec

(* A query is answered at most once, whoever of the worker, the dispatcher  *)
(* and a cancel comes first; one that is finished was answered.             *)
THEOREM AnswersAreTrue == Spec => [](AtMostOneAnswer /\ FinishedMeansAnswered)
<1>1. SafetyInv => AtMostOneAnswer /\ FinishedMeansAnswered
  BY DEF SafetyInv, DoneInv, AtMostOneAnswer, FinishedMeansAnswered
<1> QED BY <1>1, SafetyAlways, PTL

(* A query that dispatch_cancel took while it was queued never reaches the  *)
(* executor, although it stays in its session's channel (try_start).        *)
THEOREM CancelledIsNeverSent == Spec => []CancelledNeverStarted
<1>1. SafetyInv => CancelledNeverStarted
  BY DEF SafetyInv, DoneInv, CancelledNeverStarted
<1> QED BY <1>1, SafetyAlways, PTL

-----------------------------------------------------------------------------
(* What in_flight holds: an id stands for a query that bears it ...         *)
HeldInv ==
  \A id \in Ids : inFlight[id] # NoQuery =>
    qid[inFlight[id]] = id /\ phase[inFlight[id]] # "none"
(* ... dispatch_cancel handles the query it looked up until it takes it out *)
HandInv ==
  /\ dpc \in {"cancel", "cancel_settle", "cancel_started"}
     => inFlight[qid[dq]] = dq
  /\ dpc = "cancel_answer" => inFlight[qid[dq]] = NoQuery
(* ... and only it has a cancelled query that is not answered.              *)
LimboInv ==
  \A q \in Queries : phase[q] = "cancelled" /\ answers[q] = 0 =>
    dpc \in {"cancel_settle", "cancel_answer"} /\ dq = q

ReachInv == HeldInv /\ HandInv /\ LimboInv /\ OpenIsReachable

(* At the start in_flight is empty.                                         *)
LEMMA InitReachInv == Init => ReachInv
  BY DEF Init, ReachInv, HeldInv, HandInv, LimboInv, OpenIsReachable, Accepted

(* Every step keeps in_flight in agreement with the queries.                *)
LEMMA NextReachInv ==
  TypeInv /\ SafetyInv /\ ReachInv /\ [Next]_vars => ReachInv'
<1> SUFFICES ASSUME TypeInv, SafetyInv, ReachInv, [Next]_vars PROVE ReachInv'
  OBVIOUS
<1> USE DEF TypeInv, SafetyInv, ReachInv, lines, queries, worker, dispatcher
<1>1. ASSUME NEW id \in Ids, NEW s \in Sessions, Submit(id, s) PROVE ReachInv'
  <2>1. HeldInv'
    BY <1>1, LifecycleConstants DEF Submit, Reap, Finished, HeldInv, MapOK,
       LinesOK, FreshInv, Queries, NoQuery, RecordsOK
  <2>2. HandInv'
    BY <1>1 DEF Submit, Reap, Finished, HandInv
  <2>3. LimboInv'
    BY <1>1 DEF Submit, Reap, Finished, LimboInv
  <2>4. OpenIsReachable'
    BY <1>1, LifecycleConstants DEF Submit, Reap, Finished, OpenIsReachable,
       Accepted, LinesOK, RecordsOK, FreshInv, MapOK, Queries, NoQuery,
       LimboInv, DoneInv
  <2> QED BY <2>1, <2>2, <2>3, <2>4
<1>2. ASSUME NEW id \in Ids, CancelLookup(id) PROVE ReachInv'
  <2>1. HeldInv'
    BY <1>2 DEF CancelLookup, HeldInv
  <2>2. HandInv'
    BY <1>2 DEF CancelLookup, HandInv, MapOK, HeldInv
  <2>3. LimboInv'
    BY <1>2 DEF CancelLookup, LimboInv, MapOK, HeldInv
  <2>4. OpenIsReachable'
    BY <1>2 DEF CancelLookup, OpenIsReachable, Accepted, MapOK, HeldInv
  <2> QED BY <2>1, <2>2, <2>3, <2>4
<1>3. ASSUME NEW s \in Sessions, SendControl(s) PROVE ReachInv'
  BY <1>3 DEF SendControl, HeldInv, HandInv, LimboInv, OpenIsReachable,
     Accepted
<1>4. CASE Ping
  <2>1. LimboInv'
    BY <1>4 DEF Ping, LimboInv
  <2>2. HeldInv'
    BY <1>4 DEF Ping, Reap, Finished, HeldInv, MapOK
  <2>3. HandInv'
    BY <1>4 DEF Ping, Reap, Finished, HandInv
  <2>4. OpenIsReachable'
    BY <1>4 DEF Ping, Reap, Finished, OpenIsReachable, Accepted, LimboInv,
       DoneInv, LinesOK, RecordsOK
  <2> QED BY <2>1, <2>2, <2>3, <2>4
<1>5. CASE StartShutdown
  <2>1. HeldInv'
    BY <1>5 DEF StartShutdown, HeldInv
  <2>2. HandInv'
    BY <1>5 DEF StartShutdown, HandInv, DispatcherOK, Handling
  <2>3. LimboInv'
    BY <1>5 DEF StartShutdown, LimboInv, DispatcherOK, Handling
  <2>4. OpenIsReachable'
    BY <1>5 DEF StartShutdown, OpenIsReachable, Accepted, DispatcherOK,
       Handling
  <2> QED BY <2>1, <2>2, <2>3, <2>4
<1>6. CASE DeadlinePasses
  BY <1>6 DEF DeadlinePasses, HeldInv, HandInv, LimboInv, OpenIsReachable,
     Accepted
<1>7. CASE Admit
  <2>1. HeldInv'
    BY <1>7 DEF Admit, SetPhase, HeldInv, MapOK, RecordsOK, LinesOK, HandInv,
       LimboInv, Accepted, Finished, DispatcherOK, Handling, FreshInv,
       SilentInv
  <2>2. HandInv'
    BY <1>7 DEF Admit, SetPhase, HandInv, MapOK, RecordsOK, LinesOK, HeldInv,
       LimboInv, Accepted, Finished, DispatcherOK, Handling, FreshInv,
       SilentInv, SettleInv, DoneInv
  <2>3. LimboInv'
    BY <1>7 DEF Admit, SetPhase, LimboInv, MapOK, RecordsOK, LinesOK, HeldInv,
       HandInv, Accepted, Finished, DispatcherOK, Handling, FreshInv,
       SilentInv, SettleInv, DoneInv
  <2>4. OpenIsReachable'
    BY <1>7, LifecycleConstants DEF Admit, SetPhase, OpenIsReachable,
       Accepted, MapOK, RecordsOK, LinesOK, HeldInv, HandInv, LimboInv,
       Finished, DispatcherOK, Handling, FreshInv, SilentInv, SettleInv,
       DoneInv, Admissible, Taken, Queries, NoQuery
  <2> QED BY <2>1, <2>2, <2>3, <2>4
<1>8. CASE Refuse
  <2>1. HeldInv'
    BY <1>8 DEF Refuse, SetPhase, Answer, Unmap, HeldInv, MapOK, RecordsOK,
       LinesOK, HandInv, LimboInv, Accepted, Finished, DispatcherOK, Handling,
       FreshInv, SilentInv
  <2>2. HandInv'
    BY <1>8 DEF Refuse, SetPhase, Answer, Unmap, HandInv, MapOK, RecordsOK,
       LinesOK, HeldInv, LimboInv, Accepted, Finished, DispatcherOK, Handling,
       FreshInv, SilentInv, SettleInv, DoneInv
  <2>3. LimboInv'
    BY <1>8 DEF Refuse, SetPhase, Answer, Unmap, LimboInv, MapOK, RecordsOK,
       LinesOK, HeldInv, HandInv, Accepted, Finished, DispatcherOK, Handling,
       FreshInv, SilentInv, SettleInv, DoneInv
  <2>4. OpenIsReachable'
    BY <1>8 DEF Refuse, SetPhase, Answer, Unmap, OpenIsReachable, Accepted,
       MapOK, RecordsOK, LinesOK, HeldInv, HandInv, LimboInv, Finished,
       DispatcherOK, Handling, FreshInv, SilentInv, SettleInv, DoneInv,
       Admissible, Taken
  <2> QED BY <2>1, <2>2, <2>3, <2>4
<1>9. CASE Send
  <2>1. HeldInv'
    BY <1>9 DEF Send, HeldInv
  <2>2. HandInv'
    BY <1>9 DEF Send, HandInv, MapOK, RecordsOK, LinesOK, HeldInv, LimboInv,
       Accepted, Finished, DispatcherOK, Handling, SettleInv, DoneInv
  <2>3. LimboInv'
    BY <1>9 DEF Send, LimboInv, MapOK, RecordsOK, LinesOK, HeldInv, HandInv,
       Accepted, Finished, DispatcherOK, Handling, SettleInv, DoneInv
  <2>4. OpenIsReachable'
    BY <1>9 DEF Send, OpenIsReachable, Accepted, MapOK, RecordsOK, LinesOK,
       HeldInv, HandInv, LimboInv, Finished, DispatcherOK, Handling,
       SettleInv, DoneInv, SilentInv, Admissible, Taken
  <2> QED BY <2>1, <2>2, <2>3, <2>4
<1>10. CASE SendFails
  <2>1. HeldInv'
    BY <1>10 DEF SendFails, SetPhase, Answer, Unmap, HeldInv, MapOK,
       RecordsOK, LinesOK, HandInv, LimboInv, Accepted, Finished,
       DispatcherOK, Handling, FreshInv, SilentInv, OpenIsReachable
  <2>2. HandInv'
    BY <1>10 DEF SendFails, SetPhase, Answer, Unmap, HandInv, MapOK,
       RecordsOK, LinesOK, HeldInv, LimboInv, Accepted, Finished,
       DispatcherOK, Handling, FreshInv, SilentInv, SettleInv, DoneInv,
       OpenIsReachable
  <2>3. LimboInv'
    BY <1>10 DEF SendFails, SetPhase, Answer, Unmap, LimboInv, MapOK,
       RecordsOK, LinesOK, HeldInv, HandInv, Accepted, Finished, DispatcherOK,
       Handling, FreshInv, SilentInv, SettleInv, DoneInv, OpenIsReachable
  <2>4. OpenIsReachable'
    BY <1>10 DEF SendFails, SetPhase, Answer, Unmap, OpenIsReachable,
       Accepted, MapOK, RecordsOK, LinesOK, HeldInv, HandInv, LimboInv,
       Finished, DispatcherOK, Handling, FreshInv, SilentInv, SettleInv,
       DoneInv, Admissible, Taken
  <2> QED BY <2>1, <2>2, <2>3, <2>4
<1>11. CASE CancelQueued
  <2>1. HeldInv'
    BY <1>11 DEF CancelQueued, SetPhase, HeldInv, MapOK, RecordsOK, LinesOK,
       HandInv, LimboInv, Accepted, Finished, DispatcherOK, Handling,
       SettleInv, DoneInv
  <2>2. HandInv'
    BY <1>11 DEF CancelQueued, SetPhase, HandInv, MapOK, RecordsOK, LinesOK,
       HeldInv, LimboInv, Accepted, Finished, DispatcherOK, Handling,
       SettleInv, DoneInv
  <2>3. LimboInv'
    BY <1>11 DEF CancelQueued, SetPhase, LimboInv, MapOK, RecordsOK, LinesOK,
       HeldInv, HandInv, Accepted, Finished, DispatcherOK, Handling,
       SettleInv, DoneInv
  <2>4. OpenIsReachable'
    BY <1>11 DEF CancelQueued, SetPhase, OpenIsReachable, Accepted, MapOK,
       RecordsOK, LinesOK, HeldInv, HandInv, LimboInv, Finished, DispatcherOK,
       Handling, SettleInv, DoneInv, SilentInv, Admissible, Taken
  <2> QED BY <2>1, <2>2, <2>3, <2>4
<1>12. CASE CancelNotQueued
  <2>1. HeldInv'
    BY <1>12 DEF CancelNotQueued, HeldInv
  <2>2. HandInv'
    BY <1>12 DEF CancelNotQueued, HandInv, DispatcherOK, Handling
  <2>3. LimboInv'
    BY <1>12 DEF CancelNotQueued, LimboInv, DispatcherOK, Handling
  <2>4. OpenIsReachable'
    BY <1>12 DEF CancelNotQueued, OpenIsReachable, Accepted, DispatcherOK,
       Handling
  <2> QED BY <2>1, <2>2, <2>3, <2>4
<1>13. CASE CancelSettle
  <2>1. HeldInv'
    BY <1>13 DEF CancelSettle, Unmap, HeldInv, MapOK, RecordsOK, LinesOK,
       HandInv, LimboInv, Accepted, Finished, DispatcherOK, Handling,
       OpenIsReachable, SilentInv
  <2>2. HandInv'
    BY <1>13 DEF CancelSettle, Unmap, HandInv, MapOK, RecordsOK, LinesOK,
       HeldInv, LimboInv, Accepted, Finished, DispatcherOK, Handling,
       SettleInv, DoneInv, OpenIsReachable, SilentInv
  <2>3. LimboInv'
    BY <1>13 DEF CancelSettle, Unmap, LimboInv, MapOK, RecordsOK, LinesOK,
       HeldInv, HandInv, Accepted, Finished, DispatcherOK, Handling,
       SettleInv, DoneInv, OpenIsReachable, SilentInv
  <2>4. OpenIsReachable'
    BY <1>13 DEF CancelSettle, Unmap, OpenIsReachable, Accepted, MapOK,
       RecordsOK, LinesOK, HeldInv, HandInv, LimboInv, Finished, DispatcherOK,
       Handling, SettleInv, DoneInv, SilentInv, Admissible, Taken
  <2> QED BY <2>1, <2>2, <2>3, <2>4
<1>14. CASE CancelAnswer
  <2>1. HeldInv'
    BY <1>14 DEF CancelAnswer, HeldInv
  <2>2. HandInv'
    BY <1>14 DEF CancelAnswer, Answer, HandInv, MapOK, RecordsOK, LinesOK,
       HeldInv, LimboInv, Accepted, Finished, DispatcherOK, Handling,
       SettleInv, DoneInv
  <2>3. LimboInv'
    BY <1>14 DEF CancelAnswer, Answer, LimboInv, MapOK, RecordsOK, LinesOK,
       HeldInv, HandInv, Accepted, Finished, DispatcherOK, Handling,
       SettleInv, DoneInv
  <2>4. OpenIsReachable'
    BY <1>14 DEF CancelAnswer, Answer, OpenIsReachable, Accepted, MapOK,
       RecordsOK, LinesOK, HeldInv, HandInv, LimboInv, Finished, DispatcherOK,
       Handling, SettleInv, DoneInv, SilentInv, Admissible, Taken
  <2> QED BY <2>1, <2>2, <2>3, <2>4
<1>15. CASE CancelStarted
  <2>1. HeldInv'
    BY <1>15 DEF CancelStarted, Unmap, HeldInv, MapOK, RecordsOK, LinesOK,
       HandInv, LimboInv, Accepted, Finished, DispatcherOK, Handling
  <2>2. HandInv'
    BY <1>15 DEF CancelStarted, Unmap, HandInv, MapOK, RecordsOK, LinesOK,
       HeldInv, LimboInv, Accepted, Finished, DispatcherOK, Handling,
       SettleInv, DoneInv
  <2>3. LimboInv'
    BY <1>15 DEF CancelStarted, Unmap, LimboInv, MapOK, RecordsOK, LinesOK,
       HeldInv, HandInv, Accepted, Finished, DispatcherOK, Handling,
       SettleInv, DoneInv
  <2>4. OpenIsReachable'
    BY <1>15 DEF CancelStarted, Unmap, OpenIsReachable, Accepted, MapOK,
       RecordsOK, LinesOK, HeldInv, HandInv, LimboInv, Finished, DispatcherOK,
       Handling, SettleInv, DoneInv, SilentInv, Admissible, Taken
  <2> QED BY <2>1, <2>2, <2>3, <2>4
<1>16. CASE SendClose
  <2>1. HeldInv'
    BY <1>16 DEF SendClose, HeldInv
  <2>2. HandInv'
    BY <1>16 DEF SendClose, HandInv, DispatcherOK, Handling
  <2>3. LimboInv'
    BY <1>16 DEF SendClose, LimboInv, DispatcherOK, Handling
  <2>4. OpenIsReachable'
    BY <1>16 DEF SendClose, OpenIsReachable, Accepted, DispatcherOK, Handling
  <2> QED BY <2>1, <2>2, <2>3, <2>4
<1>17. ASSUME NEW s \in Sessions, AbortWorker(s) PROVE ReachInv'
  BY <1>17 DEF AbortWorker, HeldInv, HandInv, LimboInv, OpenIsReachable,
     Accepted
<1>18. ASSUME NEW s \in Sessions, TakeOther(s) PROVE ReachInv'
  BY <1>18 DEF TakeOther, HeldInv, HandInv, LimboInv, OpenIsReachable,
     Accepted
<1>19. ASSUME NEW s \in Sessions, TakeQuery(s) PROVE ReachInv'
  <2>1. HandInv'
    BY <1>19 DEF TakeQuery, HandInv
  <2>2. HeldInv'
    BY <1>19, QueueEntries DEF TakeQuery, Pop, SetPhase, HeldInv, RecordsOK,
       QueueOK, MapOK, SilentInv, LinesOK
  <2>3. LimboInv'
    BY <1>19, QueueEntries DEF TakeQuery, Pop, SetPhase, LimboInv, RecordsOK,
       QueueOK, MapOK, SilentInv, LinesOK
  <2>4. OpenIsReachable'
    BY <1>19, QueueEntries DEF TakeQuery, Pop, SetPhase, OpenIsReachable,
       Accepted, RecordsOK, QueueOK, MapOK, SilentInv, LinesOK
  <2> QED BY <2>1, <2>2, <2>3, <2>4
<1>20. ASSUME NEW s \in Sessions, RunRejected(s) PROVE ReachInv'
  BY <1>20 DEF RunRejected, HeldInv, HandInv, LimboInv, OpenIsReachable,
     Accepted
<1>21. ASSUME NEW s \in Sessions, Run(s) PROVE ReachInv'
  BY <1>21 DEF Run, HeldInv, HandInv, LimboInv, OpenIsReachable, Accepted
<1>22. ASSUME NEW s \in Sessions, Claim(s) PROVE ReachInv'
  BY <1>22 DEF Claim, HeldInv, HandInv, LimboInv, OpenIsReachable, Accepted
<1>23. ASSUME NEW s \in Sessions, WriteAnswer(s) PROVE ReachInv'
  <2>1. HeldInv' /\ HandInv'
    BY <1>23 DEF WriteAnswer, HeldInv, HandInv
  <2>2. LimboInv'
    BY <1>23 DEF WriteAnswer, WorkerGoto, Answer, LimboInv, RecordsOK,
       WorkerOK, Busy, WorkInv, MapOK, LinesOK
  <2>3. OpenIsReachable'
    BY <1>23 DEF WriteAnswer, WorkerGoto, Answer, OpenIsReachable, Accepted,
       RecordsOK, WorkerOK, Busy, WorkInv, MapOK, LinesOK
  <2> QED BY <2>1, <2>2, <2>3
<1>24. ASSUME NEW s \in Sessions, Finish(s) PROVE ReachInv'
  <2>1. HandInv'
    BY <1>24 DEF Finish, HandInv
  <2>2. HeldInv'
    BY <1>24 DEF Finish, SetPhase, HeldInv, RecordsOK, WorkerOK, Busy,
       WorkInv, MapOK, LinesOK
  <2>3. LimboInv'
    BY <1>24 DEF Finish, SetPhase, LimboInv, RecordsOK, WorkerOK, Busy,
       WorkInv, MapOK, LinesOK
  <2>4. OpenIsReachable'
    BY <1>24 DEF Finish, SetPhase, OpenIsReachable, Accepted, RecordsOK,
       WorkerOK, Busy, WorkInv, MapOK, LinesOK
  <2> QED BY <2>1, <2>2, <2>3, <2>4
<1>25. ASSUME NEW s \in Sessions, WorkerDies(s) PROVE ReachInv'
  BY <1>25 DEF WorkerDies, HeldInv, HandInv, LimboInv, OpenIsReachable,
     Accepted
<1>26. CASE UNCHANGED vars
  BY <1>26 DEF vars, HeldInv, HandInv, LimboInv, OpenIsReachable, Accepted
<1> QED
  BY <1>1, <1>2, <1>3, <1>4, <1>5, <1>6, <1>7, <1>8, <1>9, <1>10, <1>11,
     <1>12, <1>13, <1>14, <1>15, <1>16, <1>17, <1>18, <1>19, <1>20, <1>21,
     <1>22, <1>23, <1>24, <1>25, <1>26 DEF Next, Caller, Dispatch, Work

(* A query that was accepted and not answered can be cancelled by its id,   *)
(* unless a cancel is answering it, and no two open queries share an id.    *)
THEOREM IdsAreTrue == Spec => [](OpenIsReachable /\ OneOpenPerId)
<1>1. TypeInv /\ SafetyInv /\ ReachInv => OpenIsReachable /\ OneOpenPerId
  <2> SUFFICES ASSUME TypeInv, SafetyInv, ReachInv,
                      NEW q \in Queries, NEW r \in Queries,
                      q # r, qid[q] = qid[r], Accepted(q), Accepted(r),
                      answers[q] + answers[r] < 1
               PROVE FALSE
    BY DEF OneOpenPerId, ReachInv, TypeInv, RecordsOK
  <2>1. answers[q] = 0 /\ answers[r] = 0
    BY DEF TypeInv, RecordsOK
  <2>2. q # NoQuery /\ r # NoQuery
    BY LifecycleConstants DEF Queries, NoQuery
  <2> QED BY <2>1, <2>2 DEF ReachInv, OpenIsReachable, HandInv
<1> QED BY <1>1, InitTypeInv, NextTypeInv, InitSafetyInv, NextSafetyInv,
           InitReachInv, NextReachInv, PTL DEF Spec

-----------------------------------------------------------------------------
(* The refinement.  After the close event no worker has anything left.      *)
ClosedInv == dpc = "closed" => \A s \in Sessions : Ended(s)

IdBar == [q \in Queries |-> IF phase[q] = "none" THEN NoId ELSE qid[q]]
StateBar == [q \in Queries |-> ContractState(q)]
Closed == dpc = "closed"

(* Nothing comes after the close event.                                     *)
LEMMA NextClosedInv ==
  ASSUME TypeInv, ClosedInv, [Next]_vars
  PROVE  ClosedInv'
<1>1. CASE dpc = "closed"
  <2>1. \A s \in Sessions : Ended(s)
    BY <1>1 DEF ClosedInv
  <2>2. UNCHANGED <<wpc, queue>>
    BY <1>1, <2>1 DEF Next, Caller, Dispatch, Work, vars, worker, Ended,
       Submit, CancelLookup, SendControl, Ping, StartShutdown, DeadlinePasses,
       Admit, Refuse, Send, SendFails, CancelQueued, CancelNotQueued, CancelSettle,
       CancelAnswer, CancelStarted, SendClose, AbortWorker, TakeOther, TakeQuery,
       RunRejected, Run, Claim, WriteAnswer, Finish, WorkerDies
  <2> QED
    BY <2>1, <2>2 DEF ClosedInv, Ended
<1>2. CASE dpc # "closed"
  <2>1. dpc' = "closed" => SendClose
    BY <1>2 DEF Next, Caller, Dispatch, Work, vars, dispatcher,
       Submit, CancelLookup, SendControl, Ping, StartShutdown, DeadlinePasses,
       Admit, Refuse, Send, SendFails, CancelQueued, CancelNotQueued, CancelSettle,
       CancelAnswer, CancelStarted, AbortWorker, TakeOther, TakeQuery,
       RunRejected, Run, Claim, WriteAnswer, Finish, WorkerDies
  <2>2. SendClose => \A s \in Sessions : Ended(s)'
    BY DEF SendClose, Ended, worker
  <2> QED
    BY <2>1, <2>2 DEF ClosedInv
<1> QED
  BY <1>1, <1>2

(* A step that moves no phase and writes no answer is no step of the        *)
(* contract.                                                                *)
LEMMA Stutters ==
  ASSUME phase' = phase, answers' = answers,
         \A q \in Queries : phase[q] # "none" => qid'[q] = qid[q],
         Closed' = Closed
  PROVE  UNCHANGED Contract!vars
<1>1. IdBar' = IdBar
  BY DEF IdBar
<1>2. StateBar' = StateBar
  BY DEF StateBar, ContractState
<1> QED
  BY <1>1, <1>2, Zenon DEF Contract!vars, IdBar, StateBar, Closed

(* What a query that changes its phase changes for the contract.            *)
LEMMA Moves ==
  ASSUME TypeInv, NEW q \in Queries, NEW p \in Phases \ {"none"},
         phase' = [phase EXCEPT ![q] = p], qid' = qid,
         \A r \in Queries \ {q} : answers'[r] = answers[r]
  PROVE  /\ IdBar' = [IdBar EXCEPT ![q] = qid[q]]
         /\ phase[q] # "none" => IdBar' = IdBar
         /\ StateBar' = [StateBar EXCEPT ![q] = StateBar'[q]]
<1>1. phase \in [Queries -> Phases]
  BY DEF TypeInv, RecordsOK
<1>2. phase'[q] = p /\ \A r \in Queries \ {q} : phase'[r] = phase[r]
  BY <1>1
<1>3. IdBar' = [IdBar EXCEPT ![q] = qid[q]] /\ (phase[q] # "none" => IdBar' = IdBar)
  BY <1>2 DEF IdBar
<1>4. \A r \in Queries \ {q} : ContractState(r)' = ContractState(r)
  BY <1>2 DEF ContractState
<1>5. StateBar' = [StateBar EXCEPT ![q] = StateBar'[q]]
  BY <1>4 DEF StateBar
<1> QED
  BY <1>3, <1>5

(* What a phase, before and after a step, is to the contract.               *)
LEMMA NextStates ==
  ASSUME NEW q \in Queries
  PROVE  /\ phase'[q] = "refused" => StateBar'[q] = "over"
         /\ phase'[q] = "queued" => StateBar'[q] = "waiting"
         /\ phase'[q] = "cancelled" =>
              /\ answers'[q] = 0 => StateBar'[q] = "waiting"
              /\ answers'[q] = 1 => StateBar'[q] = "over"
         /\ phase'[q] \in {"running", "finished"} => StateBar'[q] = "started"
  BY DEF StateBar, ContractState

LEMMA ContractStates ==
  ASSUME TypeInv, NEW q \in Queries
  PROVE  /\ phase[q] = "none" <=> StateBar[q] = "none"
         /\ phase[q] = "queued" => StateBar[q] = "waiting"
         /\ phase[q] = "cancelled" /\ answers[q] = 0 => StateBar[q] = "waiting"
         /\ phase[q] = "running" => StateBar[q] = "started"
         /\ StateBar[q] \in {"waiting", "started"} =>
              \/ phase[q] \in {"queued", "running", "finished"}
              \/ phase[q] = "cancelled" /\ answers[q] = 0
         /\ IdBar[q] = IF phase[q] = "none" THEN NoId ELSE qid[q]
<1>1. phase[q] \in Phases /\ answers[q] \in Nat
  BY DEF TypeInv, RecordsOK
<1> QED
  BY <1>1 DEF StateBar, IdBar, ContractState, Phases

(* The steps of the contract, in terms of the mapping.                      *)
LEMMA Accepts ==
  ASSUME NEW q \in Queries, NEW i \in Ids, ~Closed, StateBar[q] = "none",
         \A r \in Queries : StateBar[r] \in {"waiting", "started"} /\ answers[r] = 0
                              => IdBar[r] # i,
         IdBar' = [IdBar EXCEPT ![q] = i], StateBar' = [StateBar EXCEPT ![q] = "waiting"],
         answers' = answers, Closed' = Closed
  PROVE  Contract!Next
<1>1. Contract!Accept(q)
  BY Zenon DEF Contract!Accept, Contract!Open, IdBar, StateBar, Closed
<1> QED
  BY <1>1 DEF Contract!Next

(* A refused line is over and answered.                                     *)
LEMMA Refuses ==
  ASSUME NEW q \in Queries, NEW i \in Ids, ~Closed, StateBar[q] = "none",
         IdBar' = [IdBar EXCEPT ![q] = i], StateBar' = [StateBar EXCEPT ![q] = "over"],
         answers' = [answers EXCEPT ![q] = 1], Closed' = Closed
  PROVE  Contract!Next
<1>1. Contract!Refuse(q)
  BY Zenon DEF Contract!Refuse, IdBar, StateBar, Closed
<1> QED
  BY <1>1 DEF Contract!Next

(* A query starts.                                                          *)
LEMMA Starts ==
  ASSUME NEW q \in Queries, ~Closed, StateBar[q] = "waiting",
         IdBar' = IdBar, StateBar' = [StateBar EXCEPT ![q] = "started"],
         answers' = answers, Closed' = Closed
  PROVE  Contract!Next
<1>1. Contract!Start(q)
  BY Zenon DEF Contract!Start, IdBar, StateBar, Closed
<1> QED
  BY <1>1 DEF Contract!Next

(* A query that waits is answered and never starts.                         *)
LEMMA Discards ==
  ASSUME NEW q \in Queries, ~Closed, StateBar[q] = "waiting",
         IdBar' = IdBar, StateBar' = [StateBar EXCEPT ![q] = "over"],
         answers' = [answers EXCEPT ![q] = 1], Closed' = Closed
  PROVE  Contract!Next
<1>1. Contract!Discard(q)
  BY Zenon DEF Contract!Discard, IdBar, StateBar, Closed
<1> QED
  BY <1>1 DEF Contract!Next

(* A query that started is answered.                                        *)
LEMMA Answers ==
  ASSUME NEW q \in Queries, ~Closed, StateBar[q] = "started", answers[q] = 0,
         IdBar' = IdBar, StateBar' = StateBar,
         answers' = [answers EXCEPT ![q] = 1], Closed' = Closed
  PROVE  Contract!Next
<1>1. Contract!Answer(q)
  BY Zenon DEF Contract!Answer, IdBar, StateBar, Closed
<1> QED
  BY <1>1 DEF Contract!Next

(* Every step of the pipe is a step of its contract, or none.               *)
LEMMA NextContract ==
  ASSUME TypeInv, SafetyInv, ReachInv, ClosedInv, [Next]_vars
  PROVE  [Contract!Next]_(Contract!vars)
<1>o. /\ phase \in [Queries -> Phases] /\ answers \in [Queries -> Nat]
      /\ qid \in [Queries -> Ids]
  BY DEF TypeInv, RecordsOK, LinesOK
<1>s. \A s \in Sessions :
        /\ wpc[s] \notin {"recv", "dead"} => dpc # "closed"
        /\ wpc[s] = "recv" /\ queue[s] # <<>> => dpc # "closed"
  BY DEF ClosedInv, Ended
<1>1. ASSUME NEW id \in Ids, NEW s \in Sessions, Submit(id, s)
      PROVE  UNCHANGED Contract!vars
  <2>1. \A q \in Queries : phase[q] # "none" => q <= n
    BY LifecycleConstants DEF SafetyInv, FreshInv, TypeInv, LinesOK, Queries
  <2>2. \A q \in Queries : phase[q] # "none" => qid'[q] = qid[q]
    BY <1>1, <2>1, <1>o, LifecycleConstants DEF Submit, TypeInv, LinesOK, Queries
  <2>3. phase' = phase /\ answers' = answers /\ Closed' = Closed
    BY <1>1 DEF Submit, queries, Closed
  <2> QED
    BY <2>2, <2>3, Stutters
<1>2. CASE Admit
  <2>1. /\ dpc = "admit" /\ dpc' = "send" /\ dq \in Queries /\ phase[dq] = "none"
        /\ phase' = [phase EXCEPT ![dq] = "queued"]
        /\ qid' = qid /\ answers' = answers /\ Admissible(qid[dq])
    BY <1>2 DEF Admit, SetPhase, lines, SafetyInv, FreshInv, TypeInv, DispatcherOK, Handling
  <2>2. ASSUME NEW r \in Queries, StateBar[r] \in {"waiting", "started"}, answers[r] = 0
        PROVE  IdBar[r] # qid[dq]
    <3>1. /\ phase[r] \in {"queued", "running", "finished"} \/ phase[r] = "cancelled"
          /\ IdBar[r] = qid[r]
      BY <2>2, ContractStates
    <3>2. phase[r] # "finished" /\ phase[r] # "cancelled"
      BY <2>1, <2>2 DEF SafetyInv, DoneInv, ReachInv, LimboInv
    <3>3. inFlight[qid[r]] = r
      BY <2>1, <2>2, <3>1, <3>2 DEF ReachInv, OpenIsReachable, Accepted
    <3>4. r # NoQuery
      BY LifecycleConstants DEF Queries, NoQuery
    <3>5. Taken(qid[r])
      BY <3>2, <3>3, <3>4 DEF Taken, Finished
    <3> QED
      BY <2>1, <3>1, <3>5 DEF Admissible
  <2>3. StateBar'[dq] = "waiting"
    BY <1>o, <2>1, NextStates
  <2>4. /\ IdBar' = [IdBar EXCEPT ![dq] = qid[dq]]
        /\ StateBar' = [StateBar EXCEPT ![dq] = "waiting"]
    BY <2>1, <2>3, Moves DEF Phases
  <2>5. StateBar[dq] = "none" /\ ~Closed /\ Closed' = Closed /\ qid[dq] \in Ids
    BY <1>o, <2>1, ContractStates DEF Closed
  <2> QED
    BY <2>1, <2>2, <2>4, <2>5, Accepts
<1>3. CASE Refuse
  <2>1. /\ dpc = "admit" /\ dpc' = "read" /\ dq \in Queries /\ phase[dq] = "none"
        /\ phase' = [phase EXCEPT ![dq] = "refused"]
        /\ qid' = qid /\ answers' = [answers EXCEPT ![dq] = @ + 1]
    BY <1>3 DEF Refuse, SetPhase, Answer, lines, SafetyInv, FreshInv, TypeInv,
       DispatcherOK, Handling
  <2>2. answers[dq] = 0
    BY <2>1 DEF SafetyInv, SilentInv
  <2>3. answers' = [answers EXCEPT ![dq] = 1]
    BY <1>o, <2>1, <2>2
  <2>4. StateBar'[dq] = "over"
    BY <1>o, <2>1, NextStates
  <2>5. /\ IdBar' = [IdBar EXCEPT ![dq] = qid[dq]]
        /\ StateBar' = [StateBar EXCEPT ![dq] = "over"]
    BY <1>o, <2>1, <2>3, <2>4, Moves DEF Phases
  <2>6. StateBar[dq] = "none" /\ ~Closed /\ Closed' = Closed /\ qid[dq] \in Ids
    BY <1>o, <2>1, ContractStates DEF Closed
  <2> QED
    BY <2>1, <2>3, <2>5, <2>6, Refuses
<1>4. CASE SendFails
  <2>1. /\ dpc = "send" /\ dpc' = "read" /\ dq \in Queries /\ phase[dq] = "queued"
        /\ phase' = [phase EXCEPT ![dq] = "refused"]
        /\ qid' = qid /\ answers' = [answers EXCEPT ![dq] = @ + 1]
    BY <1>4 DEF SendFails, SetPhase, Answer, lines, SafetyInv, FreshInv, TypeInv,
       DispatcherOK, Handling
  <2>2. answers[dq] = 0
    BY <2>1 DEF SafetyInv, SilentInv
  <2>3. answers' = [answers EXCEPT ![dq] = 1]
    BY <1>o, <2>1, <2>2
  <2>4. StateBar'[dq] = "over"
    BY <1>o, <2>1, NextStates
  <2>5. IdBar' = IdBar /\ StateBar' = [StateBar EXCEPT ![dq] = "over"]
    BY <1>o, <2>1, <2>3, <2>4, Moves DEF Phases
  <2>6. StateBar[dq] = "waiting" /\ ~Closed /\ Closed' = Closed
    BY <1>o, <2>1, ContractStates DEF Closed
  <2> QED
    BY <2>1, <2>3, <2>5, <2>6, Discards
<1>5. CASE CancelQueued
  <2>1. /\ dpc = "cancel" /\ dpc' = "cancel_settle" /\ dq \in Queries
        /\ phase[dq] = "queued" /\ phase' = [phase EXCEPT ![dq] = "cancelled"]
        /\ qid' = qid /\ answers' = answers
    BY <1>5 DEF CancelQueued, SetPhase, lines, TypeInv, DispatcherOK, Handling
  <2>2. answers[dq] = 0
    BY <2>1 DEF SafetyInv, SilentInv
  <2>3. StateBar'[dq] = "waiting" /\ StateBar[dq] = "waiting"
    BY <1>o, <2>1, <2>2, ContractStates, NextStates
  <2>4. IdBar' = IdBar /\ StateBar' = [StateBar EXCEPT ![dq] = "waiting"]
    BY <1>o, <2>1, <2>3, Moves DEF Phases
  <2>5. StateBar' = StateBar
    BY <2>3, <2>4 DEF StateBar
  <2>6. Closed' = Closed
    BY <2>1 DEF Closed
  <2> QED
    BY <2>1, <2>4, <2>5, <2>6, Zenon DEF Contract!vars, IdBar, StateBar, Closed
<1>6. CASE CancelAnswer
  <2>1. /\ dpc = "cancel_answer" /\ dpc' = "read" /\ dq \in Queries
        /\ phase[dq] = "cancelled" /\ answers[dq] = 0 /\ phase' = phase
        /\ qid' = qid /\ answers' = [answers EXCEPT ![dq] = @ + 1]
    BY <1>6 DEF CancelAnswer, Answer, lines, SafetyInv, SettleInv, TypeInv,
       DispatcherOK, Handling
  <2>2. answers' = [answers EXCEPT ![dq] = 1]
    BY <1>o, <2>1
  <2>3. StateBar'[dq] = "over" /\ StateBar[dq] = "waiting"
    BY <1>o, <2>1, <2>2, ContractStates, NextStates
  <2>4. phase' = [phase EXCEPT ![dq] = "cancelled"]
    BY <1>o, <2>1
  <2>5. IdBar' = IdBar /\ StateBar' = [StateBar EXCEPT ![dq] = "over"]
    BY <1>o, <2>1, <2>2, <2>3, <2>4, Moves DEF Phases
  <2>6. ~Closed /\ Closed' = Closed
    BY <2>1 DEF Closed
  <2> QED
    BY <2>2, <2>1, <2>3, <2>5, <2>6, Discards
<1>7. ASSUME NEW s \in Sessions, TakeQuery(s) PROVE Contract!Next
  <2> DEFINE q == Head(queue[s])
  <2>1. /\ wpc[s] = "recv" /\ queue[s] # <<>> /\ q # NoQuery /\ phase[q] = "queued"
        /\ phase' = [phase EXCEPT ![q] = "running"]
        /\ qid' = qid /\ answers' = answers /\ dpc' = dpc
    BY <1>7 DEF TakeQuery, SetPhase, lines, dispatcher
  <2>2. q \in Queries
    BY <2>1, QueueEntries DEF TypeInv
  <2> HIDE DEF q
  <2>3. StateBar'[q] = "started" /\ StateBar[q] = "waiting"
    BY <1>o, <2>1, <2>2, ContractStates, NextStates
  <2>4. IdBar' = IdBar /\ StateBar' = [StateBar EXCEPT ![q] = "started"]
    BY <1>o, <2>1, <2>2, <2>3, Moves DEF Phases
  <2>5. ~Closed /\ Closed' = Closed
    BY <1>s, <2>1 DEF Closed
  <2> QED
    BY <2>1, <2>2, <2>3, <2>4, <2>5, Starts
<1>8. ASSUME NEW s \in Sessions, WriteAnswer(s) PROVE Contract!Next
  <2>1. /\ wpc[s] = "answer" /\ phase' = phase /\ qid' = qid /\ dpc' = dpc
        /\ answers' = [answers EXCEPT ![wq[s]] = @ + 1]
    BY <1>8 DEF WriteAnswer, Answer, lines, dispatcher
  <2>2. wq[s] \in Queries /\ phase[wq[s]] = "running" /\ answers[wq[s]] = 0
    BY <2>1 DEF SafetyInv, WorkInv, Busy, TypeInv, WorkerOK
  <2>3. answers' = [answers EXCEPT ![wq[s]] = 1]
    BY <1>o, <2>1, <2>2
  <2>4. StateBar'[wq[s]] = "started" /\ StateBar[wq[s]] = "started"
    BY <1>o, <2>1, <2>2, ContractStates, NextStates
  <2>5. phase' = [phase EXCEPT ![wq[s]] = "running"]
    BY <1>o, <2>1, <2>2
  <2>6. IdBar' = IdBar /\ StateBar' = StateBar
    <3>1. IdBar' = IdBar /\ StateBar' = [StateBar EXCEPT ![wq[s]] = "started"]
      BY <1>o, <2>1, <2>2, <2>3, <2>4, <2>5, Moves DEF Phases
    <3>2. StateBar' = StateBar
      BY <2>4, <3>1 DEF StateBar
    <3> QED
      BY <3>1, <3>2
  <2>7. ~Closed /\ Closed' = Closed
    <3>1. dpc # "closed"
      BY <1>s, <2>1
    <3> QED
      BY <2>1, <3>1 DEF Closed
  <2> QED
    BY <2>2, <2>3, <2>4, <2>6, <2>7, Answers
<1>9. ASSUME NEW s \in Sessions, Finish(s) PROVE UNCHANGED Contract!vars
  <2>1. /\ wpc[s] = "finish" /\ qid' = qid /\ dpc' = dpc /\ answers' = answers
        /\ phase' = [phase EXCEPT ![wq[s]] = "finished"]
    BY <1>9 DEF Finish, SetPhase, lines, dispatcher
  <2>2. wq[s] \in Queries /\ phase[wq[s]] = "running"
    BY <2>1 DEF SafetyInv, WorkInv, Busy, TypeInv, WorkerOK
  <2>3. StateBar'[wq[s]] = "started" /\ StateBar[wq[s]] = "started"
    BY <1>o, <2>1, <2>2, ContractStates, NextStates
  <2>4. IdBar' = IdBar /\ StateBar' = [StateBar EXCEPT ![wq[s]] = "started"]
    BY <1>o, <2>1, <2>2, <2>3, Moves DEF Phases
  <2>5. StateBar' = StateBar
    BY <2>3, <2>4 DEF StateBar
  <2>6. Closed' = Closed
    BY <2>1 DEF Closed
  <2> QED
    BY <2>1, <2>4, <2>5, <2>6, Zenon DEF Contract!vars, IdBar, StateBar, Closed
<1>10. CASE SendClose
  <2>1. /\ ~Closed /\ Closed' /\ phase' = phase /\ answers' = answers /\ qid' = qid
    BY <1>10 DEF SendClose, queries, lines, Closed
  <2>2. IdBar' = IdBar /\ StateBar' = StateBar
    BY <2>1 DEF IdBar, StateBar, ContractState
  <2>3. Contract!Close
    BY <2>1, <2>2, Zenon DEF Contract!Close, IdBar, StateBar, Closed
  <2> QED
    BY <2>3 DEF Contract!Next
<1>11. ASSUME \/ \E id \in Ids : CancelLookup(id)
              \/ \E s \in Sessions : SendControl(s) \/ AbortWorker(s)
              \/ Ping \/ StartShutdown \/ DeadlinePasses \/ Send
       PROVE  UNCHANGED Contract!vars
  <2>1. phase' = phase /\ answers' = answers /\ qid' = qid
    BY <1>11 DEF CancelLookup, SendControl, AbortWorker, Ping, StartShutdown,
       DeadlinePasses, Send, queries, lines
  <2>2. Closed' = Closed
    BY <1>11 DEF CancelLookup, SendControl, AbortWorker, Ping, StartShutdown,
       DeadlinePasses, Send, dispatcher, Closed
  <2> QED
    BY <2>1, <2>2, Stutters
<1>12. ASSUME CancelNotQueued \/ CancelSettle \/ CancelStarted
       PROVE  UNCHANGED Contract!vars
  <2>1. phase' = phase /\ answers' = answers /\ qid' = qid
    BY <1>12 DEF CancelNotQueued, CancelSettle, CancelStarted, queries, lines
  <2>2. dpc # "closed" /\ dpc' # "closed"
    BY <1>12 DEF CancelNotQueued, CancelSettle, CancelStarted
  <2>3. Closed' = Closed
    BY <2>2 DEF Closed
  <2> QED
    BY <2>1, <2>3, Stutters
<1>13. ASSUME \/ \E s \in Sessions : \/ TakeOther(s) \/ RunRejected(s) \/ Run(s)
                                     \/ Claim(s) \/ WorkerDies(s)
              \/ UNCHANGED vars
       PROVE  UNCHANGED Contract!vars
  <2>1. phase' = phase /\ answers' = answers /\ qid' = qid /\ dpc' = dpc
    BY <1>13 DEF TakeOther, RunRejected, Run, Claim, WorkerDies, vars, queries, lines,
       dispatcher
  <2>2. Closed' = Closed
    BY <2>1 DEF Closed
  <2> QED
    BY <2>1, <2>2, Stutters
<1> QED
  BY <1>1, <1>2, <1>3, <1>4, <1>5, <1>6, <1>7, <1>8, <1>9, <1>10, <1>11,
     <1>12, <1>13
     DEF Next, Caller, Dispatch, Work

(* The pipe keeps its contract: whatever its tasks, queues and locks do, an  *)
(* id stands for one open query, a query is answered once and true to        *)
(* whether it started, and nothing follows the close event.                 *)
THEOREM PipeKeepsContract == Spec => KeepsContract
<1>1. Init => Contract!Init
  <2> SUFFICES ASSUME Init PROVE Contract!Init
    OBVIOUS
  <2>1. IdBar = [q \in Queries |-> NoId] /\ StateBar = [q \in Queries |-> "none"]
    BY DEF Init, IdBar, StateBar, ContractState
  <2>2. answers = [q \in Queries |-> 0] /\ Closed = FALSE
    BY DEF Init, Closed
  <2> QED
    BY <2>1, <2>2, Zenon DEF Contract!Init, IdBar, StateBar, Closed
<1>2. Init => ClosedInv
  BY DEF Init, ClosedInv
<1> QED
  BY <1>1, <1>2, InitTypeInv, NextTypeInv, InitSafetyInv, NextSafetyInv, InitReachInv,
     NextReachInv, NextClosedInv, NextContract, PTL DEF Spec, KeepsContract, Contract!Spec

-----------------------------------------------------------------------------
(* The channels.  A channel holds queries of its session, the oldest first,  *)
(* and the query being sent is younger than all of them.                    *)
OrderInv ==
  /\ dpc = "send" => dq = n
  /\ \A s \in Sessions : \A k \in 1 .. Len(queue[s]) : queue[s][k] # NoQuery =>
       /\ qsession[queue[s][k]] = s
       /\ queue[s][k] <= n /\ (dpc \in {"admit", "send"} => queue[s][k] < n)
       /\ \A j \in 1 .. k - 1 : queue[s][j] # NoQuery => queue[s][j] < queue[s][k]

(* Every step keeps the order of the channels.                              *)
LEMMA NextOrderInv ==
  ASSUME TypeInv, SafetyInv, OrderInv, [Next]_vars
  PROVE  OrderInv'
<1>o. /\ n \in Nat /\ \A q \in Queries : q \in Nat
      /\ queue \in [Sessions -> Seq(Queries \cup {NoQuery})]
      /\ qsession \in [Queries -> Sessions]
  BY LifecycleConstants DEF TypeInv, LinesOK, QueueOK, Queries
<1>1. ASSUME NEW id \in Ids, NEW s \in Sessions, Submit(id, s) PROVE OrderInv'
  <2>1. /\ n' = n + 1 /\ n + 1 \in Queries /\ dpc' = "admit" /\ queue' = queue
        /\ qsession' = [qsession EXCEPT ![n + 1] = s]
    BY <1>1, <1>o, LifecycleConstants DEF Submit, TypeInv, LinesOK, Queries
  <2>2. ASSUME NEW t \in Sessions, NEW k \in 1 .. Len(queue[t]), queue[t][k] # NoQuery
        PROVE  /\ qsession'[queue[t][k]] = t /\ queue[t][k] < n + 1
               /\ \A j \in 1 .. k - 1 : queue[t][j] # NoQuery => queue[t][j] < queue[t][k]
    <3>1. /\ queue[t][k] \in Queries /\ qsession[queue[t][k]] = t /\ queue[t][k] <= n
          /\ \A j \in 1 .. k - 1 : queue[t][j] # NoQuery => queue[t][j] < queue[t][k]
      BY <2>2, QueueEntries DEF OrderInv, TypeInv
    <3> QED
      BY <1>o, <2>1, <3>1
  <2> QED
    BY <1>o, <2>1, <2>2 DEF OrderInv
<1>2. ASSUME NEW t \in Sessions, NEW e \in Queries \cup {NoQuery},
             queue' = [queue EXCEPT ![t] = Append(@, e)],
             n' = n, qsession' = qsession,
             e # NoQuery => qsession[e] = t /\ e = n /\ dpc = "send",
             dpc' = "read"
      PROVE  OrderInv'
  <2>1. ASSUME NEW s \in Sessions, NEW k \in 1 .. Len(queue'[s]), queue'[s][k] # NoQuery
        PROVE  /\ qsession[queue'[s][k]] = s /\ queue'[s][k] <= n
               /\ \A j \in 1 .. k - 1 :
                    queue'[s][j] # NoQuery => queue'[s][j] < queue'[s][k]
    <3>1. CASE s # t \/ k \in 1 .. Len(queue[s])
      <4>1. k \in 1 .. Len(queue[s]) /\ \A j \in 1 .. k : queue'[s][j] = queue[s][j]
        BY <1>o, <1>2, <2>1, <3>1
      <4> QED
        BY <2>1, <4>1 DEF OrderInv
    <3>2. CASE s = t /\ k = Len(queue[s]) + 1
      <4>1. queue'[s][k] = e /\ \A j \in 1 .. k - 1 : queue'[s][j] = queue[s][j]
        BY <1>o, <1>2, <3>2
      <4>2. e = n /\ qsession[e] = s /\ dpc = "send"
        BY <1>2, <2>1, <3>2, <4>1
      <4>3. \A j \in 1 .. Len(queue[s]) : queue[s][j] # NoQuery => queue[s][j] < n
        BY <4>2 DEF OrderInv
      <4> QED
        BY <1>o, <3>2, <4>1, <4>2, <4>3
    <3>3. k \in 1 .. Len(queue[s]) + 1
      BY <1>o, <1>2, <2>1
    <3> QED
      BY <1>o, <3>1, <3>2, <3>3
  <2> QED
    BY <1>2, <2>1 DEF OrderInv
<1>3. ASSUME NEW t \in Sessions, queue[t] # <<>>, queue' = [queue EXCEPT ![t] = Tail(@)],
             n' = n, qsession' = qsession, dpc' = dpc, dq' = dq
      PROVE  OrderInv'
  <2>1. ASSUME NEW s \in Sessions, NEW k \in 1 .. Len(queue'[s]), queue'[s][k] # NoQuery
        PROVE  /\ qsession[queue'[s][k]] = s /\ queue'[s][k] <= n
               /\ dpc \in {"admit", "send"} => queue'[s][k] < n
               /\ \A j \in 1 .. k - 1 :
                    queue'[s][j] # NoQuery => queue'[s][j] < queue'[s][k]
    <3>1. CASE s # t
      <4>1. queue'[s] = queue[s]
        BY <1>o, <1>3, <3>1
      <4> QED
        BY <2>1, <4>1 DEF OrderInv
    <3>2. CASE s = t
      <4>1. /\ k + 1 \in 1 .. Len(queue[s]) /\ queue'[s][k] = queue[s][k + 1]
            /\ \A j \in 1 .. k - 1 : queue'[s][j] = queue[s][j + 1]
        BY <1>o, <1>3, <2>1, <3>2
      <4>2. /\ qsession[queue[s][k + 1]] = s /\ queue[s][k + 1] <= n
            /\ dpc \in {"admit", "send"} => queue[s][k + 1] < n
            /\ \A i \in 1 .. (k + 1) - 1 :
                 queue[s][i] # NoQuery => queue[s][i] < queue[s][k + 1]
        BY <2>1, <4>1 DEF OrderInv
      <4>3. \A j \in 1 .. k - 1 : j + 1 \in 1 .. (k + 1) - 1
        BY <1>o
      <4> QED
        BY <4>1, <4>2, <4>3
    <3> QED
      BY <3>1, <3>2
  <2>2. dpc' = "send" => dq' = n'
    BY <1>3 DEF OrderInv
  <2> QED
    BY <1>3, <2>1, <2>2 DEF OrderInv
<1>4. ASSUME NEW t \in Sessions, queue' = [queue EXCEPT ![t] = <<>>],
             n' = n, qsession' = qsession, dpc' = dpc, dq' = dq
      PROVE  OrderInv'
  <2>1. \A s \in Sessions : queue'[s] = queue[s] \/ Len(queue'[s]) = 0
    BY <1>o, <1>4
  <2> QED
    BY <1>4, <2>1 DEF OrderInv
<1>5. ASSUME queue' = queue, n' = n, qsession' = qsession,
             \/ dpc' = dpc /\ dq' = dq
             \/ dpc' \notin {"admit", "send"}
             \/ dpc = "admit" /\ dpc' = "send" /\ dq' = n
      PROVE  OrderInv'
  BY <1>5 DEF OrderInv
<1>6. CASE Send
  <2>1. /\ dq = n /\ dq \in Queries /\ qsession[dq] \in Sessions
    BY <1>6, <1>o DEF Send, OrderInv, TypeInv, DispatcherOK, Handling
  <2> QED
    BY <1>2, <1>6, <2>1 DEF Send, lines
<1>7. ASSUME NEW s \in Sessions, SendControl(s) PROVE OrderInv'
  BY <1>2, <1>7 DEF SendControl, lines, dispatcher
<1>8. ASSUME NEW s \in Sessions, TakeOther(s) \/ TakeQuery(s) PROVE OrderInv'
  <2>1. /\ queue[s] # <<>> /\ queue' = [queue EXCEPT ![s] = Tail(@)]
        /\ n' = n /\ qsession' = qsession /\ dpc' = dpc /\ dq' = dq
    BY <1>8 DEF TakeOther, TakeQuery, Pop, lines, dispatcher
  <2> QED
    BY <1>3, <2>1
<1>9. ASSUME NEW s \in Sessions, WorkerDies(s) \/ AbortWorker(s) PROVE OrderInv'
  <2>1. /\ queue' = [queue EXCEPT ![s] = <<>>]
        /\ n' = n /\ qsession' = qsession /\ dpc' = dpc /\ dq' = dq
    BY <1>9 DEF WorkerDies, AbortWorker, lines, dispatcher
  <2> QED
    BY <1>4, <2>1
<1>10. CASE Admit
  BY <1>5, <1>10 DEF Admit, lines, TypeInv, DispatcherOK
<1>11. ASSUME \/ \E id \in Ids : CancelLookup(id)
              \/ Ping \/ StartShutdown \/ DeadlinePasses \/ Refuse \/ SendFails
              \/ SendClose
       PROVE  OrderInv'
  <2>1. /\ queue' = queue /\ n' = n /\ qsession' = qsession
        /\ \/ dpc' = dpc /\ dq' = dq
           \/ dpc' \notin {"admit", "send"}
    BY <1>11 DEF CancelLookup, Ping, StartShutdown, DeadlinePasses, Refuse, SendFails,
       SendClose, lines, dispatcher
  <2> QED
    BY <1>5, <2>1
<1>12. ASSUME CancelQueued \/ CancelNotQueued \/ CancelSettle \/ CancelAnswer \/ CancelStarted
       PROVE  OrderInv'
  <2>1. /\ queue' = queue /\ n' = n /\ qsession' = qsession
        /\ dpc' \notin {"admit", "send"}
    BY <1>12 DEF CancelQueued, CancelNotQueued, CancelSettle, CancelAnswer, CancelStarted,
       lines
  <2> QED
    BY <1>5, <2>1
<1>13. ASSUME \/ \E s \in Sessions : \/ RunRejected(s) \/ Run(s) \/ Claim(s)
                                     \/ WriteAnswer(s) \/ Finish(s)
              \/ UNCHANGED vars
       PROVE  OrderInv'
  <2>1. /\ queue' = queue /\ n' = n /\ qsession' = qsession /\ dpc' = dpc /\ dq' = dq
    BY <1>13 DEF RunRejected, Run, Claim, WriteAnswer, Finish, vars, lines, dispatcher
  <2> QED
    BY <1>5, <2>1
<1> QED
  BY <1>1, <1>6, <1>7, <1>8, <1>9, <1>10, <1>11, <1>12, <1>13
     DEF Next, Caller, Dispatch, Work

(* Two queries of one session start in the order of their lines.            *)
THEOREM StartsAreOrdered == Spec => StartsInOrder
<1>1. Init => OrderInv
  BY DEF Init, OrderInv
<1>2. ASSUME TypeInv, OrderInv, [Next]_vars
      PROVE  [\A q \in started' \ started :
                \A k \in DOMAIN queue'[qsession[q]] :
                  queue'[qsession[q]][k] \notin 1 .. q - 1]_vars
  <2> SUFFICES ASSUME NEW q \in started' \ started,
                      NEW k \in DOMAIN queue'[qsession[q]]
               PROVE  queue'[qsession[q]][k] \notin 1 .. q - 1
    OBVIOUS
  <2>1. PICK s \in Sessions : TakeQuery(s)
    BY <1>2 DEF Next, Caller, Dispatch, Work, vars, queries,
       Submit, CancelLookup, SendControl, Ping, StartShutdown, DeadlinePasses,
       Admit, Refuse, Send, SendFails, CancelQueued, CancelNotQueued, CancelSettle,
       CancelAnswer, CancelStarted, SendClose, AbortWorker, TakeOther,
       RunRejected, Run, Claim, WriteAnswer, Finish, WorkerDies
  <2>2. /\ queue[s] # <<>> /\ q = Head(queue[s]) /\ q # NoQuery
        /\ queue' = [queue EXCEPT ![s] = Tail(@)]
    BY <2>1 DEF TakeQuery, Pop
  <2>3. queue \in [Sessions -> Seq(Queries \cup {NoQuery})] /\ \A r \in Queries : r \in Nat
    BY <1>2, LifecycleConstants DEF TypeInv, QueueOK, Queries
  <2>4. q = queue[s][1] /\ 1 \in 1 .. Len(queue[s]) /\ q \in Queries
    BY <1>2, <2>2, QueueEntries DEF TypeInv
  <2>5. qsession[q] = s
    BY <1>2, <2>2, <2>4 DEF OrderInv
  <2>6. /\ k + 1 \in 1 .. Len(queue[s]) /\ 1 \in 1 .. (k + 1) - 1
        /\ queue'[s][k] = queue[s][k + 1]
    BY <2>2, <2>3, <2>5
  <2>7. queue[s][k + 1] # NoQuery => q < queue[s][k + 1]
    BY <1>2, <2>2, <2>4, <2>6 DEF OrderInv
  <2>8. queue[s][k + 1] \in Queries \cup {NoQuery}
    BY <2>3, <2>6
  <2> QED
    BY <2>3, <2>4, <2>5, <2>6, <2>7, <2>8 DEF NoQuery
<1> QED
  BY <1>1, <1>2, InitTypeInv, NextTypeInv, InitSafetyInv, NextSafetyInv, NextOrderInv, PTL
     DEF Spec, StartsInOrder

-----------------------------------------------------------------------------
(* The drain.  Until the deadline passes, a query that waits is on its way   *)
(* into its channel or in it, and one that runs has a worker.               *)
Waits(q) ==
  \/ dpc = "send" /\ dq = q
  \/ \E k \in 1 .. Len(queue[qsession[q]]) : queue[qsession[q]][k] = q
Runs(q) == \E s \in Sessions : Busy(s) /\ wq[s] = q

Placed ==
  /\ \A s \in Sessions : wpc[s] # "dead"
  /\ \A q \in Queries : phase[q] = "queued" => Waits(q)
  /\ \A q \in Queries : phase[q] = "running" => Runs(q)

PlaceInv == ~late => Placed

(* Until the deadline no step loses a query.                                *)
LEMMA NextPlaceInv ==
  ASSUME ~WorkersMayDie, TypeInv, SafetyInv, OrderInv, PlaceInv, [Next]_vars
  PROVE  PlaceInv'
<1> SUFFICES ASSUME ~late' PROVE Placed'
  BY DEF PlaceInv
<1>0. ~late
  BY Zenon DEF Next, Caller, Dispatch, Work, vars,
       Submit, CancelLookup, SendControl, Ping, StartShutdown, DeadlinePasses,
       Admit, Refuse, Send, SendFails, CancelQueued, CancelNotQueued, CancelSettle,
       CancelAnswer, CancelStarted, SendClose, AbortWorker, TakeOther, TakeQuery,
       RunRejected, Run, Claim, WriteAnswer, Finish, WorkerDies
<1>p. Placed
  BY <1>0 DEF PlaceInv
<1>o. /\ queue \in [Sessions -> Seq(Queries \cup {NoQuery})]
      /\ phase \in [Queries -> Phases] /\ qsession \in [Queries -> Sessions]
      /\ wpc \in [Sessions -> {"recv", "run", "claim", "answer", "finish", "dead"}]
      /\ wq \in [Sessions -> Queries \cup {NoQuery}]
  BY DEF TypeInv, LinesOK, QueueOK, RecordsOK, WorkerOK
<1>w. WorkerOK /\ WorkInv /\ FreshInv
  BY DEF TypeInv, SafetyInv
(* The steps that put no query elsewhere.                                   *)
<1>1. ASSUME queue' = queue, wq' = wq, \A s \in Sessions : Busy(s) => Busy(s)',
             \A s \in Sessions : wpc'[s] # "dead",
             \A q \in Queries : phase'[q] \in {"queued", "running"} =>
               phase'[q] = phase[q] /\ qsession'[q] = qsession[q],
             dpc = "send" => phase'[dq] # "queued"
      PROVE  Placed'
  <2>1. ASSUME NEW q \in Queries, phase'[q] = "queued" PROVE Waits(q)'
    BY <1>1, <1>p, <2>1 DEF Placed, Waits
  <2>2. ASSUME NEW q \in Queries, phase'[q] = "running" PROVE Runs(q)'
    BY <1>1, <1>p, <2>2 DEF Placed, Runs
  <2> QED
    BY <1>1, <2>1, <2>2 DEF Placed
<1>2. ASSUME NEW id \in Ids, NEW s \in Sessions, Submit(id, s) PROVE Placed'
  <2>1. \A q \in Queries : phase[q] # "none" => qsession'[q] = qsession[q]
    BY <1>2, <1>o, <1>w, LifecycleConstants DEF Submit, FreshInv, TypeInv, LinesOK, Queries
  <2> QED
    BY <1>1, <1>2, <1>p, <2>1 DEF Submit, queries, worker, Busy, Placed
<1>3. CASE Admit
  <2>1. /\ dq \in Queries /\ dpc' = "send" /\ dq' = dq /\ queue' = queue /\ qsession' = qsession
        /\ phase' = [phase EXCEPT ![dq] = "queued"] /\ wpc' = wpc /\ wq' = wq
        /\ dpc = "admit"
    BY <1>3 DEF Admit, SetPhase, lines, worker, TypeInv, DispatcherOK, Handling
  <2>2. ASSUME NEW q \in Queries, phase'[q] = "queued" PROVE Waits(q)'
    BY <1>o, <1>p, <2>1, <2>2 DEF Placed, Waits
  <2>3. ASSUME NEW q \in Queries, phase'[q] = "running" PROVE Runs(q)'
    BY <1>o, <1>p, <2>1, <2>3 DEF Placed, Runs, Busy
  <2> QED
    BY <1>p, <2>1, <2>2, <2>3 DEF Placed
<1>4. ASSUME NEW t \in Sessions, NEW e \in Queries \cup {NoQuery},
             queue' = [queue EXCEPT ![t] = Append(@, e)],
             dpc = "send" => e = dq /\ t = qsession[dq],
             UNCHANGED <<phase, qsession, wpc, wq>>
      PROVE  Placed'
  <2>1. ASSUME NEW q \in Queries, phase'[q] = "queued" PROVE Waits(q)'
    <3> DEFINE s == qsession[q]
    <3>1. s \in Sessions /\ Waits(q)
      BY <1>4, <1>o, <1>p, <2>1 DEF Placed
    <3>2. CASE dpc = "send" /\ dq = q
      <4>1. queue'[s][Len(queue[s]) + 1] = q /\ Len(queue[s]) + 1 \in 1 .. Len(queue'[s])
        BY <1>4, <1>o, <3>1, <3>2
      <4> QED
        BY <1>4, <4>1 DEF Waits
    <3>3. CASE \E k \in 1 .. Len(queue[s]) : queue[s][k] = q
      <4>1. PICK k \in 1 .. Len(queue[s]) : queue[s][k] = q
        BY <3>3
      <4>2. k \in 1 .. Len(queue'[s]) /\ queue'[s][k] = q
        BY <1>4, <1>o, <3>1, <4>1
      <4> QED
        BY <1>4, <4>2 DEF Waits
    <3> QED
      BY <3>1, <3>2, <3>3 DEF Waits
  <2>2. ASSUME NEW q \in Queries, phase'[q] = "running" PROVE Runs(q)'
    BY <1>4, <1>p, <2>2 DEF Placed, Runs, Busy
  <2> QED
    BY <1>4, <1>p, <2>1, <2>2 DEF Placed
<1>5. CASE Send
  <2>1. dq \in Queries /\ qsession[dq] \in Sessions
    BY <1>5, <1>o DEF Send, TypeInv, DispatcherOK, Handling
  <2> QED
    BY <1>4, <1>5, <2>1 DEF Send, lines, queries, worker
<1>6. ASSUME NEW s \in Sessions, SendControl(s) PROVE Placed'
  BY <1>4, <1>6 DEF SendControl, lines, queries, worker
<1>7. ASSUME NEW s \in Sessions, queue[s] # <<>>, queue' = [queue EXCEPT ![s] = Tail(@)],
             qsession' = qsession, dpc' = dpc, dq' = dq,
             NEW q \in Queries, phase'[q] = "queued", phase[q] = "queued",
             Head(queue[s]) # q
      PROVE  Waits(q)'
  <2> DEFINE t == qsession[q]
  <2>1. t \in Sessions /\ Waits(q)
    BY <1>7, <1>o, <1>p DEF Placed
  <2>2. CASE dpc = "send" /\ dq = q
    BY <1>7, <2>2 DEF Waits
  <2>3. CASE \E k \in 1 .. Len(queue[t]) : queue[t][k] = q
    <3>1. PICK k \in 1 .. Len(queue[t]) : queue[t][k] = q
      BY <2>3
    <3>2. CASE t # s
      BY <1>7, <1>o, <2>1, <3>1, <3>2 DEF Waits
    <3>3. CASE t = s
      <4>1. queue[s][1] # q
        BY <1>7, QueueEntries DEF TypeInv
      <4>2. k - 1 \in 1 .. Len(queue'[s]) /\ queue'[s][k - 1] = q
        BY <1>7, <1>o, <3>1, <3>3, <4>1
      <4> QED
        BY <1>7, <3>3, <4>2 DEF Waits
    <3> QED
      BY <3>2, <3>3
  <2> QED
    BY <2>1, <2>2, <2>3 DEF Waits
<1>8. ASSUME NEW s \in Sessions, TakeOther(s) PROVE Placed'
  <2>1. /\ queue[s] # <<>> /\ queue' = [queue EXCEPT ![s] = Tail(@)]
        /\ Head(queue[s]) # NoQuery => phase[Head(queue[s])] # "queued"
        /\ UNCHANGED <<phase, qsession, wpc, wq, dpc, dq>>
    BY <1>8 DEF TakeOther, Pop, lines, queries, worker, dispatcher
  <2>2. ASSUME NEW q \in Queries, phase'[q] = "queued" PROVE Waits(q)'
    <3>1. q # NoQuery
      BY LifecycleConstants DEF Queries, NoQuery
    <3> QED
      BY <1>7, <2>1, <2>2, <3>1
  <2>3. ASSUME NEW q \in Queries, phase'[q] = "running" PROVE Runs(q)'
    BY <1>p, <2>1, <2>3 DEF Placed, Runs, Busy
  <2> QED
    BY <1>p, <2>1, <2>2, <2>3 DEF Placed
<1>9. ASSUME NEW s \in Sessions, TakeQuery(s) PROVE Placed'
  <2> DEFINE h == Head(queue[s])
  <2>1. /\ wpc[s] = "recv" /\ queue[s] # <<>> /\ queue' = [queue EXCEPT ![s] = Tail(@)]
        /\ phase' = [phase EXCEPT ![h] = "running"] /\ h # NoQuery
        /\ wq' = [wq EXCEPT ![s] = h] /\ wpc' = [wpc EXCEPT ![s] = "run"]
        /\ UNCHANGED <<qsession, dpc, dq>>
    BY <1>9 DEF TakeQuery, Pop, SetPhase, lines, dispatcher
  <2>2. h \in Queries
    BY <2>1, QueueEntries DEF TypeInv
  <2>3. ASSUME NEW q \in Queries, phase'[q] = "queued" PROVE Waits(q)'
    <3>1. h # q /\ phase[q] = "queued"
      BY <1>o, <2>1, <2>2, <2>3
    <3> QED
      BY <1>7, <2>1, <2>3, <3>1
  <2>4. ASSUME NEW q \in Queries, phase'[q] = "running" PROVE Runs(q)'
    <3> HIDE DEF h
    <3>1. CASE q = h
      <4>1. wpc'[s] = "run" /\ wq'[s] = q
        BY <1>o, <2>1, <3>1
      <4> QED
        BY <4>1 DEF Runs, Busy
    <3>2. CASE q # h
      <4>1. phase[q] = "running"
        BY <1>o, <2>1, <2>2, <2>4, <3>2
      <4>2. PICK t \in Sessions : Busy(t) /\ wq[t] = q
        BY <1>p, <4>1 DEF Placed, Runs
      <4>3. t # s
        BY <2>1, <4>2 DEF Busy
      <4>4. wpc'[t] = wpc[t] /\ wq'[t] = q
        BY <1>o, <2>1, <4>2, <4>3
      <4> QED
        BY <4>2, <4>4 DEF Runs, Busy
    <3> QED
      BY <3>1, <3>2
  <2>5. \A t \in Sessions : wpc'[t] # "dead"
    BY <1>o, <1>p, <2>1 DEF Placed
  <2> QED
    BY <2>3, <2>4, <2>5 DEF Placed
<1>10. ASSUME NEW s \in Sessions, Finish(s) PROVE Placed'
  <2>1. /\ wpc[s] = "finish" /\ phase' = [phase EXCEPT ![wq[s]] = "finished"]
        /\ wpc' = [wpc EXCEPT ![s] = "recv"] /\ wq' = [wq EXCEPT ![s] = NoQuery]
        /\ UNCHANGED <<queue, qsession, dpc, dq>>
    BY <1>10 DEF Finish, SetPhase, lines, dispatcher
  <2>2. wq[s] \in Queries
    BY <1>w, <2>1 DEF WorkerOK, Busy
  <2>3. ASSUME NEW q \in Queries, phase'[q] \in {"queued", "running"}
        PROVE  phase[q] = phase'[q] /\ wq[s] # q
    BY <1>o, <2>1, <2>2, <2>3
  <2>4. ASSUME NEW q \in Queries, phase'[q] = "queued" PROVE Waits(q)'
    BY <1>p, <2>1, <2>3, <2>4 DEF Placed, Waits
  <2>5. ASSUME NEW q \in Queries, phase'[q] = "running" PROVE Runs(q)'
    <3>1. PICK t \in Sessions : Busy(t) /\ wq[t] = q
      BY <1>p, <2>3, <2>5 DEF Placed, Runs
    <3>2. wpc'[t] = wpc[t] /\ wq'[t] = q
      BY <1>o, <2>1, <2>3, <2>5, <3>1
    <3> QED
      BY <3>1, <3>2 DEF Runs, Busy
  <2>6. \A t \in Sessions : wpc'[t] # "dead"
    BY <1>o, <1>p, <2>1 DEF Placed
  <2> QED
    BY <2>4, <2>5, <2>6 DEF Placed
<1>11. ASSUME Refuse \/ SendFails PROVE Placed'
  <2>1. /\ dq \in Queries /\ phase' = [phase EXCEPT ![dq] = "refused"]
        /\ UNCHANGED <<queue, qsession, wpc, wq>>
    BY <1>11 DEF Refuse, SendFails, SetPhase, lines, worker, TypeInv, DispatcherOK, Handling
  <2> QED
    BY <1>1, <1>o, <1>p, <2>1 DEF Placed, Busy
<1>12. ASSUME CancelQueued PROVE Placed'
  <2>1. /\ dq \in Queries /\ phase' = [phase EXCEPT ![dq] = "cancelled"] /\ dpc = "cancel"
        /\ UNCHANGED <<queue, qsession, wpc, wq>>
    BY <1>12 DEF CancelQueued, SetPhase, lines, worker, TypeInv, DispatcherOK, Handling
  <2> QED
    BY <1>1, <1>o, <1>p, <2>1 DEF Placed, Busy
<1>13. ASSUME \/ \E id \in Ids : CancelLookup(id)
              \/ Ping \/ StartShutdown \/ DeadlinePasses \/ SendClose
              \/ CancelNotQueued \/ CancelSettle \/ CancelAnswer \/ CancelStarted
       PROVE  Placed'
  <2>1. dpc # "send" /\ UNCHANGED <<queue, qsession, wpc, wq, phase>>
    BY <1>13 DEF CancelLookup, Ping, StartShutdown, DeadlinePasses, SendClose,
       CancelNotQueued, CancelSettle, CancelAnswer, CancelStarted, lines, worker, queries
  <2> QED
    BY <1>1, <1>p, <2>1 DEF Placed, Busy
<1>14. ASSUME NEW s \in Sessions, RunRejected(s) \/ Run(s) \/ Claim(s) \/ WriteAnswer(s)
       PROVE  Placed'
  <2>1. /\ Busy(s) /\ \/ wpc' = [wpc EXCEPT ![s] = "claim"]
                      \/ wpc' = [wpc EXCEPT ![s] = "answer"]
                      \/ wpc' = [wpc EXCEPT ![s] = "finish"]
        /\ UNCHANGED <<queue, qsession, wq, phase, dpc, dq>>
    BY <1>14 DEF RunRejected, Run, Claim, WriteAnswer, WorkerGoto, lines, queries,
       dispatcher, Busy
  <2>2. \A t \in Sessions : (Busy(t) => Busy(t)') /\ wpc'[t] # "dead"
    BY <1>o, <1>p, <2>1 DEF Busy, Placed
  <2>3. ASSUME NEW q \in Queries, phase'[q] = "queued" PROVE Waits(q)'
    BY <1>p, <2>1, <2>3 DEF Placed, Waits
  <2>4. ASSUME NEW q \in Queries, phase'[q] = "running" PROVE Runs(q)'
    BY <1>p, <2>1, <2>2, <2>4 DEF Placed, Runs
  <2> QED
    BY <2>2, <2>3, <2>4 DEF Placed
<1>15. CASE UNCHANGED vars
  <2>1. UNCHANGED <<queue, qsession, wq, wpc, phase, dpc, dq>>
    BY <1>15 DEF vars, lines, queries, dispatcher, worker
  <2> QED
    BY <1>p, <2>1 DEF Placed, Waits, Runs, Busy
<1>16. ASSUME NEW s \in Sessions PROVE ~AbortWorker(s) /\ ~WorkerDies(s)
  BY <1>0, Zenon DEF AbortWorker, WorkerDies
<1> QED
  BY <1>2, <1>3, <1>5, <1>6, <1>8, <1>9, <1>10, <1>11, <1>12, <1>13, <1>14, <1>15, <1>16
     DEF Next, Caller, Dispatch, Work

(* A shutdown that meets its deadline has answered every accepted query      *)
(* when it writes the close event, if no worker panicked (shutdown_runtime   *)
(* drops the senders and joins the workers).                                *)
THEOREM ShutdownDrains == ASSUME ~WorkersMayDie PROVE Spec => []DrainBeforeClose
<1>1. Init => OrderInv /\ PlaceInv /\ ClosedInv
  BY DEF Init, OrderInv, PlaceInv, Placed, ClosedInv
<1>2. TypeInv /\ SafetyInv /\ ReachInv /\ ClosedInv /\ PlaceInv => DrainBeforeClose
  <2> SUFFICES ASSUME TypeInv, SafetyInv, ReachInv, ClosedInv, PlaceInv,
                      dpc = "closed", ~late, NEW q \in Queries, Accepted(q)
               PROVE  answers[q] = 1
    BY DEF DrainBeforeClose
  <2>1. Placed /\ \A s \in Sessions : wpc[s] = "recv" /\ queue[s] = <<>>
    BY DEF PlaceInv, Placed, ClosedInv, Ended
  <2>2. qsession[q] \in Sessions /\ phase[q] \in Phases /\ answers[q] \in Nat
    BY DEF TypeInv, LinesOK, RecordsOK
  <2>3. phase[q] # "queued"
    BY <2>1, <2>2 DEF Placed, Waits
  <2>4. phase[q] # "running"
    BY <2>1 DEF Placed, Runs, Busy
  <2>5. answers[q] # 0 /\ answers[q] <= 1
    BY <2>2, <2>3, <2>4 DEF Accepted, Phases, SafetyInv, DoneInv, ReachInv, LimboInv
  <2> QED
    BY <2>2, <2>5
<1> QED
  BY <1>1, <1>2, InitTypeInv, NextTypeInv, InitSafetyInv, NextSafetyInv, InitReachInv,
     NextReachInv, NextClosedInv, NextOrderInv, NextPlaceInv, PTL DEF Spec
=============================================================================
