----------------------------- MODULE UiPanelsProofs -----------------------------
(***************************************************************************)
(* Theorems about UiPanels, for whatever the three queries return, whatever *)
(* statements are asked about and however many calls a page may have out.   *)
(***************************************************************************)
EXTENDS UiPanels, FiniteSetTheorems, DataInduction, TLAPS

(***************************************************************************)
(* Types.  No call waits in the queue twice, since one that waits, or whose *)
(* EXPLAIN runs, has not been answered and is not sent again.               *)
(***************************************************************************)
CallRecords == [asks : Asks \cup {"idle"}, reply : Replies]

CallsInv ==
    /\ call \in [Calls -> CallRecords]
    /\ explain \in Calls \cup {NoCall}
    /\ queue \in Seq(Calls)
    /\ \A i, j \in DOMAIN queue : queue[i] = queue[j] => i = j
    /\ \A i \in DOMAIN queue : call[queue[i]].reply = "none" /\ queue[i] # explain
    /\ explain # NoCall => call[explain].reply \in {"none", "started"}

ProcessInv ==
    /\ invocation \in Invocations
    /\ phase \in {"start", "query", "describe", "render", "deliver", "announce",
                  "serving", "approved", "drain", "exited"}
    /\ exit \in {-1, 0, 1, 4} /\ (exit = -1 <=> phase # "exited")
    /\ told \subseteq {"error", "ui_ready", "closed", "executed", "not_executed", "output"}
    /\ window \in {"none", "open", "closed"}
    /\ answer \in {"none", "approve", "refuse", "closed"}
    /\ pages \subseteq {"approve", "refuse"} \X {"Approved", "Refused", "Already_answered"}
    /\ ran \in {NoSql} \cup {st.sql : st \in Statements}

FlagsInv == /\ stdout \in BOOLEAN /\ failed \in BOOLEAN
            /\ due \in BOOLEAN /\ unjoined \in BOOLEAN

MonitorInv ==
    /\ loop \in {"off", "select", "snapshot", "gone"}
    /\ age \in 0 .. Lease + 1

(***************************************************************************)
(* The decision.                                                            *)
(***************************************************************************)
Recorded(ps) == {p \in ps : p[2] # "Already_answered"}
Pressed == {"approve", "refuse"}

\* The page of a plan stays the document of its statement, for nothing but a
\* monitor's loop writes a page that is open.
PageInv ==
    invocation.panel = "plan" =>
      /\ loop = "off" /\ phase \notin {"query", "render"}
      /\ phase \notin {"start", "exited"} /\ invocation.capability = "readonly" =>
           invocation.statement.readOnly
      /\ phase \in {"deliver", "announce", "serving", "approved", "drain"} =>
           page = PlanDocument(invocation.statement, invocation.statement.prepares)

\* One press is recorded, the one the completion cell holds.
RecordInv ==
    /\ Recorded(pages) = IF answer \in Pressed
                         THEN {<<answer, DecidedDocument(answer, TRUE)>>} ELSE {}
    /\ answer \in Pressed => invocation.panel = "plan"

\* Between the approval and the exit only the approved statement runs.
RunInv ==
    /\ ran # NoSql => /\ answer = "approve" /\ page.shape = "plan" /\ page.sql = ran
                      /\ invocation.capability = "readonly" => page.readOnly
                      /\ phase \in {"drain", "exited"}
    /\ phase \in {"approved", "drain"} => answer = "approve" /\ "not_executed" \notin told
    /\ "not_executed" \in told => answer # "approve" /\ phase = "exited" /\ ran = NoSql
    /\ exit = 0 /\ answer = "approve" => ran # NoSql

\* A run without an error ran.
DrainInv == phase = "drain" /\ ~failed => ran # NoSql

UiInv == ProcessInv /\ PageInv /\ RecordInv /\ RunInv /\ DrainInv

LEMMA InitUi == Init => FlagsInv /\ MonitorInv /\ CallsInv /\ UiInv
<1> SUFFICES ASSUME Init PROVE FlagsInv /\ MonitorInv /\ CallsInv /\ UiInv
  OBVIOUS
<1>1. ProcessInv
  BY DEF Init, ProcessInv
<1>2. MonitorInv
  BY PanelConstants DEF Init, MonitorInv
<1>3. CallsInv
  BY DEF Init, CallsInv, Idle, CallRecords, Replies
<1>4. PageInv /\ RecordInv /\ RunInv /\ DrainInv
  BY DEF Init, PageInv, RecordInv, RunInv, DrainInv, Recorded, Pressed
<1>5. FlagsInv
  BY DEF Init, FlagsInv
<1> QED BY <1>1, <1>2, <1>3, <1>4, <1>5 DEF UiInv

LEMMA NextFlags == FlagsInv /\ [Next]_vars => FlagsInv'
<1> SUFFICES ASSUME FlagsInv, [Next]_vars PROVE FlagsInv'
  OBVIOUS
<1> USE DEF FlagsInv
<1>1. CASE AgentGoes \/ Start \/ OpeningQuery \/ Describe \/ Render
  BY <1>1 DEF AgentGoes, Start, OpeningQuery, Describe, Render, decision, live
<1>2. CASE Deliver \/ Announce \/ CloseWindow \/ DeliveryBreaks \/ StaticEnds
  BY <1>2 DEF Deliver, Announce, CloseWindow, DeliveryBreaks, StaticEnds, decision, live, process
<1>3. ASSUME NEW d \in {"approve", "refuse"}, Press(d) PROVE FlagsInv'
  BY <1>3 DEF Press, live, process
<1>4. CASE PlanEnds \/ RunStatement \/ DrainPlan
  <2>1. CASE RunStatement
    <3>1. failed' \in BOOLEAN
      BY <2>1 DEF RunStatement
    <3> QED BY <2>1, <3>1 DEF RunStatement, live
  <2> QED BY <1>4, <2>1 DEF PlanEnds, DrainPlan, decision, live
<1>5. ASSUME NEW c \in Calls, NEW asks \in Asks, Send(c, asks) PROVE FlagsInv'
  BY <1>5 DEF Send, process, decision
<1>6. CASE PeriodPasses \/ Tick \/ SnapshotReturns \/ Receive
  BY <1>6 DEF PeriodPasses, Tick, SnapshotReturns, Receive, process, decision
<1>7. CASE ExplainBegins \/ ExplainReturns \/ JoinExplain \/ RuntimeCloses \/ MonitorEnds
  BY <1>7 DEF ExplainBegins, ExplainReturns, JoinExplain, RuntimeCloses, MonitorEnds, TaskEnds,
     process, decision
<1>8. CASE UNCHANGED vars
  BY <1>8 DEF vars, process, decision, live
<1> QED BY <1>1, <1>2, <1>3, <1>4, <1>5, <1>6, <1>7, <1>8 DEF Next

(***************************************************************************)
(* The ways a process goes on: it says something and goes on or ends, it    *)
(* says its last word, or it goes on in silence.                            *)
(***************************************************************************)
LEMMA EmitMeans ==
  ASSUME NEW event, NEW next, Emit(event, next)
  PROVE  \/ phase' = next /\ exit' = exit /\ told' = told \cup {event}
         \/ phase' = "exited" /\ exit' = 4 /\ told' = told
BY DEF Emit, Exits

LEMMA LastWord ==
  ASSUME NEW event, NEW code, EmitAndExit(event, code)
  PROVE  phase' = "exited" /\ exit' \in {code, 4} /\ told' \in {told, told \cup {event}}
BY DEF EmitAndExit, Exits

(* Everything the decision is about, but for the Boolean flags.             *)
Said == <<phase, exit, told>>
Shown == <<invocation, page, window, loop>>
Decided == <<answer, pages, ran>>

(* A step that decides nothing: the process fails or goes on before it       *)
(* serves, or stays where it is.                                            *)
LEMMA Opening ==
  ASSUME UiInv, invocation' = invocation, window' \in {window, "open"}, UNCHANGED Decided,
         DrainInv', phase \notin {"approved", "drain", "exited"},
         \/ phase' = "exited" /\ exit' \in {1, 4} /\ told' \in {told, told \cup {"error"}}
         \/ /\ phase' \in {"query", "describe", "render", "deliver", "announce", "serving"}
            /\ exit' = exit /\ told' \in {told, told \cup {"ui_ready"}},
         PageInv'
  PROVE  UiInv'
<1>0. ProcessInv /\ PageInv /\ RecordInv /\ RunInv /\ UNCHANGED <<answer, pages, ran>>
  BY DEF UiInv, Decided
<1>1. ProcessInv'
  <2>1. told' \subseteq told \cup {"error", "ui_ready"}
    OBVIOUS
  <2>2. exit' \in {-1, 0, 1, 4} /\ (exit' = -1 <=> phase' # "exited")
        /\ phase' \in {"query", "describe", "render", "deliver", "announce", "serving", "exited"}
    BY <1>0 DEF ProcessInv
  <2> QED BY <1>0, <2>1, <2>2 DEF ProcessInv
<1>2. RecordInv'
  BY <1>0 DEF RecordInv, Recorded
<1>3. ran = NoSql /\ "not_executed" \notin told
  BY <1>0 DEF RunInv
<1>4. RunInv'
  BY <1>0, <1>3 DEF RunInv, ProcessInv
<1> QED BY <1>1, <1>2, <1>4 DEF UiInv

(* A step that ends a panel which was no approved plan.                     *)
LEMMA Ending ==
  ASSUME UiInv, UNCHANGED <<invocation, page, window>>, UNCHANGED Decided,
         phase = "serving", phase' = "exited", exit' \in {0, 1, 4}, loop' \in {loop, "off"},
         \/ told' \in {told, told \cup {"error"}, told \cup {"closed"}}
         \/ told' = told \cup {"not_executed"} /\ answer # "approve",
         exit' = 0 => answer # "approve"
  PROVE  UiInv'
<1>0. ProcessInv /\ PageInv /\ RecordInv /\ RunInv /\ UNCHANGED <<answer, pages, ran>>
  BY DEF UiInv, Decided
<1>1. ProcessInv'
  <2>1. told' \subseteq told \cup {"error", "closed", "not_executed"}
    OBVIOUS
  <2>2. exit' \in {-1, 0, 1, 4} /\ (exit' = -1 <=> phase' # "exited")
    OBVIOUS
  <2> QED BY <1>0, <2>1, <2>2 DEF ProcessInv
<1>2. RecordInv'
  BY <1>0 DEF RecordInv, Recorded
<1>3. ran = NoSql /\ "not_executed" \notin told
  BY <1>0 DEF RunInv
<1>4. RunInv' /\ DrainInv'
  BY <1>0, <1>3 DEF RunInv, DrainInv
<1>5. PageInv'
  BY <1>0 DEF PageInv
<1> QED BY <1>1, <1>2, <1>4, <1>5 DEF UiInv

LEMMA NextUi == UiInv /\ [Next]_vars => UiInv'
<1> SUFFICES ASSUME UiInv, [Next]_vars PROVE UiInv'
  OBVIOUS
<1>0. ProcessInv /\ PageInv /\ RecordInv /\ RunInv /\ DrainInv
  BY DEF UiInv
<1>s. invocation' = invocation
  BY DEF Next, vars, process, AgentGoes, Start, OpeningQuery, Describe, Render, Deliver,
     Announce, CloseWindow, DeliveryBreaks, StaticEnds, Press, PlanEnds, RunStatement,
     DrainPlan, Send, PeriodPasses, Tick, SnapshotReturns, Receive, ExplainBegins,
     ExplainReturns, JoinExplain, RuntimeCloses, MonitorEnds
<1>1. CASE Start
  <2>1. /\ phase = "start" /\ UNCHANGED <<page, window, loop>> /\ UNCHANGED Decided
        /\ \/ phase' = "exited" /\ exit' \in {1, 4} /\ told' \in {told, told \cup {"error"}}
           \/ /\ phase' = (IF invocation.panel = "plan" THEN "describe" ELSE "query")
              /\ invocation.panel = "plan" => ~RefusesPlan(invocation)
              /\ exit' = exit /\ told' = told
    BY <1>1, LastWord DEF Start, Fail, Goes, decision, live, Decided
  <2>2. PageInv'
    BY <1>0, <1>s, <2>1 DEF PageInv, RefusesPlan
  <2>3. DrainInv'
    BY <2>1 DEF DrainInv
  <2> QED BY <1>s, <2>1, <2>2, <2>3, Opening
<1>2. CASE OpeningQuery
  <2>1. /\ phase = "query" /\ UNCHANGED <<page, window, loop>> /\ UNCHANGED Decided
        /\ \/ phase' = "exited" /\ exit' \in {1, 4} /\ told' \in {told, told \cup {"error"}}
           \/ phase' = "render" /\ exit' = exit /\ told' = told
    BY <1>2, LastWord DEF OpeningQuery, Fail, Goes, decision, live, Decided
  <2>2. PageInv' /\ DrainInv'
    BY <1>0, <1>s, <2>1 DEF PageInv, DrainInv
  <2> QED BY <1>s, <2>1, <2>2, Opening
<1>3. CASE Describe
  <2>1. /\ phase = "describe" /\ UNCHANGED <<window, loop>> /\ UNCHANGED Decided
        /\ \/ phase' = "exited" /\ exit' \in {1, 4} /\ told' \in {told, told \cup {"error"}}
           \/ /\ page' = PlanDocument(invocation.statement, invocation.statement.prepares)
              /\ phase' = "deliver" /\ exit' = exit /\ told' = told
    BY <1>3, LastWord DEF Describe, Fail, Goes, decision, live, Decided
  <2>2. PageInv' /\ DrainInv'
    BY <1>0, <1>s, <2>1 DEF PageInv, DrainInv
  <2> QED BY <1>s, <2>1, <2>2, Opening
<1>4. CASE Render
  <2>1. /\ phase = "render" /\ UNCHANGED <<window, loop>> /\ UNCHANGED Decided
        /\ \/ phase' = "exited" /\ exit' \in {1, 4} /\ told' \in {told, told \cup {"error"}}
           \/ phase' = "deliver" /\ exit' = exit /\ told' = told
    BY <1>4, LastWord DEF Render, Fail, Goes, decision, live, Decided
  <2>2. PageInv' /\ DrainInv'
    BY <1>0, <1>s, <2>1 DEF PageInv, DrainInv
  <2> QED BY <1>s, <2>1, <2>2, Opening
<1>5. CASE Deliver
  <2>1. /\ phase = "deliver" /\ UNCHANGED <<page, loop>> /\ UNCHANGED Decided
        /\ window' \in {window, "open"}
        /\ \/ phase' = "exited" /\ exit' \in {1, 4} /\ told' \in {told, told \cup {"error"}}
           \/ phase' = "announce" /\ exit' = exit /\ told' = told
    BY <1>5, LastWord DEF Deliver, Fail, Goes, decision, live, Decided
  <2>2. PageInv' /\ DrainInv'
    BY <1>0, <1>s, <2>1 DEF PageInv, DrainInv
  <2> QED BY <1>s, <2>1, <2>2, Opening
<1>6. CASE Announce
  <2>1. /\ phase = "announce" /\ UNCHANGED <<page, window>> /\ UNCHANGED Decided
        /\ invocation.panel # "connections" => loop' = loop
        /\ \/ phase' = "exited" /\ exit' = 4 /\ told' = told
           \/ phase' = "serving" /\ exit' = exit /\ told' = told \cup {"ui_ready"}
    BY <1>6, EmitMeans DEF Announce, decision, Decided
  <2>2. PageInv' /\ DrainInv'
    BY <1>0, <1>s, <2>1 DEF PageInv, DrainInv
  <2> QED BY <1>s, <2>1, <2>2, Opening
<1>7. CASE CloseWindow
  <2>1. /\ phase \in {"announce", "serving"} /\ UNCHANGED <<page, loop>> /\ UNCHANGED Said
        /\ window' = "closed" /\ pages' = pages /\ ran' = ran
        /\ answer' = IF answer = "none" THEN "closed" ELSE answer
    BY <1>7 DEF CloseWindow, Serves, process, live, Said
  <2>2. ProcessInv' /\ PageInv' /\ RecordInv' /\ RunInv' /\ DrainInv'
    BY <1>0, <1>s, <2>1
       DEF ProcessInv, PageInv, RecordInv, RunInv, DrainInv, Recorded, Pressed, Said
  <2> QED BY <2>2 DEF UiInv
<1>8. CASE DeliveryBreaks
  <2>1. /\ phase = "serving" /\ UNCHANGED <<page, window, loop>> /\ UNCHANGED Decided
        /\ phase' = "exited" /\ exit' \in {1, 4} /\ told' \in {told, told \cup {"error"}}
    BY <1>8, LastWord DEF DeliveryBreaks, Fail, decision, live, Decided
  <2> QED BY <1>s, <2>1, Ending
<1>9. CASE StaticEnds \/ MonitorEnds
  <2>1. /\ phase = "serving" /\ UNCHANGED <<page, window>> /\ UNCHANGED Decided
        /\ loop' \in {loop, "off"} /\ invocation.panel # "plan"
        /\ phase' = "exited" /\ exit' \in {0, 4} /\ told' \in {told, told \cup {"closed"}}
    BY <1>9, LastWord DEF StaticEnds, MonitorEnds, StaticPanels, decision, live, Decided
  <2>2. answer # "approve"
    BY <1>0, <2>1 DEF RecordInv, Pressed
  <2> QED BY <1>s, <2>1, <2>2, Ending
<1>10. ASSUME NEW d \in Pressed, Press(d) PROVE UiInv'
  <2>1. /\ phase \in {"announce", "serving"} /\ UNCHANGED Shown /\ UNCHANGED Said
        /\ invocation.panel = "plan" /\ ran' = ran
        /\ answer' = IF answer = "none" THEN d ELSE answer
        /\ pages' = pages \cup {<<d, DecidedDocument(d, answer = "none")>>}
    BY <1>10 DEF Press, Serves, process, live, Said, Shown
  <2>2. ran = NoSql /\ "not_executed" \notin told /\ exit = -1
    BY <1>0, <2>1 DEF RunInv, ProcessInv
  <2>3. RunInv' /\ DrainInv' /\ PageInv'
    BY <1>0, <2>1, <2>2 DEF RunInv, DrainInv, PageInv, Said, Shown
  <2>4. CASE answer = "none"
    <3>1. pages' = pages \cup {<<d, DecidedDocument(d, TRUE)>>} /\ answer' = d
      BY <2>1, <2>4 DEF DecidedDocument
    <3>2. DecidedDocument(d, TRUE) \in {"Approved", "Refused"}
      BY DEF DecidedDocument
    <3>3. Recorded(pages) = {}
      BY <1>0, <2>4 DEF RecordInv, Pressed
    <3>4. Recorded(pages') = {<<d, DecidedDocument(d, TRUE)>>}
      <4> DEFINE shown == DecidedDocument(d, TRUE)
      <4>1. pages' = pages \cup {<<d, shown>>} /\ shown # "Already_answered"
        BY <3>1, <3>2
      <4> HIDE DEF shown
      <4>2. \A p \in pages : p[2] = "Already_answered"
        BY <3>3 DEF Recorded
      <4>3. \A p : p \in Recorded(pages') <=> p = <<d, shown>>
        BY <4>1, <4>2 DEF Recorded
      <4> QED BY <4>3 DEF shown
    <3>5. RecordInv'
      BY <2>1, <3>1, <3>4 DEF RecordInv, Shown
    <3>6. ProcessInv'
      <4> DEFINE shown == DecidedDocument(d, TRUE)
      <4>1. pages' = pages \cup {<<d, shown>>} /\ shown \in {"Approved", "Refused"}
        BY <3>1, <3>2
      <4> HIDE DEF shown
      <4> QED BY <1>0, <2>1, <3>1, <4>1 DEF ProcessInv, Said, Shown, Pressed
    <3> QED BY <2>3, <3>5, <3>6 DEF UiInv
  <2>5. CASE answer # "none"
    <3>1. pages' = pages \cup {<<d, "Already_answered">>} /\ answer' = answer
      BY <2>1, <2>5 DEF DecidedDocument
    <3>2. Recorded(pages') = Recorded(pages)
      BY <3>1 DEF Recorded
    <3>3. RecordInv'
      BY <1>0, <2>1, <3>1, <3>2 DEF RecordInv, Shown
    <3>4. ProcessInv'
      BY <1>0, <2>1, <3>1 DEF ProcessInv, Said, Shown, Pressed
    <3> QED BY <2>3, <3>3, <3>4 DEF UiInv
  <2> QED BY <2>4, <2>5
<1>11. CASE PlanEnds
  <2>1. /\ phase = "serving" /\ UNCHANGED <<page, window, loop>> /\ UNCHANGED Decided
        /\ \/ /\ answer = "approve"
              /\ \/ phase' = "approved" /\ exit' = exit /\ told' = told \cup {"executed"}
                 \/ phase' = "exited" /\ exit' = 4 /\ told' = told
           \/ /\ answer # "approve" /\ phase' = "exited" /\ exit' \in {0, 4}
              /\ told' \in {told, told \cup {"not_executed"}}
    BY <1>11, EmitMeans, LastWord DEF PlanEnds, Approved, decision, live, Decided
  <2>2. CASE phase' = "exited"
    BY <1>s, <2>1, <2>2, Ending
  <2>3. CASE phase' = "approved"
    <3>1. answer = "approve" /\ exit' = exit /\ told' = told \cup {"executed"}
      BY <2>1, <2>3
    <3>2. ProcessInv'
      BY <1>0, <1>s, <2>1, <2>3, <3>1 DEF ProcessInv, Decided
    <3>3. PageInv' /\ RecordInv' /\ DrainInv'
      BY <1>0, <1>s, <2>1, <2>3 DEF PageInv, RecordInv, DrainInv, Decided
    <3>4. RunInv'
      BY <1>0, <1>s, <2>1, <2>3, <3>1 DEF RunInv, ProcessInv, Decided
    <3> QED BY <3>2, <3>3, <3>4 DEF UiInv
  <2> QED BY <2>1, <2>2, <2>3
<1>12. CASE RunStatement
  <2>1. /\ phase = "approved" /\ phase' = "drain" /\ UNCHANGED <<exit, told>>
        /\ UNCHANGED Shown /\ UNCHANGED <<answer, pages>>
    BY <1>12 DEF RunStatement, Goes, live, Shown
  <2>2. ran' \in {NoSql, invocation.statement.sql}
        /\ (~failed' => ran' = invocation.statement.sql)
    BY <1>12 DEF RunStatement
  <2>3. answer = "approve" /\ invocation.panel = "plan" /\ exit = -1
        /\ "not_executed" \notin told
    BY <1>0, <2>1 DEF RunInv, RecordInv, Pressed, ProcessInv
  <2>4. invocation.statement \in Statements
    BY <1>0, <2>3 DEF ProcessInv, Invocations, StaticPanels
  <2>5. invocation.statement.sql # NoSql
    BY <2>4, PanelConstants
  <2>6. /\ page = PlanDocument(invocation.statement, invocation.statement.prepares)
        /\ invocation.capability = "readonly" => invocation.statement.readOnly
    BY <1>0, <2>1, <2>3 DEF PageInv
  <2>7. page.shape = "plan" /\ page.sql = invocation.statement.sql
        /\ (invocation.capability = "readonly" => page.readOnly)
    BY <2>6 DEF PlanDocument
  <2>8. DrainInv'
    BY <2>2, <2>5 DEF DrainInv
  <2>9. RunInv'
    BY <2>1, <2>2, <2>3, <2>5, <2>7 DEF RunInv, Shown
  <2>10. ProcessInv'
    BY <1>0, <2>1, <2>2, <2>4 DEF ProcessInv, Shown
  <2>11. PageInv' /\ RecordInv'
    BY <1>0, <2>1 DEF PageInv, RecordInv, Shown
  <2> QED BY <2>8, <2>9, <2>10, <2>11 DEF UiInv
<1>13. CASE DrainPlan
  <2>1. /\ phase = "drain" /\ UNCHANGED Shown /\ UNCHANGED Decided
        /\ phase' = "exited" /\ told' \in {told, told \cup {"output"}}
        /\ exit' \in {0, 1, 4}
        /\ exit' = 0 => ~failed
    <3>1. EmitAndExit("output", IF failed THEN 1 ELSE 0)
      BY <1>13 DEF DrainPlan
    <3>2. CASE failed
      BY <1>13, <3>1, <3>2, LastWord DEF DrainPlan, decision, live, Shown, Decided
    <3>3. CASE ~failed
      BY <1>13, <3>1, <3>3, LastWord DEF DrainPlan, decision, live, Shown, Decided
    <3> QED BY <3>2, <3>3
  <2>2. exit' = 0 => ran # NoSql
    BY <1>0, <2>1 DEF DrainInv
  <2>3. ProcessInv'
    BY <1>0, <2>1 DEF ProcessInv, Shown, Decided
  <2>4. PageInv' /\ RecordInv' /\ DrainInv'
    BY <1>0, <2>1 DEF PageInv, RecordInv, DrainInv, Shown, Decided
  <2>5. RunInv'
    BY <1>0, <2>1, <2>2 DEF RunInv, Shown, Decided
  <2> QED BY <2>3, <2>4, <2>5 DEF UiInv
<1>14. ASSUME UNCHANGED <<phase, exit, told, window, answer, pages, ran>>, failed' <=> failed,
              \/ UNCHANGED <<page, loop>>
              \/ loop # "off"
       PROVE  UiInv'
  <2>1. ProcessInv' /\ RecordInv'
    BY <1>0, <1>s, <1>14 DEF ProcessInv, RecordInv
  <2>2. DrainInv'
    BY <1>0, <1>14 DEF DrainInv
  <2>3. CASE invocation.panel = "plan"
    <3>1. UNCHANGED <<page, loop>>
      BY <1>0, <1>14, <2>3 DEF PageInv
    <3>2. PageInv' /\ RunInv'
      BY <1>0, <1>s, <1>14, <3>1 DEF PageInv, RunInv
    <3> QED BY <2>1, <2>2, <3>2 DEF UiInv
  <2>4. CASE invocation.panel # "plan"
    <3>1. ran = NoSql /\ answer # "approve"
      BY <1>0, <2>4 DEF RunInv, RecordInv, Pressed
    <3>2. PageInv' /\ RunInv'
      BY <1>0, <1>s, <1>14, <2>4, <3>1 DEF PageInv, RunInv
    <3> QED BY <2>1, <2>2, <3>2 DEF UiInv
  <2> QED BY <2>3, <2>4
<1>15. CASE AgentGoes
  BY <1>14, <1>15 DEF AgentGoes, decision, live
<1>16. ASSUME NEW c \in Calls, NEW asks \in Asks, Send(c, asks) PROVE UiInv'
  BY <1>14, <1>16 DEF Send, process, decision
<1>17. CASE PeriodPasses \/ ExplainBegins \/ ExplainReturns \/ JoinExplain
  BY <1>14, <1>17 DEF PeriodPasses, ExplainBegins, ExplainReturns, JoinExplain, process,
     decision
<1>18. CASE Tick \/ SnapshotReturns \/ Receive \/ RuntimeCloses
  BY <1>14, <1>18 DEF Tick, SnapshotReturns, Receive, RuntimeCloses, LoopAt, process, decision
<1>19. CASE UNCHANGED vars
  BY <1>14, <1>19 DEF vars, process, decision, live
<1> QED BY <1>1, <1>2, <1>3, <1>4, <1>5, <1>6, <1>7, <1>8, <1>9, <1>10, <1>11, <1>12, <1>13,
           <1>15, <1>16, <1>17, <1>18, <1>19 DEF Next, Pressed

(***************************************************************************)
(* The person, the agent and the server agree on one answer.                *)
(***************************************************************************)
THEOREM OneAnswer == Spec => []AnswersTellTheTruth
<1>1. UiInv => AnswersTellTheTruth
  <2> SUFFICES ASSUME UiInv PROVE AnswersTellTheTruth
    OBVIOUS
  <2>0. RecordInv /\ RunInv
    BY DEF UiInv
  <2>1. Cardinality(Recorded(pages)) <= 1
    <3>1. CASE answer \in Pressed
      <4>1. Recorded(pages) = {<<answer, DecidedDocument(answer, TRUE)>>}
        BY <2>0, <3>1 DEF RecordInv
      <4>2. Cardinality({<<answer, DecidedDocument(answer, TRUE)>>}) = 1
        BY FS_Singleton
      <4> QED BY <4>1, <4>2
    <3>2. CASE answer \notin Pressed
      <4>1. Recorded(pages) = {}
        BY <2>0, <3>2 DEF RecordInv
      <4> QED BY <4>1, FS_EmptySet
    <3> QED BY <3>1, <3>2
  <2>2. answer = "approve" => Recorded(pages) = {<<"approve", "Approved">>}
    BY <2>0 DEF RecordInv, Pressed, DecidedDocument
  <2>3. <<"approve", "Approved">> \in pages => answer = "approve"
    BY <2>0 DEF RecordInv, Recorded, DecidedDocument
  <2>4. <<"refuse", "Refused">> \in pages => answer # "approve"
    BY <2>2 DEF Recorded
  <2>5. "not_executed" \in told => Recorded(pages) # {<<"approve", "Approved">>}
    BY <2>0, <2>3 DEF RunInv, Recorded
  <2> QED BY <2>0, <2>1, <2>2, <2>3, <2>4, <2>5 DEF AnswersTellTheTruth, RunInv, Recorded
<1> QED BY <1>1, InitUi, NextUi, PTL DEF Spec

(***************************************************************************)
(* The monitor's loop, its queue and its calls.                             *)
(***************************************************************************)
LEMMA NextMonitor == MonitorInv /\ [Next]_vars => MonitorInv'
<1> SUFFICES ASSUME MonitorInv, [Next]_vars PROVE MonitorInv'
  OBVIOUS
<1> USE PanelConstants DEF MonitorInv
<1>1. CASE Announce
  BY <1>1 DEF Announce
<1>2. CASE PeriodPasses
  BY <1>2 DEF PeriodPasses
<1>3. CASE Tick \/ SnapshotReturns \/ RuntimeCloses \/ MonitorEnds
  BY <1>3 DEF Tick, SnapshotReturns, RuntimeCloses, MonitorEnds
<1>4. CASE Receive
  <2>1. age' = 0 /\ loop' \in {loop, "gone"}
    BY <1>4 DEF Receive, Reply, SpawnExplain
  <2> QED BY <2>1
<1>5. ASSUME UNCHANGED <<loop, age>> PROVE MonitorInv'
  BY <1>5
<1>6. CASE AgentGoes \/ Start \/ OpeningQuery \/ Describe \/ Render \/ Deliver
  BY <1>5, <1>6 DEF AgentGoes, Start, OpeningQuery, Describe, Render, Deliver, live
<1>7. CASE CloseWindow \/ DeliveryBreaks \/ StaticEnds \/ PlanEnds \/ RunStatement \/ DrainPlan
  BY <1>5, <1>7 DEF CloseWindow, DeliveryBreaks, StaticEnds, PlanEnds, RunStatement, DrainPlan,
     live
<1>8. ASSUME NEW d \in Pressed, Press(d) PROVE MonitorInv'
  BY <1>5, <1>8 DEF Press, live
<1>9. ASSUME NEW c \in Calls, NEW asks \in Asks, Send(c, asks) PROVE MonitorInv'
  BY <1>5, <1>9 DEF Send
<1>10. CASE ExplainBegins \/ ExplainReturns \/ JoinExplain
  BY <1>5, <1>10 DEF ExplainBegins, ExplainReturns, JoinExplain
<1>11. CASE UNCHANGED vars
  BY <1>5, <1>11 DEF vars, live
<1> QED BY <1>1, <1>2, <1>3, <1>4, <1>6, <1>7, <1>8, <1>9, <1>10, <1>11 DEF Next, Pressed

\* One call is answered or goes on, and no other changes.
LEMMA OneReply ==
  ASSUME NEW f \in [Calls -> CallRecords], NEW c \in Calls, NEW reply \in Replies
  PROVE  LET g == [f EXCEPT ![c].reply = reply]
         IN g \in [Calls -> CallRecords] /\ g[c].reply = reply /\ g[c].asks = f[c].asks
            /\ \A d \in Calls : d # c => g[d] = f[d]
BY DEF CallRecords

LEMMA NextCalls == CallsInv /\ [Next]_vars => CallsInv'
<1> SUFFICES ASSUME CallsInv, [Next]_vars PROVE CallsInv'
  OBVIOUS
<1> USE PanelConstants
<1>0. ASSUME UNCHANGED <<call, explain, queue>> PROVE CallsInv'
  BY <1>0 DEF CallsInv
<1>1. CASE AgentGoes \/ Start \/ OpeningQuery \/ Describe \/ Render \/ Deliver \/ Announce
  BY <1>0, <1>1 DEF AgentGoes, Start, OpeningQuery, Describe, Render, Deliver, Announce, live
<1>2. CASE CloseWindow \/ DeliveryBreaks \/ StaticEnds \/ PlanEnds \/ RunStatement \/ DrainPlan
  BY <1>0, <1>2 DEF CloseWindow, DeliveryBreaks, StaticEnds, PlanEnds, RunStatement, DrainPlan,
     live
<1>3. ASSUME NEW d \in Pressed, Press(d) PROVE CallsInv'
  BY <1>0, <1>3 DEF Press, live
<1>4. CASE PeriodPasses \/ Tick \/ SnapshotReturns \/ JoinExplain \/ RuntimeCloses
  BY <1>0, <1>4 DEF PeriodPasses, Tick, SnapshotReturns, JoinExplain, RuntimeCloses
<1>5. ASSUME NEW c \in Calls, NEW asks \in Asks, Send(c, asks) PROVE CallsInv'
  <2>1. /\ call[c].reply \notin {"none", "started"} /\ explain' = explain
        /\ call' = [call EXCEPT ![c] = [asks |-> asks, reply |-> "none"]]
        /\ queue' = Append(queue, c)
    BY <1>5 DEF Send
  <2>2. /\ call' \in [Calls -> CallRecords] /\ call'[c].reply = "none"
        /\ \A d \in Calls : d # c => call'[d] = call[d]
    BY <2>1 DEF CallsInv, CallRecords, Replies
  <2>3. c # explain /\ \A i \in DOMAIN queue : queue[i] # c
    BY <2>1 DEF CallsInv
  <2>4. queue' \in Seq(Calls) /\ DOMAIN queue' = DOMAIN queue \cup {Len(queue) + 1}
        /\ queue'[Len(queue) + 1] = c /\ \A i \in DOMAIN queue : queue'[i] = queue[i]
    BY <2>1 DEF CallsInv
  <2>5. \A i \in DOMAIN queue : queue[i] \in Calls
    BY DEF CallsInv
  <2>6. \A i, j \in DOMAIN queue' : queue'[i] = queue'[j] => i = j
    BY <2>3, <2>4 DEF CallsInv
  <2>7. \A i \in DOMAIN queue' : call'[queue'[i]].reply = "none" /\ queue'[i] # explain'
    BY <2>1, <2>2, <2>3, <2>4, <2>5 DEF CallsInv
  <2> QED BY <2>1, <2>2, <2>3, <2>4, <2>6, <2>7 DEF CallsInv
<1>6. CASE Receive
  <2> DEFINE c == Head(queue)
  <2>1. queue # <<>> /\ queue' = Tail(queue)
        /\ \/ explain' = explain /\ \E reply \in {"observed", "explain_busy", "undelivered"} :
                                       call' = [call EXCEPT ![c].reply = reply]
           \/ explain = NoCall /\ explain' = c /\ call' = call
    BY <1>6 DEF Receive, Reply, SpawnExplain
  <2>2. c \in Calls /\ c = queue[1] /\ call[c].reply = "none" /\ c # explain
        /\ \A i \in DOMAIN queue : queue[i] \in Calls
    BY <2>1 DEF CallsInv
  <2>3. queue' \in Seq(Calls) /\ DOMAIN queue' = 1 .. Len(queue) - 1
        /\ \A i \in DOMAIN queue' : i + 1 \in DOMAIN queue /\ queue'[i] = queue[i + 1]
                                    /\ queue'[i] # c
    BY <2>1, <2>2 DEF CallsInv
  <2> HIDE DEF c
  <2>4. \A i, j \in DOMAIN queue' : queue'[i] = queue'[j] => i = j
    BY <2>3 DEF CallsInv
  <2>5. CASE explain = NoCall /\ explain' = c /\ call' = call
    BY <2>2, <2>3, <2>4, <2>5 DEF CallsInv
  <2>6. ASSUME NEW reply \in {"observed", "explain_busy", "undelivered"},
               call' = [call EXCEPT ![c].reply = reply], explain' = explain
        PROVE  CallsInv'
    <3>0. reply \in Replies /\ call \in [Calls -> CallRecords]
      BY DEF CallsInv, Replies
    <3>1. /\ call' \in [Calls -> CallRecords]
          /\ \A d \in Calls : d # c => call'[d] = call[d]
      BY <2>2, <2>6, <3>0, OneReply
    <3> QED BY <2>2, <2>3, <2>4, <2>6, <3>1 DEF CallsInv
  <2> QED BY <2>1, <2>5, <2>6
<1>7. CASE ExplainBegins \/ ExplainReturns
  <2>1. /\ explain # NoCall /\ queue' = queue
        /\ \E reply \in Replies :
             /\ call' = [call EXCEPT ![explain].reply = reply]
             /\ \/ reply = "started" /\ explain' = explain
                \/ explain' = NoCall
    BY <1>7 DEF ExplainBegins, ExplainReturns, TaskEnds, Replies
  <2>2. PICK reply \in Replies :
          /\ call' = [call EXCEPT ![explain].reply = reply]
          /\ \/ reply = "started" /\ explain' = explain
             \/ explain' = NoCall
    BY <2>1
  <2>3. explain \in Calls
    BY <2>1 DEF CallsInv
  <2>4. /\ call' \in [Calls -> CallRecords] /\ call'[explain].reply = reply
        /\ \A d \in Calls : d # explain => call'[d] = call[d]
    BY <2>2, <2>3, OneReply DEF CallsInv
  <2>5. \A i \in DOMAIN queue : queue[i] \in Calls
    BY DEF CallsInv
  <2> QED BY <2>1, <2>2, <2>3, <2>4, <2>5 DEF CallsInv
<1>8. CASE MonitorEnds
  <2>1. explain' = NoCall /\ UNCHANGED <<queue, call>>
    BY <1>8 DEF MonitorEnds
  <2>2. \A i \in DOMAIN queue : queue[i] \in Calls
    BY DEF CallsInv
  <2> QED BY <2>1, <2>2 DEF CallsInv
<1>9. CASE UNCHANGED vars
  BY <1>0, <1>9 DEF vars, live
<1> QED BY <1>1, <1>2, <1>3, <1>4, <1>5, <1>6, <1>7, <1>8, <1>9 DEF Next, Pressed

(***************************************************************************)
(* Every variable has its type, and no call waits in the queue twice.       *)
(***************************************************************************)
THEOREM PanelTypes == Spec => []TypeOK
<1>1. FlagsInv /\ MonitorInv /\ CallsInv /\ UiInv => TypeOK
  <2> SUFFICES ASSUME FlagsInv, MonitorInv, CallsInv, ProcessInv PROVE TypeOK
    BY DEF UiInv
  <2> QED BY DEF FlagsInv, MonitorInv, CallsInv, ProcessInv, TypeOK, CallRecords
<1>2. FlagsInv /\ MonitorInv /\ CallsInv /\ UiInv /\ [Next]_vars
        => (FlagsInv /\ MonitorInv /\ CallsInv /\ UiInv)'
  BY NextFlags, NextMonitor, NextCalls, NextUi
<1> QED BY <1>1, <1>2, InitUi, PTL DEF Spec

(***************************************************************************)
(* The loops over the rows.  What each has after every row is a function    *)
(* that exists, by induction over the rows it has seen.                     *)
(***************************************************************************)
Pick(s, rs, S, i) == IF i \in S THEN Append(s, rs[i]) ELSE s
PicksUpTo(rs, S, g, k) ==
    g = [i \in 0 .. k |-> IF i = 0 THEN <<>> ELSE Pick(g[i - 1], rs, S, i)]
PickedAfter(rs, S) == CHOOSE g : PicksUpTo(rs, S, g, Len(rs))

LEMMA PickedNext ==
  ASSUME NEW rs, NEW S, Len(rs) \in Nat
  PROVE  /\ PickedAfter(rs, S)[0] = <<>>
         /\ \A i \in 1 .. Len(rs) :
              PickedAfter(rs, S)[i] = Pick(PickedAfter(rs, S)[i - 1], rs, S, i)
         /\ Picked(rs, S) = PickedAfter(rs, S)[Len(rs)]
<1> DEFINE K == {k \in Nat : \E g : PicksUpTo(rs, S, g, k)}
<1>1. 0 \in K
  <2>1. PicksUpTo(rs, S, [i \in 0 .. 0 |-> <<>>], 0)
    BY DEF PicksUpTo
  <2> QED BY <2>1
<1>2. ASSUME NEW k \in Nat, k \in K PROVE k + 1 \in K
  <2>1. PICK g : PicksUpTo(rs, S, g, k)
    BY <1>2
  <2> DEFINE h == [i \in 0 .. k + 1 |-> IF i = k + 1 THEN Pick(g[k], rs, S, k + 1) ELSE g[i]]
  <2>2. \A i \in 0 .. k + 1 : h[i] = IF i = 0 THEN <<>> ELSE Pick(h[i - 1], rs, S, i)
    BY <2>1 DEF PicksUpTo
  <2>3. PicksUpTo(rs, S, h, k + 1)
    BY <2>2 DEF PicksUpTo
  <2> QED BY <2>3
<1> HIDE DEF K
<1>3. Len(rs) \in K
  BY <1>1, <1>2, Induction
<1>4. PicksUpTo(rs, S, PickedAfter(rs, S), Len(rs))
  BY <1>3 DEF K, PickedAfter
<1>5. Picked(rs, S) = PickedAfter(rs, S)[Len(rs)]
  BY Zenon DEF Picked, PickedAfter, PicksUpTo, Pick
<1> QED BY <1>4, <1>5 DEF PicksUpTo

AttachesUpTo(rs, g, k) ==
    g = [i \in 0 .. k |-> IF i = 0 THEN RelationsOf(rs) ELSE AttachRow(g[i - 1], rs[i])]
AttachedAfter(rs) == CHOOSE g : AttachesUpTo(rs, g, Len(rs))

LEMMA AttachedNext ==
  ASSUME NEW rs, Len(rs) \in Nat
  PROVE  /\ AttachedAfter(rs)[0] = RelationsOf(rs)
         /\ \A i \in 1 .. Len(rs) :
              AttachedAfter(rs)[i] = AttachRow(AttachedAfter(rs)[i - 1], rs[i])
         /\ Relations(rs) = AttachedAfter(rs)[Len(rs)]
<1> DEFINE K == {k \in Nat : \E g : AttachesUpTo(rs, g, k)}
<1>1. 0 \in K
  <2>1. AttachesUpTo(rs, [i \in 0 .. 0 |-> RelationsOf(rs)], 0)
    BY DEF AttachesUpTo
  <2> QED BY <2>1
<1>2. ASSUME NEW k \in Nat, k \in K PROVE k + 1 \in K
  <2>1. PICK g : AttachesUpTo(rs, g, k)
    BY <1>2
  <2> DEFINE h == [i \in 0 .. k + 1 |-> IF i = k + 1 THEN AttachRow(g[k], rs[k + 1]) ELSE g[i]]
  <2>2. \A i \in 0 .. k + 1 : h[i] = IF i = 0 THEN RelationsOf(rs)
                                     ELSE AttachRow(h[i - 1], rs[i])
    BY <2>1 DEF AttachesUpTo
  <2>3. AttachesUpTo(rs, h, k + 1)
    BY <2>2 DEF AttachesUpTo
  <2> QED BY <2>3
<1> HIDE DEF K
<1>3. Len(rs) \in K
  BY <1>1, <1>2, Induction
<1>4. AttachesUpTo(rs, AttachedAfter(rs), Len(rs))
  BY <1>3 DEF K, AttachedAfter
<1>5. Relations(rs) = AttachedAfter(rs)[Len(rs)]
  BY DEF Relations, AttachedAfter, AttachesUpTo
<1> QED BY <1>4, <1>5 DEF AttachesUpTo

GroupsUpTo(rs, g, k) ==
    g = [i \in 0 .. k |-> IF i = 0 THEN <<>> ELSE AddToGroup(g[i - 1], rs[i])]
GroupedAfter(rs) == CHOOSE g : GroupsUpTo(rs, g, Len(rs))

LEMMA GroupedNext ==
  ASSUME NEW rs, Len(rs) \in Nat
  PROVE  /\ GroupedAfter(rs)[0] = <<>>
         /\ \A i \in 1 .. Len(rs) : GroupedAfter(rs)[i] = AddToGroup(GroupedAfter(rs)[i - 1], rs[i])
         /\ Groups(rs) = GroupedAfter(rs)[Len(rs)]
<1> DEFINE K == {k \in Nat : \E g : GroupsUpTo(rs, g, k)}
<1>1. 0 \in K
  <2>1. GroupsUpTo(rs, [i \in 0 .. 0 |-> <<>>], 0)
    BY DEF GroupsUpTo
  <2> QED BY <2>1
<1>2. ASSUME NEW k \in Nat, k \in K PROVE k + 1 \in K
  <2>1. PICK g : GroupsUpTo(rs, g, k)
    BY <1>2
  <2> DEFINE h == [i \in 0 .. k + 1 |-> IF i = k + 1 THEN AddToGroup(g[k], rs[k + 1]) ELSE g[i]]
  <2>2. \A i \in 0 .. k + 1 : h[i] = IF i = 0 THEN <<>> ELSE AddToGroup(h[i - 1], rs[i])
    BY <2>1 DEF GroupsUpTo
  <2>3. GroupsUpTo(rs, h, k + 1)
    BY <2>2 DEF GroupsUpTo
  <2> QED BY <2>3
<1> HIDE DEF K
<1>3. Len(rs) \in K
  BY <1>1, <1>2, Induction
<1>4. GroupsUpTo(rs, GroupedAfter(rs), Len(rs))
  BY <1>3 DEF K, GroupedAfter
<1>5. Groups(rs) = GroupedAfter(rs)[Len(rs)]
  BY DEF Groups, GroupedAfter, GroupsUpTo
<1> QED BY <1>4, <1>5 DEF GroupsUpTo

CountsUpTo(labels, S, g, k) ==
    g = [i \in 0 .. k |-> IF i = 0 THEN [l \in {} |-> 0]
                          ELSE IF i \in S THEN Bump(g[i - 1], labels[i]) ELSE g[i - 1]]
CountedAfter(labels, S) == CHOOSE g : CountsUpTo(labels, S, g, Len(labels))

LEMMA CountedNext ==
  ASSUME NEW labels, NEW S, Len(labels) \in Nat
  PROVE  /\ CountedAfter(labels, S)[0] = [l \in {} |-> 0]
         /\ \A i \in 1 .. Len(labels) :
              CountedAfter(labels, S)[i] = IF i \in S
                                           THEN Bump(CountedAfter(labels, S)[i - 1], labels[i])
                                           ELSE CountedAfter(labels, S)[i - 1]
         /\ Tally(labels, S) = CountedAfter(labels, S)[Len(labels)]
<1> DEFINE K == {k \in Nat : \E g : CountsUpTo(labels, S, g, k)}
<1>1. 0 \in K
  <2>1. CountsUpTo(labels, S, [i \in 0 .. 0 |-> [l \in {} |-> 0]], 0)
    BY DEF CountsUpTo
  <2> QED BY <2>1
<1>2. ASSUME NEW k \in Nat, k \in K PROVE k + 1 \in K
  <2>1. PICK g : CountsUpTo(labels, S, g, k)
    BY <1>2
  <2> DEFINE x == IF k + 1 \in S THEN Bump(g[k], labels[k + 1]) ELSE g[k]
             h == [i \in 0 .. k + 1 |-> IF i = k + 1 THEN x ELSE g[i]]
  <2>2. \A i \in 0 .. k + 1 : h[i] = IF i = 0 THEN [l \in {} |-> 0]
                                     ELSE IF i \in S THEN Bump(h[i - 1], labels[i]) ELSE h[i - 1]
    BY <2>1 DEF CountsUpTo
  <2>3. CountsUpTo(labels, S, h, k + 1)
    BY <2>2 DEF CountsUpTo
  <2> QED BY <2>3
<1> HIDE DEF K
<1>3. Len(labels) \in K
  BY <1>1, <1>2, Induction
<1>4. CountsUpTo(labels, S, CountedAfter(labels, S), Len(labels))
  BY <1>3 DEF K, CountedAfter
<1>5. Tally(labels, S) = CountedAfter(labels, S)[Len(labels)]
  BY DEF Tally, CountedAfter, CountsUpTo
<1> QED BY <1>4, <1>5 DEF CountsUpTo

SortsUpTo(rs, g, k) ==
    g = [i \in 0 .. k |-> IF i = 0 THEN <<>>
                          ELSE IF IsRunning(rs[i]) THEN Insert(g[i - 1], rs[i]) ELSE g[i - 1]]
SortedAfter(rs) == CHOOSE g : SortsUpTo(rs, g, Len(rs))

LEMMA SortedNext ==
  ASSUME NEW rs, Len(rs) \in Nat
  PROVE  /\ SortedAfter(rs)[0] = <<>>
         /\ \A i \in 1 .. Len(rs) :
              SortedAfter(rs)[i] = IF IsRunning(rs[i]) THEN Insert(SortedAfter(rs)[i - 1], rs[i])
                                   ELSE SortedAfter(rs)[i - 1]
         /\ OldestFirst(rs) = SortedAfter(rs)[Len(rs)]
<1> DEFINE K == {k \in Nat : \E g : SortsUpTo(rs, g, k)}
<1>1. 0 \in K
  <2>1. SortsUpTo(rs, [i \in 0 .. 0 |-> <<>>], 0)
    BY DEF SortsUpTo
  <2> QED BY <2>1
<1>2. ASSUME NEW k \in Nat, k \in K PROVE k + 1 \in K
  <2>1. PICK g : SortsUpTo(rs, g, k)
    BY <1>2
  <2> DEFINE x == IF IsRunning(rs[k + 1]) THEN Insert(g[k], rs[k + 1]) ELSE g[k]
             h == [i \in 0 .. k + 1 |-> IF i = k + 1 THEN x ELSE g[i]]
  <2>2. \A i \in 0 .. k + 1 :
          h[i] = IF i = 0 THEN <<>>
                 ELSE IF IsRunning(rs[i]) THEN Insert(h[i - 1], rs[i]) ELSE h[i - 1]
    BY <2>1 DEF SortsUpTo
  <2>3. SortsUpTo(rs, h, k + 1)
    BY <2>2 DEF SortsUpTo
  <2> QED BY <2>3
<1> HIDE DEF K
<1>3. Len(rs) \in K
  BY <1>1, <1>2, Induction
<1>4. SortsUpTo(rs, SortedAfter(rs), Len(rs))
  BY <1>3 DEF K, SortedAfter
<1>5. OldestFirst(rs) = SortedAfter(rs)[Len(rs)]
  BY DEF OldestFirst, SortedAfter, SortsUpTo
<1> QED BY <1>4, <1>5 DEF SortsUpTo

(***************************************************************************)
(* What is picked are the rows at those positions, each once and in order.  *)
(***************************************************************************)
PicksOut(s, rs, S, p) ==
    /\ p \in [1 .. Len(s) -> S]
    /\ \A i, j \in 1 .. Len(s) : i < j => p[i] < p[j]
    /\ \A i \in S : \E j \in 1 .. Len(s) : p[j] = i
    /\ \A j \in 1 .. Len(s) : s[j] = rs[p[j]]

LEMMA PickedMeans ==
  ASSUME NEW X, NEW rs \in Seq(X), NEW S \in SUBSET DOMAIN rs
  PROVE  /\ Picked(rs, S) \in Seq(X)
         /\ \E p : PicksOut(Picked(rs, S), rs, S, p)
         /\ \A n \in 0 .. Len(rs) : PickedAfter(rs, S)[n] \in Seq(X)
<1> DEFINE P == PickedAfter(rs, S)
           Good(n) == P[n] \in Seq(X) /\ \E p : PicksOut(P[n], rs, S \cap 1 .. n, p)
           K == {n \in Nat : n <= Len(rs) => Good(n)}
<1>0. Len(rs) \in Nat /\ DOMAIN rs = 1 .. Len(rs)
  OBVIOUS
<1>p. /\ P[0] = <<>> /\ Picked(rs, S) = P[Len(rs)]
      /\ \A i \in 1 .. Len(rs) : P[i] = Pick(P[i - 1], rs, S, i)
  BY <1>0, PickedNext
<1> HIDE DEF P
<1>1. 0 \in K
  <2>1. S \cap 1 .. 0 = {}
    BY <1>0
  <2>2. PicksOut(<<>>, rs, {}, <<>>)
    BY DEF PicksOut
  <2>3. PicksOut(P[0], rs, S \cap 1 .. 0, <<>>) /\ P[0] \in Seq(X)
    BY <1>p, <2>1, <2>2
  <2>4. Good(0)
    BY <2>3
  <2> HIDE DEF Good
  <2> QED BY <2>4
<1>2. ASSUME NEW n \in Nat, n \in K PROVE n + 1 \in K
  <2> HIDE DEF Good
  <2> SUFFICES ASSUME n + 1 <= Len(rs) PROVE Good(n + 1)
    OBVIOUS
  <2>0. Good(n)
    BY <1>0, <1>2
  <2> USE DEF Good
  <2>1. P[n] \in Seq(X) /\ \E p : PicksOut(P[n], rs, S \cap 1 .. n, p)
    BY <2>0
  <2>2. n + 1 \in 1 .. Len(rs) /\ (n + 1) - 1 = n
    BY <1>0
  <2>3. P[n + 1] = Pick(P[n], rs, S, n + 1)
    BY <1>p, <2>2
  <2>4. PICK p : PicksOut(P[n], rs, S \cap 1 .. n, p)
    BY <2>1
  <2>5. CASE n + 1 \notin S
    <3>1. S \cap 1 .. n + 1 = S \cap 1 .. n
      BY <2>5
    <3> QED BY <2>1, <2>3, <2>5, <3>1 DEF Pick
  <2>6. CASE n + 1 \in S
    <3>1. P[n + 1] = Append(P[n], rs[n + 1]) /\ rs[n + 1] \in X
      BY <1>0, <2>2, <2>3, <2>6 DEF Pick
    <3>2. /\ P[n + 1] \in Seq(X) /\ Len(P[n + 1]) = Len(P[n]) + 1 /\ Len(P[n]) \in Nat
          /\ \A j \in 1 .. Len(P[n]) : P[n + 1][j] = P[n][j]
          /\ P[n + 1][Len(P[n]) + 1] = rs[n + 1]
      BY <2>1, <3>1
    <3> DEFINE m == Len(P[n])
               T == S \cap 1 .. n
               U == S \cap 1 .. n + 1
               q == [j \in 1 .. m + 1 |-> IF j = m + 1 THEN n + 1 ELSE p[j]]
    <3>3. /\ p \in [1 .. m -> T] /\ \A i, j \in 1 .. m : i < j => p[i] < p[j]
          /\ \A i \in T : \E j \in 1 .. m : p[j] = i
          /\ \A j \in 1 .. m : P[n][j] = rs[p[j]]
      BY <2>4 DEF PicksOut
    <3>4. T \subseteq 1 .. n /\ U = T \cup {n + 1}
      BY <2>6
    <3> HIDE DEF m, T, U
    <3>m. m \in Nat
      BY <3>2 DEF m
    <3>k. \A j \in 1 .. m : p[j] \in T /\ p[j] \in 1 .. n
      BY <3>3, <3>4
    <3>5. m \in Nat /\ \A j \in 1 .. m : q[j] = p[j] /\ p[j] \in T /\ p[j] \in 1 .. n
      BY <3>m, <3>k
    <3>6. q[m + 1] = n + 1 /\ DOMAIN q = 1 .. m + 1
      BY <3>5
    <3>q. q = [j \in 1 .. m + 1 |-> q[j]]
      OBVIOUS
    <3> HIDE DEF q
    <3>s. \A j \in 1 .. m + 1 : j \in 1 .. m \/ j = m + 1
      BY <3>m
    <3>7. q \in [1 .. m + 1 -> U]
      <4>1. \A j \in 1 .. m + 1 : q[j] \in U
        BY <3>4, <3>5, <3>6, <3>s
      <4> QED BY <4>1, <3>q
    <3>8. ASSUME NEW i \in 1 .. m + 1, NEW j \in 1 .. m + 1, i < j PROVE q[i] < q[j]
      <4>1. i \in 1 .. m
        BY <3>m, <3>8
      <4>2. CASE j \in 1 .. m
        BY <3>3, <3>5, <3>8, <4>1, <4>2
      <4>3. CASE j = m + 1
        BY <3>5, <3>6, <4>1, <4>3
      <4> QED BY <3>s, <4>2, <4>3
    <3>9. ASSUME NEW i \in U PROVE \E j \in 1 .. m + 1 : q[j] = i
      <4>1. m + 1 \in 1 .. m + 1 /\ 1 .. m \subseteq 1 .. m + 1
        BY <3>m
      <4>2. CASE i = n + 1
        BY <3>6, <4>1, <4>2
      <4>3. CASE i \in T
        BY <3>3, <3>5, <4>1, <4>3
      <4> QED BY <3>4, <4>2, <4>3
    <3>10. \A j \in 1 .. m + 1 : P[n + 1][j] = rs[q[j]]
      BY <3>2, <3>3, <3>5, <3>6 DEF m
    <3>11. PicksOut(P[n + 1], rs, U, q)
      BY <3>2, <3>7, <3>8, <3>9, <3>10 DEF PicksOut, m
    <3> QED BY <3>2, <3>11 DEF U
  <2> QED BY <2>5, <2>6
<1> HIDE DEF K, Good
<1>3. \A n \in Nat : n \in K
  BY <1>1, <1>2, Induction
<1>g. \A n \in 0 .. Len(rs) : Good(n)
  BY <1>3 DEF K
<1>4. \A n \in 0 .. Len(rs) : P[n] \in Seq(X) /\ \E p : PicksOut(P[n], rs, S \cap 1 .. n, p)
  BY <1>g DEF Good
<1>5. Len(rs) \in 0 .. Len(rs) /\ S \cap 1 .. Len(rs) = S
  BY <1>0
<1> QED BY <1>p, <1>4, <1>5 DEF P

(***************************************************************************)
(* The snapshot.  The entries the first n rows give one relation and kind.  *)
(***************************************************************************)
Own(rs, key, kind) ==
    {i \in DOMAIN rs : rs[i].kind = kind /\ rs[i].of = key /\ ~RestatesColumn(rs[i])}
EntriesAfter(rs, key, kind, n) ==
    LET own == PickedAfter(rs, Own(rs, key, kind))[n] IN [i \in DOMAIN own |-> Entry(own[i])]

LEMMA EntriesNext ==
  ASSUME NEW rs \in Seq(Objects), NEW key, NEW kind
  PROVE  /\ EntriesAfter(rs, key, kind, 0) = <<>>
         /\ \A n \in 1 .. Len(rs) :
              EntriesAfter(rs, key, kind, n)
                = IF n \in Own(rs, key, kind)
                  THEN Append(EntriesAfter(rs, key, kind, n - 1), Entry(rs[n]))
                  ELSE EntriesAfter(rs, key, kind, n - 1)
         /\ EntriesOf(rs, key, kind) = EntriesAfter(rs, key, kind, Len(rs))
         /\ \A n \in 0 .. Len(rs) : EntriesAfter(rs, key, kind, n) \in Seq({Entry(o) : o \in Objects})
<1> DEFINE S == Own(rs, key, kind)
           P == PickedAfter(rs, S)
           E(n) == EntriesAfter(rs, key, kind, n)
<1>0. Len(rs) \in Nat /\ S \in SUBSET DOMAIN rs /\ DOMAIN rs = 1 .. Len(rs)
  BY DEF Own
<1> HIDE DEF S
<1>1. /\ P[0] = <<>> /\ Picked(rs, S) = P[Len(rs)]
      /\ \A i \in 1 .. Len(rs) : P[i] = Pick(P[i - 1], rs, S, i)
  BY <1>0, PickedNext
<1>2. \A n \in 0 .. Len(rs) : P[n] \in Seq(Objects)
  BY <1>0, PickedMeans
<1> HIDE DEF P
<1>3. \A n : E(n) = [i \in DOMAIN P[n] |-> Entry(P[n][i])]
  BY DEF EntriesAfter, P, S
<1> HIDE DEF E
<1>4. E(0) = <<>>
  BY <1>1, <1>3
<1>5. ASSUME NEW n \in 0 .. Len(rs) PROVE E(n) \in Seq({Entry(o) : o \in Objects})
  <2> DEFINE s == P[n]
  <2>1. s \in Seq(Objects)
    BY <1>2
  <2> HIDE DEF s
  <2>2. DOMAIN s = 1 .. Len(s) /\ Len(s) \in Nat /\ \A i \in 1 .. Len(s) : s[i] \in Objects
    BY <2>1
  <2>3. [i \in DOMAIN s |-> Entry(s[i])] \in Seq({Entry(o) : o \in Objects})
    BY <2>2
  <2> QED BY <1>3, <2>3 DEF s
<1>6. ASSUME NEW n \in 1 .. Len(rs)
      PROVE  E(n) = IF n \in S THEN Append(E(n - 1), Entry(rs[n])) ELSE E(n - 1)
  <2>1. n - 1 \in 0 .. Len(rs) /\ P[n] = Pick(P[n - 1], rs, S, n)
        /\ P[n - 1] \in Seq(Objects) /\ rs[n] \in Objects
    BY <1>0, <1>1, <1>2
  <2>2. CASE n \notin S
    BY <1>3, <2>1, <2>2 DEF Pick
  <2>3. CASE n \in S
    <3>1. P[n] = Append(P[n - 1], rs[n])
      BY <2>1, <2>3 DEF Pick
    <3>2. /\ DOMAIN P[n] = 1 .. Len(P[n - 1]) + 1 /\ P[n][Len(P[n - 1]) + 1] = rs[n]
          /\ \A i \in 1 .. Len(P[n - 1]) : P[n][i] = P[n - 1][i]
          /\ DOMAIN P[n - 1] = 1 .. Len(P[n - 1]) /\ Len(P[n - 1]) \in Nat
      BY <2>1, <3>1
    <3>3. E(n - 1) \in Seq({Entry(o) : o \in Objects}) /\ Len(E(n - 1)) = Len(P[n - 1])
      BY <1>3, <1>5, <2>1, <3>2
    <3> DEFINE m == Len(P[n - 1])
    <3>m. m \in Nat
      BY <3>2
    <3> HIDE DEF m
    <3>5. /\ DOMAIN P[n] = 1 .. m + 1 /\ P[n][m + 1] = rs[n] /\ DOMAIN P[n - 1] = 1 .. m
          /\ \A i \in 1 .. m : P[n][i] = P[n - 1][i]
      BY <3>2 DEF m
    <3>6. \A i \in 1 .. m + 1 :
            E(n)[i] = IF i = m + 1 THEN Entry(rs[n]) ELSE E(n - 1)[i]
      BY <1>3, <3>m, <3>5
    <3>7. E(n) = [i \in 1 .. m + 1 |-> IF i = m + 1 THEN Entry(rs[n]) ELSE E(n - 1)[i]]
      BY <1>3, <3>5, <3>6
    <3>8. Len(E(n - 1)) = m
      BY <3>3 DEF m
    <3> QED BY <2>3, <3>3, <3>7, <3>8
  <2> QED BY <2>2, <2>3
<1>7. EntriesOf(rs, key, kind) = E(Len(rs))
  BY <1>1, <1>3 DEF EntriesOf, S, Own
<1> QED BY <1>4, <1>5, <1>6, <1>7 DEF E, S

LEMMA EntriesNone ==
  ASSUME NEW rs \in Seq(Objects), NEW key, NEW kind
  PROVE  \A n \in Nat : n <= Len(rs) /\ (\A i \in 1 .. n : i \notin Own(rs, key, kind))
                          => EntriesAfter(rs, key, kind, n) = <<>>
<1> DEFINE K == {n \in Nat : n <= Len(rs) /\ (\A i \in 1 .. n : i \notin Own(rs, key, kind))
                               => EntriesAfter(rs, key, kind, n) = <<>>}
<1>1. 0 \in K
  BY EntriesNext
<1>2. ASSUME NEW n \in Nat, n \in K PROVE n + 1 \in K
  <2> SUFFICES ASSUME n + 1 <= Len(rs), \A i \in 1 .. n + 1 : i \notin Own(rs, key, kind)
      PROVE EntriesAfter(rs, key, kind, n + 1) = <<>>
    OBVIOUS
  <2>1. EntriesAfter(rs, key, kind, n) = <<>>
    BY <1>2
  <2>2. n + 1 \in 1 .. Len(rs) /\ n + 1 \notin Own(rs, key, kind) /\ (n + 1) - 1 = n
    OBVIOUS
  <2> QED BY <2>1, <2>2, EntriesNext
<1> HIDE DEF K
<1>3. \A n \in Nat : n \in K
  BY <1>1, <1>2, Induction
<1> QED BY <1>3 DEF K

(***************************************************************************)
(* The relations of a panel: K their keys, E the entries they hold.         *)
(***************************************************************************)
RelationSet(K, E) == [key : K, described : BOOLEAN, children : [ChildKinds -> Seq(E)]]
KeysOnce(R) == \A i, j \in DOMAIN R : R[i].key = R[j].key => i = j

LEMMA SlotMeans ==
  ASSUME NEW R, DOMAIN R \subseteq Nat, KeysOnce(R), NEW key
  PROVE  \/ Slot(R, key) = 0 /\ \A j \in DOMAIN R : R[j].key # key
         \/ Slot(R, key) \in DOMAIN R /\ R[Slot(R, key)].key = key
<1> DEFINE found == {i \in DOMAIN R : R[i].key = key}
<1>1. CASE found = {}
  BY <1>1 DEF Slot
<1>2. CASE found # {}
  <2>1. PICK i : i \in found
    BY <1>2
  <2>2. found = {i}
    BY <2>1 DEF KeysOnce
  <2>3. i <= i
    BY <2>1
  <2>4. First(found) = i
    BY <2>2, <2>3 DEF First
  <2> QED BY <1>2, <2>1, <2>4 DEF Slot
<1> QED BY <1>1, <1>2

\* What one child row changes: one list of one relation, which is added bare
\* unless it is there.
LEMMA AttachRowMeans ==
  ASSUME NEW K, NEW E, NEW R \in Seq(RelationSet(K, E)), KeysOnce(R),
         NEW row, row.of \in K, Entry(row) \in E, row.kind \in ChildKinds
  PROVE  LET S == AttachRow(R, row) IN
         /\ S \in Seq(RelationSet(K, E)) /\ KeysOnce(S)
         /\ DOMAIN R \subseteq DOMAIN S
         /\ \E j \in DOMAIN S : S[j].key = row.of
         /\ \A j \in DOMAIN R : S[j].key = R[j].key /\ S[j].described = R[j].described
         /\ \A j \in DOMAIN S \ DOMAIN R :
              /\ S[j].key = row.of /\ S[j].described = FALSE
              /\ \A i \in DOMAIN R : R[i].key # row.of
         /\ \A j \in DOMAIN S, k \in ChildKinds :
              LET old == IF j \in DOMAIN R THEN R[j].children[k] ELSE <<>> IN
              S[j].children[k] = IF S[j].key = row.of /\ k = row.kind /\ ~RestatesColumn(row)
                                 THEN Append(old, Entry(row)) ELSE old
<1> DEFINE S == AttachRow(R, row)
           B == IF Slot(R, row.of) = 0 THEN Append(R, BareRelation(row.of)) ELSE R
           s == Slot(B, row.of)
<1>0. DOMAIN R = 1 .. Len(R) /\ Len(R) \in Nat /\ \A j \in DOMAIN R : R[j] \in RelationSet(K, E)
  OBVIOUS
<1>1. /\ B \in Seq(RelationSet(K, E)) /\ KeysOnce(B) /\ DOMAIN R \subseteq DOMAIN B
      /\ \E j \in DOMAIN B : B[j].key = row.of
      /\ \A j \in DOMAIN R : B[j] = R[j]
      /\ \A j \in DOMAIN B \ DOMAIN R :
           /\ B[j] = BareRelation(row.of)
           /\ \A i \in DOMAIN R : R[i].key # row.of
  <2>1. CASE Slot(R, row.of) = 0
    <3>1. \A j \in DOMAIN R : R[j].key # row.of
      BY <1>0, <2>1, SlotMeans
    <3>2. BareRelation(row.of) \in RelationSet(K, E) /\ BareRelation(row.of).key = row.of
      BY DEF BareRelation, RelationSet, NoChildren
    <3> DEFINE b == BareRelation(row.of)
    <3> HIDE DEF b
    <3>3. /\ Append(R, b) \in Seq(RelationSet(K, E))
          /\ DOMAIN Append(R, b) = 1 .. Len(R) + 1 /\ Append(R, b)[Len(R) + 1] = b
          /\ \A j \in 1 .. Len(R) : Append(R, b)[j] = R[j]
      BY <3>2 DEF b
    <3>4. \A j \in 1 .. Len(R) + 1 : j \in 1 .. Len(R) \/ j = Len(R) + 1
      BY <1>0
    <3>5. KeysOnce(Append(R, b))
      BY <1>0, <3>1, <3>2, <3>3, <3>4 DEF KeysOnce, b
    <3>6. B = Append(R, b)
      BY <2>1 DEF b
    <3> HIDE DEF B
    <3> QED BY <1>0, <3>1, <3>2, <3>3, <3>4, <3>5, <3>6 DEF b
  <2>2. CASE Slot(R, row.of) # 0
    BY <1>0, <2>2, SlotMeans
  <2> QED BY <2>1, <2>2
<1> HIDE DEF B
<1>2. s \in DOMAIN B /\ B[s].key = row.of
  <2>1. DOMAIN B \subseteq Nat
    BY <1>1
  <2> QED BY <1>1, <2>1, SlotMeans
<1>3. S = IF RestatesColumn(row) THEN B
          ELSE [B EXCEPT ![s].children[row.kind] = Append(@, Entry(row))]
  BY DEF AttachRow, B
<1> HIDE DEF S, s
<1>4. \A j \in DOMAIN B : B[j] \in RelationSet(K, E)
  BY <1>1
<1>5. /\ S \in Seq(RelationSet(K, E)) /\ DOMAIN S = DOMAIN B
      /\ \A j \in DOMAIN B : S[j].key = B[j].key /\ S[j].described = B[j].described
      /\ \A j \in DOMAIN B, k \in ChildKinds :
           S[j].children[k] = IF j = s /\ k = row.kind /\ ~RestatesColumn(row)
                              THEN Append(B[j].children[k], Entry(row)) ELSE B[j].children[k]
  <2>1. CASE RestatesColumn(row)
    BY <1>1, <1>3, <2>1
  <2>2. CASE ~RestatesColumn(row)
    <3> DEFINE c == B[s].children
               d == [c EXCEPT ![row.kind] = Append(c[row.kind], Entry(row))]
               n == [B[s] EXCEPT !.children = d]
    <3>1. c \in [ChildKinds -> Seq(E)]
      BY <1>2, <1>4 DEF RelationSet
    <3>2. S = [B EXCEPT ![s] = n]
      BY <1>3, <2>2
    <3> HIDE DEF c
    <3>3. /\ d \in [ChildKinds -> Seq(E)]
          /\ \A k \in ChildKinds : d[k] = IF k = row.kind THEN Append(c[k], Entry(row)) ELSE c[k]
      BY <3>1
    <3> HIDE DEF d
    <3>4. n \in RelationSet(K, E) /\ n.key = B[s].key /\ n.described = B[s].described
          /\ n.children = d
      BY <1>2, <1>4, <3>3 DEF RelationSet
    <3> HIDE DEF n
    <3>5. /\ S \in Seq(RelationSet(K, E)) /\ DOMAIN S = DOMAIN B /\ S[s] = n
          /\ \A j \in DOMAIN B : j # s => S[j] = B[j]
      BY <1>1, <1>2, <3>2, <3>4
    <3> QED BY <2>2, <3>3, <3>4, <3>5 DEF c
  <2> QED BY <2>1, <2>2
<1>6. KeysOnce(S)
  BY <1>1, <1>5 DEF KeysOnce
<1>7. \A j \in DOMAIN B : S[j].key = row.of <=> j = s
  BY <1>1, <1>2, <1>5 DEF KeysOnce
<1>8. BareRelation(row.of).key = row.of /\ BareRelation(row.of).described = FALSE
      /\ \A k \in ChildKinds : BareRelation(row.of).children[k] = <<>>
  BY DEF BareRelation, NoChildren
<1>9. \A j \in DOMAIN S, k \in ChildKinds :
        LET old == IF j \in DOMAIN R THEN R[j].children[k] ELSE <<>> IN
        S[j].children[k] = IF S[j].key = row.of /\ k = row.kind /\ ~RestatesColumn(row)
                           THEN Append(old, Entry(row)) ELSE old
  BY <1>1, <1>5, <1>7, <1>8
<1>10. \E j \in DOMAIN S : S[j].key = row.of
  BY <1>2, <1>5
<1>11. /\ DOMAIN R \subseteq DOMAIN S
       /\ \A j \in DOMAIN R : S[j].key = R[j].key /\ S[j].described = R[j].described
       /\ \A j \in DOMAIN S \ DOMAIN R :
            /\ S[j].key = row.of /\ S[j].described = FALSE
            /\ \A i \in DOMAIN R : R[i].key # row.of
  BY <1>1, <1>5, <1>8
<1> QED BY <1>5, <1>6, <1>9, <1>10, <1>11 DEF S

\* The first pass describes each relation that has a row, once and empty.
LEMMA RelationsOfMeans ==
  ASSUME NEW rs \in Seq(Objects), DescribesOnce(rs), NEW K, \A i \in DOMAIN rs : rs[i].of \in K,
         NEW E
  PROVE  LET R == RelationsOf(rs) IN
         /\ R \in Seq(RelationSet(K, E)) /\ KeysOnce(R)
         /\ \A j \in DOMAIN R : /\ R[j].described = TRUE /\ R[j].children = NoChildren
                                /\ \E i \in DOMAIN rs : Describes(rs[i]) /\ rs[i].of = R[j].key
         /\ \A i \in DOMAIN rs : Describes(rs[i]) => \E j \in DOMAIN R : R[j].key = rs[i].of
<1> DEFINE S == {i \in DOMAIN rs : Describes(rs[i])}
           own == Picked(rs, S)
           R == RelationsOf(rs)
<1>1. own \in Seq(Objects) /\ \E p : PicksOut(own, rs, S, p)
  BY PickedMeans
<1>2. R = [i \in DOMAIN own |-> Described(own[i].of)]
  BY DEF RelationsOf
<1> HIDE DEF own, R
<1>3. PICK p : PicksOut(own, rs, S, p)
  BY <1>1
<1>4. /\ DOMAIN own = 1 .. Len(own) /\ Len(own) \in Nat
      /\ \A j \in 1 .. Len(own) : /\ p[j] \in DOMAIN rs /\ Describes(rs[p[j]]) /\ own[j] = rs[p[j]]
      /\ \A i, j \in 1 .. Len(own) : p[i] = p[j] => i = j
      /\ \A i \in S : \E j \in 1 .. Len(own) : p[j] = i
  <2>1. /\ p \in [1 .. Len(own) -> S]
        /\ \A i, j \in 1 .. Len(own) : i < j => p[i] < p[j]
        /\ \A i \in S : \E j \in 1 .. Len(own) : p[j] = i
        /\ \A j \in 1 .. Len(own) : own[j] = rs[p[j]]
    BY <1>3 DEF PicksOut
  <2>2. DOMAIN own = 1 .. Len(own) /\ Len(own) \in Nat
    BY <1>1
  <2>3. \A i \in S : i \in DOMAIN rs /\ i \in Nat /\ Describes(rs[i])
    OBVIOUS
  <2> HIDE DEF S
  <2>4. \A j \in 1 .. Len(own) : p[j] \in S /\ p[j] \in Nat
    BY <2>1, <2>3
  <2>5. ASSUME NEW i \in 1 .. Len(own), NEW j \in 1 .. Len(own), p[i] = p[j] PROVE i = j
    <3>1. ~(i < j) /\ ~(j < i)
      BY <2>1, <2>4, <2>5
    <3> QED BY <2>2, <3>1
  <2> QED BY <2>1, <2>2, <2>3, <2>4, <2>5
<1>5. \A j \in DOMAIN R : R[j] = Described(rs[p[j]].of)
  BY <1>2, <1>4
<1>6. \A key : Described(key).key = key /\ Described(key).described = TRUE
               /\ Described(key).children = NoChildren
  BY DEF Described
<1>7. \A key \in K : Described(key) \in RelationSet(K, E)
  BY DEF Described, RelationSet, NoChildren
<1>8. DOMAIN R = 1 .. Len(own)
  BY <1>2, <1>4
<1>9. R \in Seq(RelationSet(K, E))
  BY <1>2, <1>4, <1>5, <1>7, <1>8
<1>10. KeysOnce(R)
  BY <1>4, <1>5, <1>6, <1>8 DEF KeysOnce, DescribesOnce
<1>11. \A j \in DOMAIN R : /\ R[j].described = TRUE /\ R[j].children = NoChildren
                           /\ \E i \in DOMAIN rs : Describes(rs[i]) /\ rs[i].of = R[j].key
  BY <1>4, <1>5, <1>6, <1>8
<1>12. \A i \in DOMAIN rs : Describes(rs[i]) => \E j \in DOMAIN R : R[j].key = rs[i].of
  BY <1>4, <1>5, <1>6, <1>8
<1> QED BY <1>9, <1>10, <1>11, <1>12 DEF R

\* What the second pass has after n rows.
AttachedRight(rs, R, n) ==
    /\ R \in Seq(RelationSet({rs[i].of : i \in DOMAIN rs}, {Entry(o) : o \in Objects}))
    /\ KeysOnce(R)
    /\ \A j \in DOMAIN R, k \in ChildKinds :
         R[j].children[k] = EntriesAfter(rs, R[j].key, k, n)
    /\ \A j \in DOMAIN R :
         R[j].described <=> \E i \in DOMAIN rs : Describes(rs[i]) /\ rs[i].of = R[j].key
    /\ \A i \in DOMAIN rs : Describes(rs[i]) => \E j \in DOMAIN R : R[j].key = rs[i].of
    /\ \A i \in 1 .. n : rs[i].kind \in ChildKinds => \E j \in DOMAIN R : R[j].key = rs[i].of

LEMMA AttachedStep ==
  ASSUME NEW rs \in Seq(Objects), NEW n \in 1 .. Len(rs), NEW R, AttachedRight(rs, R, n - 1)
  PROVE  AttachedRight(rs, AttachRow(R, rs[n]), n)
<1> DEFINE K == {rs[i].of : i \in DOMAIN rs}
           E == {Entry(o) : o \in Objects}
           S == AttachRow(R, rs[n])
<1>0. /\ DOMAIN rs = 1 .. Len(rs) /\ Len(rs) \in Nat /\ rs[n] \in Objects
      /\ \A i \in 1 .. n : i \in 1 .. n - 1 \/ i = n
  OBVIOUS
<1>1. /\ R \in Seq(RelationSet(K, E)) /\ KeysOnce(R)
      /\ \A j \in DOMAIN R, k \in ChildKinds :
           R[j].children[k] = EntriesAfter(rs, R[j].key, k, n - 1)
      /\ \A j \in DOMAIN R :
           R[j].described <=> \E i \in DOMAIN rs : Describes(rs[i]) /\ rs[i].of = R[j].key
      /\ \A i \in DOMAIN rs : Describes(rs[i]) => \E j \in DOMAIN R : R[j].key = rs[i].of
      /\ \A i \in 1 .. n - 1 : rs[i].kind \in ChildKinds => \E j \in DOMAIN R : R[j].key = rs[i].of
  BY DEF AttachedRight
<1>2. rs[n].of \in K /\ Entry(rs[n]) \in E
  BY <1>0
<1>3. \A key, k : EntriesAfter(rs, key, k, n)
                    = IF n \in Own(rs, key, k)
                      THEN Append(EntriesAfter(rs, key, k, n - 1), Entry(rs[n]))
                      ELSE EntriesAfter(rs, key, k, n - 1)
  BY EntriesNext
<1>4. \A key, k : n \in Own(rs, key, k)
                    <=> key = rs[n].of /\ k = rs[n].kind /\ ~RestatesColumn(rs[n])
  BY <1>0 DEF Own
<1> HIDE DEF K, E
<1>5. CASE rs[n].kind \notin ChildKinds
  <2>1. S = R
    BY <1>5 DEF AttachRow
  <2> HIDE DEF S
  <2>2. \A j \in DOMAIN R, k \in ChildKinds : R[j].children[k] = EntriesAfter(rs, R[j].key, k, n)
    BY <1>1, <1>3, <1>4, <1>5
  <2> QED BY <1>0, <1>1, <1>5, <2>1, <2>2 DEF AttachedRight, K, E, S
<1>6. CASE rs[n].kind \in ChildKinds
  <2>1. /\ S \in Seq(RelationSet(K, E)) /\ KeysOnce(S)
        /\ DOMAIN R \subseteq DOMAIN S
        /\ \E j \in DOMAIN S : S[j].key = rs[n].of
        /\ \A j \in DOMAIN R : S[j].key = R[j].key /\ S[j].described = R[j].described
        /\ \A j \in DOMAIN S \ DOMAIN R :
             /\ S[j].key = rs[n].of /\ S[j].described = FALSE
             /\ \A i \in DOMAIN R : R[i].key # rs[n].of
        /\ \A j \in DOMAIN S, k \in ChildKinds :
             LET old == IF j \in DOMAIN R THEN R[j].children[k] ELSE <<>> IN
             S[j].children[k] = IF S[j].key = rs[n].of /\ k = rs[n].kind /\ ~RestatesColumn(rs[n])
                                THEN Append(old, Entry(rs[n])) ELSE old
    BY <1>1, <1>2, <1>6, AttachRowMeans
  <2> HIDE DEF S
  <2>2. ASSUME NEW j \in DOMAIN S, NEW k \in ChildKinds
        PROVE  S[j].children[k] = EntriesAfter(rs, S[j].key, k, n)
    <3>1. CASE j \in DOMAIN R
      <4>1. S[j].key = R[j].key /\ R[j].children[k] = EntriesAfter(rs, R[j].key, k, n - 1)
        BY <1>1, <2>1, <3>1
      <4>2. S[j].children[k] = IF S[j].key = rs[n].of /\ k = rs[n].kind /\ ~RestatesColumn(rs[n])
                               THEN Append(R[j].children[k], Entry(rs[n])) ELSE R[j].children[k]
        BY <2>1, <3>1
      <4>3. S[j].children[k] = IF n \in Own(rs, S[j].key, k)
                               THEN Append(R[j].children[k], Entry(rs[n])) ELSE R[j].children[k]
        BY <1>4, <4>2
      <4>4. EntriesAfter(rs, S[j].key, k, n)
              = IF n \in Own(rs, S[j].key, k)
                THEN Append(EntriesAfter(rs, S[j].key, k, n - 1), Entry(rs[n]))
                ELSE EntriesAfter(rs, S[j].key, k, n - 1)
        BY <1>3
      <4> QED BY <4>1, <4>3, <4>4
    <3>2. CASE j \notin DOMAIN R
      <4>1. S[j].key = rs[n].of /\ \A i \in DOMAIN R : R[i].key # rs[n].of
        BY <2>1, <3>2
      <4>2. \A i \in 1 .. n - 1 : i \notin Own(rs, rs[n].of, k)
        BY <1>1, <4>1 DEF Own
      <4>3. EntriesAfter(rs, rs[n].of, k, n - 1) = <<>>
        BY <1>0, <4>2, EntriesNone
      <4>4. S[j].children[k] = IF S[j].key = rs[n].of /\ k = rs[n].kind /\ ~RestatesColumn(rs[n])
                               THEN Append(<<>>, Entry(rs[n])) ELSE <<>>
        BY <2>1, <3>2
      <4>5. EntriesAfter(rs, S[j].key, k, n)
              = IF n \in Own(rs, S[j].key, k) THEN Append(<<>>, Entry(rs[n])) ELSE <<>>
        BY <1>3, <4>1, <4>3
      <4> QED BY <1>4, <4>4, <4>5
    <3> QED BY <3>1, <3>2
  <2>3. ASSUME NEW j \in DOMAIN S
        PROVE S[j].described <=> \E i \in DOMAIN rs : Describes(rs[i]) /\ rs[i].of = S[j].key
    <3>1. CASE j \in DOMAIN R
      <4>1. S[j].described = R[j].described /\ S[j].key = R[j].key
        BY <2>1, <3>1
      <4> QED BY <1>1, <3>1, <4>1, Zenon
    <3>2. CASE j \notin DOMAIN R
      BY <1>1, <2>1, <3>2
    <3> QED BY <3>1, <3>2
  <2>4. \A i \in DOMAIN rs : Describes(rs[i]) => \E j \in DOMAIN S : S[j].key = rs[i].of
    BY <1>1, <2>1
  <2>5. \A i \in 1 .. n : rs[i].kind \in ChildKinds => \E j \in DOMAIN S : S[j].key = rs[i].of
    BY <1>0, <1>1, <2>1
  <2> QED BY <2>1, <2>2, <2>3, <2>4, <2>5 DEF AttachedRight, S, K, E
<1> QED BY <1>5, <1>6

LEMMA RelationsMean ==
  ASSUME NEW rs \in Seq(Objects), DescribesOnce(rs)
  PROVE  AttachedRight(rs, Relations(rs), Len(rs))
<1> DEFINE A == AttachedAfter(rs)
           Right(n) == AttachedRight(rs, A[n], n)
           N == {n \in Nat : n <= Len(rs) => Right(n)}
<1>0. Len(rs) \in Nat /\ DOMAIN rs = 1 .. Len(rs)
  OBVIOUS
<1>p. /\ A[0] = RelationsOf(rs) /\ Relations(rs) = A[Len(rs)]
      /\ \A i \in 1 .. Len(rs) : A[i] = AttachRow(A[i - 1], rs[i])
  BY <1>0, AttachedNext
<1> HIDE DEF A
<1>1. Right(0)
  <2> DEFINE K == {rs[i].of : i \in DOMAIN rs}
             E == {Entry(o) : o \in Objects}
             R == RelationsOf(rs)
  <2>1. /\ R \in Seq(RelationSet(K, E)) /\ KeysOnce(R)
        /\ \A j \in DOMAIN R : /\ R[j].described = TRUE /\ R[j].children = NoChildren
                               /\ \E i \in DOMAIN rs : Describes(rs[i]) /\ rs[i].of = R[j].key
        /\ \A i \in DOMAIN rs : Describes(rs[i]) => \E j \in DOMAIN R : R[j].key = rs[i].of
    <3>1. \A i \in DOMAIN rs : rs[i].of \in K
      OBVIOUS
    <3> HIDE DEF K, E
    <3> QED BY <3>1, RelationsOfMeans
  <2>2. \A key, k : EntriesAfter(rs, key, k, 0) = <<>>
    BY EntriesNext
  <2>3. \A k \in ChildKinds : NoChildren[k] = <<>>
    BY DEF NoChildren
  <2> HIDE DEF R
  <2>4. \A j \in DOMAIN R, k \in ChildKinds : R[j].children[k] = EntriesAfter(rs, R[j].key, k, 0)
    BY <2>1, <2>2, <2>3
  <2>5. \A j \in DOMAIN R :
          R[j].described <=> \E i \in DOMAIN rs : Describes(rs[i]) /\ rs[i].of = R[j].key
    BY <2>1
  <2>6. AttachedRight(rs, R, 0)
    BY <2>1, <2>4, <2>5 DEF AttachedRight
  <2> QED BY <1>p, <2>6 DEF R
<1>2. ASSUME NEW n \in Nat, n + 1 <= Len(rs), Right(n) PROVE Right(n + 1)
  <2>1. n + 1 \in 1 .. Len(rs) /\ (n + 1) - 1 = n
    BY <1>0, <1>2
  <2> QED BY <1>p, <1>2, <2>1, AttachedStep
<1> HIDE DEF Right
<1>3. 0 \in N /\ \A n \in Nat : n \in N => n + 1 \in N
  BY <1>0, <1>1, <1>2
<1> HIDE DEF N
<1>4. Len(rs) \in N
  BY <1>0, <1>3, Induction
<1>5. Right(Len(rs))
  BY <1>0, <1>4 DEF N
<1> QED BY <1>p, <1>5 DEF Right

LEMMA SnapshotsAreWhole ==
  ASSUME NEW rs \in Seq(Objects), DescribesOnce(rs), NEW tablePanel
  PROVE  SnapshotIsWhole(SnapshotDocument(tablePanel, rs), rs)
<1> DEFINE R == Relations(rs)
           doc == SnapshotDocument(tablePanel, rs)
           E == {Entry(o) : o \in Objects}
<1>1. AttachedRight(rs, R, Len(rs))
  BY RelationsMean
<1>2. /\ doc.relations = R
      /\ doc.extensions = NamesOf(rs, "extension") /\ doc.routines = NamesOf(rs, "function")
      /\ doc.empty = (R = <<>> /\ doc.extensions = <<>> /\ doc.routines = <<>>)
  BY DEF SnapshotDocument
<1> HIDE DEF R, doc
<1>3. \A key, k : EntriesOf(rs, key, k) = EntriesAfter(rs, key, k, Len(rs))
  BY EntriesNext
<1>4. \A j \in DOMAIN R, k \in ChildKinds : R[j].children[k] = EntriesOf(rs, R[j].key, k)
  BY <1>1, <1>3 DEF AttachedRight
<1>5. \A k \in ChildKinds, i \in DOMAIN rs :
        rs[i].kind = k /\ ~RestatesColumn(rs[i]) =>
          \E j \in DOMAIN R : R[j].key = rs[i].of /\ R[j].children[k] = EntriesOf(rs, rs[i].of, k)
  BY <1>1, <1>4 DEF AttachedRight
<1>6. ASSUME NEW kind, NamesOf(rs, kind) = <<>>, NEW i \in DOMAIN rs, rs[i].kind = kind
      PROVE  FALSE
  <2> DEFINE S == {m \in DOMAIN rs : rs[m].kind = kind}
             chosen == Picked(rs, S)
  <2>1. chosen \in Seq(Objects) /\ \E p : PicksOut(chosen, rs, S, p)
    BY PickedMeans
  <2>2. NamesOf(rs, kind) = [m \in DOMAIN chosen |-> chosen[m].name]
    BY DEF NamesOf
  <2>3. i \in S
    BY <1>6
  <2> HIDE DEF chosen, S
  <2>4. DOMAIN chosen = {}
    BY <1>6, <2>2
  <2> QED BY <2>1, <2>3, <2>4 DEF PicksOut
<1>7. doc.empty => \A i \in DOMAIN rs : rs[i].kind \notin
          ChildKinds \cup {"relation", "sequence", "extension", "function"}
  <2> SUFFICES ASSUME doc.empty, NEW i \in DOMAIN rs
      PROVE rs[i].kind \notin ChildKinds \cup {"relation", "sequence", "extension", "function"}
    OBVIOUS
  <2>0. R = <<>> /\ doc.extensions = <<>> /\ doc.routines = <<>>
    BY <1>2, Zenon
  <2>1. DOMAIN R = {} /\ NamesOf(rs, "extension") = <<>> /\ NamesOf(rs, "function") = <<>>
    BY <1>2, <2>0
  <2>2. rs[i].kind # "extension" /\ rs[i].kind # "function"
    BY <1>6, <2>1
  <2>3. ~Describes(rs[i]) /\ rs[i].kind \notin ChildKinds
    BY <1>1, <2>1 DEF AttachedRight
  <2> QED BY <2>2, <2>3 DEF Describes
<1>8. /\ \A i, j \in DOMAIN R : R[i].key = R[j].key => i = j
      /\ \A i \in DOMAIN R :
           R[i].described <=> \E j \in DOMAIN rs : Describes(rs[j]) /\ rs[j].of = R[i].key
  BY <1>1 DEF AttachedRight, KeysOnce
<1> QED BY <1>2, <1>4, <1>5, <1>7, <1>8 DEF SnapshotIsWhole, doc

(***************************************************************************)
(* The indexes, grouped under their tables.                                 *)
(***************************************************************************)
LEMMA FirstIsLeast ==
  ASSUME NEW S, S \subseteq Nat, S # {}
  PROVE  First(S) \in S /\ \A j \in S : First(S) <= j
BY LeastNumber DEF First

GroupSet(K, E) == [table : K, indexes : Seq(E)]

GroupedRight(rs, G, n) ==
    /\ G \in Seq(GroupSet({rs[i].of : i \in DOMAIN rs}, {Entry(o) : o \in Objects}))
    /\ \A i, j \in DOMAIN G : G[i].table = G[j].table => i = j
    /\ \A j \in DOMAIN G : G[j].indexes = EntriesAfter(rs, G[j].table, "index", n)
    /\ \A i \in 1 .. n : \E j \in DOMAIN G : G[j].table = rs[i].of

LEMMA GroupedStep ==
  ASSUME NEW rs \in Seq(Objects), \A i \in DOMAIN rs : rs[i].kind = "index",
         NEW n \in 1 .. Len(rs), NEW G, GroupedRight(rs, G, n - 1)
  PROVE  GroupedRight(rs, AddToGroup(G, rs[n]), n)
<1> DEFINE K == {rs[i].of : i \in DOMAIN rs}
           E == {Entry(o) : o \in Objects}
           row == rs[n]
           entry == Entry(row)
           found == {i \in DOMAIN G : G[i].table = row.of}
           H == AddToGroup(G, row)
<1>0. /\ DOMAIN rs = 1 .. Len(rs) /\ Len(rs) \in Nat /\ row \in Objects /\ row.kind = "index"
      /\ \A i \in 1 .. n : i \in 1 .. n - 1 \/ i = n
  OBVIOUS
<1>1. /\ G \in Seq(GroupSet(K, E))
      /\ \A i, j \in DOMAIN G : G[i].table = G[j].table => i = j
      /\ \A j \in DOMAIN G : G[j].indexes = EntriesAfter(rs, G[j].table, "index", n - 1)
      /\ \A i \in 1 .. n - 1 : \E j \in DOMAIN G : G[j].table = rs[i].of
  BY DEF GroupedRight
<1>2. row.of \in K /\ entry \in E
  BY <1>0
<1>3. entry = [name |-> row.name, tags |-> IndexTags(row.flags)]
  BY <1>0 DEF Entry
<1>4. \A key : n \in Own(rs, key, "index") <=> key = row.of
  BY <1>0 DEF Own, RestatesColumn
<1>5. \A key : EntriesAfter(rs, key, "index", n)
                 = IF key = row.of THEN Append(EntriesAfter(rs, key, "index", n - 1), entry)
                   ELSE EntriesAfter(rs, key, "index", n - 1)
  <2>1. \A key : EntriesAfter(rs, key, "index", n)
                    = IF n \in Own(rs, key, "index")
                      THEN Append(EntriesAfter(rs, key, "index", n - 1), Entry(rs[n]))
                      ELSE EntriesAfter(rs, key, "index", n - 1)
    BY EntriesNext
  <2> QED BY <1>4, <2>1
<1> HIDE DEF K, E
<1>6. DOMAIN G = 1 .. Len(G) /\ Len(G) \in Nat /\ \A j \in DOMAIN G : G[j] \in GroupSet(K, E)
  BY <1>1
<1>7. H = IF found = {} THEN Append(G, [table |-> row.of, indexes |-> <<entry>>])
          ELSE [G EXCEPT ![First(found)].indexes = Append(@, entry)]
  BY <1>3 DEF AddToGroup
<1> HIDE DEF entry, H
<1>8. CASE found = {}
  <2> DEFINE g == [table |-> row.of, indexes |-> <<entry>>]
  <2>1. g \in GroupSet(K, E) /\ g.table = row.of /\ g.indexes = Append(<<>>, entry)
    BY <1>2 DEF GroupSet
  <2>2. H = Append(G, g)
    BY <1>7, <1>8
  <2> HIDE DEF g
  <2>3. /\ H \in Seq(GroupSet(K, E)) /\ DOMAIN H = 1 .. Len(G) + 1 /\ H[Len(G) + 1] = g
        /\ \A j \in 1 .. Len(G) : H[j] = G[j]
    BY <1>1, <2>1, <2>2
  <2>4. \A j \in 1 .. Len(G) + 1 : j \in 1 .. Len(G) \/ j = Len(G) + 1
    BY <1>6
  <2>5. \A j \in 1 .. Len(G) : G[j].table # row.of
    BY <1>6, <1>8
  <2>6. \A i, j \in DOMAIN H : H[i].table = H[j].table => i = j
    BY <1>1, <1>6, <2>1, <2>3, <2>4, <2>5
  <2>7. \A i \in 1 .. n - 1 : i \notin Own(rs, row.of, "index")
    BY <1>1, <1>6, <2>5 DEF Own
  <2>8. EntriesAfter(rs, row.of, "index", n - 1) = <<>>
    BY <1>0, <2>7, EntriesNone
  <2>9. EntriesAfter(rs, row.of, "index", n) = Append(<<>>, entry)
    BY <1>5, <2>8
  <2>10. \A j \in DOMAIN H : H[j].indexes = EntriesAfter(rs, H[j].table, "index", n)
    <3>1. \A j \in 1 .. Len(G) : H[j].indexes = EntriesAfter(rs, H[j].table, "index", n)
      <4> SUFFICES ASSUME NEW j \in 1 .. Len(G)
          PROVE H[j].indexes = EntriesAfter(rs, H[j].table, "index", n)
        OBVIOUS
      <4>1. H[j] = G[j] /\ G[j].table # row.of /\ j \in DOMAIN G
        BY <1>6, <2>3, <2>5
      <4>2. EntriesAfter(rs, G[j].table, "index", n) = EntriesAfter(rs, G[j].table, "index", n - 1)
        BY <1>5, <4>1
      <4> QED BY <1>1, <4>1, <4>2
    <3>2. H[Len(G) + 1].indexes = EntriesAfter(rs, H[Len(G) + 1].table, "index", n)
      BY <2>1, <2>3, <2>9
    <3> QED BY <2>3, <2>4, <3>1, <3>2
  <2>11. \A i \in 1 .. n : \E j \in DOMAIN H : H[j].table = rs[i].of
    <3>1. Len(G) + 1 \in 1 .. Len(G) + 1 /\ 1 .. Len(G) \subseteq 1 .. Len(G) + 1
      BY <1>6
    <3> QED BY <1>0, <1>1, <1>6, <2>1, <2>3, <3>1
  <2> QED BY <2>3, <2>6, <2>10, <2>11 DEF GroupedRight, H, K, E
<1>9. CASE found # {}
  <2> DEFINE s == First(found)
             g == [G[s] EXCEPT !.indexes = Append(G[s].indexes, entry)]
  <2>1. s \in DOMAIN G /\ G[s].table = row.of
    <3>1. found \subseteq Nat
      BY <1>6
    <3>2. s \in found
      BY <1>9, <3>1, FirstIsLeast
    <3> HIDE DEF s
    <3> QED BY <3>2
  <2>2. H = [G EXCEPT ![s] = g]
    BY <1>7, <1>9
  <2> HIDE DEF s
  <2>3. g \in GroupSet(K, E) /\ g.table = row.of /\ g.indexes = Append(G[s].indexes, entry)
    <3>1. G[s] \in GroupSet(K, E)
      BY <1>6, <2>1
    <3>2. G[s].indexes \in Seq(E)
      BY <3>1 DEF GroupSet
    <3>3. Append(G[s].indexes, entry) \in Seq(E)
      BY <1>2, <3>2
    <3> QED BY <2>1, <3>1, <3>3 DEF GroupSet
  <2> HIDE DEF g
  <2>4. /\ H \in Seq(GroupSet(K, E)) /\ DOMAIN H = DOMAIN G /\ H[s] = g
        /\ \A j \in DOMAIN G : j # s => H[j] = G[j]
    BY <1>1, <2>1, <2>2, <2>3
  <2>5. \A j \in DOMAIN G : H[j].table = G[j].table
    BY <2>1, <2>3, <2>4
  <2>6. \A j \in DOMAIN H : H[j].indexes = EntriesAfter(rs, H[j].table, "index", n)
    <3>1. ASSUME NEW j \in DOMAIN G PROVE G[j].table = row.of <=> j = s
      BY <1>1, <2>1
    <3>2. ASSUME NEW j \in DOMAIN G, j # s
          PROVE  H[j].indexes = EntriesAfter(rs, H[j].table, "index", n)
      <4>1. EntriesAfter(rs, G[j].table, "index", n) = EntriesAfter(rs, G[j].table, "index", n - 1)
        BY <1>5, <3>1, <3>2
      <4> QED BY <1>1, <2>4, <3>2, <4>1
    <3>3. H[s].indexes = EntriesAfter(rs, H[s].table, "index", n)
      <4>1. H[s].table = row.of /\ H[s].indexes = Append(G[s].indexes, entry)
        BY <2>1, <2>3, <2>4
      <4>2. G[s].indexes = EntriesAfter(rs, row.of, "index", n - 1)
        BY <1>1, <2>1
      <4> QED BY <1>5, <4>1, <4>2
    <3> QED BY <2>4, <3>2, <3>3
  <2> QED BY <1>0, <1>1, <2>1, <2>4, <2>5, <2>6 DEF GroupedRight, H, K, E
<1> QED BY <1>8, <1>9

LEMMA IndexPanelsAreWhole ==
  ASSUME NEW rs \in Seq(Objects), \A i \in DOMAIN rs : rs[i].kind = "index"
  PROVE  IndexesAreWhole(IndexPanelDocument(rs), rs)
<1> DEFINE A == GroupedAfter(rs)
           Right(n) == GroupedRight(rs, A[n], n)
           N == {n \in Nat : n <= Len(rs) => Right(n)}
           doc == IndexPanelDocument(rs)
<1>0. Len(rs) \in Nat /\ DOMAIN rs = 1 .. Len(rs)
  OBVIOUS
<1>p. /\ A[0] = <<>> /\ Groups(rs) = A[Len(rs)]
      /\ \A i \in 1 .. Len(rs) : A[i] = AddToGroup(A[i - 1], rs[i])
  BY <1>0, GroupedNext
<1> HIDE DEF A
<1>1. Right(0)
  <2>1. GroupedRight(rs, <<>>, 0)
    BY DEF GroupedRight
  <2> QED BY <1>p, <2>1
<1>2. ASSUME NEW n \in Nat, n + 1 <= Len(rs), Right(n) PROVE Right(n + 1)
  <2>1. n + 1 \in 1 .. Len(rs) /\ (n + 1) - 1 = n
    BY <1>0, <1>2
  <2> QED BY <1>p, <1>2, <2>1, GroupedStep
<1> HIDE DEF Right, doc
<1>3. 0 \in N /\ \A n \in Nat : n \in N => n + 1 \in N
  <2>1. 0 \in N
    BY <1>1
  <2>2. ASSUME NEW n \in Nat, n \in N, n + 1 <= Len(rs) PROVE Right(n + 1)
    <3>1. n <= Len(rs)
      BY <1>0, <2>2
    <3> QED BY <1>2, <2>2, <3>1
  <2> QED BY <2>1, <2>2
<1> HIDE DEF N
<1>4. Len(rs) \in N
  BY <1>0, <1>3, Induction
<1>5. GroupedRight(rs, Groups(rs), Len(rs))
  BY <1>0, <1>p, <1>4 DEF N, Right
<1>6. doc.groups = Groups(rs)
  BY DEF IndexPanelDocument, doc
<1>7. \A key : EntriesOf(rs, key, "index") = EntriesAfter(rs, key, "index", Len(rs))
  BY EntriesNext
<1> QED BY <1>0, <1>5, <1>6, <1>7 DEF GroupedRight, IndexesAreWhole, doc

(***************************************************************************)
(* The monitor.                                                             *)
(***************************************************************************)
LEMMA TalliesCount ==
  ASSUME NEW labels, Len(labels) \in Nat, NEW S \in SUBSET (1 .. Len(labels))
  PROVE  Counts(Tally(labels, S), labels, S)
<1> DEFINE C == CountedAfter(labels, S)
           T(n) == S \cap 1 .. n
           At(n, l) == {i \in T(n) : labels[i] = l}
           Good(n) == Counts(C[n], labels, T(n))
           N == {n \in Nat : n <= Len(labels) => Good(n)}
<1>p. /\ C[0] = [l \in {} |-> 0] /\ Tally(labels, S) = C[Len(labels)]
      /\ \A i \in 1 .. Len(labels) : C[i] = IF i \in S THEN Bump(C[i - 1], labels[i]) ELSE C[i - 1]
  BY CountedNext
<1> HIDE DEF C
<1>1. Good(0)
  <2>1. T(0) = {}
    OBVIOUS
  <2> HIDE DEF T
  <2> QED BY <1>p, <2>1 DEF Counts
<1>2. ASSUME NEW n \in Nat, n + 1 <= Len(labels), Good(n) PROVE Good(n + 1)
  <2> DEFINE new == labels[n + 1]
  <2>1. C[n + 1] = IF n + 1 \in S THEN Bump(C[n], new) ELSE C[n]
    <3>1. n + 1 \in 1 .. Len(labels) /\ (n + 1) - 1 = n
      BY <1>2
    <3> QED BY <1>p, <3>1
  <2>2. CASE n + 1 \notin S
    <3>1. T(n + 1) = T(n)
      BY <2>2
    <3> HIDE DEF T
    <3> QED BY <1>2, <2>1, <2>2, <3>1
  <2>3. CASE n + 1 \in S
    <3>1. T(n + 1) = T(n) \cup {n + 1} /\ n + 1 \notin T(n)
      BY <2>3
    <3>2. \A l : IsFiniteSet(At(n, l))
      <4>1. IsFiniteSet(1 .. n)
        BY FS_Interval
      <4>2. \A l : At(n, l) \in SUBSET (1 .. n)
        OBVIOUS
      <4> HIDE DEF At
      <4> QED BY <4>1, <4>2, FS_Subset
    <3>3. /\ DOMAIN C[n] = {labels[i] : i \in T(n)}
          /\ \A l \in DOMAIN C[n] : C[n][l] = Cardinality(At(n, l))
      BY <1>2 DEF Counts
    <3> HIDE DEF T
    <3>4. \A l : At(n + 1, l) = IF l = new THEN At(n, l) \cup {n + 1} ELSE At(n, l)
      BY <3>1
    <3>5. n + 1 \notin At(n, new)
      BY <3>1
    <3>6. Cardinality(At(n + 1, new)) = Cardinality(At(n, new)) + 1
      <4>1. At(n + 1, new) = At(n, new) \cup {n + 1}
        BY <3>4
      <4> HIDE DEF At
      <4> QED BY <3>2, <3>5, <4>1, FS_AddElement
    <3>7. new \notin DOMAIN C[n] => Cardinality(At(n, new)) = 0
      <4>1. new \notin DOMAIN C[n] => At(n, new) = {}
        BY <3>3
      <4> HIDE DEF At
      <4> QED BY <4>1, FS_EmptySet
    <3>8. C[n + 1] = Bump(C[n], new)
      BY <2>1, <2>3
    <3>9. DOMAIN C[n + 1] = DOMAIN C[n] \cup {new}
      BY <3>8 DEF Bump
    <3>10. DOMAIN C[n + 1] = {labels[i] : i \in T(n + 1)}
      BY <3>1, <3>3, <3>9
    <3>11. C[n + 1][new] = Cardinality(At(n + 1, new))
      <4> HIDE DEF At
      <4> QED BY <3>3, <3>6, <3>7, <3>8 DEF Bump
    <3>12. ASSUME NEW l \in DOMAIN C[n], l # new PROVE C[n + 1][l] = Cardinality(At(n + 1, l))
      <4>1. At(n + 1, l) = At(n, l)
        BY <3>4, <3>12
      <4> HIDE DEF At
      <4> QED BY <3>3, <3>8, <3>12, <4>1 DEF Bump
    <3>13. \A l \in DOMAIN C[n + 1] : C[n + 1][l] = Cardinality(At(n + 1, l))
      BY <3>9, <3>11, <3>12
    <3> QED BY <3>10, <3>13 DEF Counts
  <2> QED BY <2>2, <2>3
<1> HIDE DEF Good
<1>3. 0 \in N /\ \A n \in Nat : n \in N => n + 1 \in N
  BY <1>1, <1>2
<1> HIDE DEF N
<1>4. Len(labels) \in N
  BY <1>3, Induction
<1>5. T(Len(labels)) = S
  OBVIOUS
<1> HIDE DEF T
<1>6. Good(Len(labels))
  BY <1>4 DEF N
<1> QED BY <1>p, <1>5, <1>6 DEF Good

Descending(s) == \A i, j \in DOMAIN s : i < j => s[i].seconds >= s[j].seconds

\* One more row in its place.
LEMMA InsertMeans ==
  ASSUME NEW s \in Seq(Backends), Descending(s), NEW row \in Backends
  PROVE  LET t == Insert(s, row) IN
         /\ t \in Seq(Backends) /\ Descending(t)
         /\ \A i \in DOMAIN t : t[i] = row \/ \E j \in DOMAIN s : t[i] = s[j]
         /\ \A j \in DOMAIN s : \E i \in DOMAIN t : t[i] = s[j]
         /\ \E i \in DOMAIN t : t[i] = row
<1> DEFINE n == Len(s)
           younger == {i \in DOMAIN s : s[i].seconds < row.seconds}
           at == First(younger \cup {n + 1})
           t == Insert(s, row)
<1>0. /\ n \in Nat /\ DOMAIN s = 1 .. n /\ \A i \in 1 .. n : s[i] \in Backends
      /\ row.seconds \in Int /\ \A i \in 1 .. n : s[i].seconds \in Int
      /\ \A i, j \in 1 .. n : i < j => s[i].seconds >= s[j].seconds
  <2>1. /\ n \in Nat /\ DOMAIN s = 1 .. n /\ \A i \in 1 .. n : s[i] \in Backends
        /\ \A i, j \in 1 .. n : i < j => s[i].seconds >= s[j].seconds
    BY DEF Descending
  <2>2. \A b \in Backends : b.seconds \in Int
    BY DEF Backends
  <2> HIDE DEF n
  <2> QED BY <2>1, <2>2
<1>1. t = [i \in 1 .. n + 1 |-> IF i < at THEN s[i] ELSE IF i = at THEN row ELSE s[i - 1]]
  BY DEF Insert
<1> HIDE DEF t, n
<1>2. at \in younger \cup {n + 1} /\ \A i \in younger \cup {n + 1} : at <= i
  <2>1. younger \cup {n + 1} \subseteq Nat /\ younger \cup {n + 1} # {}
    BY <1>0
  <2> HIDE DEF younger
  <2> QED BY <2>1, FirstIsLeast
<1> HIDE DEF at
<1>3. /\ at \in 1 .. n + 1
      /\ \A i \in 1 .. n : i < at => s[i].seconds >= row.seconds
      /\ \A i \in 1 .. n : at <= i => s[i].seconds < row.seconds
  <2>1. at \in 1 .. n + 1
    BY <1>0, <1>2
  <2>2. ASSUME NEW i \in 1 .. n, i < at PROVE s[i].seconds >= row.seconds
    <3>1. i \notin younger
      BY <1>0, <1>2, <2>1, <2>2
    <3> QED BY <1>0, <3>1
  <2>3. ASSUME NEW i \in 1 .. n, at <= i PROVE s[i].seconds < row.seconds
    <3>1. at \in 1 .. n /\ s[at].seconds < row.seconds
      BY <1>0, <1>2, <2>1, <2>3
    <3>2. at = i \/ s[at].seconds >= s[i].seconds
      BY <1>0, <2>3, <3>1
    <3> QED BY <1>0, <3>1, <3>2
  <2> QED BY <2>1, <2>2, <2>3
<1> HIDE DEF younger
<1>4. /\ DOMAIN t = 1 .. n + 1 /\ t[at] = row
      /\ \A i \in 1 .. n : i < at => t[i] = s[i]
      /\ \A i \in 1 .. n : at <= i => t[i + 1] = s[i]
      /\ \A i \in 1 .. n + 1 : \/ i = at
                               \/ i < at /\ i \in 1 .. n
                               \/ i > at /\ i - 1 \in 1 .. n /\ at <= i - 1 /\ (i - 1) + 1 = i
  BY <1>0, <1>1, <1>3
<1>5. \A i \in 1 .. n + 1 :
        \/ i = at /\ t[i] = row
        \/ i < at /\ i \in 1 .. n /\ t[i] = s[i]
        \/ i > at /\ i - 1 \in 1 .. n /\ at <= i - 1 /\ t[i] = s[i - 1]
  BY <1>4
<1>6. t \in Seq(Backends)
  <2>1. \A i \in 1 .. n + 1 : t[i] \in Backends
    BY <1>0, <1>5
  <2> QED BY <1>0, <1>1, <2>1
<1>7. ASSUME NEW i \in 1 .. n + 1, NEW j \in 1 .. n + 1, i < j
      PROVE  t[i].seconds >= t[j].seconds
  <2>1. CASE i < at /\ i \in 1 .. n /\ t[i] = s[i]
    <3>1. s[i].seconds >= row.seconds
      BY <1>3, <2>1
    <3>2. CASE j < at /\ j \in 1 .. n /\ t[j] = s[j]
      BY <1>0, <1>7, <2>1, <3>2
    <3>3. CASE j = at /\ t[j] = row
      BY <2>1, <3>1, <3>3
    <3>4. CASE j > at /\ j - 1 \in 1 .. n /\ at <= j - 1 /\ t[j] = s[j - 1]
      BY <1>0, <1>3, <2>1, <3>1, <3>4
    <3> QED BY <1>5, <3>2, <3>3, <3>4
  <2>2. CASE i = at /\ t[i] = row
    <3>1. j > at /\ j - 1 \in 1 .. n /\ at <= j - 1 /\ t[j] = s[j - 1]
      BY <1>3, <1>5, <1>7, <2>2
    <3> QED BY <1>0, <1>3, <2>2, <3>1
  <2>3. CASE i > at /\ i - 1 \in 1 .. n /\ at <= i - 1 /\ t[i] = s[i - 1]
    <3>1. j - 1 \in 1 .. n /\ t[j] = s[j - 1] /\ i - 1 < j - 1
      BY <1>3, <1>5, <1>7, <2>3
    <3> QED BY <1>0, <2>3, <3>1
  <2> QED BY <1>5, <2>1, <2>2, <2>3
<1>8. \A i \in DOMAIN t : t[i] = row \/ \E j \in DOMAIN s : t[i] = s[j]
  BY <1>0, <1>4, <1>5
<1>9. ASSUME NEW j \in DOMAIN s PROVE \E i \in DOMAIN t : t[i] = s[j]
  <2>1. j \in 1 .. n + 1 /\ j + 1 \in 1 .. n + 1 /\ (j < at \/ at <= j)
    BY <1>0, <1>3
  <2> QED BY <1>0, <1>4, <2>1
<1>10. \E i \in DOMAIN t : t[i] = row
  BY <1>3, <1>4
<1> QED BY <1>4, <1>6, <1>7, <1>8, <1>9, <1>10 DEF Descending, t

SortedRight(rs, s, n) ==
    /\ s \in Seq(Backends) /\ Descending(s)
    /\ \A i \in DOMAIN s : IsRunning(s[i]) /\ \E j \in DOMAIN rs : s[i] = rs[j]
    /\ \A i \in 1 .. n : IsRunning(rs[i]) => \E j \in DOMAIN s : s[j] = rs[i]

LEMMA OldestFirstMeans ==
  ASSUME NEW rs \in Seq(Backends)
  PROVE  SortedRight(rs, OldestFirst(rs), Len(rs))
<1> DEFINE A == SortedAfter(rs)
           Right(n) == SortedRight(rs, A[n], n)
           N == {n \in Nat : n <= Len(rs) => Right(n)}
<1>0. Len(rs) \in Nat /\ DOMAIN rs = 1 .. Len(rs) /\ \A i \in DOMAIN rs : rs[i] \in Backends
  OBVIOUS
<1>p. /\ A[0] = <<>> /\ OldestFirst(rs) = A[Len(rs)]
      /\ \A i \in 1 .. Len(rs) :
           A[i] = IF IsRunning(rs[i]) THEN Insert(A[i - 1], rs[i]) ELSE A[i - 1]
  BY <1>0, SortedNext
<1> HIDE DEF A
<1>1. Right(0)
  <2>1. SortedRight(rs, <<>>, 0)
    BY DEF SortedRight, Descending
  <2> QED BY <1>p, <2>1
<1>2. ASSUME NEW n \in Nat, n + 1 <= Len(rs), Right(n) PROVE Right(n + 1)
  <2> DEFINE s == A[n]
             row == rs[n + 1]
  <2>1. n + 1 \in 1 .. Len(rs) /\ (n + 1) - 1 = n /\ row \in Backends
        /\ \A i \in 1 .. n + 1 : i \in 1 .. n \/ i = n + 1
    BY <1>0, <1>2
  <2>2. A[n + 1] = IF IsRunning(row) THEN Insert(s, row) ELSE s
    BY <1>p, <2>1
  <2>3. SortedRight(rs, s, n)
    BY <1>2
  <2> HIDE DEF s
  <2>4. CASE ~IsRunning(row)
    BY <2>1, <2>2, <2>3, <2>4 DEF SortedRight
  <2>5. CASE IsRunning(row)
    <3> DEFINE t == Insert(s, row)
    <3>1. /\ t \in Seq(Backends) /\ Descending(t)
          /\ \A i \in DOMAIN t : t[i] = row \/ \E j \in DOMAIN s : t[i] = s[j]
          /\ \A j \in DOMAIN s : \E i \in DOMAIN t : t[i] = s[j]
          /\ \E i \in DOMAIN t : t[i] = row
      BY <2>1, <2>3, InsertMeans DEF SortedRight
    <3>2. A[n + 1] = t
      BY <2>2, <2>5
    <3> HIDE DEF t
    <3>3. \A i \in DOMAIN t : IsRunning(t[i]) /\ \E j \in DOMAIN rs : t[i] = rs[j]
      BY <1>0, <2>1, <2>3, <2>5, <3>1 DEF SortedRight
    <3>4. \A i \in 1 .. n + 1 : IsRunning(rs[i]) => \E j \in DOMAIN t : t[j] = rs[i]
      <4>1. \A i \in 1 .. n : IsRunning(rs[i]) => \E j \in DOMAIN s : s[j] = rs[i]
        BY <2>3 DEF SortedRight
      <4>2. \A i \in 1 .. n : IsRunning(rs[i]) => \E j \in DOMAIN t : t[j] = rs[i]
        BY <3>1, <4>1
      <4> QED BY <2>1, <3>1, <4>2
    <3> QED BY <3>1, <3>2, <3>3, <3>4 DEF SortedRight
  <2> QED BY <2>4, <2>5
<1> HIDE DEF Right
<1>3. 0 \in N /\ \A n \in Nat : n \in N => n + 1 \in N
  BY <1>0, <1>1, <1>2
<1> HIDE DEF N
<1>4. Len(rs) \in N
  BY <1>0, <1>3, Induction
<1> QED BY <1>0, <1>p, <1>4 DEF N, Right

LEMMA MonitorsAddUp ==
  ASSUME NEW rs \in Seq(Backends), NEW error, NEW n \in Nat
  PROVE  MonitorAddsUp(MonitorDocument(rs, error, n), rs)
<1> DEFINE doc == MonitorDocument(rs, error, n)
           clients == {i \in DOMAIN rs : rs[i].client}
           waiting == {i \in DOMAIN rs : rs[i].wait # ""}
           reported == {i \in DOMAIN rs : rs[i].max > 0}
           sorted == OldestFirst(rs)
           m == IF Len(sorted) < n THEN Len(sorted) ELSE n
<1>0. Len(rs) \in Nat /\ DOMAIN rs = 1 .. Len(rs) /\ \A i \in DOMAIN rs : rs[i] \in Backends
  OBVIOUS
<1>1. /\ doc.groups = ConnectionGroups(rs, clients) /\ doc.waits = WaitEvents(rs)
      /\ doc.longest = SubSeq(sorted, 1, m)
      /\ doc.max = IF reported = {} THEN 0 ELSE rs[First(reported)].max
  BY DEF MonitorDocument, LongestRunning
<1> HIDE DEF doc
<1>2. \A field : Len(Labels(rs, field)) = Len(rs)
  BY <1>0 DEF Labels
<1>3. \A g \in doc.groups : Counts(g.counts, Labels(rs, g.by), clients)
  <2>1. \A field : Counts(Tally(Labels(rs, field), clients), Labels(rs, field), clients)
    <3>1. clients \in SUBSET (1 .. Len(rs))
      BY <1>0
    <3> HIDE DEF clients
    <3> QED BY <1>0, <1>2, <3>1, TalliesCount
  <2> HIDE DEF clients
  <2> QED BY <1>1, <2>1 DEF ConnectionGroups
<1>4. Counts(doc.waits, Labels(rs, "wait"), waiting)
  <2>1. waiting \in SUBSET (1 .. Len(rs)) /\ doc.waits = Tally(Labels(rs, "wait"), waiting)
    BY <1>0, <1>1 DEF WaitEvents
  <2> HIDE DEF waiting
  <2> QED BY <1>0, <1>2, <2>1, TalliesCount
<1>5. doc.max > 0 => \E i \in DOMAIN rs : rs[i].max = doc.max
  <2>1. reported \subseteq Nat
    BY <1>0
  <2>2. reported # {} => First(reported) \in DOMAIN rs
    BY <2>1, FirstIsLeast
  <2> HIDE DEF reported
  <2> QED BY <1>1, <2>2
<1>6. /\ sorted \in Seq(Backends) /\ Descending(sorted)
      /\ \A i \in DOMAIN sorted : IsRunning(sorted[i]) /\ \E j \in DOMAIN rs : sorted[i] = rs[j]
      /\ \A i \in DOMAIN rs : IsRunning(rs[i]) => \E j \in DOMAIN sorted : sorted[j] = rs[i]
  BY <1>0, OldestFirstMeans DEF SortedRight
<1> HIDE DEF sorted
<1>7. m \in 0 .. Len(sorted) /\ Len(sorted) \in Nat /\ DOMAIN sorted = 1 .. Len(sorted)
  BY <1>6
<1> HIDE DEF m
<1>8. DOMAIN doc.longest = 1 .. m /\ \A i \in 1 .. m : doc.longest[i] = sorted[i] /\ i \in DOMAIN sorted
  BY <1>1, <1>6, <1>7
<1>9. \A i \in DOMAIN doc.longest :
        IsRunning(doc.longest[i]) /\ \E j \in DOMAIN rs : doc.longest[i] = rs[j]
  BY <1>6, <1>8
<1>10. ASSUME NEW i \in DOMAIN rs, IsRunning(rs[i])
       PROVE  \/ \E j \in DOMAIN doc.longest : doc.longest[j] = rs[i]
              \/ \A j \in DOMAIN doc.longest : doc.longest[j].seconds >= rs[i].seconds
  <2>1. PICK k \in DOMAIN sorted : sorted[k] = rs[i]
    BY <1>6, <1>10
  <2>2. CASE k <= m
    BY <1>7, <1>8, <2>1, <2>2
  <2>3. CASE ~(k <= m)
    <3>1. \A j \in 1 .. m : j < k /\ j \in DOMAIN sorted
      BY <1>7, <2>3
    <3> QED BY <1>6, <1>8, <2>1, <3>1 DEF Descending
  <2> QED BY <2>2, <2>3
<1> QED BY <1>3, <1>4, <1>5, <1>9, <1>10 DEF MonitorAddsUp, doc

(***************************************************************************)
(* The page is made of rows that a query returned.                          *)
(***************************************************************************)
FromRows(document) ==
    \/ document = NoPage \/ document.shape = "plan"
    \/ /\ invocation.panel # "plan" /\ rows \in RowsOf(invocation.panel)
       /\ document = Document(invocation.panel, rows, FALSE)
    \/ \E error \in BOOLEAN, result \in ActivityRows \cup {<<>>} :
         document = MonitorDocument(result, error, LongestRows)

DocumentInv ==
    /\ phase \in {"start", "query", "describe", "render"} => page = NoPage
    /\ phase = "render" => rows \in RowsOf(invocation.panel)
    /\ phase = "deliver" \/ window # "none" => page # NoPage
    /\ FromRows(page)

LEMMA DocumentsAreSomething ==
  /\ \A panel, result, error : panel \in StaticPanels \cup {"connections"} =>
       Document(panel, result, error) # NoPage
  /\ \A statement, prepared : /\ PlanDocument(statement, prepared) # NoPage
                              /\ PlanDocument(statement, prepared).shape = "plan"
BY DEF Document, SnapshotDocument, IndexPanelDocument, MonitorDocument, PlanDocument, NoPage,
       StaticPanels

LEMMA NextDocument == UiInv /\ DocumentInv /\ [Next]_vars => DocumentInv'
<1> SUFFICES ASSUME UiInv, DocumentInv, [Next]_vars PROVE DocumentInv'
  OBVIOUS
<1>0. /\ ProcessInv /\ PageInv
      /\ phase \in {"start", "query", "describe", "render"} => page = NoPage
      /\ phase = "render" => rows \in RowsOf(invocation.panel)
      /\ phase = "deliver" \/ window # "none" => page # NoPage
      /\ FromRows(page)
  BY DEF UiInv, DocumentInv
<1>s. invocation' = invocation
  BY DEF Next, vars, process, AgentGoes, Start, OpeningQuery, Describe, Render, Deliver,
     Announce, CloseWindow, DeliveryBreaks, StaticEnds, Press, PlanEnds, RunStatement,
     DrainPlan, Send, PeriodPasses, Tick, SnapshotReturns, Receive, ExplainBegins,
     ExplainReturns, JoinExplain, RuntimeCloses, MonitorEnds
<1>p. invocation.panel \in StaticPanels \cup {"connections", "plan"}
  BY <1>0 DEF ProcessInv, Invocations
<1>k. ASSUME UNCHANGED <<rows, page>>, window' \in {window, "closed"},
             window' = "closed" => window # "none",
             \/ phase' \in {phase, "announce", "serving", "approved", "drain", "exited"}
             \/ phase = "start" /\ phase' \in {"query", "describe"}
      PROVE  DocumentInv'
  <2>1. FromRows(page)'
    BY <1>0, <1>s, <1>k DEF FromRows, RowsOf, Document
  <2> QED BY <1>0, <1>s, <1>k, <2>1 DEF DocumentInv, RowsOf
<1>1. CASE Start
  <2>1. /\ phase = "start" /\ UNCHANGED <<rows, page, window>>
        /\ phase' \in {"query", "describe", "exited"}
    BY <1>1, LastWord DEF Start, Fail, Goes
  <2>2. window' = "closed" => window # "none"
    BY <2>1
  <2> QED BY <1>k, <2>1, <2>2
<1>2. CASE OpeningQuery
  <2>1. /\ phase = "query" /\ UNCHANGED <<page, window>>
        /\ \/ phase' = "exited" /\ rows' = rows
           \/ phase' = "render" /\ rows' \in RowsOf(invocation.panel)
    BY <1>2, LastWord DEF OpeningQuery, Fail, Goes
  <2>2. page = NoPage
    BY <1>0, <2>1
  <2>3. FromRows(page)'
    BY <2>1, <2>2 DEF FromRows, NoPage
  <2> QED BY <1>0, <1>s, <2>1, <2>2, <2>3 DEF DocumentInv, RowsOf, NoPage
<1>3. CASE Describe
  <2>1. /\ phase = "describe" /\ UNCHANGED <<rows, window>>
        /\ \/ phase' = "exited" /\ page' = page
           \/ /\ phase' = "deliver"
              /\ page' = PlanDocument(invocation.statement, invocation.statement.prepares)
    BY <1>3, LastWord DEF Describe, Fail, Goes
  <2>2. CASE phase' = "exited" /\ page' = page
    BY <1>k, <2>1, <2>2
  <2>3. CASE /\ phase' = "deliver"
             /\ page' = PlanDocument(invocation.statement, invocation.statement.prepares)
    <3>1. page' # NoPage /\ page'.shape = "plan"
      BY <2>3, DocumentsAreSomething
    <3>2. FromRows(page)'
      BY <3>1 DEF FromRows
    <3> QED BY <2>1, <2>3, <3>1, <3>2 DEF DocumentInv, NoPage
  <2> QED BY <2>1, <2>2, <2>3
<1>4. CASE Render
  <2>1. /\ phase = "render" /\ UNCHANGED <<rows, window>>
        /\ \/ phase' = "exited" /\ page' = page
           \/ phase' = "deliver" /\ page' = Document(invocation.panel, rows, FALSE)
    BY <1>4, LastWord DEF Render, Fail, Goes
  <2>2. CASE phase' = "exited" /\ page' = page
    BY <1>k, <2>1, <2>2
  <2>3. CASE phase' = "deliver" /\ page' = Document(invocation.panel, rows, FALSE)
    <3>1. invocation.panel # "plan"
      BY <1>0, <2>1 DEF PageInv
    <3>2. page' # NoPage
      BY <1>p, <2>3, <3>1, DocumentsAreSomething
    <3>3. FromRows(page)'
      BY <1>0, <1>s, <2>1, <2>3, <3>1 DEF FromRows, RowsOf, Document
    <3> QED BY <2>1, <2>3, <3>2, <3>3 DEF DocumentInv, NoPage
  <2> QED BY <2>1, <2>2, <2>3
<1>5. CASE Deliver
  <2>1. /\ phase = "deliver" /\ UNCHANGED <<rows, page>> /\ phase' \in {"announce", "exited"}
    BY <1>5, LastWord DEF Deliver, Fail, Goes
  <2>2. FromRows(page)'
    BY <1>0, <1>s, <2>1 DEF FromRows, RowsOf, Document
  <2> QED BY <1>0, <2>1, <2>2 DEF DocumentInv, NoPage
<1>6. CASE SnapshotReturns
  <2>1. /\ phase = "serving" /\ UNCHANGED <<rows, window>> /\ phase' = phase
        /\ \E error \in BOOLEAN : \E result \in ActivityRows \cup {<<>>} :
             page' \in {page, Document("connections", result, error)}
    BY <1>6 DEF SnapshotReturns, LoopAt, process
  <2>2. PICK error \in BOOLEAN, result \in ActivityRows \cup {<<>>} :
          page' \in {page, Document("connections", result, error)}
    BY <2>1
  <2>3. CASE page' = page
    BY <1>k, <2>1, <2>3
  <2>4. CASE page' = Document("connections", result, error)
    <3>1. Document("connections", result, error) = MonitorDocument(result, error, LongestRows)
      BY DEF Document
    <3>2. page' # NoPage
      BY <2>4, DocumentsAreSomething
    <3>3. FromRows(page)'
      BY <2>4, <3>1 DEF FromRows
    <3> QED BY <2>1, <3>2, <3>3 DEF DocumentInv, NoPage
  <2> QED BY <2>2, <2>3, <2>4
<1>7. CASE Announce \/ PlanEnds
  <2>1. /\ UNCHANGED <<rows, page, window>> /\ phase' \in {"serving", "approved", "exited"}
    BY <1>7, EmitMeans, LastWord DEF Announce, PlanEnds
  <2>2. window' = "closed" => window # "none"
    BY <2>1
  <2> QED BY <1>k, <2>1, <2>2
<1>8. CASE DeliveryBreaks \/ StaticEnds \/ DrainPlan \/ MonitorEnds
  <2>1. UNCHANGED <<rows, page, window>> /\ phase' = "exited"
    BY <1>8, LastWord DEF DeliveryBreaks, StaticEnds, DrainPlan, MonitorEnds, Fail
  <2>2. window' = "closed" => window # "none"
    BY <2>1
  <2> QED BY <1>k, <2>1, <2>2
<1>9. CASE CloseWindow
  <2>1. /\ UNCHANGED <<rows, page>> /\ phase' = phase /\ window' = "closed" /\ window = "open"
        /\ phase \in {"announce", "serving"}
    BY <1>9 DEF CloseWindow, Serves, process
  <2> QED BY <1>k, <2>1
<1>10. CASE \/ AgentGoes \/ \E d \in {"approve", "refuse"} : Press(d)
            \/ RunStatement \/ \E c \in Calls, asks \in Asks : Send(c, asks)
            \/ PeriodPasses \/ Tick \/ Receive \/ ExplainBegins \/ ExplainReturns
            \/ JoinExplain \/ RuntimeCloses \/ UNCHANGED vars
  <2>1. UNCHANGED <<rows, page, window>> /\ phase' \in {phase, "drain"}
    BY <1>10 DEF AgentGoes, Press, RunStatement, Goes, Send, PeriodPasses, Tick, Receive,
       ExplainBegins, ExplainReturns, JoinExplain, RuntimeCloses, vars, process
  <2>2. window' = "closed" => window # "none"
    BY <2>1
  <2> QED BY <1>k, <2>1, <2>2
<1> QED BY <1>1, <1>2, <1>3, <1>4, <1>5, <1>6, <1>7, <1>8, <1>9, <1>10 DEF Next

(***************************************************************************)
(* Whatever rows the queries return, in whatever order: a window that is    *)
(* open shows a document of them, and it loses and invents nothing - no     *)
(* child without its relation, no index without its table, no label         *)
(* counted wrong, no older backend cut for a younger one.                   *)
(* (snapshot_document, index_panel_document, monitor_document)              *)
(***************************************************************************)
THEOREM PagesLoseNothing == Spec => []PageLosesNothing
<1>1. Init => DocumentInv
  BY DEF Init, DocumentInv, FromRows
<1>2. ProcessInv /\ DocumentInv => PageLosesNothing
  <2> SUFFICES ASSUME ProcessInv, DocumentInv PROVE PageLosesNothing
    OBVIOUS
  <2>0. invocation.panel \in StaticPanels \cup {"connections", "plan"}
    BY DEF ProcessInv, Invocations
  <2>1. window # "none" => page # NoPage
    BY DEF DocumentInv
  <2>2. CASE page = NoPage \/ page.shape = "plan"
    BY <2>1, <2>2 DEF PageLosesNothing, NoPage
  <2>3. ASSUME NEW result \in ActivityRows \cup {<<>>}, NEW error,
               page = MonitorDocument(result, error, LongestRows)
        PROVE  PageLosesNothing
    <3>1. result \in Seq(Backends) /\ LongestRows \in Nat
      <4>1. ActivityRows \subseteq Seq(Backends) /\ LongestRows \in Nat
        BY PanelConstants
      <4>2. <<>> \in Seq(Backends)
        OBVIOUS
      <4> QED BY <4>1, <4>2
    <3>2. MonitorAddsUp(page, result)
      BY <2>3, <3>1, MonitorsAddUp
    <3>3. page.shape = "monitor" /\ page.table = result
      BY <2>3 DEF MonitorDocument
    <3> QED BY <2>1, <3>2, <3>3 DEF PageLosesNothing
  <2>4. CASE /\ invocation.panel # "plan" /\ rows \in RowsOf(invocation.panel)
             /\ page = Document(invocation.panel, rows, FALSE)
    <3>1. CASE invocation.panel \in {"table", "schema"}
      <4>1. /\ rows \in SnapshotRows
            /\ page = SnapshotDocument(invocation.panel = "table", rows)
        BY <2>4, <3>1 DEF RowsOf, Document
      <4>2. rows \in Seq(Objects) /\ DescribesOnce(rows)
        BY <4>1, PanelConstants
      <4>3. SnapshotIsWhole(page, rows)
        BY <4>1, <4>2, SnapshotsAreWhole
      <4>4. page.shape = "snapshot"
        BY <4>1 DEF SnapshotDocument
      <4> QED BY <2>1, <4>3, <4>4 DEF PageLosesNothing
    <3>2. CASE invocation.panel = "indexes"
      <4>1. rows \in IndexRows /\ page = IndexPanelDocument(rows)
        BY <2>4, <3>2 DEF RowsOf, Document
      <4>2. rows \in Seq(Objects) /\ \A i \in DOMAIN rows : rows[i].kind = "index"
        BY <4>1, PanelConstants
      <4>3. IndexesAreWhole(page, rows)
        BY <4>1, <4>2, IndexPanelsAreWhole
      <4>4. page.shape = "indexes"
        BY <4>1 DEF IndexPanelDocument
      <4> QED BY <2>1, <4>3, <4>4 DEF PageLosesNothing
    <3>3. CASE invocation.panel = "connections"
      <4>1. rows \in ActivityRows /\ page = MonitorDocument(rows, FALSE, LongestRows)
        BY <2>4, <3>3 DEF RowsOf, Document
      <4> QED BY <2>3, <4>1
    <3> QED BY <2>0, <2>4, <3>1, <3>2, <3>3 DEF StaticPanels
  <2> QED BY <2>2, <2>3, <2>4 DEF DocumentInv, FromRows
<1>3. UiInv => ProcessInv
  BY DEF UiInv
<1> QED BY <1>1, <1>2, <1>3, InitUi, NextUi, NextDocument, PTL DEF Spec
=============================================================================
