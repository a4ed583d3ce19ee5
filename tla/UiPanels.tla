---------------------------- MODULE UiPanels ----------------------------
(***************************************************************************)
(* One `afpsql ui` process (src/ui.rs): a panel a person reads (`table`,    *)
(* `schema`, `indexes`), the live monitor (`connections`), or a statement a *)
(* person answers for (`plan`).                                             *)
(*                                                                         *)
(* The process talks to three parties at once: the agent that started it,   *)
(* over events on stdout and the exit code; a person, over a page and its   *)
(* controls; and the server.  The window, its session runtime and the       *)
(* completion cell that keeps the first answer belong to the AFUI library   *)
(* and are modelled from how ui.rs uses them.                               *)
(***************************************************************************)
EXTENDS UiDocuments

CONSTANTS
    SnapshotRows,   \* results of the schema snapshot query
    IndexRows,      \* results of the index query
    ActivityRows,   \* results of the activity query
    Statements,     \* statements `ui plan` may be given
    Calls,          \* slots for the calls a monitor page has outstanding
    Lease,          \* LIVE_OBSERVATION_LEASE, in refresh periods
    LongestRows     \* LONGEST_ROWS

StaticPanels == {"table", "schema", "indexes"}
Panels == StaticPanels \cup {"connections", "plan"}

VARIABLES
    invocation,  \* what the command line asked for and may do
    phase,       \* how far the process is
    exit,        \* its exit code, -1 while it runs
    stdout,      \* whether the agent still reads the events
    told,        \* what the agent was told
    rows,        \* the rows the opening query returned
    page,        \* the document the page route serves, NoPage before
    window,      \* "none", "open" or "closed"
    answer,      \* the completion cell of a plan: the first ending of it
    pages,       \* the decided pages a person was shown, with their answer
    ran,         \* the statement that ran on the server, NoSql if none
    failed,      \* the run of the statement reported an error
    loop,        \* run_live_runtime: "off", "select", "snapshot" or "gone"
    due,         \* the refresh interval has ticked
    age,         \* refresh periods since the observation lease was renewed
    queue,       \* calls sent and not yet received by the loop
    call,        \* each call slot: what it asks and what it was answered
    explain,     \* the call whose EXPLAIN task runs, NoCall if none
    unjoined     \* a finished EXPLAIN task that join_next has not returned

process  == <<invocation, phase, exit, stdout, told>>
decision == <<answer, pages, ran, failed>>
live     == <<loop, due, age, queue, call, explain, unjoined>>
vars     == <<process, rows, page, window, decision, live>>

\* What the three queries return: objects, a relation in one row only since
\* pg_class holds its name once in a schema, and backends.
Objects ==
    [kind : STRING, of : STRING, name : STRING, flags : SUBSET STRING]

DescribesOnce(result) ==
    \A i, j \in DOMAIN result :
        Describes(result[i]) /\ Describes(result[j]) /\ result[i].of = result[j].of => i = j

Backends ==
    [client : BOOLEAN, state : STRING, database : STRING, user : STRING,
     wait : STRING, seconds : Int, max : Nat]

NoPage == [shape |-> "none"]
NoSql  == "no_statement"
NoCall == 0

ASSUME PanelConstants ==
    /\ \A st \in Statements : st.sql # NoSql
    /\ NoCall \notin Calls
    /\ Lease \in Nat
    /\ LongestRows \in Nat
    /\ \A result \in SnapshotRows : result \in Seq(Objects) /\ DescribesOnce(result)
    /\ \A result \in IndexRows :
          result \in Seq(Objects) /\ \A i \in DOMAIN result : result[i].kind = "index"
    /\ ActivityRows \subseteq Seq(Backends)

Invocations ==
    [panel : StaticPanels \cup {"connections"}, locked : BOOLEAN,
     capability : {"readwrite"}, statement : {NoSql}]
    \cup [panel : {"plan"}, locked : BOOLEAN,
          capability : {"readwrite", "readonly"}, statement : Statements]

Replies == {"none", "started", "observed", "result", "explain_failed",
            "explain_busy", "explain_request_invalid", "undelivered"}

Idle == [asks |-> "idle", reply |-> "observed"]

Init ==
    /\ invocation \in Invocations
    /\ phase = "start" /\ exit = -1 /\ stdout = TRUE /\ told = {}
    /\ rows = <<>> /\ page = NoPage /\ window = "none"
    /\ answer = "none" /\ pages = {} /\ ran = NoSql /\ failed = FALSE
    /\ loop = "off" /\ due = FALSE /\ age = Lease + 1
    /\ queue = <<>> /\ call = [c \in Calls |-> Idle]
    /\ explain = NoCall /\ unjoined = FALSE

(***************************************************************************)
(* The agent's stream.  An event that cannot be written ends the process    *)
(* with 4 wherever it stands.                                               *)
(***************************************************************************)
\* Mutant: the process leaves without its exit code.
ExitsSilently(code) == phase' = "exited" /\ exit' = exit

Exits(code) == phase' = "exited" /\ exit' = code

Emit(event, next) ==
    IF stdout THEN told' = told \cup {event} /\ phase' = next /\ exit' = exit
              ELSE told' = told /\ Exits(4)

EmitAndExit(event, code) ==
    IF stdout THEN told' = told \cup {event} /\ Exits(code)
              ELSE told' = told /\ Exits(4)

Fail == EmitAndExit("error", 1)

Goes(next) == phase' = next /\ UNCHANGED <<told, exit>>

AgentGoes ==
    /\ phase # "exited"
    /\ stdout' = FALSE
    /\ UNCHANGED <<invocation, phase, exit, told, rows, page, window, decision, live>>

(***************************************************************************)
(* Up to the window: refusals, the one query before anything is drawn, the  *)
(* page, the delivery, and the readiness event.  Loading a frontend and     *)
(* starting a delivery are AFUI's and may fail; both end the command.       *)
(***************************************************************************)
RefusesPlan(inv) ==
    \/ ~ inv.statement.permitted
    \/ inv.capability = "readonly" /\ ~ inv.statement.readOnly

Start ==
    /\ phase = "start"
    /\ \/ Fail
       \/ /\ ~ invocation.locked
          /\ invocation.panel = "plan" => ~ RefusesPlan(invocation)
          /\ Goes(IF invocation.panel = "plan" THEN "describe" ELSE "query")
    /\ UNCHANGED <<invocation, stdout, rows, page, window, decision, live>>

RowsOf(panel) ==
    CASE panel \in {"table", "schema"} -> SnapshotRows
      [] panel = "indexes"             -> IndexRows
      [] panel = "connections"         -> ActivityRows

Document(panel, result, error) ==
    CASE panel \in {"table", "schema"} -> SnapshotDocument(panel = "table", result)
      [] panel = "indexes"             -> IndexPanelDocument(result)
      [] panel = "connections"         -> MonitorDocument(result, error, LongestRows)

\* run_query_once, report_to_agent: an error or no result set ends the command.
OpeningQuery ==
    /\ phase = "query"
    /\ \/ Fail /\ UNCHANGED rows
       \/ /\ rows' \in RowsOf(invocation.panel)
          /\ Goes("render")
    /\ UNCHANGED <<invocation, stdout, page, window, decision, live>>

\* describe_statement: a failed connection ends the command, a rejected
\* statement is shown.
Describe ==
    /\ phase = "describe"
    /\ \/ Fail /\ UNCHANGED page
       \/ /\ page' = PlanDocument(invocation.statement, invocation.statement.prepares)
          /\ Goes("deliver")
    /\ UNCHANGED <<invocation, stdout, rows, window, decision, live>>

Render ==
    /\ phase = "render"
    /\ \/ Fail /\ UNCHANGED page
       \/ /\ page' = Document(invocation.panel, rows, FALSE)
          /\ Goes("deliver")
    /\ UNCHANGED <<invocation, stdout, rows, window, decision, live>>

Deliver ==
    /\ phase = "deliver"
    /\ \/ Fail /\ UNCHANGED window
       \/ window' = "open" /\ Goes("announce")
    /\ UNCHANGED <<invocation, stdout, rows, page, decision, live>>

Announce ==
    /\ phase = "announce"
    /\ Emit("ui_ready", "serving")
    /\ loop' = IF stdout /\ invocation.panel = "connections" THEN "select" ELSE loop
    /\ UNCHANGED <<invocation, stdout, rows, page, window, decision,
                   due, age, queue, call, explain, unjoined>>

Serves == phase \in {"announce", "serving"} /\ window = "open"

\* The person closes the window, or somebody ends the published session.
CloseWindow ==
    /\ Serves
    /\ window' = "closed"
    /\ answer' = IF answer = "none" THEN "closed" ELSE answer
    /\ UNCHANGED <<process, rows, page, pages, ran, failed, live>>

\* active.wait() reports a delivery that broke.
DeliveryBreaks ==
    /\ phase = "serving"
    /\ Fail
    /\ UNCHANGED <<invocation, stdout, rows, page, window, decision, live>>

\* static_panel: the person is done looking.
StaticEnds ==
    /\ phase = "serving" /\ window = "closed"
    /\ invocation.panel \in StaticPanels
    /\ EmitAndExit("closed", 0)
    /\ UNCHANGED <<invocation, stdout, rows, page, window, decision, live>>

(***************************************************************************)
(* `ui plan`: two routes, one completion cell.                              *)
(***************************************************************************)
Press(d) ==
    /\ Serves /\ invocation.panel = "plan"
    /\ answer' = IF answer = "none" THEN d ELSE answer
    /\ pages' = pages \cup {<<d, DecidedDocument(d, answer = "none")>>}
    /\ UNCHANGED <<process, rows, page, window, ran, failed, live>>

\* Mutant: every ending but the refuse control is permission.
ApprovedUnlessRefused(ending) == ending # "refuse"

Approved(ending) == ending = "approve"

\* active.wait() returns the first ending; only an approval is permission.
PlanEnds ==
    /\ phase = "serving" /\ invocation.panel = "plan" /\ answer # "none"
    /\ IF Approved(answer) THEN Emit("executed", "approved")
                           ELSE EmitAndExit("not_executed", 0)
    /\ UNCHANGED <<invocation, stdout, rows, page, window, decision, live>>

\* handler::execute_query with the very statement the page showed.  It may fail
\* before the server saw the statement, or after.
RunStatement ==
    /\ phase = "approved"
    /\ failed' \in IF invocation.statement.prepares THEN BOOLEAN ELSE {TRUE}
    /\ ran' \in {invocation.statement.sql} \cup (IF failed' THEN {NoSql} ELSE {})
    /\ Goes("drain")
    /\ UNCHANGED <<invocation, stdout, rows, page, window, answer, pages, live>>

\* Shut the executor down, emit what the run produced, exit by its errors.
DrainPlan ==
    /\ phase = "drain"
    /\ EmitAndExit("output", IF failed THEN 1 ELSE 0)
    /\ UNCHANGED <<invocation, stdout, rows, page, window, decision, live>>

(***************************************************************************)
(* `ui connections`: run_live_runtime selects between the refresh tick, the *)
(* next call and a finished EXPLAIN task.  A snapshot is awaited inside its *)
(* branch; an EXPLAIN runs in a task of its own on its own executor.        *)
(***************************************************************************)
\* A page asks; a visible page observes every ten seconds.
Send(c, asks) ==
    /\ Serves /\ invocation.panel = "connections"
    /\ call[c].reply \notin {"none", "started"}
    /\ call' = [call EXCEPT ![c] = [asks |-> asks, reply |-> "none"]]
    /\ queue' = Append(queue, c)
    /\ UNCHANGED <<process, rows, page, window, decision,
                   loop, due, age, explain, unjoined>>

\* One refresh period passes; ticks the loop missed are skipped.
PeriodPasses ==
    /\ phase = "serving" /\ loop # "off"
    /\ due' = TRUE
    /\ age' = IF age > Lease THEN age ELSE age + 1
    /\ UNCHANGED <<process, rows, page, window, decision,
                   loop, queue, call, explain, unjoined>>

LoopAt(at) == phase = "serving" /\ loop = at

\* Nobody observed within the lease: the tick is dropped.
Tick ==
    /\ LoopAt("select") /\ due
    /\ due' = FALSE
    /\ loop' = IF age <= Lease THEN "snapshot" ELSE "select"
    /\ UNCHANGED <<process, rows, page, window, decision,
                   age, queue, call, explain, unjoined>>

\* push_snapshot: the query's rows, or a page that says this update failed; a
\* page that does not render or a state too large leaves an error in its place
\* and the loop running, a session that takes no state ends the loop.
SnapshotReturns ==
    /\ LoopAt("snapshot")
    /\ \E error \in BOOLEAN :
          \E result \in IF error THEN {<<>>} ELSE ActivityRows :
             page' \in {page, Document("connections", result, error)}
    /\ loop' \in {"select", "gone"}
    /\ UNCHANGED <<process, rows, window, decision,
                   due, age, queue, call, explain, unjoined>>

\* A reply reaches the page, or the session no longer takes one.
Reply(c, with) ==
    \/ call' = [call EXCEPT ![c].reply = with] /\ loop' = loop
    \/ call' = [call EXCEPT ![c].reply = "undelivered"] /\ loop' = "gone"

\* Mutant: the plan is awaited inside the loop's branch.
AwaitExplain(c) ==
    /\ explain' = c
    /\ call' = call /\ loop' = "awaiting"

\* explain_tasks.spawn
SpawnExplain(c) ==
    /\ explain' = c
    /\ UNCHANGED <<call, loop>>

Receive ==
    /\ LoopAt("select") /\ queue # <<>>
    /\ queue' = Tail(queue)
    /\ age' = 0
    /\ LET c == Head(queue) IN
          \/ /\ call[c].asks = "observe"
             /\ Reply(c, "observed")
             /\ UNCHANGED explain
          \/ /\ call[c].asks # "observe"
             /\ explain = NoCall /\ ~ unjoined
             /\ SpawnExplain(c)
          \/ /\ call[c].asks # "observe"
             /\ explain # NoCall \/ unjoined
             /\ Reply(c, "explain_busy")
             /\ UNCHANGED explain
    /\ UNCHANGED <<process, rows, page, window, decision, due, unjoined>>

TaskEnds == explain' = NoCall /\ unjoined' = TRUE

\* explain: the checks and the progress reply before the query.
ExplainBegins ==
    /\ phase = "serving" /\ explain # NoCall
    /\ call[explain].reply = "none"
    /\ \/ /\ call[explain].asks = "invalid_explain"
          /\ \E reply \in {"explain_request_invalid", "undelivered"} :
                call' = [call EXCEPT ![explain].reply = reply]
          /\ TaskEnds
       \/ /\ call[explain].asks = "explain"
          /\ \/ /\ call' = [call EXCEPT ![explain].reply = "started"]
                /\ UNCHANGED <<explain, unjoined>>
             \/ /\ call' = [call EXCEPT ![explain].reply = "undelivered"]
                /\ TaskEnds
    /\ UNCHANGED <<process, rows, page, window, decision, loop, due, age, queue>>

\* explain: the server answered, or refused.
ExplainReturns ==
    /\ phase = "serving" /\ explain # NoCall
    /\ call[explain].reply = "started"
    /\ \E reply \in {"result", "explain_failed", "undelivered"} :
          call' = [call EXCEPT ![explain].reply = reply]
    /\ TaskEnds
    /\ UNCHANGED <<process, rows, page, window, decision, loop, due, age, queue>>

\* explain_tasks.join_next()
JoinExplain ==
    /\ LoopAt("select") /\ unjoined
    /\ unjoined' = FALSE
    /\ UNCHANGED <<process, rows, page, window, decision,
                   loop, due, age, queue, call, explain>>

\* The runtime is closed under the loop.
RuntimeCloses ==
    /\ LoopAt("select")
    /\ loop' = "gone"
    /\ UNCHANGED <<process, rows, page, window, decision,
                   due, age, queue, call, explain, unjoined>>

\* active.wait() returned: the loop is aborted wherever it stands and its
\* EXPLAIN task with it, then both executors are shut down.
MonitorEnds ==
    /\ phase = "serving" /\ window = "closed"
    /\ invocation.panel = "connections"
    /\ loop' = "off" /\ explain' = NoCall /\ unjoined' = FALSE
    /\ EmitAndExit("closed", 0)
    /\ UNCHANGED <<invocation, stdout, rows, page, window, decision,
                   due, age, queue, call>>

Asks == {"observe", "explain", "invalid_explain"}

Next ==
    \/ AgentGoes \/ Start \/ OpeningQuery \/ Describe \/ Render
    \/ Deliver \/ Announce \/ CloseWindow \/ DeliveryBreaks \/ StaticEnds
    \/ \E d \in {"approve", "refuse"} : Press(d)
    \/ PlanEnds \/ RunStatement \/ DrainPlan
    \/ \E c \in Calls, asks \in Asks : Send(c, asks)
    \/ PeriodPasses \/ Tick \/ SnapshotReturns \/ Receive
    \/ ExplainBegins \/ ExplainReturns \/ JoinExplain \/ RuntimeCloses
    \/ MonitorEnds

(***************************************************************************)
(* The activity query answers and a ready task gets its turn; tokio's       *)
(* select! picks a ready branch at random, so a call that is ready again    *)
(* and again is received.  Nothing is assumed of the person, of the agent   *)
(* or of the server that plans an EXPLAIN.                                  *)
(***************************************************************************)
Spec ==
    /\ Init /\ [][Next]_vars
    /\ WF_vars(SnapshotReturns)
    /\ WF_vars(ExplainBegins)
    /\ WF_vars(Announce)
    /\ SF_vars(Receive)

-----------------------------------------------------------------------------
TypeOK ==
    /\ invocation \in Invocations
    /\ phase \in {"start", "query", "describe", "render", "deliver", "announce",
                  "serving", "approved", "drain", "exited"}
    /\ exit \in {-1, 0, 1, 4} /\ (exit = -1 <=> phase # "exited")
    /\ stdout \in BOOLEAN /\ failed \in BOOLEAN
    /\ told \subseteq {"error", "ui_ready", "closed", "executed", "not_executed", "output"}
    /\ window \in {"none", "open", "closed"}
    /\ answer \in {"none", "approve", "refuse", "closed"}
    /\ pages \subseteq {"approve", "refuse"}
                       \X {"Approved", "Refused", "Already_answered"}
    /\ ran \in {NoSql} \cup {st.sql : st \in Statements}
    /\ loop \in {"off", "select", "snapshot", "gone"}
    /\ due \in BOOLEAN /\ unjoined \in BOOLEAN /\ age \in 0 .. Lease + 1
    /\ call \in [Calls -> [asks : Asks \cup {"idle"}, reply : Replies]]
    /\ explain \in Calls \cup {NoCall}
    /\ \A i, j \in DOMAIN queue : queue[i] = queue[j] => i = j

\* The person, the agent and the server agree on one answer: at most one press
\* was recorded, a statement runs only after the recorded approval of exactly
\* that statement, nothing that was reported as not run has run or will run,
\* and an exit of 0 after a recorded approval means that it ran.
\* (docs/reference.md, `ui plan`; decided_document and approved in ui.rs)
AnswersTellTheTruth ==
    LET recorded == {p \in pages : p[2] # "Already_answered"}
    IN  /\ Cardinality(recorded) <= 1
        /\ ran # NoSql => /\ recorded = {<<"approve", "Approved">>}
                          /\ page.shape = "plan" /\ page.sql = ran
                          /\ invocation.capability = "readonly" => page.readOnly
        /\ (<<"refuse", "Refused">> \in pages \/ "not_executed" \in told) =>
              ran = NoSql /\ phase \notin {"approved", "drain"}
        /\ <<"approve", "Approved">> \in pages /\ exit = 0 => ran # NoSql
        /\ "not_executed" \in told => recorded # {<<"approve", "Approved">>}

\* Whenever a window is open its page is the document of rows the server
\* returned, and that document loses and invents nothing, in whatever
\* order the rows came: every child row is listed once under its relation, a
\* relation nobody described included; every index under its table; the
\* monitor's counts add up and no longer-running backend is cut in favour of a
\* shorter one.
PageLosesNothing ==
    /\ window # "none" => page # NoPage
    /\ page.shape = "snapshot" => SnapshotIsWhole(page, rows)
    /\ page.shape = "indexes"  => IndexesAreWhole(page, rows)
    /\ page.shape = "monitor"  => MonitorAddsUp(page, page.table)

\* A plan the server takes forever over never silences the monitor: every call
\* a page sends is still heard - observed, started or refused - unless the loop
\* or the process is gone.  (LivePanel.explain_app in ui.rs)
CallsHeard ==
    \A c \in Calls :
        (call[c].reply = "none") ~> (call[c].reply # "none" \/ loop = "gone"
                                     \/ phase = "exited")
==========================================================================
