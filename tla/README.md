# afpsql, modelled and checked

TLA+ models of `agent-first-psql`, the TLC runs that check them on small
instances and the theorems TLAPS proves about them for every instance.

`afpsql` is a PostgreSQL client for programs. In pipe mode it reads one JSON
line per operation, runs the operations of each named session in order and the
sessions side by side, and writes events. Nearly everything that is hard in it
is there: one query answered once although three tasks may want to answer it,
an explicit transaction that must not leak into another connection or into
autocommit, a configuration that changes under operations that are waiting.

## The system

Paths are relative to the repository; the crate is in `src/`.

| part | code | state it keeps | operations | what it must do |
|---|---|---|---|---|
| pipe dispatcher | `src/pipe.rs` | `in_flight` (id -> query), one worker handle and channel per session, the configuration | `query`, `cancel`, `begin`, `commit`, `rollback`, `session_info`, `config`, `ping`, `close` | admit a query once, keep its id taken until it is answered, never wait for a session, answer everything before `close` |
| session worker | `src/pipe.rs` `session_worker_loop` | its channel | runs one operation after the other | order within a session, independence of sessions |
| query handler | `src/handler.rs` | `QueryState.phase`, `CancelState` flags | `execute_query`, `handle_session_info`, the claim of the terminal event | one terminal event per query, and a true one |
| executor | `src/db/executor.rs`, `src/db/errors.rs` | `SessionEntry.explicit_tx`, the client | `execute`, `execute_streaming`, `prepare_only`, `tx_begin`, `tx_commit`, `tx_rollback`, `invalidate` | what is answered about a write is what happened to it; read permission never writes |
| sessions, cancellation | `src/db/session.rs` | the session map, `CancelState`, connection tasks | `get_session`, `connect_session`, `remove_sessions`, `cancel_query`, `SessionClient::shutdown` | no connection survives its configuration; a cancel reaches its query or says it did not |
| configuration values | `src/config.rs`, `src/types.rs`, `src/conn.rs` | none | patches, `resolve_options`, endpoint and transport resolution | a permission fits its transport; a session's defaults do not leak |
| read-only capability | `src/readonly_policy.rs`, `src/readonly_main.rs` | none | classification of SQL and of settings | no setting and no permission that could write passes |
| row delivery | `src/handler.rs`, `src/db/executor.rs`, `src/db/rows.rs`, `src/db/params.rs` | the current batch, byte and row counts | inline collection with caps, `OutputRowSink` | start, rows, end in that order; caps say they cut |
| ssh, container transports | `src/ssh_transport.rs`, `src/container_transport.rs` | child processes, a driver task, a bridge | probe, connect, `is_finished`, `shutdown` | no child outlives its session; a refused setting never falls through to a direct connection |
| writer | `src/writer.rs`, `src/emit.rs`, `src/output_fmt.rs` | one channel | writes events in order | order and back-pressure |
| UI server | `src/ui.rs`, `src/ui/` | panels, a live query, decisions on plans | local HTTP handlers | one decision per plan, a token on every request |
| psql administration | `src/psql_admin.rs` | files on disk | install, status, uninstall of a wrapper | never overwrites what it did not write |
| command line | `src/cli.rs`, `src/lib.rs`, `src/cli_runner.rs`, `src/skill_admin.rs` | none | parses, one-shot runs | sequential |

How they meet: the dispatcher is one task that reads stdin. It holds the
`in_flight` lock while it admits a query, then `try_send`s it down the bounded
channel of its session; a worker task per session takes operations off that
channel, marks the query running (`try_start`, a compare-and-swap), calls the
executor, claims the terminal event (`claim_terminal_emit`, another
compare-and-swap), sends it to the writer's channel and marks the query
finished. A `cancel` line is handled by the dispatcher while the worker goes
on. A `config` line reserves a slot in the channel of every session it names
before it installs the new configuration. End of input, `close` and a writer
that stopped all lead to `shutdown_runtime`, which drops the senders, waits for
the workers up to one deadline and aborts those that are left.

What is hard to test: the interleavings of dispatcher and workers; a backend
that dies between two statements, and the client noticing it later; a
`CancelRequest` that arrives when its query is over; a COMMIT whose answer is
lost; a begin that fails with statements already queued behind it; full
channels; a configuration that overtakes, or is overtaken by, a queued
operation; shutdown with work in the queues. `PROJECT.json` lists them at their
lines under `hazards`, each with the properties that would catch it.

## The modules

| module | models | state |
|---|---|---|
| `QueryLifecycle` | dispatcher, channels, workers, `in_flight`, phases, the claim, cancel, panics, shutdown | 15 variables, one per field the code keeps, plus `answers` and `started`, which only record what happened |
| `TerminalContract` | what a pipe promises about a query line: the abstract specification | 4 variables |
| `TxExecutor` | one session of the executor and its backend, statement by statement | the session entry, the client, the server's transaction, what is durable, the log of operations and answers |
| `TransactionContract` | what one session promises about operations, transactions and durable writes: the abstract specification | 4 variables |
| `SessionFifo` | `config` patches against the session channels | the configuration, the patch being applied, channels, workers, connections |
| `RowDelivery` | the rows of one query on their way to the caller | the portal, the inline collector, the stream's batch, the events written |
| `SessionSettings` | settings from argv, a locked profile, the environment and `config` lines; the permission and the route they come to | the process, the configuration, the open connections, the last request |
| `SessionConnection` | the connections of one session, from the first process to the last; the cancel of a running query; shutdown | attempts with the parts that run, worker, cancel slots, the cancel in progress |
| `UiDocuments` | the documents of the UI panels, as functions of query rows | none |
| `UiPanels` | one `afpsql ui` process between an agent, a person and a server | phase and exit code, page, window, answer, the monitor's loop and calls |
| `QueryLifecycleProofs`, `SessionFifoProofs`, `SessionConnectionProofs`, `SessionSettingsProofs`, `TxExecutorProofs`, `RowDeliveryProofs`, `UiPanelsProofs` | theorems | |
| `DataInduction` | induction over the natural numbers, for the proofs about loops | |
| `MCLifecycle`, `MCTx`, `MCFifo`, `MCRows`, `MCSettings`, `MCConnection`, `MCUi` | instances for TLC | |

The models cut the pipe along its own seams. A worker calls the executor
for one operation at a time, so `TxExecutor` needs no other actor than that
worker, the backend and a cancel, and in `QueryLifecycle` the executor is one
step between "the worker has the query" and "the worker claims the answer".
What the configuration does to queued operations needs neither ids nor
transactions, and is `SessionFifo`. What happens to the rows inside that one
step of the executor is sequential but for a writer that may stop, and is
`RowDelivery`. How a connection comes up and goes down, with the processes
behind it, concerns neither transactions nor queues: `SessionConnection` has
the awaits at which a future may be dropped, and a query that only runs. Which
connection a session is entitled to is a function of settings, judged in five
places: `SessionSettings` takes a session idle between two requests and asks
whether the five agree. The UI is a process of its own.

### QueryLifecycle and the code

A query is the number of its line. `phase` is `QueryState.phase` with two
values of its own, `none` (not read yet) and `refused` (answered at dispatch).
The dispatcher's program counter `dpc` splits a handler wherever another task
can see it half done: between reaping `in_flight` and admitting
(`Submit`/`Admit`), between admitting and sending to the channel (`Send`,
`SendFails`), and between the steps of a cancel (`CancelLookup`,
`CancelQueued`, `CancelSettle`, `CancelAnswer`, or `CancelNotQueued`,
`CancelStarted`). The worker's counter `wpc` does the same for `execute_query`:
`TakeQuery` is `try_start`, `Run` or `RunRejected` the work, `Claim` the
compare-and-swap, `WriteAnswer` the event, `Finish` the phase. Begin, commit,
rollback, session_info and invalidate take a place in the channel and are
otherwise one value, `NoQuery`. `WorkerDies` is a panic: the channel and what
it holds are gone and the next operation starts another worker.
`StartShutdown`, `DeadlinePasses`, `AbortWorker` and `SendClose` are
`shutdown_runtime`.

`TerminalContract` says the same to a caller who sees no tasks: an id stands
for one open query, a query is answered once, one that is answered before it
starts never starts, nothing follows the close event. `KeepsContract` is the
refinement, `Contract` its mapping: a cancelled query counts as waiting until
its answer is written.

### TxExecutor and the code

`pc` is the statement, or the check, the running operation is at. `explicitTx`
has the values of `SessionEntry.explicit_tx`. `srv` is the backend: its
transaction state, whether it is read only, the writes since BEGIN and those
since the savepoint. The backend is external: it does what the code relies on (a
statement that fails aborts the block, COMMIT of an aborted block rolls back and
still succeeds, ROLLBACK TO revives it). At any moment the backend may die
(`BackendDies`); the client learns of it later (`NoticeClosed`, `is_closed`); a
cancel may be asked for (`CancelRunning`). A statement may end with `57014` at
any time, because a late CancelRequest and a `statement_timeout` look the same.
Four rarer events are named in `Faults`, so that each can be switched on by
itself: `stray_cancel` (a CancelRequest hits SAVEPOINT, RELEASE or ROLLBACK),
`hidden_error` (a statement fails behind the rows the inline cap let through),
`late_close` (the connection ends between `live_client` and `ensure_connected`)
and `own_control` (a query with read permission is itself a COMMIT, a ROLLBACK
or a RELEASE, which the executor does not parse: it closes the block or takes
the savepoint away, and the session goes on as if nothing had happened). `curTx`
and `txBackend` only remember: which begin is unsettled, which backend answered
it. A query that is permitted to write is taken to write; one that only reads
comes with read permission.

`TransactionContract` says the same to a caller who sees operations and answers
only. A statement, a savepoint, a connection or a backend is none of its words:
an operation takes effect in one step, at its answer, and the writes of a
transaction all at once at its commit. `KeepsContract` is the refinement,
`Contract` its mapping: `Mode` is `explicit_tx` by name, and a begin counts as a
failed transaction until BEGIN was answered. `HidesFailure` is the one thing the
contract lets a session do when a rare fault may happen: answer a COMMIT that
rolled back as a success (the first finding below).

### SessionFifo and the code

`config` is the endpoint each session points at; `dpc`, `next`, `todo` and
`reserved` are `dispatch_config_invalidation` between reserving, installing and
using its permits. An element of a channel carries the endpoint frozen when a
query or a begin was accepted. `conn` is where the session's connection really
goes: `ensure_connected` uses an open connection whatever the operation
carried, which is why an Invalidate must sit between the two.

### RowDelivery and the code

A row is its number and the size of its JSON text. `opt` fixes which of the
four paths a query takes (collected or streamed, inside its own transaction or
an explicit one), its limits, whether the `to_jsonb` wrapper can hold it and
whether every column has a fallback decoder. `Fetch` is one round to the
server: `query_portal_raw` with its limit, after which the portal is
`suspended` and says nothing about what is left, or `query_raw` without one.
`CollectRow` is `InlineRowCollector::push`, `BatchRow` is `OutputRowSink::row`
with the flush it may do. The server is external: it may fail at any row, a
RETURNING is computed in full before its first row, and a SELECT as it is read.
`WriterStops` closes the output channel, after which every send fails.

### SessionSettings and the code

A setting is a partial function from field names to values, since the code's
fields are all `Option`s; a value is one of the kinds the code tells apart
("bad" is what a field refuses, "many" a DSN with several hosts).
`TransportKind`, `ResolvePermission`, `SshSettings`, `ContainerSettingsHold`,
`Endpoint` and `Route` are the functions of those names; a route is everything
that fixes where a connection ends: the endpoint, the hops and their options,
the program that is run and its arguments. `Init` is `lib::run` for either
executable, with a profile from argv and the environment or, locked and pinned,
from a file. `Config` is a `config` line with `apply_update`, the checks of
afpsql-readonly and the Invalidates that follow; `Query`, `Begin` and
`SessionInfo` are the three requests that open a connection.

### SessionConnection and the code

An attempt is a `SessionClient` or what will become one: `phase` is the await
`connect_session` or `shutdown` stands at, `up` the driver task, the child
process and the task that reads its stderr, as far as they run. `Owned` says
which of them end when the value that holds the attempt is dropped, by
`kill_on_drop` or by a guard's `Drop`; `Dropped` is that drop. Attempts are
opened by the worker (`Ensure`) and by a cancel (`ReadConfig`), and are dropped
by an error, by the five seconds of a cancel (`CancelTimesOut`), by the deadline
of a shutdown (`JoinTimesOut`, `Exit`) and by a reconnection. `slot` is
`CancelState`, whose three locks are taken one by one on both sides. The server,
the bridge process and the operating system are external: they may answer, fail
or end at any step, or never.

### UiDocuments, UiPanels and the code

`UiDocuments` holds the pure half: `SnapshotDocument`, `IndexPanelDocument`,
`MonitorDocument` and `PlanDocument` are the builders of `src/ui/inspect.rs` and
`src/ui.rs`. A loop over the rows of one query is a recursive function of the
position, with `AttachRow` the body of the one over the child rows, and the sort
of the longest queries is `Insert`, stable as the code's. A row keeps its kind,
its relation, its name and its flags. `UiPanels` is the process: `Start` to
`Announce` are a panel's opening (refusals, one query, the page, the delivery,
`ui_ready`); `Press`, `PlanEnds`, `RunStatement` and `DrainPlan` are
`plan_panel`; the rest is `run_live_runtime`, with a `select!` whose three
branches are `Tick`, `Receive` and `JoinExplain`. `AgentGoes` closes stdout,
after which every event ends the process with 4. The window and the cell that
keeps the first answer are the AFUI library's, modelled from how `ui.rs` uses
them.

## What the runs check

| run | instance | shows |
|---|---|---|
| `lifecycle_safety` | 3 ids, 2 sessions, 3 queries, 2 in flight, channels of 1, panics, deadline | types; at most one answer; a query cancelled while queued is never sent; an open query stays reachable for `cancel`; the refinement of `TerminalContract` |
| `lifecycle_live` | 2 ids, 2 sessions, 2 queries, channels of 2, deadline, fairness | start order within a session; every accepted query answered; shutdown ends; nothing unanswered at `close` if the deadline was met |
| `tx_core` | 4 operations of every kind but `session_info`, 2 backends, no rare faults | COMMIT reported means durable, goes to the backend that answered BEGIN, and session and backend agree between operations; the refinement of `TransactionContract` |
| `tx_faults` | 4 operations of every kind, 2 backends, all rare faults | success and failure are the truth about a write; rolled back means nothing persisted; only COMMIT persists a transaction; all or nothing; a query with read permission writes nothing, not even behind one that closed its READ ONLY transaction |
| `fifo_patch` | 2 sessions, 2 endpoints, channels of 3 | a query runs on the endpoint it was accepted for; a stale connection is on its way out; a patch moves all its sessions or none |
| `rows_delivery` | up to 4 rows of sizes 1 and 3, caps of 0 and 2 rows, 2 and 4 bytes, batches of 1 and 3, portal fetches of 2, fairness | a result is a prefix that says where it was cut; a stream that ends is whole; the order of its events; every query ends |
| `settings_routes` | 2 session names, 5 environments, 5 profiles, both executables, 2 patches | a request crosses the transport its permission names; an open connection is the one its settings would open now |
| `connection_session` | 3 transports, 2 queries, 3 connections, 1 Invalidate, fairness of timers | nothing that was started outlives its connection; what a cancel is answered is true; the reader and the shutdown always get on |
| `ui_panels` | 5 panels, 4 statements, up to 4 snapshot rows in every order, 2 calls, fairness | agent, person and server agree on one answer; a page loses and invents no row; every call of the monitor is heard |
| `tx_hidden_error`, `fifo_info`, `settings_locked` | one fault, kind or profile at a time | the three findings below |

Bounds. Three queries are needed and enough for an id to be used, reused while
its first query is being cancelled, and used again; two sessions let one be full
or dead while the other works; a channel of one is full with one query or
control operation in it, and a channel of two (`lifecycle_live`) is the least in
which the order can go wrong. Three ids against `MaxActive = 2` let a third
query meet a full map, full of open queries or with a finished one that was not
reaped yet (two ids could not: the new query's own id is never counted, so one
other entry never reaches the limit). Four operations are what the worst
transaction stories take: a begin, two queries of it and a commit, or a settled
transaction and two queries after it; `session_info`, which only connects, is
left to `tx_faults`; two backends are one reconnection, and three would repeat
it. In `SessionFifo` a channel of three lets a patch's Invalidate wait behind a
query and another operation, and two patches wait at once. In `RowDelivery` four
rows are two fetches of a portal of two, with one more that says it is done; a
cap of two is met exactly, passed, or not reached, by rows and by bytes, with a
small row behind one that was too big; 1024 is replaced by two, and the limits
only have to stand in every order to each other. In `SessionSettings` every
environment and profile is there for a branch: a variable set, unusable, or one
that completes a family argv only began; two patches set a field and clear it,
or move the default session and then patch it. In `SessionConnection` two
queries let a cancel meet a connection of the query before; three attempts are
one, its replacement, and a cancel's. In `UiPanels` four rows put a child
before, after and without its relation, next to a child of another; two calls
make one plan busy; a lease of one period expires. The theorems below have no
bounds.

Fairness, where a run has a temporal property. `rows_delivery` assumes that the
task which runs the query is polled and the server answers (`WF_vars(Deliver)`).
In `lifecycle_live` the dispatcher is a task the runtime polls
(`WF_vars(Dispatch)`), the deadline is a timer (`WF_vars(DeadlinePasses)`);
`ShutdownEnds` needs no more, so it holds even if every worker is stuck in the
database. `EveryQueryAnswered` also assumes `WorkersServe`: the database answers
what it is asked, and no worker panics. Without that no client could promise an
answer. In `connection_session` only timers fire and this process's shutdown
goes on (`WF` of `CancelTimesOut` and `Shutdown`): a server or a bridge may hang
for ever. In `ui_panels` the activity query answers, a task that was spawned is
polled, and the loop takes a call that is ready again and again
(`SF_vars(Receive)`, since tokio's `select!` picks among ready branches at
random); the EXPLAIN may never come back. Nothing is assumed of the caller, who
may stop sending at any time; deadlock checking is off where a pipe may close or
a session run out of operations, and on in `SessionFifo` and `SessionSettings`,
which never stop.

## Findings

Three statements of the repository that the code does not keep, each a run of
its own that TLC refutes.

- `tx_hidden_error`: in an explicit transaction the inline cap drops the row
  stream; an error raised behind it is not read, RELEASE then fails without a
  ROLLBACK TO, and COMMIT, which rolls back, is reported as a success.
- `fifo_info`: `session_info` reads the configuration when it runs and connects
  the session with it; a begin accepted before the patch and queued behind the
  `session_info` then runs on the new endpoint.
- `settings_locked`: a locked profile refuses patches of `sessions`, not of
  `default_session`; a new default is an unpinned, empty session that reads the
  environment the reference says a locked profile never reads.

`tx_faults` checks the other half of the first: whatever the rare faults do to a
session, what was answered about a write outside the commit of a broken
transaction stays true.

Disagreements met while modelling, which the models contain and no run is spent
on:

- With `late_close` in `Faults`, `CommitOnSameBackend` fails: `execute` asks
  twice whether the connection is closed, and reconnects inside the explicit
  transaction if the driver ended in between (`db/executor.rs:208` and `:213`,
  against the comment at `:371`).
- With `stray_cancel` in `Faults`, `SessionMatchesBackend` fails: a late
  CancelRequest hits the ROLLBACK whose result `finish_transaction` ignores.
- Outside an explicit transaction a SELECT that meets its inline cap is
  suspended there and committed; the reference says (`docs/reference.md:500`)
  that it "still executed in full", which is true of a RETURNING.
- A locked profile that names a container runtime starts, and then refuses every
  `config` line, its own settings included: patches are judged as untrusted.
- A read-only `begin` is admitted whatever permission it names (`Begin`), so its
  connection may cross a transport that permission does not cover; this is why
  `PermissionCoversRoute` leaves it out.
- The reference says (`docs/reference.md:94`) that afpsql-readonly rejects
  transaction-control SQL before execution. Its scanner (`leading_keywords`,
  `readonly_policy.rs:461`) reads no keyword behind an empty statement (`; commit`)
  or a vertical tab, and ends a `--` comment at a line feed only, where PostgreSQL
  also ends it at a carriage return; such a statement is let through. Nothing here
  relies on the scanner: in `tx_faults` and in `ReadsNeverWrite` every query with
  read permission may end its own transaction, and still none writes, because the
  query behind it either opens a READ ONLY transaction of its own or fails at its
  SAVEPOINT.
- The container bridge accepts DSN options only a local socket honours, which
  the SSH bridge refuses as having no effect.
- SSH options reach only the first host of an `--ssh-via` chain (`SshChain`).
- A finished EXPLAIN whose task was not joined yet makes the next one
  `explain_busy`; a reply one page does not take ends the loop for all pages.
- An approved statement is not run if the agent's stdout is gone by then; the
  exit code is 4 and the page still says Approved.

## What is proved

All theorems hold for every value of the constants; five (`ShutdownDrains`,
`RunsOnItsEndpoint`, `CommitStaysHome`, `SessionIsBackend`, `CommitIsTrue`) state
what they assume besides, and why below. They rest on the named assumptions of the
modules: `LifecycleConstants`, `FifoConstants`, `TxConstants`,
`DeliveryConstants`, `SettingsConstants`, `InputConstants`,
`ConnectionConstants` and `PanelConstants`, which TLC evaluates in every run of
their module. Most of it is that capacities are positive and counts are numbers.
Two say what comes from outside. `InputConstants`: argv, the environment, a
profile and a patch give fields the program has, with values of the kinds the
model tells apart. `PanelConstants`:
the rows of the inspection queries are rows of their columns' types, the snapshot
describes a relation in one row (`pg_class` holds a name once in a schema) and
the index query returns indexes only. Each proof has the same shape: an invariant, a
conjunction of named parts, is shown initial and preserved action by action,
and the theorems follow from it. TLC checked every invariant on the instances
above before it was proved.

### QueryLifecycleProofs

- `TypeCorrect`: `Spec => []TypeOK`.
- `AnswersAreTrue`: at most one answer per query, and finished means answered.
- `CancelledIsNeverSent`: a query cancelled while queued never reaches the
  executor, although it stays in its channel.
- `IdsAreTrue`: no two open queries share an id, and `in_flight` maps the id of
  an open query to that query, so a cancel can reach it.

None of these is inductive alone. `AtMostOneAnswer` needs to know who may still
answer a query, which is spread over the phase, the claim, the worker's and the
dispatcher's program counters and the channels. `SafetyInv` says it in parts:
`FreshInv` (a query that was not
read has no phase, the one being admitted or sent is new or queued), `QueueInv`
(a channel holds admitted queries only, and not the one still being sent),
`SilentInv` (nobody has claimed, started or answered a query that waits),
`SettleInv` (the dispatcher owns the query it cancelled until it has answered
it), `WorkInv` (what a worker holds is running, and its counter says whether it
was claimed and answered), `ApartInv` (two workers never hold one query) and
`DoneInv`, the conclusion. `ReachInv` adds `in_flight`: `HeldInv` (an id stands
for an admitted query that bears it), `HandInv` (the query of a cancel is in
`in_flight` until the dispatcher takes it out) and `LimboInv` (a cancelled query
without an answer is the one the dispatcher is at);
`OpenIsReachable` is its last conjunct.

- `PipeKeepsContract`: `Spec => KeepsContract`, the refinement of
  `TerminalContract`. `NextContract` names for each step of the pipe the step of
  the contract it is, or shows that it is none. It needs all of the above
  (admission is a contract step only because an open query is the one its id
  stands for) and `ClosedInv`: after the close event no worker has anything left.
- `StartsAreOrdered`: `Spec => StartsInOrder`, from `OrderInv`: a channel holds
  queries of its session, oldest first, and the one being sent is younger.
- `ShutdownDrains`: `Spec => []DrainBeforeClose`, assuming `~WorkersMayDie`: a
  worker that panics takes its queries with it. `PlaceInv` says where a query is
  until the deadline: on its way into its channel, in it, or with a worker.

### SessionFifoProofs

- `FifoTypeCorrect`: `Spec => []TypeOK`, which includes that a permit always
  finds room in its channel.
- `PatchIsWhole`: `Spec => PatchIsAtomic`, from `PatchInv`: while a patch
  reserves, it moves no session it neither holds a permit of nor has still to
  reserve.
- `StaleIsDoomed`: `Spec => []StaleConnectionIsDoomed`.
- `RunsOnItsEndpoint`: `Spec => []RunsWhereAccepted`, assuming `"info"` is not
  among the kinds of operations sent. The assumption is needed: `fifo_info`
  is the counterexample without it.

The invariant is about one session at a time. `Settled` says that, unless an
Invalidate is promised and not yet sent, everything behind the last Invalidate
of the channel, and the connection if there is none, is of the configured
endpoint. `Chain` says that two operations, or an operation and the connection
it will find, are of one endpoint if no Invalidate lies between them. Both are
stated about values (a channel, an operation, a connection), so that the
lemmas about an `Append`, a `Tail` and the end of an operation mention no
variable, and a step of the system only picks the lemma of its session.

### TxExecutorProofs

For any number of operations and connections, whichever of the rare faults may
happen: `ExecutorTypes`, `ReadsNeverWrite`, `SuccessIsTrue`, `FailureIsTrue`,
`RollbackIsTrue`, `OnlyCommitsPersist` and `TransactionsAreAtomic`, for the
properties `TypeOK`, `ReadNeverWrites`, `SuccessTruth`, `FailureTruth`,
`RollbackTruth`, `OnlyCommitPersists` and `TxAtomic`. They all speak of answers
given long before a COMMIT, so the invariant `TxInv` has to know what the
backend holds in the meantime. `LogInv` shapes the log, `PcInv` says what each
statement of the executor runs for and how far the session is in a transaction,
`SrvInv` what the backend may be then; `WorkInv` is the centre: the writes of a
transaction that can still be committed are exactly this transaction's, each
answered with success or about to be, and those behind a savepoint belong to the
running query. `HistoryInv` says what became durable and by which answer
(`DbInv`) and that a transaction is settled once (`OnceInv`). `ReadsNeverWrite` is
not the guard of `BodySucceeds` restated: with `own_control` the block of a read
may be gone while the session still counts on it, and what the theorem needs is
that `SrvInv` never lets a query reach its body on a backend that is read-write
without the query's own permission.

With `Faults = {}` it adds `MatchInv` (session and backend agree, but between a
failed query and its ROLLBACK TO; nothing reconnects inside a transaction):
`CommitStaysHome`, `SessionIsBackend` and `CommitIsTrue`, for
`CommitOnSameBackend`, `SessionMatchesBackend` and `CommitTruth`. The assumption
is needed: `tx_hidden_error` and the first two disagreements above are the
counterexamples without it.

`ExecutorKeepsContract` (`KeepsContract`) is the refinement, for any `Faults`.
`PureInv` adds what the contract's guards ask besides: a read-only transaction has
no work, only a query is cancelled, a worker at rest has answered, what a query
commits it was permitted to write. `Matched` is `MatchInv` on condition that no
rare fault may happen, for only then is a COMMIT answered with success one that
committed. Each action has a lemma that names its step of the contract
(`CommitKeeps` for the COMMIT, whose one step makes durable what the contract calls
`Wrote`, by `WorkInv`), or shows that operations, answers, mode and durable
writes stay: a statement, a savepoint, a lost backend.

### RowDeliveryProofs

For results of any length, rows of any size, every limit and every portal:
`DeliveryTypes` (`TypeOK`, the limits of collector and sink among it),
`StreamsAreWhole` (`StreamIsWhole`) and `StreamsAreWellFormed`
(`StreamGrammar`). `StreamInv` says that the batch is the rows read last and
that a fetch which was not suspended has the rest of the query; `ToldInv` that a
stream under way was told of every row but those of the batch, unless the writer
stopped. `ResultsArePrefixes` (`ResultIsPrefix`) rests on `CollectedInv`: the
collector holds the first rows of the query, every one it was given until it was
cut, and the bytes it counted are theirs; that the bytes of more rows are never
fewer is an induction. `Sends` shows once what an event has to fulfil to keep
what is known of all events, and each action shows that of its own.

### SessionSettingsProofs

For any names, environments, profiles and patches:
`PermissionIsTransport` (`PermissionCoversRoute`) and `ConnectionIsConfigured`
(`ConnectionFollowsSettings`). Three places of the code read the transport
fields; `RouteIsItsKind` shows that where a route exists they decide alike, and
`PinnedReadsNothing` that a pinned session's route is the same under every
environment. The invariant adds that an open connection is the route of its
session as configured now (`RoutesInv`), which a patch keeps only by the
Invalidates that follow it.

`SettingsTypes` (`TypeOK`): whatever argv, environment, profile and patches say,
every session keeps settings the program knows and no connection is open to a
refused place.

### SessionConnectionProofs

For any transports and any number of connections, queries, cancels and
Invalidates: `ConnectionTypes` (`TypeOK`), `ConnectionsAreHeld`
(`NothingOrphaned`) and `CancelIsTrue` (`CancelAnswerTruth`). `AttOK` says which
parts may run in each phase, so that `DroppedOK` can show that what is owned
there covers them; `WorkerOK`, `CancelOK` and `StageOK` say what their tasks
hold, and `HeldInv` that a connection which is up is in one of those hands.
`TruthInv` relates what a cancel has read of a query's slot to what the slot
becomes: a context is installed once, so what was read stays true.

### UiPanelsProofs

For whatever the queries return and whatever is asked: `PanelTypes` (`TypeOK`)
and `OneAnswer` (`AnswersTellTheTruth`). `PageInv` says that the page of a plan
stays the document of its statement, `RecordInv` that the one recorded press is
what the completion cell holds, `RunInv` and `DrainInv` that between approval
and exit only the approved statement runs.

`PagesLoseNothing` (`PageLosesNothing`): no page has lost or invented a row.
`DocumentInv` says that a page is the document of rows that a query returned; what
the documents do with their rows is proved about the loops, an entry that is
neither lost nor doubled by `AttachRow`, a group by `AddToGroup`, the sort by
`Insert`, each by a lemma for one row and `Induction` over the position.

### DataInduction

The library's induction theorems take an operator as a parameter, which no
installed prover can instantiate. `Induction` is about a set that holds 0 and,
with each number, the next: a proof names the set of the lengths for which a loop
does what it should, and the lemma, from well-founded induction on the
numbers, says that it holds all of them.

## What is only model-checked

Liveness under fairness, which the prover cannot do: `EveryQueryAnswered`,
`ShutdownEnds`, `EveryQueryEnds`, `ReaderAndShutdownEnd` and `CallsHeard`. Every
invariant, action property and refinement a passing run checks is also proved.

## What is not modelled, and why

- `prepare_only` (dry run): a read-only transaction that is always rolled back.
- A query with write permission that is transaction control itself: nothing
  stops it, and what it then persists or loses the caller asked for. With read
  permission it is modelled (`own_control`).
- The text of diagnostics of the bridges: which message a failed set-up gets has
  no state. How long a path or a command may be is not modelled either.
- The scanner of the read-only policy (`validate_sql`): which texts it refuses is
  about characters. The models take no statement as refused by it.
- The bounded channel of the writer as back-pressure: a send waits, and the
  events keep their order. What happens when the writer stops is in
  `RowDelivery`.
- Rendering to HTML, and AFUI: the page is the document. `afpsql ui` reads no
  second page.
- The psql wrapper on disk and skill installation: sequential file operations
  without a second actor. Argument parsing (psql mode among it), dry runs,
  formatting, logging and the text of errors have no state.

## Plan

The pipe was modelled first (dispatcher, executor, configuration), then the
rows, then what a connection and its settings are, and last the UI; the proofs
followed in the same order, and now cover every safety property. What is left,
in order:

1. Abstract specifications of a query's rows and of a session's connection, as
   there are of the pipe and of a session, with `RowDelivery` and `SessionFifo`
   shown to implement them.
2. `prepare_only` as an action of `TxExecutor`, and a query that is permitted to
   write and only reads.
3. The psql wrapper: a model of `src/psql_admin.rs` pays once a second process
   may install or remove it at the same time.
