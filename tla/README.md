# dbunk: a TLA+ verification project

dbunk is a native database client. `backend/` is a Rust library that owns every
connection, session and job (about 214 000 lines); `apps/native/` is the GPUI
application on top of it (about 135 000 lines). The decisions behind the code
are in `docs/adr/0001`-`0016`, its vocabulary in `CONTEXT.md`.

This project models the parts where a mistake costs the user data or hangs the
application and where tests reach least. First the PostgreSQL query session: how
its events are delivered and acknowledged, which transaction an execution runs
in and who cleans it up, and how sessions open and close while connections are
edited, windows are retired and the process shuts down. Then four owners beside
it: the credential store, which writes two stores that no transaction spans; the
table browser, which shares one connection between documents; the jobs that
run pg_dump and pg_restore; and the executor that applies the changes a user
staged in a grid.

`PROJECT.json` lists components, runs, mutants, findings, hazards and theorems
and maps every definition that models code to its lines.

## 1. Inventory

| Component | State it keeps | Operations | Hard behaviour | What makes it correct |
|---|---|---|---|---|
| Query event delivery (`query_session/mod.rs` `Outbox`, `run_execution`; `apps/native/src/mailbox.rs`, `stream.rs`, `workspace_runtime.rs`) | sequence number, closed flag, credit window (unacknowledged batches, retain flag, terminal sequence), the document's stream position and its one-cell watch of acknowledgements | send, `credit_gate`, `acknowledge`, terminal and drain, `mark_closed`, lease expiry | three locks taken in one order but not held across the window check; notifications without memory; acknowledgements coalesced | the window is never exceeded, no wakeup is lost, numbers have no gaps, an execution settles exactly once, nothing but `SessionClosed` follows a close |
| Query session transactions (`query_session/mod.rs`, `query_session/postgres.rs`) | cached transaction status with its probe number, mode, stop flag, cleanup permit; on the server: the transaction, the cursor, the queue of statements still on the wire | `execute` in its shapes (script, cursor read, bound command, each direct or behind a transaction pooler), cleanup, Stop, status refresh, COMMIT and ROLLBACK, mode change, close | a cancel request travels on another connection and hits whatever runs when it arrives; a cleanup statement that timed out is still executed later; a probe may answer after a newer one | an execution ends its own transaction and cursor and never the user's; a cached Idle is true when it is used; a close completes and nothing is sent after it |
| Query session manager (`query_session/mod.rs` `Manager`) | owner of the window, sessions, openings (reservations), closing marks, teardown generations, driver records | `register_owner`, `open_native`, close, `expire_stalled`, `retire_window`, begin/end of connection and global teardown | every operation releases the lock while it connects or joins | limits hold, no session behind a fence, no socket without a record |
| Native open and close (`backend.rs`) | open tickets, the lifecycle gate | `open_native_session`, `close_native_session` | the open holds the gate twice, not while it connects; the close cancels an open it does not wait for | no stale session is returned, nothing is left after a close, nobody waits in a circle |
| Socket lifecycle fences (`socket_lifecycle.rs`) | guard of raised scopes | `with_connection_fence`, `with_connection_ids_fence`, `with_global_fence`, release on panic | the change may panic; six managers are fenced together | nothing is admitted while the change runs |
| Backend shutdown (`backend.rs` `shutdown_with_deadlines`) | phase, tracked tasks | refuse, tear down, drain, abort, clear, close storage | overlaps everything that was admitted before it | owns every session once its teardown is up |
| Driver joins, task groups (`postgres/dedicated.rs`, `postgres/native_tasks.rs`) | drivers, abort latch | register, join, abort | registration racing the join | no driver escapes a join |
| Result reduction (`query_session/postgres.rs` `Reducer`) | rows kept, caps reached | push row, set, notice | limits | caps are exact, truncation is reported |
| Native query documents (`apps/native/src/workspace_runtime.rs`, `workbench.rs`, `controller.rs`) | worker, commands, current execution, result model | connect, run, stop, acknowledge, disconnect | events of an old session after a reconnect | only the current execution's events are applied |
| Table browse (`table_browse/`, `backend/data.rs`, `postgres/native_tasks.rs`) | executors with queue, in-flight request, interrupts and a pending protocol cancel; task groups; documents and fences | submit, run, cancel, supersede, close a document, idle close, retire, force | a wakeup between the look for a job and the wait; a cancel that outlives its statement on a shared connection; closes that overtake each other | every request is answered once, a stopped one never with rows, one executor per connection |
| Staged result mutations (`result_mutation/`, `backend/data.rs`, `data/mutations.rs`, `data/preferences.rs`, `postgres/native_tasks.rs`) | executor with queued analyses, active request, interrupt, pending protocol cancel and cached snapshots; the transaction of an apply; documents and fences; stored virtual keys | analyse, apply, cancel, save and clear a key, close a document, idle close, retire, force | a cancel, a close or a dropped caller against a COMMIT about to be admitted; one `Notify` for everybody; an analysis overtaken by a saved key; a cancel that outlives its statement on a shared socket | an apply is told the truth and a stopped one never commits, cached snapshots are current, a socket is handed on clean, everything settles |
| PostgreSQL tool jobs (`backend/pg_tools/`, `postgres/backup/`) | attempts with what the user is shown, jobs, outcome claim, scopes, reaper permits, private files | prepare, review, confirm, start, cancel, publish, reap, clean up, release | cancel, timeout and commit race; a child that does not die; a connection change that waits for jobs under the gate they need | the outcome shown is what happened, a restore runs alone, fences and permits come back |
| CSV transfers, schema comparison | jobs, scopes | start, cancel, finish | as tool jobs | as tool jobs |
| SSH tunnels (`tunnel.rs`) | shared bastion sessions | acquire, release, lose | sharing | no forward outlives its users |
| Credentials and storage (`credentials/`, `keychain.rs`, `storage.rs`) | SQLite records, secrets and two journals; keychain blob and backup; two caches, session key | configure, save, duplicate, delete, change mode, reset, unlock, recover | a crash or an uncertain write between two stores; readers without the lock | records and secrets change together, recovery always ends, no secret is left where it does not belong, caches are true |
| Safety policy, schema drafts, other engines, managed servers, user interface | - | - | - | see section 8 |

How the modelled parts interact: a document's worker in the application calls
`open_native_session`, which reserves in the manager, connects through the
driver joins and publishes the session; executions run in a task per session
that sends through the session's Outbox into the document's mailbox; the
document acknowledges through a watch channel. Closing comes from five sides:
the document, the lease monitor, a fence over the connection, the retirement of
the window, and the shutdown. Table browse, staged mutations and the tool jobs stand behind the
same lifecycle gate and socket fence: a document opens only while no restore
runs on its connection, a connection changes only when its jobs have settled and
its executors are joined. Opens read the credential mode under that gate and the
secrets after it.

The hazards this code is exposed to are in `PROJECT.json`, each at its line with
the property that would catch it going wrong.

## 2. Modules

| Module | Models | Uses |
|---|---|---|
| `CreditStream` | what event delivery promises, abstractly: a window of unacknowledged batches, one execution at a time, a settled slot, a closed stream | |
| `QueryOutbox` | the Outbox, the `run_execution` task, the closers and the consuming document | INSTANCE `CreditStream` |
| `QueryOutboxProofs` | its theorems | `QueryOutbox` |
| `SessionTransaction` | executions of one session, their cleanup and the server's transaction | |
| `SessionTransactionProofs`, `SessionCleanupProofs` | its theorems: the cached status; the cleanup | `SessionTransaction` |
| `SessionManager` | the manager's maps, open, close, fences, owners, lease removal and shutdown | |
| `CredentialVault` | what the profile promises about records and secrets, abstractly: one store, one step per change | |
| `CredentialStore` | SQLite, keychain, journals, caches, recovery, faults and readers | INSTANCE `CredentialVault` |
| `CredentialStoreProofs` | its theorems | `CredentialStore` |
| `TableBrowse` | the executor of one connection, its documents, waiters and teardowns | |
| `TableBrowseProofs` | its theorems | `TableBrowse` |
| `MutationLedger` | what the grid promises about applied changes, abstractly: what is durable, what was stopped, what the user was told | |
| `ResultMutation` | analyses and applies of staged changes on one executor, with its teardowns | INSTANCE `MutationLedger` |
| `ResultMutationProofs` | its theorems | `ResultMutation` |
| `ToolJobs` | backup and restore attempts from request to release | |
| `ToolJobsProofs` | its theorems | `ToolJobs` |
| `MCSessionManager` | the symmetry of document identifiers for TLC | `SessionManager` |
| `SessionManagerProofs` | its theorems | `SessionManager` |

### QueryOutbox

One action is one critical section. `seq`, `closed` and the fields of `Credit`
are variables with the code's names. What the code does under the sequence lock
(number an event, hand it to the sink, push its batch) is one step. `credit_gate`
is three: arm the `Notified`, read `closed`, read the window
(`GateArm`, `GateReadClosed`, `GateReadCredit`); so an acknowledgement or a close
fits between any two. `acknowledge` applies and then notifies (`DocAck`,
`NotifyAfterAck`), as the code releases the lock before `notify_waiters`. The execution's driver is a
source of events: metadata, row batches of the sizes in `BatchSizes`, the end or
the loss of the connection. The mailbox fails at most once and for good. The
document is `Stream::admit` and the handling of an admitted event, and keeps the
newest acknowledgement in `cell`. The lease monitor (`expire_stalled`) decides,
reports and removes in three steps.

The 28 variables fall in five groups named in the module (`outboxVars`,
`taskVars`, `closeVars`, `sinkVars`, `docVars`).

### SessionTransaction

Statements queue on the session's one connection (`wire`) and the server answers
them in order (`ServerAnswers`); what a statement can do to the transaction is
`Succeeds`, `Fails` and `IsCanceled`. An actor that waits holds a place in the
queue; a timeout gives the place up and leaves the statement on the wire. A Stop
sets the flag and sends a cancel request, which arrives at any later moment and
hits whatever the server then runs (`CancelLands`) or nothing
(`CancelDiscarded`). `cached`, `mode`, `started` and `applied` are the snapshot
and the probe order of the code; a probe (`observe_session`) is four steps,
because it takes its number, sends, reads the status of the last ReadyForQuery
and applies in different critical sections.

An execution fixes its entry from mode and status (`EntryOf`: a wrapper of its
own, an implicit BEGIN, or inside what is open), walks through its shape (script,
cursor read, bound command, the last also behind a transaction pooler), decides
under `begin_cleanup` (`BeginCleanup`), commits or rolls back, rolls back a
second time when the first was hit (`AfterCleanup`), probes and settles. The
close waits for the cleanup permit (`MarkClosed`), cancels and rolls back with a
bounded wait.

`owner`, `fresh`, `committed` and `hits` are history variables: who opened the
server's transaction, whether this execution did, whether its COMMIT took
effect, and how often its cleanup was disturbed.

### SessionManager

Sets of document identifiers stand for the manager's maps: `sessions`,
`opening`, `records`; `alive` are the sockets, `aborted` the latched groups.
`pc[d]` is where `open_native_session` is, `closer[d]` where
`close_native_session` is, `work[f]` and `stage[f]` where a fence is with each of
its scopes, `quit` where the shutdown is. `gate` names the holder of the
lifecycle gate. Every unlock between two critical sections is a step boundary.
`version` is the stored record an open connects with, `gen` the teardown
generation it compares. `crossed` is a history variable: the opens whose
connection was torn down since they read its record.

### CredentialStore

One action is one write, to SQLite or to the keychain, so that a crash
(`Crash`), a failed write (`SqliteFails`, `KeychainFails`; a keychain write that
reports an error may have happened) or a reader falls between any two. `db` is
what SQLite holds, with the mode journal (`journal`) and the phase of a record
change (`change`); `os` the keychain blob and its backup entry; `mem` the process:
both caches and the session key, gone after a crash. `op` is the one mutation
that holds the gate and the lock; `Proceed` is its next write. Recovery is such a
mutation too and may itself be interrupted. `reader` are the route resolutions of
native opens; `current` are those whose cache generation is still the current
one. `Authority` names the store that counts in each state; through it
`CredentialStore` implements `CredentialVault`.

`OpenSpansModeChange` is FALSE in the passing run: no mode change or reset runs
while an open is between reading the mode and reading the secrets. The code does
not exclude that; with TRUE the run `CredentialStaleMode` shows what follows
(finding 2).

### TableBrowse

One connection with one executor at a time. `exec` is `ExecutorInner` (queue, in-flight
request, newest request and interrupt of each tab, pending protocol cancel) with
the `Notify` permit. `enqueue_job` takes a tab's older job out of the queue
before it adds the newer one, so the queue holds at most one job of each tab: it
is modelled as one slot per tab (`queued`), and its order by what each request
was put `behind`; `worker` is where `run_executor` is; `server` what the
database makes of the statement; `tasks` the cleanup tasks; `group` the
TaskGroup that joins or aborts them. The facade (`facade`) holds the lifecycle
gate through a submission, a document close or a retirement, each in the steps
between its awaits, with its graceful and final deadline. The idle monitor closes
and joins outside the gate. `stopped` is a history variable: the unsettled
requests a cancel, a supersede or a close has met. A wait of the worker is a
`select!`; `notified()` with its permit is modelled as tokio defines it.

A protocol cancel has two ends. The worker or `close_executor` sends it
(`DrainCancel`, `CloseCancels`); `dedicated::cancel` returns once the packet is
written, or after two seconds. What it does comes whenever the server acts on it,
perhaps under a later job of another tab, and is then an error of the statement it
meets: `ServerAnswers` may fail any statement at any moment, so every late
landing is in the model. The code makes nothing else of a cancelled statement
than of any other error, so the model does not tell them apart.

### ResultMutation

One native executor. `ex` is `ExecutorState` (a slot of queued analyses and the
newest request of each tab, the active request with its interrupt and whether its
COMMIT was admitted, the snapshots, the structure generation, the pending protocol
cancel, the connection). The worker runs analyses, and each apply is a task of its
own; only one request is active at a time, so `run` is the task of that one,
whichever it is, and `worker` is where the loop around the analyses and its
`Notify` are. `server` is the session on the socket: its statement with its answer,
its transaction, and the applies whose changes are open in it (`work`);
`committed` is what the database holds for good. `tasks` are the cleanup tasks,
`group` the TaskGroup that joins or aborts them, `mgr` the registered executor
and its fences, `doc` the leases, `req` the requests with their oneshot replies.
The facade (`facade`) keeps the lifecycle gate over the steps of one operation;
`monitor` is the idle close, which runs outside it. The stored virtual keys are
the number of their changes (`keys`), so that a snapshot can be compared with
them. An apply names the analysis its plan was reviewed against; a request that
the database refuses because its structure changed ends as `undefined` and takes
the snapshots with it. `stopped` is a history variable: the requests that a
cancel, a newer request or a close stopped in time. A protocol cancel is sent by
`PerformCancel` or `CloseCancels` and acted on by the server at any later moment,
as in `TableBrowse`: `ServerFails` may refuse any statement, one of a later request
or a COMMIT too.

### ToolJobs

An attempt has an entry (what the user sees), a prepare or dispatch task, a
monitor, and in the manager an admission, a job with its outcome claim, a worker
and a child process; each is a variable indexed by attempt. The compare-and-swap
of the claim is one step (`ClaimPublication`, `Cancel`), the commit of a restore
is decided by its child, and the monitor takes a snapshot and writes it in a
later step. `change` is a connection change behind the fence: it checks under the
gate, waits, works and ends; `scope` carries the closing counters and
generations. `panicked` is the poisoned mutex.

## 3. Runs

All runs but those of `CredentialStore` switch the deadlock check off: documents
stop, executions and attempts are bounded, and a session that is closed has
nothing left to do.

| Run | Checks | Shows |
|---|---|---|
| `QueryOutbox` | `BytesBounded`, `SettledSlot`, `NoLostWakeup`, `DocumentFollows`, `OnlyClosedAfterClose`, `ImplementsStream`, `Settles` | two executions, more batches than the window holds, every way to close; the refinement of `CreditStream` and settlement under fairness |
| `SessionTransaction` | `AcceptedStopUndoes`, `NothingLeft`, `CleanupSparesUser`, `NoCleanupAfterClose`, `CloseCompletes` | executions of all shapes on a direct connection with two Stops, a button and a close at any moment; the server may never answer |
| `SessionPooled` | `IdleIsTrue`, `StatusTellsCommit` | the same behind a transaction pooler, with a status refresh that races the executions |
| `SessionManager` | `FenceQuiet`, `ClosedLeavesNothing`, `ResourcesHeld`, `OpenMissesNoFence` | two opens of one connection, owners replaced and retired, closes, the lease monitor, a fence over one connection or all |
| `SessionOpenLive` | `ShutdownLeavesNothing`, `NoWaitCircle` | the shutdown with its graceful and forced end against a fence over the connection or over everything, whose change may panic; what a session published behind the teardown comes to, and no circle of waits through the gate, the tickets and the joins |
| `CredentialStore` | `StoreInv`, `CacheFresh`, `VaultKept`, `RecoverySettles` | two records through all three modes with up to three faults; the refinement of `CredentialVault` and recovery under fairness |
| `TableBrowse` | `BrowseInv`, `StoppedNotDelivered`, `CancelsForStopped`, `BrowseSettles` | two documents on one connection with cancels, closes, idle close and teardowns |
| `ToolJobs` | `JobsInv`, `FenceNotStuck`, `EndTold`, `JobFenceQuiet`, `RestoreExclusive`, `EndStays`, `CancelEnds` | a backup or restore cancelled, timed out or failing at any step against documents, a connection change and the shutdown |
| `ResultMutation` | `SocketHandedOnClean`, `CancelsForStopped`, `LedgerKept` | two analyses and an apply of one document with cancels, closes, teardowns, lost connections and dropped callers; the refinement of `MutationLedger` |
| `MutationSettles` | `MutationInv`, `EverythingSettles` | an analysis and an apply with a virtual key saved at any step, teardowns, aborts and facade deadlines that pass; every request is answered and every operation ends, under fairness |
| `SessionInside` | `InsideIsInside`, violated | finding 1 |
| `CredentialStaleMode` | `CacheFresh`, violated | finding 2 |

Ten of these are conjunctions of named parts, each stated and explained in its
module, so that a counterexample says which part failed:

- `ResourcesHeld`: every live socket has a record (`SocketsRecorded`), a
  reservation is held exactly while its open connects (`ReservationsHeld`), and
  the admission limits count both (`LimitsHold`);
- `NoWaitCircle`: a close completes (`ClosesComplete`) and the host is told how its
  open ended (`OpensReturn`);
- `DocumentFollows`: the document applies events once and in order
  (`EventsInOrder`), and its acknowledgements are accepted (`AcksAccepted`);
- `NothingLeft`: neither a wrapper's transaction (`WrapperEnds`) nor a cursor
  (`NoCursorLeft`) outlives its execution;
- `StoreInv`: recovery never meets a state it refuses (`RecoveryNeverRefuses`),
  only the selected store holds secrets (`InactiveStoreEmpty`), a key the process
  holds opens the rows (`KeyOpensRows`), no secret outlives its record
  (`NoOrphanSecret`), the keychain cache is true (`BlobCacheTrue`);
- `BrowseInv`: one executor (`OneExecutor`), a fence that lasts (`FenceHeld`), a
  queued request that was not answered (`QueuedUnanswered`), no request
  without an answer after a join (`JoinSettlesRequests`), nothing of a closed
  document on a live executor (`ClosedDocumentGone`);
- `BrowseSettles`: requests are answered (`RequestsSettle`) and an idle close ends
  (`IdleCloseEnds`);
- `MutationInv`: cached snapshots are current (`SnapshotsCurrent`), a closed
  document has left the executor (`ClosedTabGone`), a join leaves no caller waiting
  (`JoinSettlesRequests`);
- `JobsInv`: no `expect` fails (`NoPanic`), reaper permits are accounted for
  (`PermitsHeld`), a complete attempt left nothing behind
  (`CompleteLeavesNothing`);
- `EndTold`: a job's outcome is what happened (`OutcomeTrue`), and so is what the
  user is shown of it (`EffectTold`).

`CancelsForStopped` is about when a protocol cancel may be sent: while the job or
request that has the connection, if any, is one that was stopped, and never for an
apply admitted to its COMMIT. That no cancel *hits* anything else is not so (see
section 4), and the other properties hold although one may.

`FenceNotStuck` says that whoever a change waits for behind its fence gets to its
end without the gate, which the change holds. It names the conditions the code
tests (`PassesGate`, `TeardownSeen`) and never asks what is ENABLED, so that it
can be proved too.

The invariants behind the proofs (`OutboxInv`, `DeliveryInv`, `IdleInv`,
`CleanupInv`, `ProfileInv`, `BrowseIInv`, `MutationIInv`, `ToolInv`, `WaitInv`, the parts
of the manager's) and `WindowBounded` are proved and not run.

Every property of a passing run has a mutant in `PROJECT.json`: a plausible
mistake in the code it is about, defined next to the definition it replaces,
under which TLC finds the property violated.

### Bounds and why they are enough

- `Window = 2` with three row batches: one more than fits, so the gate closes,
  opens and the drain before the terminal event waits. `ByteBudget = 2` with sizes
  1 and 2 refuses a large batch behind any other; two small ones reach both
  limits at once. The code's 4 batches and 4 MiB differ in how many fit, and
  `WindowCorrect` proves the count for every window. `MaxEvents` counts batches over both executions, and an event
  without rows uses up two of them: such an event only takes a number. Two
  executions are the least for anything that could leak from one into the next.
- Two executions, one button and two Stops: a late statement or cancel of the
  first execution can meet the second, and two disturbances are what the second
  ROLLBACK of `rollback` cannot survive. The direct run closes, the pooled run
  refreshes; both at once add no step they share.
- Two documents (an ID opens once: `open_native_session` is given a fresh one),
  one connection and one fence over `{c1}` or everything. `MaxPerConnection = 1`
  makes the two opens compete; a second connection shares with the first only the
  other two limits, which `LimitsAlwaysHold` covers for every value.
  `MaxOwners = 2` is the least for
  an owner replaced while its sessions are open. Fences run one at a time because
  of the gate, so more of them add sequences and no overlap. `SessionOpenLive`
  has one document: its opens and closes wait for the fence, the shutdown and
  each other, and never for another document.
- Two records and two passwords: a duplicate, a delete beside a surviving record,
  and a changed secret. Three keys: the old, the new, and one that opens nothing.
  Three faults: one to interrupt an operation, one to interrupt its recovery, one
  more for the recovery of that.
- Two documents, two requests and one executor: one request in flight and one
  queued, of the same or of two documents, is the least for a supersede, for a
  cancel on a shared connection and for a queue that a teardown finds. A second
  executor begins only when the first is joined (`OneExecutor`), so `MaxSpawns = 1`
  loses no overlap.
- `ResultMutation` needs two analyses and an apply: a plan is reviewed against the
  first, and the second is queued behind the apply or supersedes the first. Their
  numbers order them as the application's counter does. One statement between BEGIN
  and the end is one step at which changes are open, a cancel can hit and a guard
  can fail; `Statements` is arbitrary in the proofs. `MutationSettles` takes one analysis
  and one apply, which is what fits beside its fairness, one saved key, the least an
  analysis can miss, and lets the facade's deadlines pass (`Overruns`). Both runs
  have one document: another one shares the active slot and the notification with
  it, as another request of the same document does, and the theorems cover any
  number.
- One attempt over two connections, reused after its release; one connection
  change, which may be of the attempt's connection, the other or all. Attempts
  share the limits and the fence only, and the change stands for the other user
  of both.
- Document identifiers are symmetric in the runs without liveness properties:
  nothing orders or names them.

### Fairness

Weak fairness, with the one exception below, of code that the scheduler must
eventually run.
`QueryOutbox`: the execution's task, the closer, a monitor's pass once it began,
the document's handling of its mailbox, and the stop of a worker whose stream or
mailbox ended; nothing about the user, who may never run, acknowledge by reading
more, or close. `SessionTransaction`: the execution and the closer, whose waits
end by their own timers, and a button's probe; nothing about the server, which
may never answer. A button waits for its COMMIT or ROLLBACK without a timer and
holds the sequence lock meanwhile, so `CloseCompletes` is conditional: the close
completes unless a button waits for ever.
`SessionManager`: opens, closes, fences, retirement and shutdown: tokio polls
ready tasks, a connect has a deadline, the gate is tokio's fair mutex.
`CredentialStore`: a mutation in progress runs on, and the user asks for recovery
while the profile needs it; faults are bounded. `TableBrowse`: its tasks, its
timers and the database, whose keepalive ends a dead socket; the worker's `Run` is
strongly fair, because `select!` polls its branches in random order and a stream
of notifications does not keep it from its job. `ToolJobs`: tasks, monitor,
worker, reaper and the change; a child ends once it was killed, and otherwise may
run for ever. `ResultMutation`: its tasks, its timers, the database (a lock wait
ends by `lock_timeout`, a dead socket by keepalive), the tracker of dropped callers
and the driver of an aborted group. The facade's deadlines are not fair: nothing
may depend on them to end. In all three nothing is owed by users.

## 4. Findings

1. `SessionInside`. `transaction_action` returns on a failed COMMIT before it
   probes, so the cached status stays Active although the transaction is over.
   The next execution is admitted as `Inside`, which postgres.rs documents as "A
   transaction is already open or failed; run inside it", and in Manual mode its
   statement commits by itself.
2. `CredentialStaleMode`. An open keeps the credential mode it read under the gate
   and loads the secrets later. The cache generation it compares is read after a
   mode change that ran in between, so it fills the shared cache from the store
   that is no longer active, against the comment in credentials.rs that a stale
   load is "never published to the shared cache". The next change of credentials
   drops the cache again.

Not runs, but met while modelling:

- `pooled_bound_command` (postgres.rs 611) cleans up without a `CleanupPermit`, so
  its COMMIT or ROLLBACK may be sent after the close; the permit's comment
  (postgres.rs 211) promises that "nothing is ever sent after a close".
  `SessionTransaction` with `Pooled = TRUE`, the one shape `bound` and one close
  violates `NoCleanupAfterClose`, and `CleanupBeforeClose` is proved without a
  pooler;
- `global_closing` (mod.rs 893) is one flag. A global fence admitted before the
  shutdown lowers it behind the shutdown's teardown, and an open that was still
  connecting publishes a session, of which backend.rs 858 says that "Shutdown's
  global teardown owns this session now". That teardown is over: only the forced
  end catches the session, after the graceful deadline. So it is false that nothing
  is published behind the teardown, and no property says it. `SessionOpenLive` has
  such fences; `ShutdownLeavesNothing` states what they leave true: no host is
  handed that session, it and its socket have ended before the maps are cleared,
  and nothing comes after;
- a protocol cancel sent in time may land late. `dedicated::cancel` (dedicated.rs
  536) does not wait for the server; `execute_job` (executor.rs 267) sends a
  drained cancel even when its statement is over, and the statement of the next
  tab's job follows on the same connection; `perform_cancel` (result_mutation/mod.rs
  829) clears `cancel_pending` when the packet is written, and the next request
  or, after a supersede, an apply's COMMIT may meet it. That statement fails, its
  caller sees an error it did not cause, and everything the models check holds
  all the same;
- after a panic in a fenced change the fence is released by a spawned task while
  the gate is already free (socket_lifecycle.rs 266). `closing` is a set, so that
  task can take down the mark of the next fence on the same connection;
  `SessionManager` with `MaxPanics = 1` and two fences shows it, and
  `FenceQuietAlways` is proved without panics;
- a forced teardown of table browse leaves a queued request of another document
  to its own 10 s deadline, longer than the 5 s its document's close waits
  (data.rs 249);
- the refusal at backup/manager.rs 920 keeps a reaper permit; it needs 128 joins
  at once;
- the comment at native_connections.rs 291 names the phases that reach
  `finish_journal` and leaves "preparing" out, which reaches it too, harmlessly;
- the comment at backend.rs 787-790 still calls an explicit Disconnect during a
  connect a residual; the generation compare closes such a session now
  (`OpenMissesNoFence`). Global fences do not move a generation, so for those the
  residual remains; `crossed` leaves them out.

## 5. Proofs

Proved for every value of the constants that satisfies the named assumptions
(`OutboxAssumption`: a positive window, batch sizes within the budget;
`SessionAssumption`: refreshers are not the three senders, bounds are natural
numbers; `ManagerAssumption`: finitely many documents, scopes and gate holders
distinct, limits and bounds natural numbers; `StoreAssumption`: the values that
stand for "no secret", "no key", "no blob" and "ciphertext" are distinct from
real ones; `BrowseAssumption`: bounds are natural numbers and no tab is `None`;
`MutationAssumption`: request numbers are natural, analyses and applies differ,
an apply has a statement;
`ToolJobsAssumption`: bounds are natural numbers and the holders of the gate, an
attempt, a change or nobody, are told apart).
TLC evaluates the assumptions in every run of their module. Four theorems
restrict a constant, and a run or a note of section 4 has the counterexample
without: no pooler (`~Pooled`) for `CleanupBeforeClose`, no panic (`MaxPanics = 0`) for `FenceQuietAlways` and
`OpenNeverMissesFence`, and for `CacheAlwaysFresh` no open that spans a change
of mode (`~OpenSpansModeChange`; finding 2).

| Theorem | Says |
|---|---|
| `OutboxCorrect` | `Spec => []OutboxInv` |
| `WindowCorrect`, `SettlementCorrect`, `WakeupCorrect` | its three parts a reader cares about |
| `OutboxImplementsStream` | `Spec => ImplementsStream`: initial states map to initial states, every step to a step of `CreditStream` or a stutter |
| `DeliveryCorrect` | `Spec => []DeliveryInv`: `OutboxInv` with what the mailbox and the watch channel hold |
| `OrderCorrect` | `Spec => []EventsInOrder`: the document applies every event once, in the order of the numbers, and none of an execution behind its terminal one |
| `AcksCorrect` | `Spec => []AcksAccepted`: no acknowledgement the document still cares about is refused |
| `DocumentAlwaysFollows` | the last two together, as the run `QueryOutbox` checks them |
| `BytesCorrect` | `Spec => []BytesBounded`: the unacknowledged bytes never exceed the budget |
| `ClosedSendsNothing` | `Spec => OnlyClosedAfterClose`: what a closed session still sends says that it closed |
| `IdleCorrect` | `Spec => []IdleInv` |
| `IdleIsTrueAlways` | a cached Idle is the server's state whenever an execution can be admitted on it |
| `WrapperStartsIdle` | an execution that opens a transaction of its own starts while the server is idle |
| `CleanupCorrect` | `Spec => []CleanupInv` |
| `CleanupSpared` | the COMMITs and ROLLBACKs of an execution end its own transaction or nothing, however late the server reaches them |
| `WrapperAlwaysEnds`, `CursorNeverLeft` | a wrapper outlives its execution only when its cleanup was hit twice or a ROLLBACK is to come; a cursor only with a statement to come that ends it |
| `NothingIsLeft` | the last two together, as the run `SessionTransaction` checks them |
| `StopAlwaysUndoes` | an accepted Stop keeps a cursor read from committing |
| `StatusAlwaysTells` | a status reported as completed or cancelled says what became of the wrapper |
| `CleanupBeforeClose` | on a direct connection no cleanup is sent after the close |
| `TypeCorrect`, `GateExcludes` | of `SessionManager`: its types, and that the lifecycle gate excludes |
| `FenceQuietAlways` | no session of a fence's scopes is in the map while its change runs |
| `SocketsAlwaysRecorded`, `ReservationsAlwaysHeld` | a live socket has a record; a reservation is held exactly while its open connects |
| `LimitsAlwaysHold` | all three admission limits, for all values (the runs make only the per-connection one bind) |
| `ResourcesAlwaysHeld` | the last three together, as the run `SessionManager` checks them |
| `ClosedAlwaysLeavesNothing` | after a close and its open nothing of the session is left |
| `ShutdownAlwaysLeavesNothing` | with global fences and panics too: a session behind the shutdown's teardown is handed to no host and ends with its socket before the maps are cleared; nothing comes after |
| `OpenNeverMissesFence` | an open that a fence crossed is never reported as a success |
| `ProfileCorrect` | of `CredentialStore`: the inductive invariant; between any two writes the two stores fit each other, the journals and the operation in progress |
| `StoreCorrect` | `Spec => []StoreInv`: recovery never meets a state it refuses, secrets in one place, rows the key opens, no secret of a deleted record, a true blob cache |
| `StoreImplementsVault` | `Spec => VaultKept`: every write, fault, crash and recovery step is a step of `CredentialVault` or a stutter |
| `CacheAlwaysFresh` | a stale load is never published to the shared cache |
| `BrowseIInvHolds` | of `TableBrowse`: the inductive invariant |
| `BrowseCorrect` | `Spec => []BrowseInv`: one executor, teardown fences that last, a queue of unanswered requests, joins that leave no caller waiting, nothing of a closed document on a live executor |
| `StoppedNeverDelivered` | a request cancelled, superseded or closed before its answer never delivers rows |
| `ClosedDocumentsGone` | a closed document has no job, slot or fence left on a live executor |
| `CancelsOnlyForStopped` | a protocol cancel is kept and sent only while the job in flight, if any, was stopped |
| `MutationIInvHolds` | of `ResultMutation`: the inductive invariant |
| `MutationSafe` | `Spec => []MutationInv`: cached snapshots are current, closed documents have left the executor, a join leaves no caller waiting |
| `CleanHandOver` | what is open on the shared socket belongs to the apply that runs |
| `CancelsOnlyForStopped` (of `ResultMutationProofs`) | the same of the active request, which then is not admitted to its COMMIT |
| `TruthTold` | `Spec => LedgerKept`: every step is a step of `MutationLedger` or a stutter, so an apply is told the truth and one stopped in time never commits |
| `ToolJobsCorrect` | `Spec => []JobsInv`: no `expect` under the manager's mutex fails, permits add up to their owners, a complete cleanup left nothing |
| `OutcomeAlwaysTrue` | a job ends Completed exactly when its archive was published or its restore committed |
| `ToolFenceAlwaysQuiet` | a change that waited for its fence works on connections nobody's admission, job or process uses |
| `EffectAlwaysTold` | the user is told of success exactly when the job had it, and of "not started" only if no restore process ran |
| `EndAlwaysTold` | `OutcomeAlwaysTrue` and `EffectAlwaysTold` together, as the run `ToolJobs` checks them |
| `RestoreAlwaysExclusive` | no data document of a connection is open while a restore runs on it |
| `FenceNeverStuck` | whoever a change waits for gets past the gate the change holds, or ends with a cleanup that cannot fail |
| `EndAlwaysStays` | `Spec => EndStays`: no late snapshot covers the end of an attempt |

*The window.* `WindowBounded` is not inductive: `credit_gate` judges the window
in one critical section and the batch is pushed in a later one. `OutboxInv` adds
what the task may rely on in between (`pc = "push"` implies room, `pc =
"terminal"` implies nothing unacknowledged or closed). It survives because only
the one execution task pushes and an acknowledgement only removes; the cardinality
steps are the lemmas `AckShrinks`, `PushGrows` and `WindowCount`. `NoLostWakeup`
needs that a closed session whose task is past its first read has a notification
still to come. Type correctness is a conjunct of the invariant (`TypeStep`).

*The bytes.* `BytesInv` adds to the budget that a batch about to be pushed still
fits beside what is unacknowledged. The bytes are a fold over the window, and
three laws of it carry the proof: the sum is a natural number (`SumIsNat`), a
batch may be taken out first whichever it is (`SumRemove`), a part sums to no more
than the whole (`SumOfPart`). They are not proved by induction but from a smallest
counterexample (`FinMin`: the subsets of a finite set are well founded), and so is
that the fold's recursion has a solution at all (`SumsExist`). TLC checked
`BytesInv` on the run's constants before it was proved.

*The delivery.* `DeliveryInv` follows an event from the session through the
mailbox into the document and its acknowledgement back. `NumberInv`: every event
in the mailbox carries the document's next number or the one behind an earlier
event's, and the last one the session's, unless the sink failed. `RunInv`: an
execution has events in the mailbox only while it has the slot and the document
counts it as running; its rows are in the window, and its terminal event is the
last. `CellInv`: what the watch channel holds is the terminal event or an entry of
the window that was not acknowledged before; it is why an acknowledgement may
overwrite an older one unread. The invariant says that a nonempty window has a
largest entry, so that what the document acknowledges needs no induction over the
set. TLC checked the three parts on the run's constants first.

*The cached status.* A status is written by any probe that is newer than the last
one applied, and read by an execution much later. `IdleInv` says which probes
still count (`Counts`), that an Idle they have read or are about to read is true
(`IdleReads`), that only a statement the execution waits for can open a
transaction (`OpenersAwaited`: a timed-out cleanup statement never can), and the
bookkeeping that makes these inductive (`WaitsMatch`, `ProbesNumbered`,
`SlotHeld`). The proof is one lemma per group of actors: the server's answers,
the probes, the execution, the other callers.

*The cleanup.* The cleanup properties are said of the end of an execution and
decided by answers that arrive in between, or after it was given up. `CleanupInv`
extends `IdleInv` with what is on the wire and whose it is (`StatementsAwaited`,
`ActingAlone`), where the execution can be (`PlanInv`, `PermitInv`), and, for each
promise, what it rests on at each of those places. `OwnInv`: while a COMMIT or
ROLLBACK of an execution is on the wire the open transaction is an execution's
own; it is kept across executions by `SeenInv`, which says that a status that
counts was read behind all of them, so that nothing starts before they are
answered. `WrapperInv` counts the hits against the ROLLBACKs sent; `CursorInv`
rests on the server, which closes a cursor with the transaction an error aborts.
`BegunInv` says that until the close only probes stand behind the BEGIN of a
pooled command, hence its COMMIT finds the transaction open; `CommitInv` and
`OutcomeInv` follow the COMMIT's answer into the outcome and `StatusInv` into the
status. TLC checked the parts on the constants of `SessionTransaction` and on
a pooled instance that closes. The proof first says what a step does to the wire
and to the transaction, one lemma for the answers (`AnswerIs`) and one for all the
steps beside the execution (`AsideIs`, `SendIs`), so that each part of the
invariant is carried over the same few kinds of steps (`NextKinds`).

*The manager.* None of its properties is inductive, because every operation
gives the lock up between its critical sections. `GateHeld` is the mutual
exclusion of the gate: whoever is in a gated step is its holder. On it rest
`FenceInv` (the marks of a fence stay up from `FenceMark` to its release and what
was removed from the map cannot return, since publication looks at the marks
again) and `CrossInv` (an open that was crossed can tell: the fence is still up,
and then the open cannot have the gate, or the generation it read has passed).
`SocketInv` adds that a connect has its record or will meet the latched abort;
`LimitsInv` that an open keeps its reservation until it publishes, so that
publication moves a place and takes none; `CloseInv` describes the handshake of a
close with the open it cancels, step by step; `StageInv` says
which scopes a fence can take down. The shutdown needs no mark: a host is handed a
session only after a look at the shutdown's own flag, which no fence lowers, and
the maps are cleared behind the join or the abort of every open and socket, so that
`ShutdownInv` adds only that an open with an answer has returned.

*The profile.* No part of `StoreInv` is inductive, since an operation writes two
stores that fail separately. `ProfileInv` adds, for each place an operation can
be at, which of its writes have happened: `ConfigureInv` and `CommitInv` up to
the write that makes a mode durable, `AdoptInv` behind it, `MutateInv` for a
record change (`prepared` means the backup holds the old secrets; until the
journal says so the blob still does), `RecoverInv` for recovery, which a crash may
start at any of these. `StoresFit` is what remains when the process is gone, and
that is why a crash needs no case distinction: everything the recovery relies on
is said of `db` and `os` alone, and everything about `op` and `mem` is void.
The refinement maps the two stores to `records`, `secrets` and `configured` by
`Authority`, the secrets recovery would settle on. Three kinds of write are steps
of the vault: the commit of a record change (`MutationOf` says the change is one
the vault allows), the commit of the first mode or of a reset, and the journal
entry that admits a reset; of every other write the lemmas show that it leaves
the three alone. A rollback stutters,
because the authority was the backup from `prepared` on. `CacheInv` says when a
load may still be published (`current`), that it has then read the authority, and
that none is on its way while a change may be rolled back; `ReadersFollow` is
where the restriction on the mode enters, and the run `CredentialStaleMode` is the
behaviour it excludes.

*The browse executor.* `BrowseIInv` says where each request is: new, held by the
gate, in exactly one slot, run by a worker, or answered (`SlotInv`, `JobInv`,
`RequestInv`), and of what the worker runs and the connection does (`WorkerInv`).
`MgrInv` and `FacadeInv` are the fences: while a teardown is under way, only the
executor it tears down is registered and no other can start.
`StoppedNotDelivered` needs that a stopped request is answered with an error or
runs with its interrupt set (`StopInv`), through the reset of the interrupt in
`next_job`, which is harmless because a tab's slot was emptied by whatever
stopped it. `CancelsForStopped` needs that a pending cancel belongs to a stopped
job that still runs or to the drain behind it, and that a close cancels only what
its fence stopped (`CancelInv`). TLC checked `BrowseIInv` with two tabs, two requests and two
successive executors before it was proved. The proof first says what each update
does to the fields of one executor, request or worker, and then carries each part
of the invariant over from those facts.

*The staged mutations.* `MutationIInv` has a part for each question a step asks.
`RunInv` and `ActiveInv` tie the task to the active request: unless the group was
aborted an active request has its task, and its reply is still open. `QueueInv`
and `RequestInv` say where every other request is and that a waiting one will be
answered; `FacadeInv` and `LifeInv` what the holder of the gate and each stage of a
teardown may rely on (a closed executor has an empty queue; an executor that was
removed and whose teardown no longer joins runs nothing).
`StopInv` is the agreement about the COMMIT: whoever stops a request sets the
interrupt in the critical section in which it sees that the COMMIT is not
admitted, admission looks at the interrupt under the same lock, so a stopped
request is never admitted, and a pending cancel belongs to a stopped request that
is still active or has just ended, while the next one may not start.
`SessionInv` follows the transaction through the answers. Its core is that `work`
belongs to the active request, and that a socket reaches `finish` only with a
verified ROLLBACK behind it, a COMMIT answered, or dropped. `LedgerInv` says what is
durable against what was stopped and told, statement by statement; it is what the
refinement needs, since the database may commit and the connection be lost before
anybody reads the answer. `KeyInv` carries the virtual keys an analysis read
together with the structure generation it was queued under, so that a save in
between keeps it out of the cache: the save moves the generation under the gate, and until it
has, `facade.pc = "save"`. `TabInv` says when a tab is gone. TLC checked every part
on the constants of both runs and with two documents before it was proved. In the proof the
steps of the task fall in a few kinds (`RunnerStep` and what it sends,
receives or drops), whose lemmas carry the parts a kind cannot disturb; the steps
beside the task are proved one by one. For the refinement it remains to show of each
kind that `committed`, `stopped` and the replies change as one step of the ledger.

*The tool jobs.* `ToolInv` has two halves. The first speaks of one attempt at a
time and says what its eight records know of each other (`Good`). `JobOk` ties
the claim, the phase and the commit to the place of the worker: `ClaimOk` lists
the only combinations, among them the restore that committed before the claim
knows of it (`LateCommit`), from which every end follows; without it neither the
`expect` in `publish_terminal` nor `OutcomeTrue` is inductive. `ChildOk`,
`ReaperOk` and `ResultOk` say what the process did by then, who has the permit
and what the worker returned. `RegistryOk` says who still works for an attempt
given what the registry shows of it, and `ShownOk` that a snapshot of an end is
of the end there was, which is what `EndStays` and `EffectTold` rest on. The second
half speaks of all attempts: `PermitInv` counts the owners of a permit (an
admission, a job, or the reaper that has it from the job) and needs no finite set of attempts,
since only finitely many ever own one; `GateInv` says who holds the gate and
that a document a restore retired stays closed; `FenceInv` that each closing
counter is the fence that stands and that nobody entered its scope behind the
fence's first look. The proof shows of each action of a worker or the registry
that it is a move (`WorkMove`, `RegMove`: new values in the slots of one attempt,
which agree again) and once that such a move keeps the second half; the steps of
admission, cancellation, release and the host, which touch it, are proved each
on their own. TLC checked `ToolInv` with one attempt on the run's constants and
with two attempts of one connection before it was proved.

*The fence of the tool jobs.* A change takes the gate and then waits, behind its
fence, for whoever entered its connections first; an attempt needs the same gate
to go on. `FenceNotStuck` is not inductive, since the change takes the gate some
steps before it looks whom to wait for. `WaitInv` adds that from the gate to the
end of the wait everyone in the scope is `Tame`: no job, no private file, and a
task that is idle, before the gate or on its way out. It holds there because the gate is
taken with the scope settled (`SettledTame`), so that whoever the fence meets began
since; and it stays because a job and a file come only behind the gate
(`HostKeepsWait`, `TaskKeepsWait`). TLC checked `WaitInv`
before it was proved.

Every safety property of the passing runs is a theorem. Only model-checked: the
liveness properties (`Settles`, `CloseCompletes`, `NoWaitCircle`,
`RecoverySettles`, `BrowseSettles`, `CancelEnds`, `EverythingSettles`), which rest on
fairness and are out of the prover's reach.

## 6. What the models leave out

- `QueryOutbox`: payloads are reduced to their kind; the Reducer's caps; the
  lease of the owner appears as a session that may be found stalled at any time. A
  sink that refused an event refuses all later ones; the real one may also refuse
  a terminal event alone, when the history worker is gone
  (workspace_runtime.rs 488-511).
- `SessionTransaction`: the loss of the connection (it is in `QueryOutbox`), the
  isolation level, the safety check of the statement text, and a cancel that hits
  the empty query of a refresh. A cancel that arrives during the next execution is
  in the model, as a test of the repository documents it.
- `SessionManager`: one window and one kind of manager stand for the six behind
  the fence; heartbeat and focus only decide when the monitor may find a session
  stalled; the admission semaphore of `call`, the SSH route and the managed
  server are one step that may fail. Panics unwind (no `panic = "abort"` in
  Cargo.toml).
- `CredentialStore`: key derivation (a key is a value), the encoding of the blob,
  SQLite's own atomicity, which is taken as given; the operations of the other
  host (credentials.rs 640-719), which have no journal.
- `TableBrowse`: one connection, so neither the limit on executors nor the
  teardown of all connections; what a request asks the database; the 5 s deadline
  of a document close behind a forced teardown.
- `ResultMutation`: one executor, so neither the limit on executors nor the global
  teardown (which is this one for every connection); the SQL of a plan, the preview
  and the policy check; the eviction of the oldest of more than 16 snapshots, which
  only makes more reviews expire; the empty snapshot a statement that cannot be
  analysed leaves in the cache, which no plan is reviewed against; the commands of
  the other host.
- `ToolJobs`: the native host only; arguments, archive contents and progress; the
  refusal of a 129th join; a task that its owner refuses to spawn (registry.rs 208,
  216) and the two seconds the completion effects may take (manager.rs 452). A plain archive restored through psql instead of
  pg_restore is the same child here.

## 7. Plan

In this order, the most important behaviour first:

1. done: `QueryOutbox` with `CreditStream`, `SessionTransaction`,
   `SessionManager`, and the theorems above;
2. done: `CredentialStore` with `CredentialVault`, `TableBrowse`, `ToolJobs`;
3. done: theorems about `CredentialStore`, its refinement of `CredentialVault`,
   `TableBrowse`, the delivery of `QueryOutbox`, the cleanup of the session and
   `ToolJobs`; every safety property of the passing runs is a theorem;
4. done: `ResultMutation` with `MutationLedger`, its theorems and the refinement;
5. CSV transfers and schema comparison, whose managers repeat the scope and claim
   protocol of `ToolJobs`;
6. `Reducer`: the caps as a pure function against a reference definition;
7. the fence composed over all managers; SQLite and MySQL sessions; SSH tunnels.

## 8. Not modelled

The safety policy classifies SQL text and the schema editor plans statements:
pure functions over text that a finite enumeration says little about and that the
repository tests by examples. Managed servers drive an external Docker daemon.
ClickHouse and Redis calls are single requests without state of their own. The
user interface is presentation. The components of section 1 that section 7 plans
are listed as `not_modelled` in `PROJECT.json` with the same reasons.
