--------------------------- MODULE ResultMutation ---------------------------
(***************************************************************************)
(* Staged changes on one PostgreSQL connection: the executor that analyses *)
(* result sets and applies reviewed changes (result_mutation/mod.rs), the  *)
(* transaction an apply runs (result_mutation/postgres.rs), the native     *)
(* lifecycle (native.rs, postgres/native_tasks.rs) and the facade that     *)
(* calls it (backend/data.rs, data/mutations.rs, data/preferences.rs).     *)
(*                                                                         *)
(* The worker runs analyses, a task of its own each apply; both share one  *)
(* socket, and `active` says whose turn it is.  A tab belongs to one       *)
(* document.  An action ends where the code awaits or releases the lock it *)
(* holds.  The facade's operations share the lifecycle gate; the worker,   *)
(* the applies, the cleanup tasks, the waiters and the idle monitor run    *)
(* outside it.                                                             *)
(***************************************************************************)
EXTENDS Naturals

CONSTANTS
    Tabs,        \* documents; each has one manager tab
    Analyses,    \* request numbers of analyses; one that succeeds names its snapshot
    Applies,     \* request numbers of applies
    Statements,  \* statements of an apply between its BEGIN and its end
    MaxSaves,    \* bound: virtual keys saved or cleared
    Overruns,    \* bound: whether the facade's deadlines may pass
    None         \* no request, no tab

Requests == Analyses \cup Applies

ASSUME MutationAssumption ==
    /\ Requests \subseteq Nat /\ Analyses \cap Applies = {}
    /\ Statements \in Nat \ {0} /\ MaxSaves \in Nat /\ Overruns \in BOOLEAN
    /\ None \notin Nat \cup Tabs

VARIABLES
    ex,         \* ExecutorState
    run,        \* the task of the active request: an apply's, or the worker's analysis
    server,     \* the session on the executor's socket
    committed,  \* applies whose changes are durable
    worker,     \* run_analysis_worker and its Notify
    tasks,      \* cleanup tasks: close_executor, one per closing tab, perform_cancel
    group,      \* the TaskGroup
    mgr,        \* ManagerState: the executor and the fences
    doc,        \* Documents: the lease of each tab
    req,        \* the requests and their oneshot replies
    keys,       \* how often the stored virtual keys changed
    facade,     \* the operation that holds the lifecycle gate
    monitor,    \* an idle close waits for its join
    stopped     \* requests a cancel, a newer one or a close stopped in time

vars == <<ex, run, server, committed, worker, tasks, group, mgr, doc, req, keys,
          facade, monitor, stopped>>

databaseVars == <<server, committed>>
lifecycleVars == <<group, mgr, doc, facade, monitor>>

(* What a request can end with: its result, an error the user is told, a   *)
(* dead connection; "undefined" is the database's word for a missing       *)
(* column or table, an error that also tells of a changed structure.       *)
Results == {"ok", "refused", "undefined", "lost"}

Resting == [pc |-> "none", r |-> None, result |-> "ok", left |-> 0, keys |-> 0, dropped |-> FALSE]
FreshSession == [stmt |-> "none", answer |-> "none", txn |-> "none", work |-> {}]
Free == [pc |-> "free", tab |-> None, r |-> None, forced |-> FALSE]

Init ==
    /\ ex = [closed |-> FALSE, teardown |-> FALSE, closingTabs |-> {}, conn |-> "none",
             gen |-> 0, snaps |-> {}, queued |-> [t \in Tabs |-> None],
             latest |-> [t \in Tabs |-> 0], active |-> None, interrupt |-> "none",
             admitted |-> FALSE, pending |-> None]
    /\ run = Resting
    /\ server = FreshSession
    /\ committed = {}
    /\ worker = [pc |-> "none", permit |-> FALSE]
    /\ tasks = [close |-> "none", fence |-> FALSE, tabs |-> {}, cancel |-> "none"]
    /\ group = [registered |-> FALSE, aborted |-> FALSE]
    /\ mgr = [executor |-> "none", closing |-> FALSE, idleClosing |-> FALSE]
    /\ doc = [t \in Tabs |-> "none"]
    /\ req = [r \in Requests |->
                [pc |-> "new", tab |-> None, gen |-> 0, plan |-> None, keys |-> 0, reply |-> "none"]]
    /\ keys = 0
    /\ facade = Free
    /\ monitor = FALSE
    /\ stopped = {}

----------------------------------------------------------------------------
(* Helpers on the executor's state.                                        *)

QueuedOf(t) == {ex.queued[t]} \ {None}
Queued == UNION {QueuedOf(t) : t \in Tabs}
Without(queued, S) == [t \in Tabs |-> IF queued[t] \in S THEN None ELSE queued[t]]

(* A oneshot reply: the first value sent stays. *)
Reply(q, S, a) ==
    [r \in Requests |-> IF r \in S /\ q[r].reply = "none" THEN [q[r] EXCEPT !.reply = a] ELSE q[r]]

(* A submission that is refused before it waits. *)
Refused(q, r) == [q EXCEPT ![r].pc = "settled", ![r].reply = "refused"]

(* invalidate_structure_state *)
Invalidated(x) == [x EXCEPT !.gen = @ + 1, !.snaps = {}]

(* An active request of tab t that may still be stopped. *)
Interrupted == ex.interrupt # "none"
Stoppable(t) == ex.active # None /\ req[ex.active].tab = t /\ ~ex.admitted

(* queue_cancel: one protocol cancel at a time, none without a connection. *)
CancelQueued(x) == x.pending = None /\ x.conn # "none"

QueueCancel(x) == IF CancelQueued(x) THEN [x EXCEPT !.pending = x.active] ELSE x

(* The interrupt of the active request and its protocol cancel, which the  *)
(* task `by` performs.                                                     *)
Interrupts(x, interrupt, by) ==
    /\ ex' = QueueCancel([x EXCEPT !.interrupt = interrupt])
    /\ tasks' = [tasks EXCEPT !.cancel = IF CancelQueued(x) THEN by ELSE @]

(* cancel_tab_state *)
CancelTabState(t, x) ==
    LET y == [x EXCEPT !.queued[t] = None]
    IN  /\ IF Stoppable(t) THEN Interrupts(y, "cancel", "task") ELSE ex' = y /\ UNCHANGED tasks
        /\ req' = Reply(req, QueuedOf(t), "refused")
        /\ stopped' = stopped \cup QueuedOf(t) \cup (IF Stoppable(t) THEN {ex.active} ELSE {})

(* Notify: notify_one keeps a permit, notify_waiters does not, and the     *)
(* worker is a waiter from before it looks for a job.                      *)
Exited == [pc |-> "exit", permit |-> FALSE]
NotifyOne == worker' = [worker EXCEPT !.permit = worker.pc # "exit"]
NotifyWaiters(w) == [w EXCEPT !.permit = @ \/ w.pc \in {"next", "shut", "park"}]

(* Mutant: the next request does not wait for a protocol cancel under way. *)
TurnFreeHasty == ~ex.closed /\ ex.active = None

(* The socket is free for the next request. *)
TurnFree == ~ex.closed /\ ex.active = None /\ ex.pending = None

----------------------------------------------------------------------------
(* Submission: data_call under the gate; start_analyze and start_apply.    *)

MaySubmit(r, t) == facade = Free /\ req[r].pc = "new" /\ doc[t] \in {"none", "open"}

(* executor_for: the current executor or a new one, with its worker.  What *)
(* a fence or MAX_EXECUTORS refuses changes nothing.                       *)
SubmitAnalysis(r, t) ==
    /\ MaySubmit(r, t) /\ ~mgr.closing /\ mgr.executor # "gone"
    /\ mgr' = [mgr EXCEPT !.executor = "current"]
    /\ group' = [group EXCEPT !.registered = TRUE]
    /\ worker' = IF mgr.executor = "none" THEN [worker EXCEPT !.pc = "next"] ELSE worker
    /\ req' = [req EXCEPT ![r].pc = "held", ![r].tab = t]
    /\ doc' = [doc EXCEPT ![t] = "open"]
    /\ facade' = [Free EXCEPT !.pc = "analyze", !.r = r]
    /\ UNCHANGED <<ex, run, databaseVars, tasks, keys, monitor, stopped>>

(* apply_review: the plan was reviewed against a snapshot of this tab.     *)
(* Without an executor it has expired, which changes nothing.              *)
SubmitApply(r, a, t) ==
    /\ MaySubmit(r, t) /\ mgr.executor = "current"
    /\ req[a].pc = "settled" /\ req[a].reply = "ok" /\ req[a].tab = t
    /\ req' = [req EXCEPT ![r].pc = "held", ![r].tab = t, ![r].plan = a]
    /\ facade' = [Free EXCEPT !.pc = "apply", !.r = r]
    /\ UNCHANGED <<ex, run, databaseVars, worker, tasks, group, mgr, doc, keys, monitor, stopped>>

(* start_analyze and enqueue_analysis under the lock; the executor may     *)
(* have closed since.  The spawned perform_cancel then notifies the worker.*)
EnqueueAnalysis(refresh) ==
    LET r == facade.r
        t == req[r].tab
        x == IF refresh THEN Invalidated(ex) ELSE ex
        y == [x EXCEPT !.queued[t] = r, !.latest[t] = r]
        active == ex.active \in Analyses /\ req[ex.active].tab = t
        waits == [req EXCEPT ![r].pc = "waiting", ![r].gen = x.gen]
    IN  /\ facade.pc = "analyze"
        /\ facade' = Free
        /\ \/ /\ ex.closed \/ t \in ex.closingTabs
              /\ req' = Refused(req, r)
              /\ UNCHANGED <<ex, tasks, worker, stopped>>
           \/ /\ ~ex.closed /\ t \notin ex.closingTabs /\ r < ex.latest[t]
              /\ ex' = x
              /\ req' = Reply(waits, {r}, "refused")
              /\ NotifyOne
              /\ UNCHANGED <<tasks, stopped>>
           \/ /\ ~ex.closed /\ t \notin ex.closingTabs /\ r >= ex.latest[t]
              /\ IF active THEN Interrupts(y, "supersede", "task") ELSE ex' = y /\ UNCHANGED tasks
              /\ req' = Reply(waits, QueuedOf(t), "refused")
              /\ stopped' = stopped \cup QueuedOf(t) \cup (IF active THEN {ex.active} ELSE {})
              /\ NotifyOne
        /\ UNCHANGED <<run, databaseVars, group, mgr, doc, keys, monitor>>

Begins(r) ==
    /\ ex' = [ex EXCEPT !.active = r, !.interrupt = "none", !.admitted = FALSE]
    /\ run' = [Resting EXCEPT !.pc = "check", !.r = r, !.left = Statements]

(* begin_apply *)
MayBegin(r) == TurnFree /\ req[r].tab \notin ex.closingTabs /\ req[r].plan \in ex.snaps

BeginApply ==
    LET r == facade.r
    IN  /\ facade.pc = "apply"
        /\ facade' = Free
        /\ IF MayBegin(r)
           THEN Begins(r) /\ req' = [req EXCEPT ![r].pc = "waiting"]
           ELSE req' = Refused(req, r) /\ UNCHANGED <<ex, run>>
        /\ UNCHANGED <<databaseVars, worker, tasks, group, mgr, doc, keys, monitor, stopped>>

(* The waiter has its reply. *)
Receive(r) ==
    /\ req[r].pc = "waiting" /\ req[r].reply # "none"
    /\ req' = [req EXCEPT ![r].pc = "settled"]
    /\ UNCHANGED <<ex, run, databaseVars, worker, tasks, lifecycleVars, keys, stopped>>

(* QUEUE_WAIT: an analysis leaves the queue; one that left it waits on. *)
QueueDeadline(r) ==
    /\ req[r].pc = "waiting" /\ r \in Queued
    /\ req' = Refused(req, r)
    /\ ex' = [ex EXCEPT !.queued = Without(@, {r})]
    /\ UNCHANGED <<run, databaseVars, worker, tasks, lifecycleVars, keys, stopped>>

(* cancel_data: the gate is kept until a protocol cancel of its own ended. *)
CancelTab(t) ==
    /\ facade = Free /\ doc[t] = "open" /\ mgr.executor = "current" /\ ~ex.closed
    /\ CancelTabState(t, ex)
    /\ NotifyOne
    /\ facade' = [Free EXCEPT !.pc = IF Stoppable(t) /\ CancelQueued(ex) THEN "cancel" ELSE "free"]
    /\ UNCHANGED <<run, databaseVars, group, mgr, doc, keys, monitor>>

CancelDone ==
    /\ facade.pc = "cancel" /\ tasks.cancel = "none"
    /\ facade' = Free
    /\ UNCHANGED <<ex, run, databaseVars, worker, tasks, group, mgr, doc, req, keys, monitor, stopped>>

(* save_virtual_key and clear_virtual_key: stored, then invalidated. *)
KeyStored(t) ==
    /\ facade = Free /\ doc[t] = "open" /\ keys < MaxSaves
    /\ keys' = keys + 1
    /\ facade' = [Free EXCEPT !.pc = "save"]
    /\ UNCHANGED <<ex, run, databaseVars, worker, tasks, group, mgr, doc, req, monitor, stopped>>

KeyInvalidated ==
    /\ facade.pc = "save"
    /\ ex' = IF mgr.executor = "current" THEN Invalidated(ex) ELSE ex
    /\ facade' = Free
    /\ UNCHANGED <<run, databaseVars, worker, tasks, group, mgr, doc, req, keys, monitor, stopped>>

----------------------------------------------------------------------------
(* The worker: run_analysis_worker and next_analysis.                      *)

(* A queued job past its deadline is answered; one of the others starts    *)
(* (the oldest: which one no property depends on).                         *)
NextAnalysis(expired) ==
    LET ready == Queued \ expired
    IN  /\ worker.pc = "next" /\ TurnFree
        /\ expired \subseteq Queued
        /\ req' = Reply(req, expired, "refused")
        /\ \/ /\ ready = {}
              /\ ex' = [ex EXCEPT !.queued = Without(@, expired)]
              /\ worker' = [worker EXCEPT !.pc = "shut"]
              /\ UNCHANGED run
           \/ \E r \in ready :
              /\ ex' = [ex EXCEPT !.queued = Without(@, expired \cup {r}), !.active = r,
                                  !.interrupt = "none", !.admitted = FALSE]
              /\ run' = [Resting EXCEPT !.pc = "check", !.r = r]
              /\ worker' = [pc |-> "busy", permit |-> FALSE]
        /\ UNCHANGED <<databaseVars, tasks, lifecycleVars, keys, stopped>>

NoAnalysis ==
    /\ worker.pc = "next" /\ ~TurnFree
    /\ worker' = [worker EXCEPT !.pc = "shut"]
    /\ UNCHANGED <<ex, run, databaseVars, tasks, lifecycleVars, req, keys, stopped>>

WorkerClosed ==
    /\ worker.pc = "shut"
    /\ worker' = IF ex.closed THEN Exited ELSE [worker EXCEPT !.pc = "park"]
    /\ UNCHANGED <<ex, run, databaseVars, tasks, lifecycleVars, req, keys, stopped>>

WorkerWoken ==
    /\ worker.pc = "park" /\ worker.permit
    /\ worker' = [pc |-> "next", permit |-> FALSE]
    /\ UNCHANGED <<ex, run, databaseVars, tasks, lifecycleVars, req, keys, stopped>>

----------------------------------------------------------------------------
(* The task of the active request: run_analysis, run_apply, execute_apply. *)

(* It makes no step while it performs its own protocol cancel. *)
At(pc) == run.pc = pc /\ tasks.cancel # "run"
Goes(pc) == run' = [run EXCEPT !.pc = pc]
Ends(result) == run' = [run EXCEPT !.pc = "finish", !.result = result]
RunOnly == UNCHANGED <<worker, tasks, lifecycleVars, keys, stopped>>

(* A statement on a socket that is gone fails at once. *)
Sends(stmt, then) ==
    /\ run' = then
    /\ server' = [server EXCEPT !.stmt = stmt, !.answer = IF ex.conn = "up" THEN "none" ELSE "lost"]
    /\ UNCHANGED committed

Undoes(result) == Sends("rollback", [run EXCEPT !.pc = "rollback", !.result = result])

(* A dropped socket ends its session: what was open is rolled back. *)
Disconnected(x) == [x EXCEPT !.conn = "none", !.snaps = {}]

(* check_interrupted, before and after the connect *)
CheckInterrupted ==
    /\ At("check")
    /\ IF Interrupted THEN Ends("refused") ELSE Goes("ensure")
    /\ UNCHANGED <<ex, databaseVars, req>> /\ RunOnly

EnsureConnection ==
    /\ At("ensure")
    /\ Goes(IF ex.conn = "up" THEN "recheck" ELSE "connect")
    /\ UNCHANGED <<ex, databaseVars, req>> /\ RunOnly

(* The executor may have closed during the connect. *)
Connected ==
    /\ At("connect")
    /\ IF ex.closed
       THEN Ends("refused") /\ UNCHANGED <<ex, server>>
       ELSE /\ Goes("recheck")
            /\ ex' = [ex EXCEPT !.conn = "up"]
            /\ server' = FreshSession
    /\ UNCHANGED <<committed, req>> /\ RunOnly

ConnectFailed ==
    /\ At("connect")
    /\ \E result \in {"refused", "lost"} : Ends(result)
    /\ UNCHANGED <<ex, databaseVars, req>> /\ RunOnly

Recheck ==
    /\ At("recheck")
    /\ \/ Interrupted /\ Ends("refused") /\ UNCHANGED databaseVars
       \/ ~Interrupted /\ run.r \in Analyses /\ Sends("query", [run EXCEPT !.pc = "query"])
       \/ ~Interrupted /\ run.r \in Applies /\ Goes("snapshot") /\ UNCHANGED databaseVars
    /\ UNCHANGED <<ex, req>> /\ RunOnly

(* The snapshot again, the checks behind it, and BEGIN. *)
TakeSnapshot ==
    /\ At("snapshot")
    /\ IF Interrupted \/ req[run.r].plan \notin ex.snaps
       THEN Ends("refused") /\ UNCHANGED databaseVars
       ELSE Sends("begin", [run EXCEPT !.pc = "begin"])
    /\ UNCHANGED <<ex, req>> /\ RunOnly

(* The answer to the statement the task waits for is taken. *)
Answer(pc) == At(pc) /\ server.answer # "none"
Taken == server' = [server EXCEPT !.stmt = "none", !.answer = "none"] /\ UNCHANGED committed

(* The statements of an analysis are one; it then reads the virtual keys.  *)
QueryAnswered ==
    /\ Answer("query") /\ Taken
    /\ run' = [run EXCEPT !.pc = IF server.answer = "ok" THEN "keys" ELSE "cache",
                          !.result = IF server.answer = "lost" THEN "lost" ELSE IF server.answer = "ok" THEN "ok"
                                     ELSE "refused"]
    /\ UNCHANGED <<ex, req>> /\ RunOnly

ReadKeys ==
    /\ At("keys")
    /\ run' = [run EXCEPT !.pc = "cache", !.keys = keys]
    /\ UNCHANGED <<ex, databaseVars, req>> /\ RunOnly

(* Mutant: an analysis that an invalidation overtook is cached. *)
CacheAnalysisStale ==
    /\ At("cache")
    /\ Ends(run.result)
    /\ ex' = IF run.result = "ok" THEN [ex EXCEPT !.snaps = @ \cup {run.r}] ELSE ex
    /\ req' = [req EXCEPT ![run.r].keys = run.keys]
    /\ UNCHANGED databaseVars /\ RunOnly

(* The end of run_analysis under the lock. *)
CacheAnalysis ==
    /\ At("cache")
    /\ IF req[run.r].gen # ex.gen
       THEN Ends("refused") /\ UNCHANGED ex
       ELSE /\ Ends(run.result)
            /\ ex' = IF run.result = "ok" THEN [ex EXCEPT !.snaps = @ \cup {run.r}] ELSE ex
    /\ req' = [req EXCEPT ![run.r].keys = run.keys]
    /\ UNCHANGED databaseVars /\ RunOnly

(* BEGIN: a failure is healthy unless the socket closed. *)
BeginAnswered ==
    /\ Answer("begin") /\ Taken
    /\ run' = IF server.answer = "ok" THEN [run EXCEPT !.pc = "guard"]
              ELSE [run EXCEPT !.pc = IF ex.conn = "up" THEN "healthy" ELSE "unhealthy",
                               !.result = server.answer]
    /\ UNCHANGED <<ex, req>> /\ RunOnly

(* Between two statements: an interrupt, or the next one. *)
Guard ==
    /\ At("guard")
    /\ \/ Interrupted /\ Undoes("refused")
       \/ ~Interrupted /\ run.left > 0 /\ Sends("change", [run EXCEPT !.pc = "change"])
       \/ ~Interrupted /\ run.left = 0 /\ Goes("admit") /\ UNCHANGED databaseVars
    /\ UNCHANGED <<ex, req>> /\ RunOnly

(* A row that is gone or not unique is an error of the plan. *)
ChangeAnswered ==
    /\ Answer("change")
    /\ \/ /\ server.answer = "ok" /\ Taken
          /\ run' = [run EXCEPT !.pc = "guard", !.left = @ - 1]
       \/ /\ Undoes(IF server.answer = "ok" THEN "refused" ELSE server.answer)
    /\ UNCHANGED <<ex, req>> /\ RunOnly

(* admit_commit, under the lock that stops and closes take, then COMMIT. *)
AdmitCommit ==
    /\ At("admit")
    /\ IF Interrupted \/ ex.teardown
       THEN Undoes("refused") /\ UNCHANGED ex
       ELSE /\ ex' = [ex EXCEPT !.admitted = TRUE]
            /\ Sends("commit", [run EXCEPT !.pc = "commit"])
    /\ UNCHANGED req /\ RunOnly

(* Mutant: a COMMIT whose answer never came counts as rolled back. *)
CommitAnsweredCertain ==
    /\ Answer("commit") /\ Taken
    /\ run' = [run EXCEPT !.pc = IF server.answer = "ok" THEN "healthy" ELSE "unhealthy",
                          !.result = IF server.answer = "ok" THEN "ok" ELSE "refused"]
    /\ UNCHANGED <<ex, req>> /\ RunOnly

(* A COMMIT that failed has an unknown outcome. *)
CommitAnswered ==
    /\ Answer("commit") /\ Taken
    /\ run' = [run EXCEPT !.pc = IF server.answer = "ok" THEN "healthy" ELSE "unhealthy",
                          !.result = server.answer]
    /\ UNCHANGED <<ex, req>> /\ RunOnly

(* Mutant: a ROLLBACK that failed leaves the socket in use. *)
RollbackUnverified ==
    /\ Answer("rollback") /\ Taken
    /\ Goes("healthy")
    /\ UNCHANGED <<ex, req>> /\ RunOnly

(* rollback_and_verify *)
RollbackAnswered ==
    /\ Answer("rollback")
    /\ IF server.answer = "ok" THEN Sends("verify", [run EXCEPT !.pc = "verify"])
                        ELSE Taken /\ Goes("unhealthy")
    /\ UNCHANGED <<ex, req>> /\ RunOnly

VerifyAnswered ==
    /\ Answer("verify") /\ Taken
    /\ Goes(IF server.answer = "ok" THEN "healthy" ELSE "unhealthy")
    /\ UNCHANGED <<ex, req>> /\ RunOnly

(* The end of run_apply: an unhealthy socket goes, and a missing column or *)
(* table says that the structure changed.                                  *)
ApplyExecuted ==
    LET x == IF run.pc = "unhealthy" THEN Disconnected(ex) ELSE ex
    IN  /\ At("healthy") \/ At("unhealthy")
        /\ ex' = IF run.result = "undefined" THEN Invalidated(x) ELSE x
        /\ server' = IF run.pc = "unhealthy" THEN FreshSession ELSE server
        /\ Ends(IF run.result = "undefined" THEN "refused" ELSE run.result)
        /\ UNCHANGED <<committed, req>> /\ RunOnly

(* finish_active: an interrupt decides for an analysis, and for an apply   *)
(* that did not succeed.                                                   *)
Terminal ==
    IF \/ Interrupted /\ run.r \in Analyses
       \/ ex.interrupt = "closing"
       \/ ex.interrupt = "cancel" /\ run.result # "ok"
    THEN "refused" ELSE run.result

FinishActive ==
    LET x == [ex EXCEPT !.active = None, !.interrupt = "none", !.admitted = FALSE]
        dead == Terminal = "lost" \/ ex.conn = "dead"
    IN  /\ At("finish")
        /\ ex' = IF dead THEN Disconnected(x) ELSE x
        /\ server' = IF dead THEN FreshSession ELSE server
        /\ req' = Reply(req, {run.r}, Terminal)
        /\ run' = Resting
        /\ worker' = IF worker.pc = "busy" THEN [worker EXCEPT !.pc = "next"]
                     ELSE NotifyWaiters(worker)
        /\ UNCHANGED <<committed, tasks, lifecycleVars, keys, stopped>>

(* ApplyCallerGuard: the caller's task was aborted. *)
CallerDropped(r) ==
    /\ r \in Applies /\ req[r].pc = "waiting" /\ req[r].reply = "none"
    /\ req' = [req EXCEPT ![r].pc = "settled"]
    /\ UNCHANGED <<ex, run, databaseVars, worker, tasks, lifecycleVars, keys, stopped>>

(* Mutant: the apply's future is dropped with its caller. *)
DropAbandons ==
    /\ run.pc \notin {"none", "finish"} /\ run.r \in Applies /\ ~run.dropped
    /\ req[run.r].pc = "settled"
    /\ run' = Resting
    /\ UNCHANGED <<ex, databaseVars, worker, tasks, lifecycleVars, req, keys, stopped>>

(* run_owned_apply hears of it: cancel_dropped_apply, then perform_cancel  *)
(* before the apply goes on.                                               *)
DropNoticed ==
    /\ run.pc \notin {"none", "finish"} /\ run.r \in Applies /\ ~run.dropped
    /\ req[run.r].pc = "settled"
    /\ run' = [run EXCEPT !.dropped = TRUE]
    /\ IF ex.admitted
       THEN UNCHANGED <<ex, tasks, stopped>>
       ELSE Interrupts(ex, "cancel", "run") /\ stopped' = stopped \cup {run.r}
    /\ UNCHANGED <<databaseVars, worker, lifecycleVars, req, keys>>

----------------------------------------------------------------------------
(* External: the database and its socket.                                  *)

Running == server.stmt # "none" /\ server.answer = "none"
ServerOnly ==
    UNCHANGED <<run, worker, tasks, lifecycleVars, req, keys, stopped>>

(* A statement that succeeds.  In a failed transaction only its end does.  *)
Executes ==
    /\ Running /\ (server.txn = "aborted" => server.stmt \in {"commit", "rollback"})
    /\ server' = [server EXCEPT !.answer = "ok",
            !.txn = CASE server.stmt = "begin" -> "open"
                      [] server.stmt \in {"commit", "rollback"} -> "none"
                      [] OTHER -> @,
            !.work = CASE server.stmt = "change" /\ server.txn = "open" -> @ \cup {ex.active}
                       [] server.stmt \in {"commit", "rollback"} -> {}
                       [] OTHER -> @]
    /\ committed' =
            CASE server.stmt = "commit" /\ server.txn = "open" -> committed \cup server.work
              [] server.stmt = "change" /\ server.txn = "none" -> committed \cup {ex.active}
              [] OTHER -> committed
    /\ UNCHANGED ex /\ ServerOnly

(* A statement fails.  A protocol cancel is one more way to be refused: the *)
(* server acts on it when it likes, after dedicated::cancel has returned    *)
(* too, and then on a statement of a later request or on a COMMIT.          *)
ServerFails ==
    /\ Running
    /\ \E answer \in {"refused", "undefined"} :
        /\ answer = "undefined" => server.stmt = "change"
        /\ server' = [server EXCEPT !.answer = answer,
                !.txn = IF @ = "none" \/ server.stmt = "commit" THEN "none" ELSE "aborted",
                !.work = IF server.stmt = "commit" THEN {} ELSE @]
    /\ UNCHANGED <<ex, committed>> /\ ServerOnly

(* The connection is lost; a COMMIT under way may have happened. *)
SocketDies ==
    /\ ex.conn = "up"
    /\ ex' = [ex EXCEPT !.conn = "dead"]
    /\ server' = [server EXCEPT !.answer = IF Running THEN "lost" ELSE @, !.txn = "none", !.work = {}]
    /\ \/ UNCHANGED committed
       \/ Running /\ server.stmt = "commit" /\ server.txn = "open"
          /\ committed' = committed \cup server.work
    /\ ServerOnly

----------------------------------------------------------------------------
(* The cleanup tasks.                                                      *)

(* perform_cancel: the request is written, or given up after two seconds;   *)
(* what it does to the server comes in ServerFails.  Then notify_waiters,   *)
(* to which the task's caller adds notify_one.                              *)
PerformCancel ==
    /\ tasks.cancel # "none"
    /\ ex' = [ex EXCEPT !.pending = None]
    /\ tasks' = [tasks EXCEPT !.cancel = "none"]
    /\ worker' = IF tasks.cancel = "task" THEN [worker EXCEPT !.permit = worker.pc # "exit"] ELSE NotifyWaiters(worker)
    /\ UNCHANGED <<run, databaseVars, lifecycleVars, req, keys, stopped>>

(* Mutant: a close interrupts an apply that was admitted to its COMMIT. *)
CloseInterruptsAll == ex.active # None

(* prepare_close leaves an admitted apply alone. *)
CloseInterrupts == ex.active # None /\ ~ex.admitted

(* prepare_executor_close under the lock, and the replies to the queue. *)
CloseExecutor ==
    LET cancels == CloseInterrupts /\ ex.conn # "none"
    IN  /\ tasks.close = "mark"
        /\ ex' = [ex EXCEPT !.closed = TRUE, !.teardown = @ \/ tasks.fence,
                            !.queued = [t \in Tabs |-> None],
                            !.interrupt = IF ~CloseInterrupts THEN @
                                          ELSE IF tasks.fence THEN "closing" ELSE "cancel"]
        /\ req' = Reply(req, Queued, "refused")
        /\ stopped' = stopped \cup Queued \cup (IF CloseInterrupts THEN {ex.active} ELSE {})
        /\ tasks' = [tasks EXCEPT !.close = IF cancels THEN "cancel" ELSE "wait"]
        /\ worker' = IF cancels THEN worker ELSE NotifyWaiters(worker)
        /\ UNCHANGED <<run, databaseVars, lifecycleVars, keys>>

CloseCancels ==
    /\ tasks.close = "cancel"
    /\ tasks' = [tasks EXCEPT !.close = "wait"]
    /\ worker' = NotifyWaiters(worker)
    /\ UNCHANGED <<ex, run, databaseVars, lifecycleVars, req, keys, stopped>>

(* finish_executor_close waits for the active request, then notify_one. *)
CloseFinishes ==
    /\ tasks.close = "wait" /\ ex.active = None
    /\ ex' = Disconnected(ex)
    /\ server' = FreshSession
    /\ tasks' = [tasks EXCEPT !.close = "none"]
    /\ NotifyOne
    /\ UNCHANGED <<run, committed, lifecycleVars, req, keys, stopped>>

(* TabWork of tab t: the active request's task, and a perform_cancel. *)
Working(t) ==
    \/ run.pc # "none" /\ req[run.r].tab = t
    \/ tasks.cancel = "task" /\ req[ex.pending].tab = t

TabRemoved(t) ==
    /\ t \in tasks.tabs
    /\ ex' = [ex EXCEPT !.queued[t] = None, !.latest[t] = 0, !.closingTabs = @ \ {t},
                        !.snaps = {a \in @ : req[a].tab # t}]
    /\ tasks' = [tasks EXCEPT !.tabs = @ \ {t}]
    /\ req' = Reply(req, QueuedOf(t), "lost")
    /\ UNCHANGED <<run, databaseVars, worker, lifecycleVars, keys, stopped>>

(* Mutant: the tab's snapshots go without waiting for its work. *)
CloseTabEarly(t) == TabRemoved(t)

(* close_native_tab's task: wait_tab, then the tab's slot and snapshots. *)
CloseTab(t) == ~Working(t) /\ TabRemoved(t)

(* The aborts of a forced join take effect at a task's next await.  The    *)
(* oneshot a request's task held is dropped; `active` stays.               *)
RunAborted ==
    /\ group.aborted /\ run.pc # "none"
    /\ req' = Reply(req, {run.r}, "lost")
    /\ run' = Resting
    /\ tasks' = [tasks EXCEPT !.cancel = IF @ = "run" THEN "none" ELSE @]
    /\ worker' = IF worker.pc = "busy" THEN Exited ELSE worker
    /\ UNCHANGED <<ex, databaseVars, lifecycleVars, keys, stopped>>

WorkerAborted ==
    /\ group.aborted /\ worker.pc \in {"next", "shut", "park"}
    /\ worker' = Exited
    /\ UNCHANGED <<ex, run, databaseVars, tasks, lifecycleVars, req, keys, stopped>>

TasksAborted ==
    /\ group.aborted /\ (tasks.close # "none" \/ tasks.tabs # {} \/ tasks.cancel = "task")
    /\ tasks' = [tasks EXCEPT !.close = "none", !.tabs = {},
                              !.cancel = IF @ = "task" THEN "none" ELSE @]
    /\ UNCHANGED <<ex, run, databaseVars, worker, lifecycleVars, req, keys, stopped>>

(* ConnectionTasks::join; an aborted group ends its socket's driver too. *)
Joined ==
    /\ group.registered =>
        /\ worker.pc = "exit" /\ run.pc = "none"
        /\ tasks.close = "none" /\ tasks.tabs = {} /\ tasks.cancel = "none"
        /\ group.aborted => ex.conn # "up"

StartClose(fence) ==
    IF mgr.executor = "current" THEN [tasks EXCEPT !.close = "mark", !.fence = fence] ELSE tasks
Removed == IF mgr.executor = "current" THEN "gone" ELSE mgr.executor

----------------------------------------------------------------------------
(* The idle monitor: close_native_idle, outside the gate.                  *)

(* is_idle under both locks.  IDLE_TIMEOUT (300 s since last_used)         *)
(* outlasts the two seconds of a protocol cancel.                          *)
IdleClose ==
    /\ ~monitor /\ mgr.executor = "current"
    /\ ~ex.closed /\ ex.active = None /\ Queued = {} /\ ex.pending = None
    /\ ex' = [ex EXCEPT !.closed = TRUE]
    /\ mgr' = [executor |-> "gone", closing |-> TRUE, idleClosing |-> TRUE]
    /\ tasks' = StartClose(FALSE)
    /\ monitor' = TRUE
    /\ UNCHANGED <<run, databaseVars, worker, group, doc, req, keys, facade, stopped>>

IdleClosed ==
    /\ monitor /\ Joined
    /\ monitor' = FALSE
    /\ group' = [group EXCEPT !.registered = FALSE]
    /\ mgr' = [mgr EXCEPT !.idleClosing = FALSE, !.closing = @ /\ ~mgr.idleClosing]
    /\ UNCHANGED <<ex, run, databaseVars, worker, tasks, doc, req, keys, facade, stopped>>

----------------------------------------------------------------------------
(* The facade: close_data_document and retire_data, under the gate.        *)

FacadeOnly == UNCHANGED <<run, databaseVars, keys, monitor>>
RetiredDocs == [t \in Tabs |-> IF doc[t] = "open" THEN "retired" ELSE doc[t]]
OfTab(t) == {r \in Requests : req[r].tab = t}
Settles(t) == \A r \in OfTab(t) : req[r].pc = "settled"

CloseDocument(t) ==
    /\ facade = Free /\ doc[t] = "open"
    /\ doc' = [doc EXCEPT ![t] = "retired"]
    /\ facade' = [Free EXCEPT !.tab = t, !.pc = IF mgr.executor = "current" THEN "tabHeld" ELSE "tabFinish"]
    /\ UNCHANGED <<ex, worker, tasks, group, mgr, req, stopped>> /\ FacadeOnly

(* The executor read before may have been closed and joined since. *)
FenceTab ==
    LET t == facade.tab
        x == [ex EXCEPT !.closingTabs = @ \cup {t}]
        y == [x EXCEPT !.queued[t] = None]
        cleans == IF group.registered THEN {t} ELSE {}
        cancel == IF CancelQueued(ex) THEN "task" ELSE tasks.cancel
    IN  /\ facade.pc = "tabHeld"
        /\ ex' = IF Stoppable(t) THEN QueueCancel([y EXCEPT !.interrupt = "cancel"]) ELSE y
        /\ tasks' = [tasks EXCEPT !.tabs = @ \cup cleans, !.cancel = IF Stoppable(t) THEN cancel ELSE @]
        /\ req' = Reply(req, QueuedOf(t), "refused")
        /\ stopped' = stopped \cup QueuedOf(t) \cup (IF Stoppable(t) THEN {ex.active} ELSE {})
        /\ NotifyOne
        /\ facade' = [facade EXCEPT !.pc = "tab"]
        /\ UNCHANGED <<group, mgr, doc>> /\ FacadeOnly

TabClosed ==
    /\ facade.pc = "tab" /\ facade.tab \notin tasks.tabs
    /\ facade' = [facade EXCEPT !.pc = "tabFinish"]
    /\ UNCHANGED <<ex, worker, tasks, group, mgr, doc, req, stopped>> /\ FacadeOnly

(* finish waits for the permits of the document's requests. *)
DocumentFinished ==
    /\ facade.pc = "tabFinish" /\ Settles(facade.tab)
    /\ doc' = [doc EXCEPT ![facade.tab] = "closed"]
    /\ facade' = Free
    /\ UNCHANGED <<ex, worker, tasks, group, mgr, req, stopped>> /\ FacadeOnly

(* retire_data: begin_connection_teardown is close_native_connection. *)
RetireData ==
    /\ facade = Free
    /\ doc' = RetiredDocs
    /\ mgr' = [executor |-> Removed, closing |-> TRUE, idleClosing |-> FALSE]
    /\ tasks' = StartClose(TRUE)
    /\ facade' = [Free EXCEPT !.pc = "join"]
    /\ UNCHANGED <<ex, worker, group, req, stopped>> /\ FacadeOnly

(* Three seconds, which outlast the locks of FenceTab and CloseExecutor:   *)
(* every document goes, and the group is aborted.                          *)
GracefulDeadline ==
    /\ Overruns /\ facade.pc \in {"tab", "tabFinish", "join"} /\ ~facade.forced
    /\ tasks.close # "mark"
    /\ doc' = RetiredDocs
    /\ mgr' = [executor |-> Removed, closing |-> TRUE, idleClosing |-> FALSE]
    /\ group' = [group EXCEPT !.aborted = @ \/ group.registered]
    /\ facade' = [Free EXCEPT !.pc = "join", !.forced = TRUE]
    /\ UNCHANGED <<ex, worker, tasks, req, stopped>> /\ FacadeOnly

GroupJoined ==
    /\ facade.pc = "join" /\ Joined
    /\ group' = [group EXCEPT !.registered = FALSE]
    /\ facade' = [facade EXCEPT !.pc = "finish"]
    /\ UNCHANGED <<ex, worker, tasks, mgr, doc, req, stopped>> /\ FacadeOnly

(* finish_retired, then end_connection_teardown. *)
DataRetired ==
    /\ facade.pc = "finish"
    /\ \A t \in Tabs : doc[t] = "retired" => Settles(t)
    /\ doc' = [t \in Tabs |-> IF doc[t] = "retired" THEN "closed" ELSE doc[t]]
    /\ mgr' = [mgr EXCEPT !.closing = FALSE]
    /\ facade' = Free
    /\ UNCHANGED <<ex, worker, tasks, group, req, stopped>> /\ FacadeOnly

(* Five seconds: the operation fails and its fence stays. *)
FinalDeadline ==
    /\ \/ facade.pc = "join" /\ facade.forced
       \/ facade.pc = "finish"
    /\ facade' = Free
    /\ UNCHANGED <<ex, worker, tasks, group, mgr, doc, req, stopped>> /\ FacadeOnly

----------------------------------------------------------------------------
Users ==
    \/ RetireData
    \/ \E t \in Tabs :
        \/ CancelTab(t) \/ KeyStored(t) \/ CloseDocument(t)
        \/ \E r \in Analyses : SubmitAnalysis(r, t)
        \/ \E r \in Applies, a \in Analyses : SubmitApply(r, a, t)

Facade ==
    \/ \E refresh \in BOOLEAN : EnqueueAnalysis(refresh)
    \/ BeginApply \/ CancelDone \/ KeyInvalidated
    \/ FenceTab \/ TabClosed \/ DocumentFinished \/ GroupJoined \/ DataRetired

Deadlines == GracefulDeadline \/ FinalDeadline

Waiter(r) == Receive(r) \/ QueueDeadline(r)

Worker ==
    \/ \E expired \in SUBSET Queued : NextAnalysis(expired)
    \/ NoAnalysis \/ WorkerClosed \/ WorkerWoken

Analysis == QueryAnswered \/ ReadKeys \/ CacheAnalysis
Apply ==
    \/ TakeSnapshot \/ BeginAnswered \/ Guard \/ ChangeAnswered \/ AdmitCommit
    \/ CommitAnswered \/ RollbackAnswered \/ VerifyAnswered \/ ApplyExecuted
Runner ==
    \/ CheckInterrupted \/ EnsureConnection \/ Connected \/ ConnectFailed \/ Recheck
    \/ Analysis \/ Apply \/ FinishActive

Database == Executes \/ ServerFails

Cleanup ==
    \/ PerformCancel \/ CloseExecutor \/ CloseCancels \/ CloseFinishes
    \/ \E t \in Tabs : CloseTab(t)

Aborts == RunAborted \/ WorkerAborted \/ TasksAborted

Next ==
    \/ Users \/ Facade \/ Deadlines \/ Worker \/ Runner \/ DropNoticed \/ Database \/ SocketDies
    \/ Cleanup \/ Aborts \/ IdleClose \/ IdleClosed
    \/ \E r \in Requests : Waiter(r) \/ CallerDropped(r)

Spec == Init /\ [][Next]_vars

(* Tasks are scheduled and timers fire.  The database answers: lock_timeout *)
(* bounds a wait for locks, and keepalive ends a dead socket.  The driver   *)
(* of an aborted group ends with its socket.  Users owe nothing.            *)
Fairness ==
    /\ WF_vars(Facade) /\ WF_vars(Worker) /\ WF_vars(Runner) /\ WF_vars(Database)
    /\ WF_vars(DropNoticed) /\ WF_vars(Aborts) /\ WF_vars(IdleClosed)
    /\ WF_vars(PerformCancel) /\ WF_vars(CloseExecutor \/ CloseCancels \/ CloseFinishes)
    /\ \A t \in Tabs : WF_vars(CloseTab(t))
    /\ \A r \in Requests : WF_vars(Waiter(r))
    /\ WF_vars(group.aborted /\ SocketDies)

FairSpec == Spec /\ Fairness

----------------------------------------------------------------------------
Answers == {"ok", "refused", "lost"}
Slots == Analyses \cup {None}

ExecutorStates ==
    [closed : BOOLEAN, teardown : BOOLEAN, closingTabs : SUBSET Tabs,
     conn : {"none", "up", "dead"}, gen : Nat, snaps : SUBSET Analyses,
     queued : [Tabs -> Slots], latest : [Tabs -> Nat], active : Requests \cup {None},
     interrupt : {"none", "supersede", "cancel", "closing"}, admitted : BOOLEAN,
     pending : Requests \cup {None}]
RunStates ==
    [pc : {"none", "check", "ensure", "connect", "recheck", "query", "keys", "cache",
           "snapshot", "begin", "guard", "change", "admit", "commit", "rollback", "verify",
           "healthy", "unhealthy", "finish"},
     r : Requests \cup {None}, result : Results, left : Nat, keys : Nat, dropped : BOOLEAN]
SessionStates ==
    [stmt : {"none", "query", "begin", "change", "commit", "rollback", "verify"},
     answer : Results \cup {"none"}, txn : {"none", "open", "aborted"},
     work : SUBSET Applies]
TaskStates ==
    [close : {"none", "mark", "cancel", "wait"}, fence : BOOLEAN, tabs : SUBSET Tabs,
     cancel : {"none", "task", "run"}]
RequestStates ==
    [pc : {"new", "held", "waiting", "settled"}, tab : Tabs \cup {None}, gen : Nat,
     plan : Slots, keys : Nat, reply : Answers \cup {"none"}]
FacadeStates ==
    [pc : {"free", "analyze", "apply", "cancel", "save", "tabHeld", "tab", "tabFinish",
           "join", "finish"},
     tab : Tabs \cup {None}, r : Requests \cup {None}, forced : BOOLEAN]

(* Types of every variable. *)
TypeOK ==
    /\ ex \in ExecutorStates
    /\ run \in RunStates
    /\ server \in SessionStates
    /\ committed \in SUBSET Applies
    /\ worker \in [pc : {"none", "next", "shut", "park", "busy", "exit"}, permit : BOOLEAN]
    /\ tasks \in TaskStates
    /\ group \in [registered : BOOLEAN, aborted : BOOLEAN]
    /\ mgr \in [executor : {"none", "current", "gone"}, closing : BOOLEAN, idleClosing : BOOLEAN]
    /\ doc \in [Tabs -> {"none", "open", "retired", "closed"}]
    /\ req \in [Requests -> RequestStates]
    /\ keys \in Nat
    /\ facade \in FacadeStates
    /\ monitor \in BOOLEAN
    /\ stopped \in SUBSET Requests

(* A snapshot in the cache was analysed behind the last change of the      *)
(* structure, and with the virtual keys that are stored, however the       *)
(* analysis, the save and the invalidation overlapped (structure_generation*)
(* is taken when the analysis is queued).                                  *)
SnapshotsCurrent ==
    \A a \in ex.snaps :
        /\ req[a].gen = ex.gen
        /\ facade.pc # "save" /\ mgr.executor = "current" => req[a].keys = keys

TransactionSteps ==
    {"begin", "guard", "change", "admit", "commit", "rollback", "verify", "healthy", "unhealthy"}

(* A socket is handed on clean: whatever is open on it belongs to the      *)
(* apply that runs, up to the end of its verified ROLLBACK, so a COMMIT    *)
(* makes nobody else's changes durable.                                    *)
SocketHandedOnClean ==
    /\ server.work \subseteq {ex.active}
    /\ run.pc \notin TransactionSteps /\ ~group.aborted => server.txn = "none"

(* While a protocol cancel is being sent, the active request was stopped    *)
(* and is not admitted to its COMMIT, and the next request does not begin   *)
(* (cancel_pending).  (What a cancel hits that was sent in time and lands   *)
(* late, nobody promises.)                                                  *)
CancelsForStopped ==
    ex.pending # None \/ tasks.close = "cancel" =>
        ex.active \in stopped \cup {None} /\ ~ex.admitted

(* A closed document has left the executor: nothing of it is queued or     *)
(* runs, and one that serves others keeps no snapshot of it.               *)
ClosedTabGone ==
    \A t \in Tabs :
        doc[t] = "closed" /\ ~group.aborted =>
            /\ QueuedOf(t) = {} /\ ~Working(t)
            /\ mgr.executor = "current" => \A a \in ex.snaps : req[a].tab # t

(* When a graceful teardown has joined, every request has its reply. *)
JoinSettlesRequests ==
    facade.pc = "finish" /\ ~facade.forced /\ ~group.aborted =>
        \A r \in Requests : req[r].pc = "waiting" => req[r].reply # "none"

MutationInv ==
    /\ TypeOK
    /\ SnapshotsCurrent
    /\ ClosedTabGone
    /\ JoinSettlesRequests

(* An apply is told the truth: applied exactly when it is durable, refused *)
(* only if it never will be; a stop accepted in time keeps it from ever    *)
(* committing.  A dropped connection alone leaves the outcome open.        *)
ToldOf(r) == IF req[r].reply = "none" THEN "nothing" ELSE req[r].reply
Ledger == INSTANCE MutationLedger WITH
    stopped <- stopped \cap Applies, told <- [r \in Applies |-> ToldOf(r)]
LedgerKept == Ledger!LedgerSpec

(* Every request is answered and every operation ends, whoever sleeps on   *)
(* which notification: no deadline of the facade is needed for it.         *)
EverythingSettles ==
    /\ \A r \in Requests : []<>(req[r].pc # "waiting")
    /\ []<>(facade = Free)
=============================================================================
