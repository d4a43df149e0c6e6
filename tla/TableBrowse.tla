---------------------------- MODULE TableBrowse ----------------------------
(***************************************************************************)
(* Table browse on one PostgreSQL connection: the executor and its worker  *)
(* (backend/src/table_browse/executor.rs, runner.rs), the manager's native *)
(* lifecycle (manager.rs, native.rs), the task groups it joins             *)
(* (postgres/native_tasks.rs) and the facade that closes documents and     *)
(* retires a connection's data (backend/data.rs, data_documents.rs).       *)
(*                                                                         *)
(* A manager tab belongs to one document and is never used again, so tabs  *)
(* and documents are the same set here.  An action ends where the code     *)
(* awaits or releases the lock it holds.  Submissions, cancels, document   *)
(* closes and retirements share the lifecycle gate; the worker, the        *)
(* cleanup tasks, the waiters and the idle monitor run outside it.         *)
(***************************************************************************)
EXTENDS Naturals

CONSTANTS
    Tabs,          \* documents; each has one manager tab
    MaxRequests,   \* bound: requests; a request's number is its request_id
    MaxSpawns,     \* bound: executors spawned over a behaviour
    None           \* no executor, no request, no tab

ASSUME BrowseAssumption ==
    /\ MaxRequests \in Nat /\ MaxSpawns \in Nat
    /\ None \notin Nat \cup Tabs

Requests == 1..MaxRequests
Executors == 1..MaxSpawns

VARIABLES
    exec,      \* ExecutorInner and Notify of each executor
    worker,    \* its run_executor task
    server,    \* what the database makes of its connection's statement
    tasks,     \* its cleanup tasks: close_executor, and one per closing tab
    group,     \* its TaskGroup
    mgr,       \* ManagerState: the current executor and the fences
    doc,       \* Documents: the lease of each tab
    req,       \* the waiters: their oneshot reply, the jobs enqueued before
    facade,    \* the operation that holds the lifecycle gate
    monitor,   \* the executor an idle close waits for
    stopped    \* unsettled requests that a cancel, supersede or close met

vars == <<exec, worker, server, tasks, group, mgr, doc, req, facade, monitor, stopped>>

(* What a caller is told: rows, or an error (of the job or its connection, *)
(* superseded, cancelled, closing, timeout).                               *)
Answers == {"ok", "error"}

NoJobs == [t \in Tabs |-> None]
Unspawned ==
    [closed |-> FALSE, closingTabs |-> {}, conn |-> "none", queued |-> NoJobs,
     flight |-> None, latest |-> [t \in Tabs |-> 0],
     interrupt |-> [t \in Tabs |-> FALSE], pending |-> FALSE, permit |-> FALSE]
Asleep == [pc |-> "none", job |-> None, stage |-> "none", result |-> "none"]
Free == [pc |-> "free", tab |-> None, with |-> None, forced |-> FALSE]

Init ==
    /\ exec = [e \in Executors |-> Unspawned]
    /\ worker = [e \in Executors |-> Asleep]
    /\ server = [e \in Executors |-> "idle"]
    /\ tasks = [e \in Executors |-> [close |-> "none", fence |-> FALSE, tabs |-> {}]]
    /\ group = [e \in Executors |-> [registered |-> FALSE, aborted |-> FALSE]]
    /\ mgr = [executor |-> None, closing |-> FALSE, idleClosing |-> FALSE]
    /\ doc = [t \in Tabs |-> "none"]
    /\ req = [r \in Requests |-> [pc |-> "new", tab |-> None, with |-> None, reply |-> "none", behind |-> {}]]
    /\ facade = Free
    /\ monitor = None
    /\ stopped = {}

----------------------------------------------------------------------------
(* Helpers on the executor's state.                                        *)

OfTab(t) == {r \in Requests : req[r].tab = t}
QueuedOf(e, t) == {exec[e].queued[t]} \ {None}
Queued(e) == UNION {QueuedOf(e, t) : t \in Tabs}

(* The slots once the jobs in S are taken. *)
Without(queued, S) == [t \in Tabs |-> IF queued[t] \in S THEN None ELSE queued[t]]

(* A oneshot reply: the first value sent stays. *)
Reply(q, S, a) ==
    [r \in Requests |-> IF r \in S /\ q[r].reply = "none" THEN [q[r] EXCEPT !.reply = a, !.behind = {}]
                       ELSE q[r]]

(* The caller has its answer. *)
Settled(q) == [q EXCEPT !.pc = "settled", !.with = None, !.reply = "none", !.behind = {}]

(* queue_protocol_cancel: nothing to cancel while no connection exists. *)
QueueCancel(x) == [x EXCEPT !.pending = @ \/ x.conn # "none"]

InFlight(e, t) == exec[e].flight # None /\ req[exec[e].flight].tab = t
FlightOf(e, t) == IF InFlight(e, t) THEN {exec[e].flight} ELSE {}

(* The interrupt of an in-flight job of tab t, and its protocol cancel. *)
Interrupted(x, e, t) ==
    IF InFlight(e, t) THEN QueueCancel([x EXCEPT !.interrupt[t] = TRUE]) ELSE x

(* Mutant: a queued job's cancel is also sent to the server. *)
TabCancelledAlways(x, e, t) ==
    LET y == Interrupted([x EXCEPT !.queued[t] = None], e, t)
    IN  IF QueuedOf(e, t) # {} THEN QueueCancel(y) ELSE y

(* apply_tab_cancel *)
TabCancelled(x, e, t) ==
    Interrupted([x EXCEPT !.queued[t] = None], e, t)

ApplyTabCancel(e, t, x) ==
    /\ exec' = [exec EXCEPT ![e] = [TabCancelled(x, e, t) EXCEPT !.permit = TRUE]]
    /\ req' = Reply(req, QueuedOf(e, t), "error")
    /\ stopped' = stopped \cup QueuedOf(e, t) \cup FlightOf(e, t)

----------------------------------------------------------------------------
(* Submission: data_call under the gate, submit, then the waiter.          *)

Admitted(r, t, e) ==
    /\ req' = [req EXCEPT ![r] = [@ EXCEPT !.pc = "held", !.tab = t, !.with = e]]
    /\ doc' = [doc EXCEPT ![t] = "open"]
    /\ facade' = [Free EXCEPT !.pc = "submit"]

(* A document is registered before its first request. *)
MaySubmit(r, t) == facade = Free /\ doc[t] \in {"none", "open"} /\ req[r].pc = "new"

(* native_executor_for: the current executor, or a new one.  A submission  *)
(* refused by a fence or by MAX_EXECUTORS changes nothing.                 *)
SubmitToCurrent(r, t) ==
    /\ MaySubmit(r, t) /\ ~mgr.closing /\ mgr.executor # None
    /\ Admitted(r, t, mgr.executor)
    /\ UNCHANGED <<exec, worker, server, tasks, group, mgr, monitor, stopped>>

SubmitSpawns(r, t) ==
    /\ MaySubmit(r, t) /\ ~mgr.closing /\ mgr.executor = None
    /\ \E e \in Executors :
        /\ worker[e].pc = "none" /\ \A d \in 1..(e - 1) : worker[d].pc # "none"
        /\ Admitted(r, t, e)
        /\ worker' = [worker EXCEPT ![e].pc = "check"]
        /\ group' = [group EXCEPT ![e] = [registered |-> TRUE, aborted |-> FALSE]]
        /\ mgr' = [mgr EXCEPT !.executor = e]
    /\ UNCHANGED <<exec, server, tasks, monitor, stopped>>

(* enqueue_job: an older request answers at once; a newer one replaces the *)
(* tab's queued job and interrupts its running one.                        *)
EnqueueJob(r, e, t) ==
    LET old == QueuedOf(e, t)
        x == exec[e]
    IN  IF r < x.latest[t]
        THEN /\ req' = [Reply(req, {r}, "error") EXCEPT ![r].pc = "waiting"]
             /\ exec' = [exec EXCEPT ![e].permit = TRUE]
             /\ UNCHANGED stopped
        ELSE /\ req' = [Reply(req, old, "error") EXCEPT ![r].pc = "waiting", ![r].behind = Queued(e) \ old]
             /\ exec' = [exec EXCEPT ![e] =
                    Interrupted([x EXCEPT !.queued[t] = r, !.latest[t] = r, !.permit = TRUE],
                                e, t)]
             /\ stopped' = stopped \cup old \cup FlightOf(e, t)

(* submit's second half: the executor may have closed since it was read. *)
Enqueue(r) ==
    LET e == req[r].with
        t == req[r].tab
    IN  /\ req[r].pc = "held"
        /\ facade' = Free
        /\ IF exec[e].closed \/ t \in exec[e].closingTabs
           THEN /\ req' = [req EXCEPT ![r] = Settled(@)]
                /\ UNCHANGED <<exec, stopped>>
           ELSE EnqueueJob(r, e, t)
        /\ UNCHANGED <<worker, server, tasks, group, mgr, doc, monitor>>

(* The waiter: its reply, or its own deadline while the job is queued.  A  *)
(* deadline that does not find the job goes on waiting for the reply.      *)
Receive(r) ==
    /\ req[r].pc = "waiting" /\ req[r].reply # "none"
    /\ req' = [req EXCEPT ![r] = Settled(@)]
    /\ stopped' = stopped \ {r}
    /\ UNCHANGED <<exec, worker, server, tasks, group, mgr, doc, facade, monitor>>

(* Mutant: the waiter has no deadline of its own. *)
QueueDeadlineNever(r) == req[r].pc = "held" /\ Receive(r)

(* take_queued *)
QueueDeadline(r) ==
    /\ req[r].pc = "waiting" /\ r \in Queued(req[r].with)
    /\ req' = [req EXCEPT ![r] = Settled(@)]
    /\ exec' = [exec EXCEPT ![req[r].with].queued = Without(@, {r})]
    /\ UNCHANGED <<worker, server, tasks, group, mgr, doc, facade, monitor, stopped>>

(* cancel_data: cancel_tab on the current executor. *)
CancelTab(t) ==
    /\ facade = Free /\ doc[t] = "open" /\ mgr.executor # None
    /\ ApplyTabCancel(mgr.executor, t, exec[mgr.executor])
    /\ UNCHANGED <<worker, server, tasks, group, mgr, doc, facade, monitor>>

----------------------------------------------------------------------------
(* The worker: run_executor, next_job, execute_job.                        *)

Goes(e, pc) == worker' = [worker EXCEPT ![e].pc = pc]

CheckClosed(e) ==
    /\ worker[e].pc = "check"
    /\ Goes(e, IF exec[e].closed THEN "exit" ELSE "drain")
    /\ UNCHANGED <<exec, server, tasks, group, mgr, doc, req, facade, monitor, stopped>>

(* drain_pending_cancel: the request is written, or given up after two     *)
(* seconds; what it does to the server comes later, in ServerAnswers.      *)
(* Taking and writing it are one step: the worker starts no job in between *)
(* and wakes by its permit.  After a job, notify_one and the drop of its   *)
(* TabWork follow.                                                         *)
DrainCancel(e) ==
    /\ worker[e].pc \in {"drain", "runDrain", "endDrain"}
    /\ exec' = [exec EXCEPT ![e].pending = FALSE,
                            ![e].permit = @ \/ worker[e].pc = "endDrain"]
    /\ worker' = [worker EXCEPT ![e] =
            CASE @.pc = "drain"    -> [@ EXCEPT !.pc = "pick"]
              [] @.pc = "runDrain" -> [@ EXCEPT !.pc = "select"]
              [] @.pc = "endDrain" -> [Asleep EXCEPT !.pc = "check"]]
    /\ UNCHANGED <<server, tasks, group, mgr, doc, req, facade, monitor, stopped>>

(* next_job under the lock: jobs past their deadline answer, the oldest of *)
(* the others starts.                                                      *)
NextJob(e, expired) ==
    LET ready == Queued(e) \ expired
    IN  /\ worker[e].pc = "pick" /\ ~exec[e].closed /\ expired \subseteq Queued(e)
        /\ \/ /\ ready = {}
              /\ req' = Reply(req, expired, "error")
              /\ exec' = [exec EXCEPT ![e].queued = Without(@, expired)]
              /\ Goes(e, "park")
           \/ \E r \in ready :
              /\ ready \cap req[r].behind = {}
              /\ req' = [Reply(req, expired, "error") EXCEPT ![r].behind = {}]
              /\ exec' = [exec EXCEPT ![e].queued = Without(@, expired \cup {r}),
                                      ![e].flight = r, ![e].interrupt[req[r].tab] = FALSE]
              /\ worker' = [worker EXCEPT ![e] =
                      [pc |-> "runDrain", job |-> r, stage |-> "ensure", result |-> "none"]]
        /\ UNCHANGED <<server, tasks, group, mgr, doc, facade, monitor, stopped>>

(* next_job on a closed executor: None, so the worker waits to be notified. *)
NextJobClosed(e) ==
    /\ worker[e].pc = "pick" /\ exec[e].closed
    /\ Goes(e, "park")
    /\ UNCHANGED <<exec, server, tasks, group, mgr, doc, req, facade, monitor, stopped>>

(* notified().await takes the stored permit. *)
Notified(e) ==
    /\ worker[e].pc \in {"park", "select"} /\ exec[e].permit
    /\ exec' = [exec EXCEPT ![e].permit = FALSE]
    /\ Goes(e, IF worker[e].pc = "park" THEN "check" ELSE "runDrain")
    /\ UNCHANGED <<server, tasks, group, mgr, doc, req, facade, monitor, stopped>>

Running(e, stage) == worker[e].pc = "select" /\ worker[e].stage = stage
Stage(e, stage) == worker' = [worker EXCEPT ![e].stage = stage]
Ends(e, result) ==
    worker' = [worker EXCEPT ![e].pc = "done", ![e].stage = "none", ![e].result = result]

(* The statements of a job (descriptor, page, count, one retry after a     *)
(* stale descriptor) are one running statement.                            *)
Statement(e) ==
    /\ Stage(e, "wait")
    /\ server' = [server EXCEPT ![e] = "running"]

(* ensure_connection: a closed socket is dropped before connecting again. *)
EnsureConnection(e) ==
    /\ Running(e, "ensure")
    /\ IF exec[e].conn = "up"
       THEN Statement(e) /\ UNCHANGED exec
       ELSE /\ Stage(e, "connect")
            /\ exec' = [exec EXCEPT ![e].conn = "none"]
            /\ UNCHANGED server
    /\ UNCHANGED <<tasks, group, mgr, doc, req, facade, monitor, stopped>>

(* The connect returned; the executor may have closed while it ran. *)
Connected(e) ==
    /\ Running(e, "connect")
    /\ IF exec[e].closed
       THEN Ends(e, "error") /\ UNCHANGED <<exec, server>>
       ELSE Statement(e) /\ exec' = [exec EXCEPT ![e].conn = "up"]
    /\ UNCHANGED <<tasks, group, mgr, doc, req, facade, monitor, stopped>>

ConnectFailed(e) ==
    /\ Running(e, "connect")
    /\ Ends(e, "error")
    /\ UNCHANGED <<exec, server, tasks, group, mgr, doc, req, facade, monitor, stopped>>

(* External: the database answers, or its socket closes.  An error is also *)
(* what a protocol cancel makes of the statement it meets: the server acts *)
(* on a cancel when it likes, after dedicated::cancel has returned too, and *)
(* then on a statement of a later job.                                     *)
ServerAnswers(e) ==
    /\ server[e] = "running"
    /\ \E a \in Answers, lost \in BOOLEAN :
        /\ server' = [server EXCEPT ![e] = a]
        /\ lost => a = "error"
        /\ exec' = [exec EXCEPT ![e].conn = IF lost /\ @ = "up" THEN "dead" ELSE @]
    /\ UNCHANGED <<worker, tasks, group, mgr, doc, req, facade, monitor, stopped>>

Answered(e) ==
    /\ Running(e, "wait") /\ server[e] # "running"
    /\ server' = [server EXCEPT ![e] = "idle"]
    /\ Ends(e, IF server[e] = "ok" THEN "ok" ELSE "error")
    /\ UNCHANGED <<exec, tasks, group, mgr, doc, req, facade, monitor, stopped>>

(* finalize_interrupt: an interrupt decides, whatever the result is. *)
Finalize(interrupt, result) ==
    IF interrupt THEN "error" ELSE result

JobInterrupt(e) == exec[e].interrupt[req[worker[e].job].tab]

Completed(e, terminal) ==
    LET r == worker[e].job
    IN  /\ worker[e].pc = "done"
        /\ exec' = [exec EXCEPT ![e].flight = None, ![e].interrupt[req[r].tab] = FALSE,
                                ![e].conn = IF @ = "dead" /\ ~JobInterrupt(e) THEN "none" ELSE @]
        /\ req' = Reply(req, {r}, terminal)
        /\ Goes(e, "endDrain")
        /\ UNCHANGED <<server, tasks, group, mgr, doc, facade, monitor, stopped>>

(* Mutant: a result that arrived in time is delivered. *)
CompleteJobKeepsOk(e) ==
    Completed(e, Finalize(JobInterrupt(e) /\ worker[e].result # "ok", worker[e].result))

(* complete_job and the reply. *)
CompleteJob(e) == Completed(e, Finalize(JobInterrupt(e), worker[e].result))

(* The abort of a forced join takes effect at the worker's next await; its *)
(* job and TabWork are dropped, and the waiter's channel with them.        *)
WorkerAborted(e) ==
    /\ group[e].aborted /\ worker[e].pc \notin {"none", "exit"}
    /\ worker' = [worker EXCEPT ![e] = [Asleep EXCEPT !.pc = "exit"]]
    /\ req' = Reply(req, {worker[e].job}, "error")
    /\ server' = [server EXCEPT ![e] = "idle"]
    /\ UNCHANGED <<exec, tasks, group, mgr, doc, facade, monitor, stopped>>

----------------------------------------------------------------------------
(* Cleanup tasks: start_close and close_native_tab.                        *)

(* notify_waiters wakes a waiting worker and stores nothing. *)
Woken(w) ==
    CASE w.pc = "park"   -> [w EXCEPT !.pc = "check"]
      [] w.pc = "select" -> [w EXCEPT !.pc = "runDrain"]
      [] OTHER           -> w

(* close_executor under the lock, and the replies to the queued jobs. *)
CloseExecutor(e) ==
    LET fence == tasks[e].fence
        x == exec[e]
    IN  /\ tasks[e].close = "mark"
        /\ exec' = [exec EXCEPT ![e] =
                [x EXCEPT !.closed = TRUE, !.queued = NoJobs, !.pending = FALSE, !.conn = "none",
                          !.interrupt = IF fence THEN [t \in Tabs |-> TRUE] ELSE @]]
        /\ req' = Reply(req, Queued(e), "error")
        /\ stopped' = stopped \cup Queued(e) \cup
                (IF fence /\ exec[e].flight # None THEN {exec[e].flight} ELSE {})
        /\ tasks' = [tasks EXCEPT ![e].close =
                IF exec[e].conn # "none" THEN "cancel" ELSE "notify"]
        /\ UNCHANGED <<worker, server, group, mgr, doc, facade, monitor>>

(* Its protocol cancel, sent beside the worker. *)
CloseCancels(e) ==
    /\ tasks[e].close = "cancel"
    /\ tasks' = [tasks EXCEPT ![e].close = "notify"]
    /\ UNCHANGED <<exec, worker, server, group, mgr, doc, req, facade, monitor, stopped>>

(* Mutant: no wake permit is kept for a worker that is not yet waiting. *)
CloseNotifiesWaiters(e) ==
    /\ tasks[e].close = "notify"
    /\ worker' = [worker EXCEPT ![e] = Woken(@)]
    /\ tasks' = [tasks EXCEPT ![e].close = "none"]
    /\ UNCHANGED <<exec, server, group, mgr, doc, req, facade, monitor, stopped>>

(* notify_waiters, then start_close's notify_one. *)
CloseNotifies(e) ==
    /\ tasks[e].close = "notify"
    /\ worker' = [worker EXCEPT ![e] = Woken(@)]
    /\ exec' = [exec EXCEPT ![e].permit = TRUE]
    /\ tasks' = [tasks EXCEPT ![e].close = "none"]
    /\ UNCHANGED <<server, group, mgr, doc, req, facade, monitor, stopped>>

(* TabWork of tab t: from next_job to the end of the worker's iteration. *)
Working(e, t) == worker[e].job # None /\ req[worker[e].job].tab = t

RemoveTab(e, t) ==
    /\ exec' = [exec EXCEPT ![e] =
            [exec[e] EXCEPT !.queued[t] = None, !.latest[t] = 0, !.interrupt[t] = FALSE,
                      !.flight = IF InFlight(e, t) THEN None ELSE @,
                      !.closingTabs = @ \ {t}]]
    /\ tasks' = [tasks EXCEPT ![e].tabs = @ \ {t}]
    /\ req' = Reply(req, QueuedOf(e, t), "error")
    /\ UNCHANGED <<worker, server, group, mgr, doc, facade, monitor, stopped>>

(* Mutant: the slot goes as soon as the running job is answered. *)
CloseTabEarly(e, t) ==
    /\ t \in tasks[e].tabs /\ ~InFlight(e, t)
    /\ RemoveTab(e, t)

(* wait_tab, then the slot and the tab's fence go. *)
CloseTab(e, t) ==
    /\ t \in tasks[e].tabs /\ ~Working(e, t)
    /\ RemoveTab(e, t)

TasksAborted(e) ==
    /\ group[e].aborted /\ (tasks[e].close # "none" \/ tasks[e].tabs # {})
    /\ tasks' = [tasks EXCEPT ![e].close = "none", ![e].tabs = {}]
    /\ UNCHANGED <<exec, worker, server, group, mgr, doc, req, facade, monitor, stopped>>

(* ConnectionTasks::join over the groups registered for the connection. *)
Registered == {e \in Executors : group[e].registered}
Joined(e) == worker[e].pc = "exit" /\ tasks[e].close = "none" /\ tasks[e].tabs = {}
(* Only closed and the queue of a joined executor are ever read again. *)
Unregister(S) ==
    /\ group' = [e \in Executors |->
            IF e \in S THEN [group[e] EXCEPT !.registered = FALSE] ELSE group[e]]
    /\ exec' = [e \in Executors |->
            IF e \in S THEN [Unspawned EXCEPT !.closed = exec[e].closed, !.queued = exec[e].queued]
            ELSE exec[e]]
StartClose(e, fence) ==
    IF e # None /\ group[e].registered
    THEN [tasks EXCEPT ![e].close = "mark", ![e].fence = fence] ELSE tasks

----------------------------------------------------------------------------
(* The idle monitor: close_native_idle, outside the gate.                  *)

(* is_idle, rechecked under both locks; callers holding the executor are   *)
(* fenced by closed before the close task runs.  IDLE_TIMEOUT (300 s since *)
(* last_used) outlasts the two seconds of the last job's drain.            *)
IdleClose ==
    LET e == mgr.executor
    IN  /\ monitor = None /\ e # None /\ worker[e].job = None
        /\ ~exec[e].closed /\ Queued(e) = {} /\ exec[e].flight = None
        /\ exec' = [exec EXCEPT ![e].closed = TRUE]
        /\ mgr' = [executor |-> None, closing |-> TRUE, idleClosing |-> TRUE]
        /\ tasks' = StartClose(e, FALSE)
        /\ monitor' = e
        /\ UNCHANGED <<worker, server, group, doc, req, facade, stopped>>

(* Mutant: the fence goes without waiting for the worker. *)
IdleClosedUnjoined ==
    /\ monitor # None
    /\ Unregister({monitor})
    /\ monitor' = None
    /\ mgr' = [mgr EXCEPT !.idleClosing = FALSE, !.closing = @ /\ ~mgr.idleClosing]
    /\ UNCHANGED <<worker, server, tasks, doc, req, facade, stopped>>

IdleClosed ==
    /\ monitor # None /\ Joined(monitor)
    /\ Unregister({monitor})
    /\ monitor' = None
    /\ mgr' = [mgr EXCEPT !.idleClosing = FALSE, !.closing = @ /\ ~mgr.idleClosing]
    /\ UNCHANGED <<worker, server, tasks, doc, req, facade, stopped>>

----------------------------------------------------------------------------
(* The facade: close_data_document and retire_data, under the gate.        *)

RetiredDocs == [t \in Tabs |-> IF doc[t] = "open" THEN "retired" ELSE doc[t]]
Settles(t) == \A r \in OfTab(t) : req[r].pc = "settled"

CloseDocument(t) ==
    /\ facade = Free /\ doc[t] = "open"
    /\ doc' = [doc EXCEPT ![t] = "retired"]
    /\ facade' = [Free EXCEPT !.pc = IF mgr.executor = None THEN "tabFinish" ELSE "tabHeld",
                              !.tab = t, !.with = mgr.executor]
    /\ UNCHANGED <<exec, worker, server, tasks, group, mgr, req, monitor, stopped>>

(* The executor read before may have been closed and joined since. *)
FenceTab ==
    LET e == facade.with
        t == facade.tab
    IN  /\ facade.pc = "tabHeld"
        /\ ApplyTabCancel(e, t, [exec[e] EXCEPT !.closingTabs = @ \cup {t}])
        /\ tasks' = [tasks EXCEPT ![e].tabs = IF group[e].registered THEN @ \cup {t} ELSE @]
        /\ facade' = [facade EXCEPT !.pc = "tab"]
        /\ UNCHANGED <<worker, server, group, mgr, doc, monitor>>

TabClosed ==
    /\ facade.pc = "tab" /\ facade.tab \notin tasks[facade.with].tabs
    /\ facade' = [facade EXCEPT !.pc = "tabFinish"]
    /\ UNCHANGED <<exec, worker, server, tasks, group, mgr, doc, req, monitor, stopped>>

(* finish waits for the permits of the document's requests. *)
DocumentFinished ==
    /\ facade.pc = "tabFinish" /\ Settles(facade.tab)
    /\ doc' = [doc EXCEPT ![facade.tab] = "closed"]
    /\ facade' = Free
    /\ UNCHANGED <<exec, worker, server, tasks, group, mgr, req, monitor, stopped>>

(* retire_data: begin_connection_teardown is close_native_connection. *)
RetireData ==
    /\ facade = Free
    /\ doc' = RetiredDocs
    /\ mgr' = [executor |-> None, closing |-> TRUE, idleClosing |-> FALSE]
    /\ tasks' = StartClose(mgr.executor, TRUE)
    /\ facade' = [Free EXCEPT !.pc = "join"]
    /\ UNCHANGED <<exec, worker, server, group, req, monitor, stopped>>

(* Three seconds: every document goes, and the groups are aborted.  They   *)
(* outlast the lock of FenceTab and CloseExecutor, not the waits after it. *)
GracefulDeadline ==
    /\ facade.pc \in {"tab", "tabFinish", "join"} /\ ~facade.forced
    /\ \A e \in Executors : tasks[e].close # "mark"
    /\ doc' = RetiredDocs
    /\ mgr' = [executor |-> None, closing |-> TRUE, idleClosing |-> FALSE]
    /\ group' = [e \in Executors |-> [group[e] EXCEPT !.aborted = @ \/ e \in Registered]]
    /\ facade' = [Free EXCEPT !.pc = "join", !.forced = TRUE]
    /\ UNCHANGED <<exec, worker, server, tasks, req, monitor, stopped>>

GroupsJoined ==
    /\ facade.pc = "join" /\ \A e \in Registered : Joined(e)
    /\ Unregister(Registered)
    /\ facade' = [facade EXCEPT !.pc = "finish"]
    /\ UNCHANGED <<worker, server, tasks, mgr, doc, req, monitor, stopped>>

(* finish_retired, then end_connection_teardown. *)
DataRetired ==
    /\ facade.pc = "finish"
    /\ \A t \in Tabs : doc[t] = "retired" => Settles(t)
    /\ doc' = [t \in Tabs |-> IF doc[t] = "retired" THEN "closed" ELSE doc[t]]
    /\ mgr' = [mgr EXCEPT !.closing = FALSE]
    /\ facade' = Free
    /\ UNCHANGED <<exec, worker, server, tasks, group, req, monitor, stopped>>

(* Five seconds: the operation fails and its fence stays. *)
FinalDeadline ==
    /\ \/ facade.pc = "join" /\ facade.forced
       \/ facade.pc = "finish"
    /\ facade' = Free
    /\ UNCHANGED <<exec, worker, server, tasks, group, mgr, doc, req, monitor, stopped>>

----------------------------------------------------------------------------
Run(e) ==
    \/ EnsureConnection(e) \/ Connected(e) \/ ConnectFailed(e) \/ Answered(e)

Worker(e) ==
    \/ CheckClosed(e) \/ DrainCancel(e) \/ NextJobClosed(e) \/ Notified(e)
    \/ \E expired \in SUBSET Queued(e) : NextJob(e, expired)
    \/ Run(e) \/ CompleteJob(e)

Cleanup(e) ==
    \/ CloseExecutor(e) \/ CloseCancels(e) \/ CloseNotifies(e)
    \/ \E t \in Tabs : CloseTab(e, t)

Aborts(e) == WorkerAborted(e) \/ TasksAborted(e)

Waiter(r) == Receive(r) \/ QueueDeadline(r)

Facade ==
    \/ FenceTab \/ TabClosed \/ DocumentFinished \/ GroupsJoined \/ DataRetired
    \/ GracefulDeadline \/ FinalDeadline
    \/ \E r \in Requests : Enqueue(r)

Users ==
    \/ RetireData
    \/ \E t \in Tabs :
        \/ CancelTab(t) \/ CloseDocument(t)
        \/ \E r \in Requests :
            SubmitToCurrent(r, t) \/ SubmitSpawns(r, t)

Next ==
    \/ Users \/ Facade \/ IdleClose \/ IdleClosed
    \/ \E r \in Requests : Waiter(r)
    \/ \E e \in Executors : Worker(e) \/ ServerAnswers(e) \/ Cleanup(e) \/ Aborts(e)

Spec == Init /\ [][Next]_vars

(* Tasks are scheduled and timers fire.  The database answers: a browse    *)
(* statement is a read, and keepalive ends a dead socket.  Run is strongly *)
(* fair: select! polls its branches in random order, so notifications do   *)
(* not keep the job from running for ever.  Users owe nothing, and neither *)
(* does the monitor's tick.                                                *)
Fairness ==
    /\ WF_vars(Facade) /\ WF_vars(IdleClosed)
    /\ \A r \in Requests : WF_vars(Waiter(r))
    /\ \A e \in Executors :
        /\ WF_vars(Worker(e)) /\ SF_vars(Run(e)) /\ WF_vars(ServerAnswers(e))
        /\ WF_vars(Cleanup(e)) /\ WF_vars(Aborts(e))

FairSpec == Spec /\ Fairness

----------------------------------------------------------------------------
Alive(e) == worker[e].pc \notin {"none", "exit"}

ExecutorStates ==
    [closed : BOOLEAN, closingTabs : SUBSET Tabs, conn : {"none", "up", "dead"},
     queued : [Tabs -> Requests \cup {None}], flight : Requests \cup {None},
     latest : [Tabs -> 0..MaxRequests], interrupt : [Tabs -> BOOLEAN],
     pending : BOOLEAN, permit : BOOLEAN]
WorkerStates ==
    [pc : {"none", "check", "drain", "pick", "park", "runDrain", "select", "done",
           "endDrain", "exit"},
     job : Requests \cup {None},
     stage : {"none", "ensure", "connect", "wait"}, result : Answers \cup {"none"}]
TaskStates ==
    [close : {"none", "mark", "cancel", "notify"}, fence : BOOLEAN, tabs : SUBSET Tabs]
RequestStates ==
    [pc : {"new", "held", "waiting", "settled"}, tab : Tabs \cup {None},
     with : Executors \cup {None}, reply : Answers \cup {"none"}, behind : SUBSET Requests]
FacadeStates ==
    [pc : {"free", "submit", "tabHeld", "tab", "tabFinish", "join", "finish"},
     tab : Tabs \cup {None}, with : Executors \cup {None}, forced : BOOLEAN]

(* Types of every variable. *)
TypeOK ==
    /\ exec \in [Executors -> ExecutorStates]
    /\ worker \in [Executors -> WorkerStates]
    /\ server \in [Executors -> {"idle", "running"} \cup Answers]
    /\ tasks \in [Executors -> TaskStates]
    /\ group \in [Executors -> [registered : BOOLEAN, aborted : BOOLEAN]]
    /\ mgr \in [executor : Executors \cup {None}, closing : BOOLEAN, idleClosing : BOOLEAN]
    /\ doc \in [Tabs -> {"none", "open", "retired", "closed"}]
    /\ req \in [Requests -> RequestStates]
    /\ facade \in FacadeStates
    /\ monitor \in Executors \cup {None}
    /\ stopped \in SUBSET Requests

(* At most one executor per connection: whenever native_executor_for would *)
(* spawn one, the last worker has been joined, whichever of the idle       *)
(* monitor, a document close and a retirement took it down.                *)
OneExecutor == mgr.executor = None /\ ~mgr.closing => \A e \in Executors : ~Alive(e)

(* A teardown holds the connection's fence until it ends, though an idle   *)
(* close that it overtook returns meanwhile (native_idle_closing).         *)
FenceHeld == facade.pc \in {"join", "finish"} => mgr.closing

(* A request that was cancelled, superseded or closed while queued or      *)
(* running never delivers rows, even when its result arrived first         *)
(* (interrupts, reset by next_job and complete_job).                       *)
StoppedNotDelivered == \A r \in stopped : req[r].reply # "ok"

(* While a protocol cancel waits to be sent or is being sent, the job that *)
(* runs, if any, was stopped: none is queued for a job that only waits, and *)
(* none is left over for the next job on the shared connection.  (What a   *)
(* cancel hits that was sent in time and lands late, nobody promises.)     *)
CancelsForStopped ==
    \A e \in Executors :
        (exec[e].pending \/ tasks[e].close = "cancel") /\ Alive(e) /\ exec[e].flight # None
            => exec[e].flight \in stopped

(* A queued job has no reply yet: whoever answers a request takes its job  *)
(* from the queue, so no answered request is ever run.                     *)
QueuedUnanswered ==
    \A e \in Executors : \A r \in Queued(e) : req[r].pc = "waiting" /\ req[r].reply = "none"

(* A closed document has left its executor: nothing queued, no job of it   *)
(* running, no slot and no tab fence (close_native_tab waits for TabWork). *)
ClosedDocumentGone ==
    \A t \in Tabs, e \in Executors :
        doc[t] = "closed" /\ Alive(e) =>
            /\ ~Working(e, t) /\ QueuedOf(e, t) = {}
            /\ exec[e].latest[t] = 0 \/ exec[e].closed \/ group[e].aborted

(* When a graceful teardown has joined, every request of its executor has  *)
(* its reply: close_executor answers the queue, the worker its job.        *)
JoinSettlesRequests ==
    facade.pc = "finish" /\ ~facade.forced =>
        \A r \in Requests :
            req[r].with # None /\ ~group[req[r].with].aborted => req[r].reply # "none"

(* What tabs, teardowns and the idle monitor rely on: one executor, fences *)
(* that last, a queue of open requests, joins that leave none open, and    *)
(* closed documents that left nothing.                                     *)
BrowseInv ==
    /\ TypeOK
    /\ OneExecutor
    /\ FenceHeld
    /\ QueuedUnanswered
    /\ JoinSettlesRequests
    /\ ClosedDocumentGone

(* Every admitted request is answered to its caller: by the worker, by a   *)
(* close, by the end of an aborted worker, or by its own deadline.  (There *)
(* are finitely many: one that waited for ever would falsify this.)        *)
RequestsSettle == []<>(\A r \in Requests : req[r].pc # "waiting")

(* An idle close ends: its worker is always woken to see that it closed.   *)
IdleCloseEnds == monitor # None ~> monitor = None

(* Nobody sleeps through the wakeup it needs: no caller for its answer, no *)
(* worker for the close that waits for it.                                 *)
BrowseSettles == RequestsSettle /\ IdleCloseEnds
=============================================================================
