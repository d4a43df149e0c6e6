------------------------------ MODULE ToolJobs ------------------------------
(***************************************************************************)
(* pg_dump and pg_restore jobs as the native backend owns them: the        *)
(* registry of attempts (backend/src/backend/pg_tools/registry.rs,         *)
(* prepare.rs), the job manager (postgres/backup/manager.rs), the runner   *)
(* and its child process (postgres/backup/runner.rs, native/archive.rs),   *)
(* and what shares the lifecycle gate with them: data documents            *)
(* (backend/data.rs), connection changes behind the socket fence           *)
(* (backend/development/connections.rs, socket_lifecycle.rs) and shutdown. *)
(*                                                                         *)
(* A process, the prepare or dispatch task, the monitor and the reaper of  *)
(* an attempt run concurrently.  An action ends where the code awaits or   *)
(* releases the mutex it holds.  Time is abstract: a deadline may pass     *)
(* whenever its wait is pending.                                           *)
(***************************************************************************)
EXTENDS Naturals, FiniteSets

CONSTANTS
    Attempts,      \* slots for attempts; a released one holds a new attempt id
    Conns,         \* connections
    Global,        \* the scope of a teardown of every connection
    Nobody,        \* no holder of the lifecycle gate
    Kinds,         \* the kinds of job asked for: "Backup", "Restore"
    MaxActive,     \* MAX_ACTIVE and MAX_PG_TOOL_ACTIVE
    MaxPermits,    \* MAX_REAPER_PERMITS
    MaxChanges     \* bound: connection changes over a behaviour

ASSUME ToolJobsAssumption ==
    /\ MaxActive \in Nat /\ MaxPermits \in Nat /\ MaxChanges \in Nat
    /\ Global \notin Conns /\ Nobody \notin Attempts
    /\ Global \notin Attempts \cup {Nobody}
    /\ Kinds \subseteq {"Backup", "Restore"}

Scopes == Conns \cup {Global}

VARIABLES
    entry,      \* Registry entries: what the user sees of each attempt
    task,       \* the attempt's prepare or dispatch task
    monitor,    \* its monitor task
    pending,    \* State.pending of the manager: admissions not yet started
    job,        \* State.jobs: snapshot and Control
    worker,     \* the job's worker task
    child,      \* its process: what it runs and how it ended
    files,      \* private files: the archive or the source copy
    permits,    \* State.reaper_permits
    scope,      \* Scope of each connection and of all
    gate,       \* holder of development_gate across an await
    change,     \* the connection change that holds it
    docs,       \* connections with a live data document
    down,       \* shutdown: "up", "closed", "fenced"
    panicked    \* a panic under the manager's mutex poisons it

vars == <<entry, task, monitor, pending, job, worker, child, files, permits,
          scope, gate, change, docs, down, panicked>>

Terminal == {"Completed", "Cancelled", "Failed"}
Phases == {"Queued", "Preflight", "Running", "Finalizing", "Cancelling"} \cup Terminal
Reviewable == {"ReadyReview", "AwaitingConfirmation"}

NoEntry ==
    [phase |-> "none", conn |-> Global, kind |-> "none", cleanup |-> "Pending",
     effect |-> "NotStarted", cancel |-> FALSE, held |-> FALSE, job |-> FALSE,
     retired |-> FALSE]
NoJob ==
    [phase |-> "none", outcome |-> "Open", signal |-> FALSE, active |-> FALSE,
     permit |-> FALSE, reaper |-> "none", dispatched |-> FALSE, effects |-> FALSE]
NoWorker == [pc |-> "none", result |-> "none"]
NoChild == [stage |-> "none", state |-> "none"]
NoFiles == [private |-> FALSE, published |-> FALSE]
NoPending == [state |-> "none", generation |-> 0, global |-> 0]
Unchanging == [pc |-> "idle", scope |-> Global, waits |-> {}, waited |-> FALSE]

Init ==
    /\ entry = [a \in Attempts |-> NoEntry]
    /\ task = [a \in Attempts |-> [pc |-> "idle", error |-> "none"]]
    /\ monitor = [a \in Attempts |-> [pc |-> "none", seen |-> "none", dispatched |-> FALSE]]
    /\ pending = [a \in Attempts |-> NoPending]
    /\ job = [a \in Attempts |-> NoJob]
    /\ worker = [a \in Attempts |-> NoWorker]
    /\ child = [a \in Attempts |-> NoChild]
    /\ files = [a \in Attempts |-> NoFiles]
    /\ permits = 0
    /\ scope = [s \in Scopes |-> [closing |-> 0, generation |-> 0]]
    /\ gate = Nobody
    /\ change = [n |-> 0, at |-> Unchanging]
    /\ docs = {}
    /\ down = "up"
    /\ panicked = FALSE

registryVars == <<entry, task, monitor>>
managerVars == <<pending, job, permits, scope>>
runnerVars == <<worker, child, files>>
hostVars == <<gate, change, docs, down>>

----------------------------------------------------------------------------
(* OutcomeClaim: one compare-and-swap decides between cancellation and     *)
(* publication; a committed restore wins over a cancellation not yet final.*)

OutcomeCancelled(o) == o \in {"Cancelled", "CancelledFinal"}
Promoted(o) == IF o \in {"Open", "Cancelled"} THEN "Irreversible" ELSE o
FinalCancel(o) == IF o = "Cancelled" THEN "CancelledFinal" ELSE o

(* transition: the legal changes of a job's phase. *)
Legal(from, to) ==
    \/ <<from, to>> \in {<<"Queued", "Preflight">>, <<"Preflight", "Running">>,
                         <<"Running", "Finalizing">>, <<"Finalizing", "Completed">>,
                         <<"Cancelling", "Cancelled">>, <<"Cancelling", "Finalizing">>}
    \/ from \notin Terminal \cup {"Cancelling"} /\ to \in {"Cancelling", "Failed"}

(* cancel_entry *)
CancelEntry(j) ==
    IF j.active /\ j.phase \notin Terminal \cup {"Cancelling"} /\ j.outcome = "Open"
    THEN [j EXCEPT !.outcome = "Cancelled", !.phase = "Cancelling", !.signal = TRUE]
    ELSE j

(* Mutant: admission looks at its own connection's scope only. *)
FencedLocally(c) == scope[c].closing > 0

Live(S) == {a \in S : job[a].active}
Held == {a \in Attempts : pending[a].state # "none"}
Busy(a) == entry[a].phase # "none"
           /\ (entry[a].cleanup # "Complete" \/ entry[a].phase \notin Terminal)
On(c) == {a \in Attempts : entry[a].conn = c}
InScope(s) == {a \in Attempts : s = Global \/ entry[a].conn = s}
Fenced(c) == scope[c].closing > 0 \/ scope[Global].closing > 0
Settled(a) == task[a].pc = "idle"

SameGenerations(a, c) ==
    /\ pending[a].generation = scope[c].generation
    /\ pending[a].global = scope[Global].generation

(* Admission::current, of the admission the entry holds. *)
Current(a) ==
    /\ entry[a].held /\ pending[a].state = "open"
    /\ ~Fenced(entry[a].conn) /\ SameGenerations(a, entry[a].conn)

(* Admission's drop: the reservation and its permit go together. *)
DropsAdmission(a) ==
    /\ pending' = [pending EXCEPT ![a] = NoPending]
    /\ permits' = IF pending[a].state = "none" THEN permits ELSE permits - 1

----------------------------------------------------------------------------
(* The registry: begin, review, dispatch, cancel, release.                 *)

Admits(c) ==
    /\ ~Fenced(c)
    /\ Cardinality(Live(Attempts)) + Cardinality(Held) < MaxActive
    /\ On(c) \cap (Live(Attempts) \cup Held) = {}
    /\ permits < MaxPermits

(* Registry::begin and PgToolJobManager::admission, both locks held. *)
Begin(a, c, k) ==
    /\ entry[a].phase = "none" /\ monitor[a].pc \in {"none", "done"} /\ down = "up"
    /\ Cardinality({b \in Attempts : Busy(b)}) < MaxActive
    /\ \A b \in On(c) : ~Busy(b)
    /\ Admits(c)
    /\ entry' = [entry EXCEPT ![a] = [NoEntry EXCEPT !.phase = "Preparing", !.conn = c,
                                                    !.kind = k, !.held = TRUE]]
    /\ pending' = [pending EXCEPT ![a] = [state |-> "open", generation |-> scope[c].generation,
                                          global |-> scope[Global].generation]]
    /\ permits' = permits + 1
    /\ task' = [task EXCEPT ![a].pc = "prepare"]
    /\ monitor' = [monitor EXCEPT ![a].pc = "loop"]
    /\ change' = [change EXCEPT !.at.waits = @ \ {a}]  \* the slot's last attempt is done
    /\ UNCHANGED <<job, scope, runnerVars, gate, docs, down, panicked>>

(* await_confirmation: the policy asks the user to confirm a restore. *)
AwaitConfirmation(a) ==
    /\ entry[a].phase = "ReadyReview" /\ entry[a].kind = "Restore" /\ Current(a)
    /\ entry' = [entry EXCEPT ![a].phase = "AwaitingConfirmation"]
    /\ UNCHANGED <<task, monitor, managerVars, runnerVars, hostVars, panicked>>

Dispatch(a) ==
    /\ down = "up" /\ entry[a].phase \in Reviewable /\ Current(a)
    /\ entry' = [entry EXCEPT ![a].phase = "Queued"]
    /\ task' = [task EXCEPT ![a].pc = "dispatch"]
    /\ UNCHANGED <<monitor, managerVars, runnerVars, hostVars, panicked>>

(* Mutant: an attempt that ended can still be told to cancel. *)
CancelledEntryEnded(e, j) ==
    IF e.phase = "none" \/ (e.job /\ CancelEntry(j).phase # "Cancelling")
    THEN e
    ELSE [e EXCEPT !.cancel = TRUE, !.phase = "Cancelling"]

(* Registry::cancel: once a job exists its claim decides; a cancellation   *)
(* that lost there leaves the entry as it is.                              *)
CancelledEntry(e, j) ==
    IF e.phase \in Terminal \cup {"none"} \/ (e.job /\ CancelEntry(j).phase # "Cancelling")
    THEN e
    ELSE [e EXCEPT !.cancel = TRUE, !.phase = "Cancelling"]

CancelledJob(e, j) == IF e.phase \in Terminal THEN j ELSE CancelEntry(j)

Cancel(a) ==
    /\ Busy(a)
    /\ entry' = [entry EXCEPT ![a] = CancelledEntry(@, job[a])]
    /\ job' = [job EXCEPT ![a] = CancelledJob(entry[a], @)]
    /\ UNCHANGED <<task, monitor, pending, permits, scope, runnerVars, hostVars, panicked>>

(* Registry::release and PgToolJobManager::release *)
Release(a) ==
    /\ entry[a].phase \in Terminal /\ entry[a].cleanup = "Complete" /\ Settled(a)
    /\ ~job[a].active
    /\ entry' = [entry EXCEPT ![a] = NoEntry]
    /\ job' = [job EXCEPT ![a] = NoJob]
    /\ worker' = [worker EXCEPT ![a] = NoWorker]
    /\ child' = [child EXCEPT ![a] = NoChild]
    /\ files' = [files EXCEPT ![a] = NoFiles]
    /\ UNCHANGED <<task, monitor, pending, permits, scope, hostVars, panicked>>

----------------------------------------------------------------------------
(* The prepare and dispatch tasks, and how a failed one finishes.          *)

(* The task fails and ends in finish(id, error). *)
Fails(a, error) == task' = [task EXCEPT ![a] = [pc |-> "cleaning", error |-> error]]

(* Mutant: a task that was cancelled still waits for the gate. *)
PassesGateFree(a) == gate = Nobody

(* The wait for the gate is a select biased to the cancellation. *)
PassesGate(a) == entry[a].cancel \/ gate = Nobody

(* prepare_inner under the gate: the connection is admitted and its record *)
(* read.  A cancellation is seen first, gate or no gate.                   *)
PrepareAdmits(a) ==
    /\ task[a].pc = "prepare" /\ PassesGate(a)
    /\ \/ entry[a].cancel /\ Fails(a, "Cancelled")
       \/ ~entry[a].cancel /\ Fails(a, "Failed")
       \/ /\ ~entry[a].cancel /\ Current(a)
          /\ task' = [task EXCEPT ![a].pc = "copy"]
    /\ UNCHANGED <<entry, monitor, managerVars, runnerVars, hostVars, panicked>>

(* The source is copied, or the destination looked at, and the entry is    *)
(* ready for review unless it was cancelled or fenced meanwhile.           *)
PrepareReady(a) ==
    /\ task[a].pc = "copy"
    /\ files' = [files EXCEPT ![a].private = entry[a].kind = "Restore"]
    /\ IF entry[a].cancel \/ ~Current(a)
       THEN /\ Fails(a, IF entry[a].cancel THEN "Cancelled" ELSE "Failed")
            /\ UNCHANGED entry
       ELSE /\ task' = [task EXCEPT ![a].pc = "idle"]
            /\ entry' = [entry EXCEPT ![a].phase = "ReadyReview"]
    /\ UNCHANGED <<monitor, managerVars, worker, child, hostVars, panicked>>

(* The copy fails, or sees the cancellation; a partial copy may be left,   *)
(* and a copy that could not be removed is a "Cleanup" error.              *)
PrepareFails(a) ==
    /\ task[a].pc = "copy"
    /\ \E left \in {FALSE, entry[a].kind = "Restore"} :
        /\ files' = [files EXCEPT ![a].private = left]
        /\ \E error \in {"Failed", "Cancelled", "Cleanup"} :
            /\ error = "Cancelled" => entry[a].cancel
            /\ error = "Cleanup" => left
            /\ Fails(a, error)
    /\ UNCHANGED <<entry, monitor, managerVars, worker, child, hostVars, panicked>>

(* dispatch_inner up to the gate it keeps: a cancellation wins, and the    *)
(* policy, the record and the credentials are read again.                  *)
DispatchAdmits(a) ==
    /\ task[a].pc = "dispatch" /\ PassesGate(a)
    /\ \/ /\ entry[a].cancel /\ Fails(a, "Cancelled")
          /\ UNCHANGED gate
       \/ /\ ~entry[a].cancel /\ Fails(a, "Failed")
          /\ UNCHANGED gate
       \/ /\ ~entry[a].cancel /\ Current(a)
          /\ task' = [task EXCEPT ![a].pc = IF entry[a].kind = "Restore" THEN "retire" ELSE "start"]
          /\ gate' = a
    /\ UNCHANGED <<entry, monitor, managerVars, runnerVars, change, docs, down, panicked>>

(* retire_data before a restore: once begun it settles. *)
DispatchRetires(a) ==
    /\ task[a].pc = "retire"
    /\ \/ /\ docs' = docs \ {entry[a].conn}
          /\ task' = [task EXCEPT ![a].pc = "start"]
          /\ UNCHANGED gate
       \/ /\ Fails(a, "Cleanup")
          /\ gate' = Nobody
          /\ UNCHANGED docs
    /\ UNCHANGED <<entry, monitor, managerVars, runnerVars, change, down, panicked>>

(* PgToolJobManager::start accepts the admission. *)
Startable(a) ==
    /\ pending[a].state = "open" /\ ~Fenced(entry[a].conn)
    /\ SameGenerations(a, entry[a].conn)

(* The registry's lock spans the last look at the cancellation and start,  *)
(* which consumes the admission whether it accepts it or not.              *)
DispatchStarts(a) ==
    /\ task[a].pc = "start"
    /\ gate' = Nobody
    /\ CASE entry[a].cancel ->
            /\ Fails(a, "Cancelled")
            /\ UNCHANGED <<entry, pending, permits, job, worker>>
         [] ~entry[a].cancel /\ ~Startable(a) ->
            /\ Fails(a, "Failed")
            /\ entry' = [entry EXCEPT ![a].held = FALSE]
            /\ DropsAdmission(a)
            /\ UNCHANGED <<job, worker>>
         [] ~entry[a].cancel /\ Startable(a) ->
            /\ task' = [task EXCEPT ![a].pc = "idle"]
            /\ entry' = [entry EXCEPT ![a].held = FALSE, ![a].job = TRUE]
            /\ pending' = [pending EXCEPT ![a] = NoPending]
            /\ job' = [job EXCEPT ![a] = [NoJob EXCEPT !.phase = "Queued", !.active = TRUE,
                                          !.permit = TRUE]]
            /\ worker' = [worker EXCEPT ![a] = [pc |-> "preflight", result |-> "none"]]
            /\ UNCHANGED permits
    /\ UNCHANGED <<monitor, scope, child, files, change, docs, down, panicked>>

(* cleanup_resources: the private file goes, then the admission.  When the *)
(* file cannot be removed both stay, and so does the connection's fence.   *)
CleansResources(a) ==
    /\ files' = [files EXCEPT ![a].private = FALSE]
    /\ entry' = [entry EXCEPT ![a].held = FALSE]
    /\ DropsAdmission(a)

KeepsResources(a) ==
    /\ files[a].private
    /\ UNCHANGED <<files, entry, pending, permits>>

(* finish: "Cleanup" says that the file could not be removed. *)
TaskCleans(a) ==
    /\ task[a].pc = "cleaning"
    /\ \/ /\ task[a].error # "Cleanup"
          /\ CleansResources(a)
          /\ task' = [task EXCEPT ![a].pc = "cleaned"]
       \/ /\ task[a].error # "Cleanup"
          /\ KeepsResources(a)
          /\ task' = [task EXCEPT ![a].pc = "uncleaned"]
       \/ /\ task[a].error = "Cleanup"
          /\ task' = [task EXCEPT ![a].pc = "uncleaned"]
          /\ UNCHANGED <<files, entry, pending, permits>>
    /\ UNCHANGED <<monitor, job, scope, worker, child, hostVars, panicked>>

Finished(e, error, clean) ==
    [e EXCEPT !.phase = IF error = "Cancelled" THEN "Cancelled" ELSE "Failed",
              !.cleanup = IF clean THEN "Complete" ELSE "Failed"]

TaskFinishes(a) ==
    /\ task[a].pc \in {"cleaned", "uncleaned"}
    /\ entry' = [entry EXCEPT ![a] = Finished(@, task[a].error, task[a].pc = "cleaned")]
    /\ task' = [task EXCEPT ![a] = [pc |-> "idle", error |-> "none"]]
    /\ UNCHANGED <<monitor, managerVars, runnerVars, hostVars, panicked>>

----------------------------------------------------------------------------
(* The runner: run and process.  Each stage starts one child process.      *)

(* JobContext::phase refuses a cancelled job. *)
Refused(a) == OutcomeCancelled(job[a].outcome) \/ job[a].phase = "Cancelling"

Returns(a, result) == worker' = [worker EXCEPT ![a] = [pc |-> "judge", result |-> result]]
WorkerAt(a, pc) == worker' = [worker EXCEPT ![a].pc = pc]
Spawns(a, stage) == child' = [child EXCEPT ![a] = [stage |-> stage, state |-> "none"]]

WorkerPreflight(a) ==
    /\ worker[a].pc = "preflight"
    /\ \/ /\ Refused(a) /\ Returns(a, "Cancelled")
          /\ UNCHANGED <<job, child>>
       \/ /\ ~Refused(a)
          /\ job' = [job EXCEPT ![a].phase = "Preflight"]
          /\ \/ WorkerAt(a, "spawn") /\ Spawns(a, "version")
             \/ Returns(a, "Failed") /\ UNCHANGED child
    /\ UNCHANGED <<registryVars, pending, permits, scope, files, hostVars, panicked>>

(* A usable version banner leads to Running; a backup makes its private    *)
(* archive, a restore of a custom archive lists it first.                  *)
WorkerRunning(a) ==
    /\ worker[a].pc = "running"
    /\ \/ /\ Refused(a) /\ Returns(a, "Cancelled")
          /\ UNCHANGED <<job, child, files>>
       \/ /\ ~Refused(a)
          /\ job' = [job EXCEPT ![a].phase = "Running"]
          /\ \/ /\ Returns(a, "Failed")
                /\ UNCHANGED <<child, files>>
             \/ /\ WorkerAt(a, "spawn")
                /\ \E stage \in IF entry[a].kind = "Backup" THEN {"dump"} ELSE {"list", "restore"} :
                    Spawns(a, stage)
                /\ files' = [files EXCEPT ![a].private = TRUE]
    /\ UNCHANGED <<registryVars, pending, permits, scope, hostVars, panicked>>

(* Mutant: the dispatch of a restore is marked once its process has ended. *)
ProcessSpawnsUnmarked(a) ==
    /\ worker[a].pc = "spawn"
    /\ \/ /\ OutcomeCancelled(job[a].outcome) /\ Returns(a, "Cancelled")
          /\ UNCHANGED child
       \/ /\ ~OutcomeCancelled(job[a].outcome)
          /\ WorkerAt(a, "wait")
          /\ child' = [child EXCEPT ![a].state = "running"]
    /\ UNCHANGED <<registryVars, managerVars, files, hostVars, panicked>>

ProcessSpawns(a) ==
    /\ worker[a].pc = "spawn"
    /\ \/ /\ OutcomeCancelled(job[a].outcome) /\ Returns(a, "Cancelled")
          /\ UNCHANGED <<job, child>>
       \/ /\ ~OutcomeCancelled(job[a].outcome) /\ Returns(a, "Failed")
          /\ UNCHANGED <<job, child>>
       \/ /\ ~OutcomeCancelled(job[a].outcome)
          /\ WorkerAt(a, "wait")
          /\ child' = [child EXCEPT ![a].state = "running"]
          /\ job' = [job EXCEPT ![a].dispatched = @ \/ child[a].stage = "restore"]
    /\ UNCHANGED <<registryVars, pending, permits, scope, files, hostVars, panicked>>

(* The process ends; a restore that ends well has committed. *)
ChildExits(a, state) ==
    /\ child[a].state = "running"
    /\ child' = [child EXCEPT ![a].state = state]
    /\ UNCHANGED <<registryVars, managerVars, worker, files, hostVars, panicked>>

Committed(a) == child[a].stage = "restore" /\ child[a].state = "ok"
Promotes(a) == job' = [job EXCEPT ![a].outcome = Promoted(@)]

(* Mutant: the job keeps the permit it hands to the reaper. *)
ReapsKeepsPermit(a, reason) ==
    /\ worker' = [worker EXCEPT ![a] = [pc |-> "reap", result |-> reason]]
    /\ job' = [job EXCEPT ![a].reaper = "running"]

(* The child is killed and handed to the reaper with the job's permit. *)
Reaps(a, reason) ==
    /\ worker' = [worker EXCEPT ![a] = [pc |-> "reap", result |-> reason]]
    /\ job' = [job EXCEPT ![a].permit = FALSE, ![a].reaper = "running"]

(* process_inner's select, biased to the cancellation: a restore found     *)
(* committed is kept, any other child is killed.                           *)
ProcessCancelled(a) ==
    /\ worker[a].pc = "wait" /\ job[a].signal
    /\ IF Committed(a) THEN Promotes(a) /\ WorkerAt(a, "exited") ELSE Reaps(a, "Cancelled")
    /\ UNCHANGED <<registryVars, pending, permits, scope, child, files, hostVars, panicked>>

(* The preflight deadline, or the stream into a plain restore, fails. *)
ProcessStopped(a) ==
    /\ worker[a].pc = "wait" /\ ~job[a].signal
    /\ \/ child[a].stage = "version" /\ Reaps(a, "Timeout")
       \/ child[a].stage = "restore" /\ Reaps(a, "Failed")
    /\ UNCHANGED <<registryVars, pending, permits, scope, child, files, hostVars, panicked>>

ProcessExited(a) ==
    /\ worker[a].pc = "wait" /\ ~job[a].signal /\ child[a].state # "running"
    /\ WorkerAt(a, "exited")
    /\ UNCHANGED <<registryVars, managerVars, child, files, hostVars, panicked>>

(* The reaper: a late commit is recorded by the owner of the cleanup,      *)
(* which then gives the permit back.                                       *)
ReaperEnds(a) ==
    /\ job[a].reaper = "running" /\ child[a].state # "running"
    /\ job' = [job EXCEPT ![a].reaper = "done",
                          ![a].outcome = IF Committed(a) THEN Promoted(@) ELSE @]
    /\ permits' = permits - 1
    /\ UNCHANGED <<registryVars, pending, scope, runnerVars, hostVars, panicked>>

(* The worker waits for its reaper without a deadline of its own. *)
WorkerReaped(a) ==
    /\ worker[a].pc = "reap" /\ job[a].reaper = "done"
    /\ IF Committed(a)
       THEN Promotes(a) /\ WorkerAt(a, "finalizing")
       ELSE Returns(a, worker[a].result) /\ UNCHANGED job
    /\ UNCHANGED <<registryVars, pending, permits, scope, child, files, hostVars, panicked>>

(* The end of process_inner, and what run does next. *)
WorkerExited(a) ==
    /\ worker[a].pc = "exited"
    /\ IF Committed(a) THEN Promotes(a) ELSE UNCHANGED job
    /\ \/ /\ child[a].state = "err" \/ child[a].stage = "version"
          /\ Returns(a, "Failed")
          /\ UNCHANGED child
       \/ /\ child[a] = [stage |-> "version", state |-> "ok"]
          /\ WorkerAt(a, "running")
          /\ UNCHANGED child
       \/ /\ child[a] = [stage |-> "list", state |-> "ok"]
          /\ WorkerAt(a, "spawn") /\ Spawns(a, "restore")
       \/ /\ child[a].state = "ok" /\ child[a].stage \in {"dump", "restore"}
          /\ WorkerAt(a, "finalizing")
          /\ UNCHANGED child
    /\ UNCHANGED <<registryVars, pending, permits, scope, files, hostVars, panicked>>

(* A dump is checked and synced and then ready to publish. *)
FinalizeBackup(a) ==
    /\ worker[a].pc = "finalizing" /\ entry[a].kind = "Backup"
    /\ \/ Refused(a) /\ Returns(a, "Cancelled") /\ UNCHANGED job
       \/ /\ ~Refused(a)
          /\ job' = [job EXCEPT ![a].phase = "Finalizing"]
          /\ (WorkerAt(a, "ready") \/ Returns(a, "Failed"))
    /\ UNCHANGED <<registryVars, pending, permits, scope, child, files, hostVars, panicked>>

(* phase_after_irreversible_success, then check_cancelled *)
FinalizeRestore(a) ==
    /\ worker[a].pc = "finalizing" /\ entry[a].kind = "Restore"
    /\ LET outcome == Promoted(job[a].outcome)
           legal == Legal(job[a].phase, "Finalizing")
       IN  /\ job' = [job EXCEPT ![a].outcome = outcome,
                                 ![a].phase = IF legal THEN "Finalizing" ELSE @]
           /\ CASE ~legal -> Returns(a, "Failed")
                [] legal /\ OutcomeCancelled(outcome) -> Returns(a, "Cancelled")
                [] legal /\ ~OutcomeCancelled(outcome) -> WorkerAt(a, "ready")
    /\ UNCHANGED <<registryVars, pending, permits, scope, child, files, hostVars, panicked>>

----------------------------------------------------------------------------
(* The manager's complete: publication, judgement, terminal phase.         *)

(* Mutant: a backup that was not cancelled is published without a claim. *)
ClaimPublicationChecked(a) ==
    /\ worker[a].pc = "ready"
    /\ IF OutcomeCancelled(job[a].outcome) THEN Returns(a, "Cancelled") ELSE WorkerAt(a, "publish")
    /\ UNCHANGED <<registryVars, managerVars, child, files, hostVars, panicked>>

(* A backup is published only by whoever claims the outcome first. *)
ClaimPublication(a) ==
    /\ worker[a].pc = "ready"
    /\ IF entry[a].kind = "Restore"
       THEN WorkerAt(a, "publish") /\ UNCHANGED job
       ELSE IF job[a].outcome = "Open"
            THEN WorkerAt(a, "publish") /\ job' = [job EXCEPT ![a].outcome = "Publishing"]
            ELSE Returns(a, "Cancelled") /\ UNCHANGED job
    /\ UNCHANGED <<registryVars, pending, permits, scope, child, files, hostVars, panicked>>

(* Ready::publish: one hard link, which an existing destination refuses. *)
Publish(a) ==
    /\ worker[a].pc = "publish"
    /\ \/ /\ Returns(a, "ok")
          /\ files' = [files EXCEPT ![a].published = entry[a].kind = "Backup"]
       \/ /\ entry[a].kind = "Backup"
          /\ Returns(a, "Failed")
          /\ UNCHANGED files
    /\ UNCHANGED <<registryVars, managerVars, child, hostVars, panicked>>

Judgement(result, outcome) ==
    CASE OutcomeCancelled(outcome) -> IF result = "Timeout" THEN "Timeout" ELSE "Cancelled"
      [] outcome = "Irreversible" -> "ok"
      [] OTHER -> result

(* The result is settled against the claim; success runs its effects. *)
Judge(a) ==
    /\ worker[a].pc = "judge"
    /\ LET result == Judgement(worker[a].result, job[a].outcome)
       IN  /\ worker' = [worker EXCEPT ![a] = [pc |-> "terminal", result |-> result]]
           /\ job' = [job EXCEPT ![a].outcome = FinalCancel(@), ![a].effects = result = "ok"]
    /\ UNCHANGED <<registryVars, pending, permits, scope, child, files, hostVars, panicked>>

TerminalPhase(a) ==
    CASE OutcomeCancelled(job[a].outcome) -> "Cancelled"
      [] ~OutcomeCancelled(job[a].outcome) /\ worker[a].result = "ok" -> "Completed"
      [] OTHER -> "Failed"

(* publish_terminal: an illegal phase panics under the manager's mutex. *)
PublishTerminal(a) ==
    /\ worker[a].pc = "terminal"
    /\ permits' = IF job[a].permit THEN permits - 1 ELSE permits
    /\ panicked' = ~Legal(job[a].phase, TerminalPhase(a))
    /\ job' = [job EXCEPT ![a].active = FALSE, ![a].permit = FALSE,
                          ![a].outcome = FinalCancel(@),
                          ![a].phase = IF panicked' THEN @ ELSE TerminalPhase(a)]
    /\ worker' = [worker EXCEPT ![a] = [pc |-> "done", result |-> "none"]]
    /\ UNCHANGED <<registryVars, pending, scope, child, files, hostVars>>

----------------------------------------------------------------------------
(* The monitor: it carries lifecycle cancellations to the entry, shows the *)
(* job's snapshot there and proves the cleanup.                            *)

(* The admission's watch says that a teardown met the reservation. *)
TeardownSeen(a) ==
    /\ monitor[a].pc = "loop" /\ pending[a].state = "cancelled"
    /\ entry[a].phase \notin Terminal /\ ~entry[a].cancel

MonitorCancels(a) ==
    /\ TeardownSeen(a)
    /\ entry' = [entry EXCEPT ![a] = CancelledEntry(@, job[a])]
    /\ UNCHANGED <<task, monitor, managerVars, runnerVars, hostVars, panicked>>

(* Mutant: only an attempt still shown for review is finished. *)
MonitorFinishesReviewed(a) ==
    /\ monitor[a].pc = "loop" /\ ~entry[a].job /\ Settled(a)
    /\ entry[a].cancel /\ entry[a].phase \in Reviewable
    /\ monitor' = [monitor EXCEPT ![a].pc = "cleaning"]
    /\ UNCHANGED <<entry, task, managerVars, runnerVars, hostVars, panicked>>

(* A cancelled attempt without a job or a running task is finished here. *)
MonitorFinishes(a) ==
    /\ monitor[a].pc = "loop" /\ ~entry[a].job /\ Settled(a)
    /\ entry[a].cancel /\ entry[a].phase \notin Terminal
    /\ monitor' = [monitor EXCEPT ![a].pc = "cleaning"]
    /\ UNCHANGED <<entry, task, managerVars, runnerVars, hostVars, panicked>>

MonitorCleans(a) ==
    /\ monitor[a].pc = "cleaning"
    /\ \/ CleansResources(a) /\ monitor' = [monitor EXCEPT ![a].pc = "cleaned"]
       \/ KeepsResources(a) /\ monitor' = [monitor EXCEPT ![a].pc = "uncleaned"]
    /\ UNCHANGED <<task, job, scope, worker, child, hostVars, panicked>>

MonitorFinished(a) ==
    /\ monitor[a].pc \in {"cleaned", "uncleaned"}
    /\ entry' = [entry EXCEPT ![a] = Finished(@, "Cancelled", monitor[a].pc = "cleaned")]
    /\ monitor' = [monitor EXCEPT ![a].pc = "done"]
    /\ UNCHANGED <<task, managerVars, runnerVars, hostVars, panicked>>

(* An attempt its task finished, or one released meanwhile. *)
MonitorEnds(a) ==
    /\ monitor[a].pc = "loop" /\ ~entry[a].job
    /\ (entry[a].phase \in Terminal /\ Settled(a)) \/ entry[a].phase = "none"
    /\ monitor' = [monitor EXCEPT ![a].pc = "done"]
    /\ UNCHANGED <<entry, task, managerVars, runnerVars, hostVars, panicked>>

(* Five seconds after a cancellation the cleanup is reported as failed. *)
MonitorOverdue(a) ==
    /\ monitor[a].pc = "loop" /\ entry[a].cancel /\ entry[a].cleanup = "Pending"
    /\ entry' = [entry EXCEPT ![a].cleanup = "Failed"]
    /\ UNCHANGED <<task, monitor, managerVars, runnerVars, hostVars, panicked>>

(* native_observe: a restore that ran retires the connection's data before *)
(* its end is shown.                                                       *)
MonitorObserves(a) ==
    /\ monitor[a].pc = "loop" /\ entry[a].job
    /\ LET ended == job[a].phase \in Terminal
           retires == /\ ended /\ entry[a].kind = "Restore" /\ ~entry[a].retired
                      /\ job[a].dispatched \/ job[a].phase = "Completed"
       IN  /\ monitor' = [monitor EXCEPT ![a] = [pc |-> IF retires THEN "retire" ELSE "publish",
                                                 seen |-> job[a].phase,
                                                 dispatched |-> job[a].dispatched]]
           /\ entry' = [entry EXCEPT ![a].retired = @ \/ (ended /\ ~retires)]
    /\ UNCHANGED <<task, managerVars, runnerVars, hostVars, panicked>>

MonitorRetires(a) ==
    /\ monitor[a].pc = "retire" /\ gate = Nobody
    /\ \/ /\ docs' = docs \ {entry[a].conn}
          /\ entry' = [entry EXCEPT ![a].retired = TRUE]
       \/ /\ entry' = [entry EXCEPT ![a].cleanup = "Failed"]
          /\ UNCHANGED docs
    /\ monitor' = [monitor EXCEPT ![a].pc = "publish"]
    /\ UNCHANGED <<task, managerVars, runnerVars, gate, change, down, panicked>>

ShownEffect(seen, dispatched) ==
    CASE seen = "Completed" -> "Succeeded"
      [] seen # "Completed" /\ dispatched -> IF seen \in Terminal THEN "Unknown" ELSE "Pending"
      [] OTHER -> "NotStarted"

(* Every task of the job has been joined. *)
Joined(a) == worker[a].pc = "done" /\ job[a].reaper # "running"

MonitorPublishes(a) ==
    /\ monitor[a].pc = "publish"
    /\ entry' = [entry EXCEPT ![a].phase = monitor[a].seen,
                              ![a].effect = ShownEffect(monitor[a].seen, monitor[a].dispatched)]
    /\ monitor' = [monitor EXCEPT ![a] =
            [pc |-> IF monitor[a].seen \in Terminal /\ Joined(a) /\ Settled(a) /\ entry[a].retired
                    THEN "archive" ELSE "loop",
             seen |-> "none", dispatched |-> FALSE]]
    /\ UNCHANGED <<task, managerVars, runnerVars, hostVars, panicked>>

(* cleanup_resources after a job, which also removes the private archive. *)
MonitorArchives(a) ==
    /\ monitor[a].pc = "archive"
    /\ \/ /\ files' = [files EXCEPT ![a].private = FALSE]
          /\ entry' = [entry EXCEPT ![a].cleanup = "Complete"]
       \/ /\ files[a].private
          /\ entry' = [entry EXCEPT ![a].cleanup = "Failed"]
          /\ UNCHANGED files
    /\ monitor' = [monitor EXCEPT ![a].pc = "done"]
    /\ UNCHANGED <<task, managerVars, worker, child, hostVars, panicked>>

----------------------------------------------------------------------------
(* What shares the gate: data documents, connection changes, shutdown.     *)

(* Mutant: only a job that was started reserves the connection. *)
RestoreStarted(c) ==
    \E a \in On(c) : /\ entry[a].kind = "Restore" /\ entry[a].cleanup # "Complete"
                     /\ entry[a].phase \notin {"Preparing", "Queued"} \cup Reviewable

(* restore_in_progress: from dispatch until the cleanup is proven. *)
RestoreInProgress(c) ==
    \E a \in On(c) : /\ entry[a].kind = "Restore" /\ entry[a].cleanup # "Complete"
                     /\ entry[a].phase \notin {"Preparing"} \cup Reviewable

OpenDocument(c) ==
    /\ gate = Nobody /\ down = "up" /\ c \notin docs /\ ~RestoreInProgress(c)
    /\ docs' = docs \cup {c}
    /\ UNCHANGED <<registryVars, managerVars, runnerVars, gate, change, down, panicked>>

CloseDocument(c) ==
    /\ c \in docs
    /\ docs' = docs \ {c}
    /\ UNCHANGED <<registryVars, managerVars, runnerVars, gate, change, down, panicked>>

(* require_connection_settled *)
ConnectionSettled(s) == \A a \in InScope(s) : ~Busy(a) /\ Settled(a)

(* begin_teardown: the scope is fenced and its jobs and admissions told. *)
Teardown(s) ==
    /\ scope' = [scope EXCEPT ![s] = [closing |-> @.closing + 1, generation |-> @.generation + 1]]
    /\ job' = [a \in Attempts |-> IF a \in InScope(s) THEN CancelEntry(job[a]) ELSE job[a]]
    /\ pending' = [a \in Attempts |-> IF a \in InScope(s) \cap Held
                                      THEN [pending[a] EXCEPT !.state = "cancelled"]
                                      ELSE pending[a]]

(* A change of a connection, or of what all depend on, takes the gate,     *)
(* finds the jobs settled and retires the data.                            *)
ChangeBegins(s) ==
    /\ change.at.pc = "idle" /\ change.n < MaxChanges /\ gate = Nobody /\ down = "up"
    /\ ConnectionSettled(s)
    /\ gate' = Global
    /\ change' = [n |-> change.n + 1, at |-> [Unchanging EXCEPT !.pc = "checked", !.scope = s]]
    /\ docs' = IF s = Global THEN {} ELSE docs \ {s}
    /\ UNCHANGED <<registryVars, managerVars, runnerVars, down, panicked>>

(* An attempt may have begun since: begin does not take the gate. *)
ChangeFences ==
    /\ change.at.pc = "checked"
    /\ Teardown(change.at.scope)
    /\ change' = [change EXCEPT !.at.pc = "waiting",
                                !.at.waits = InScope(change.at.scope) \cap (Live(Attempts) \cup Held)]
    /\ UNCHANGED <<registryVars, permits, runnerVars, gate, docs, down, panicked>>

Done(a) == ~job[a].active /\ pending[a].state = "none"

(* The wait ends, or its deadline passes and the change goes on anyway. *)
ChangeWaited(waited) ==
    /\ change.at.pc = "waiting"
    /\ waited => \A a \in change.at.waits : Done(a)
    /\ change' = [change EXCEPT !.at.pc = "work", !.at.waits = {}, !.at.waited = waited]
    /\ UNCHANGED <<registryVars, managerVars, runnerVars, gate, docs, down, panicked>>

ChangeEnds ==
    /\ change.at.pc = "work"
    /\ scope' = [scope EXCEPT ![change.at.scope].closing = @ - 1]
    /\ change' = [change EXCEPT !.at = Unchanging]
    /\ gate' = Nobody
    /\ UNCHANGED <<registryVars, pending, job, permits, runnerVars, docs, down, panicked>>

(* Shutdown closes admission and cancels every attempt, then fences all. *)
ShutdownCloses ==
    /\ down = "up"
    /\ down' = "closed" /\ docs' = {}
    /\ entry' = [a \in Attempts |-> CancelledEntry(entry[a], job[a])]
    /\ job' = [a \in Attempts |-> CancelledJob(entry[a], job[a])]
    /\ UNCHANGED <<task, monitor, pending, permits, scope, runnerVars, gate, change, panicked>>

ShutdownFences ==
    /\ down = "closed"
    /\ down' = "fenced"
    /\ Teardown(Global)
    /\ UNCHANGED <<registryVars, permits, runnerVars, gate, change, docs, panicked>>

----------------------------------------------------------------------------
UserStep(a) ==
    \/ \E c \in Conns, k \in Kinds : Begin(a, c, k)
    \/ AwaitConfirmation(a) \/ Dispatch(a) \/ Cancel(a) \/ Release(a)

TaskStep(a) ==
    \/ PrepareAdmits(a) \/ PrepareReady(a) \/ PrepareFails(a)
    \/ DispatchAdmits(a) \/ DispatchRetires(a) \/ DispatchStarts(a)
    \/ TaskCleans(a) \/ TaskFinishes(a)

WorkerStep(a) ==
    \/ WorkerPreflight(a) \/ WorkerRunning(a) \/ ProcessSpawns(a)
    \/ ProcessCancelled(a) \/ ProcessExited(a)
    \/ WorkerReaped(a) \/ WorkerExited(a)
    \/ FinalizeBackup(a) \/ FinalizeRestore(a)
    \/ ClaimPublication(a) \/ Publish(a) \/ Judge(a) \/ PublishTerminal(a)

MonitorStep(a) ==
    \/ MonitorCancels(a) \/ MonitorFinishes(a) \/ MonitorCleans(a) \/ MonitorFinished(a)
    \/ MonitorEnds(a) \/ MonitorObserves(a) \/ MonitorRetires(a)
    \/ MonitorPublishes(a) \/ MonitorArchives(a)

ChangeStep ==
    \/ ChangeFences \/ (\E waited \in BOOLEAN : ChangeWaited(waited)) \/ ChangeEnds

HostStep ==
    \/ \E c \in Conns : OpenDocument(c) \/ CloseDocument(c)
    \/ \E s \in Scopes : ChangeBegins(s)
    \/ ShutdownCloses \/ ShutdownFences

(* Nothing moves once the manager's mutex is poisoned. *)
Next ==
    /\ ~panicked
    /\ \/ \E a \in Attempts :
            \/ UserStep(a) \/ TaskStep(a) \/ WorkerStep(a) \/ MonitorStep(a)
            \/ ProcessStopped(a) \/ ReaperEnds(a) \/ MonitorOverdue(a)
            \/ \E state \in {"ok", "err"} : ChildExits(a, state)
       \/ ChangeStep \/ HostStep

Spec == Init /\ [][Next]_vars

(* Tasks run when they can; a killed process ends.  A process that nobody  *)
(* stops may run for ever, and no user or host step is owed.               *)
FairSpec ==
    /\ Spec
    /\ \A a \in Attempts :
        /\ WF_vars(~panicked /\ TaskStep(a))
        /\ WF_vars(~panicked /\ WorkerStep(a))
        /\ WF_vars(~panicked /\ MonitorStep(a))
        /\ WF_vars(~panicked /\ ReaperEnds(a))
        /\ WF_vars(~panicked /\ job[a].reaper = "running" /\ \E state \in {"ok", "err"} : ChildExits(a, state))
    /\ WF_vars(~panicked /\ ChangeStep)

----------------------------------------------------------------------------
EntryType ==
    [phase : {"none", "Preparing"} \cup Reviewable \cup Phases,
     conn : Scopes, kind : {"none"} \cup Kinds,
     cleanup : {"Pending", "Complete", "Failed"},
     effect : {"NotStarted", "Pending", "Succeeded", "Unknown"},
     cancel : BOOLEAN, held : BOOLEAN, job : BOOLEAN, retired : BOOLEAN]
TaskType ==
    [pc : {"idle", "prepare", "copy", "dispatch", "retire", "start",
           "cleaning", "cleaned", "uncleaned"},
     error : {"none", "Failed", "Cancelled", "Cleanup"}]
MonitorType ==
    [pc : {"none", "loop", "cleaning", "cleaned", "uncleaned", "retire",
           "publish", "archive", "done"},
     seen : {"none"} \cup Phases, dispatched : BOOLEAN]
PendingType == [state : {"none", "open", "cancelled"}, generation : Nat, global : Nat]
JobType ==
    [phase : {"none"} \cup Phases,
     outcome : {"Open", "Cancelled", "Publishing", "Irreversible", "CancelledFinal"},
     signal : BOOLEAN, active : BOOLEAN, permit : BOOLEAN,
     reaper : {"none", "running", "done"}, dispatched : BOOLEAN, effects : BOOLEAN]
WorkerType ==
    [pc : {"none", "preflight", "running", "spawn", "wait", "reap", "exited",
           "finalizing", "ready", "publish", "judge", "terminal", "done"},
     result : {"none", "ok", "Failed", "Cancelled", "Timeout"}]
ChildType ==
    [stage : {"none", "version", "list", "dump", "restore"},
     state : {"none", "running", "ok", "err"}]
FilesType == [private : BOOLEAN, published : BOOLEAN]

TypeOK ==
    /\ entry \in [Attempts -> EntryType]
    /\ task \in [Attempts -> TaskType]
    /\ monitor \in [Attempts -> MonitorType]
    /\ pending \in [Attempts -> PendingType]
    /\ job \in [Attempts -> JobType]
    /\ worker \in [Attempts -> WorkerType]
    /\ child \in [Attempts -> ChildType]
    /\ files \in [Attempts -> FilesType]
    /\ permits \in 0..MaxPermits
    /\ scope \in [Scopes -> [closing : 0..(MaxChanges + 1), generation : Nat]]
    /\ gate \in Attempts \cup {Nobody, Global}
    /\ change \in [n : 0..MaxChanges,
                   at : [pc : {"idle", "checked", "waiting", "work"},
                         scope : Scopes, waits : SUBSET Attempts, waited : BOOLEAN]]
    /\ docs \subseteq Conns
    /\ down \in {"up", "closed", "fenced"}
    /\ panicked \in BOOLEAN

(* No race of a cancellation, a late commit and the end of the work asks   *)
(* for an illegal phase: publish_terminal's expect never panics, so the    *)
(* manager's mutex is never poisoned.                                      *)
NoPanic == ~panicked

(* A job's end tells what it did: Completed exactly when the archive was   *)
(* published or the restore committed, and only then with its effects      *)
(* (audit, activity), however the cancellation raced.                      *)
OutcomeTrue ==
    \A a \in Attempts : job[a].phase \in Terminal =>
        /\ (job[a].phase = "Completed") <=> (files[a].published \/ Committed(a))
        /\ job[a].effects <=> job[a].phase = "Completed"

(* Every reaper permit is that of one admission, one job or one reaper:    *)
(* none is given back twice, none is lost.                                 *)
PermitsHeld ==
    permits = Cardinality(Held)
              + Cardinality({a \in Attempts : job[a].active /\ job[a].permit})
              + Cardinality({a \in Attempts : job[a].reaper = "running"})

(* A change that waited for the fence works on connections nobody's job or *)
(* admission uses, and none comes until it ends.                           *)
JobFenceQuiet ==
    change.at.pc = "work" /\ change.at.waited =>
        /\ InScope(change.at.scope) \cap (Live(Attempts) \cup Held) = {}
        /\ \A a \in InScope(change.at.scope) : child[a].state # "running"

(* No data document of a connection is live while a restore runs on it. *)
RestoreExclusive ==
    \A a \in Attempts :
        child[a] = [stage |-> "restore", state |-> "running"] => entry[a].conn \notin docs

(* What the user is told of a restore that ended: success exactly when it  *)
(* committed, and "not started" only if its process never ran.             *)
EffectTold ==
    \A a \in Attempts : entry[a].job /\ entry[a].phase \in Terminal =>
        /\ entry[a].effect = "Succeeded" <=> files[a].published \/ Committed(a)
        /\ entry[a].effect = "NotStarted" =>
                child[a].stage # "restore" \/ child[a].state = "none"

(* The outcome of an attempt, in the manager's job and as the user is told *)
(* it, is what happened to the archive or to the database.                 *)
EndTold == OutcomeTrue /\ EffectTold

(* Cleanup shown as complete is complete: no file, admission, permit, task *)
(* or process of the attempt is left.                                      *)
CompleteLeavesNothing ==
    \A a \in Attempts : entry[a].cleanup = "Complete" =>
        /\ ~files[a].private /\ Done(a) /\ job[a].reaper # "running"
        /\ worker[a].pc \in {"none", "done"} /\ child[a].state # "running"

(* What the registry shows of a job that ended does not change again: a    *)
(* late snapshot never covers the end.                                     *)
EndStays ==
    [][\A a \in Attempts : entry[a].phase \in Terminal =>
            entry'[a].phase \in {entry[a].phase, "none"}]_vars

(* A cancellation the registry took is answered: the attempt ends.         *)
CancelEnds == \A a \in Attempts : entry[a].cancel ~> entry[a].phase \in Terminal \cup {"none"}

(* A change waits under the gate that prepare and dispatch also ask for:   *)
(* whoever it waits for is a prepare that gets past the gate, that its     *)
(* monitor is about to cancel, or that ends with a cleanup which cannot    *)
(* fail.  So only a slow step, never a deadlock and never a file that      *)
(* cannot be removed, uses up the deadline.                                *)
FenceNotStuck ==
    change.at.pc = "waiting" =>
        \A a \in change.at.waits :
            \/ Done(a)
            \/ task[a].pc = "prepare" /\ (PassesGate(a) \/ TeardownSeen(a))
            \/ task[a].pc = "cleaning" /\ task[a].error # "Cleanup" /\ ~files[a].private

(* What the manager, the registry and a change rely on: a mutex that is    *)
(* never poisoned, permits that add up and cleanup that is what it says.   *)
JobsInv ==
    /\ TypeOK
    /\ NoPanic
    /\ PermitsHeld
    /\ CompleteLeavesNothing

============================================================================
