------------------------- MODULE SessionTransaction -------------------------
(***************************************************************************)
(* The transaction of one PostgreSQL query session: what the server holds,  *)
(* what the session believes it holds, and everything that sends statements *)
(* over the session's one connection - the execution in its three shapes    *)
(* (Script, CursorRead, BoundCommand, the last also behind a transaction    *)
(* pooler), the COMMIT and ROLLBACK buttons, status probes, and the closer. *)
(* Source: backend/src/query_session/mod.rs and postgres.rs.                *)
(*                                                                          *)
(* Statements queue on the connection and the server answers them in order. *)
(* A cancel request travels on a connection of its own: it may hit whatever *)
(* statement runs when it arrives, or none.  Event delivery is the subject  *)
(* of module QueryOutbox; here an execution just settles in the end.        *)
(***************************************************************************)
EXTENDS Naturals, Sequences

CONSTANTS
    Refreshers,     \* callers of refresh
    Pooled,         \* the endpoint is a transaction pooler
    Shapes,         \* shapes of the executions started
    MaxExecutions,  \* bound: executions
    MaxRefreshes,   \* bound: refresh calls
    MaxActions,     \* bound: COMMIT and ROLLBACK calls
    MaxStops,       \* bound: Stop requests
    MaxCloses       \* bound: 1 to let callers close the session, 0 not to

Senders == {"exec", "action", "close"}
Actors  == Senders \cup Refreshers
Probers == {"exec", "action"} \cup Refreshers

ASSUME SessionAssumption ==
    /\ Refreshers \cap Senders = {}
    /\ Pooled \in BOOLEAN
    /\ Shapes \subseteq {"script", "cursor", "bound"}
    /\ {MaxExecutions, MaxRefreshes, MaxActions, MaxStops, MaxCloses} \subseteq Nat

VARIABLES
    tx,         \* the server's transaction: "idle", "active" or "failed"
    owner,      \* who opened it: "nobody", "user" or "wrapper"
    fresh,      \* it was opened by the current execution's BEGIN
    cursor,     \* dbunk_query_cursor exists on the server
    wire,       \* requests sent and not yet answered
    reported,   \* the status in the last ReadyForQuery read
    cancels,    \* cancel requests under way to the server
    place,      \* position in wire of the request an actor waits for, or 0
    answer,     \* the answer an actor has received
    cached,     \* QueryTransactionSnapshot.status
    mode,       \* QueryTransactionSnapshot.mode
    started,    \* ProbeOrder.started
    applied,    \* ProbeOrder.applied
    probe,      \* observe_session of each prober: step, id, status
    running,    \* Credit.execution_id is set
    stop,       \* Credit.cancel_requested
    cleaning,   \* Credit.cleanup_started
    permit,     \* the execution holds a CleanupPermit
    pc,         \* where the execution is
    shape,      \* its ExecutionShape
    entry,      \* its TransactionEntry
    stmt,       \* the statement it is about
    outcome,    \* its Outcome so far
    tries,      \* ROLLBACKs sent by rollback()
    status,     \* status of its terminal event
    committed,  \* its wrapper's COMMIT took effect
    hits,       \* times a cancel or a timeout hit its cleanup, up to 2
    acting,     \* progress of transaction_action
    closed,     \* Outbox.closed
    closer,     \* progress of close_session
    calls       \* calls made so far, against the bounds

serverVars == <<tx, owner, fresh, cursor, committed>>
wireVars   == <<wire, reported, cancels, place, answer>>
probeVars  == <<started, applied, probe>>
creditVars == <<running, stop, cleaning, permit>>
taskVars   == <<pc, shape, entry, stmt, outcome, tries, status>>
closeVars  == <<closed, closer>>
vars == <<serverVars, wireVars, cached, mode, probeVars, creditVars, taskVars,
          hits, acting, closeVars, calls>>

-----------------------------------------------------------------------------
TxStates    == {"idle", "active", "failed"}
Statuses    == TxStates \cup {"unknown"}
UserSql     == {"begin", "declare", "fetch", "prepare", "execute", "script"}
CleanupSql  == {"commitCursor", "closeCursor", "commit", "rollback"}
Sql         == UserSql \cup CleanupSql \cup {"probe"}
Answers     == {"none", "ok", "rows", "error", "canceled", "driver"}
Outcomes    == {"none", "completed", "stopped", "refused", "failed", "failed57014"}
Steps       == {"idle", "start", "check", "send", "await", "cleanup", "finish",
                "probe", "settle", "abandon", "over"}
ProbeSteps  == {"none", "start", "send", "await", "apply"}
CloseSteps  == {"none", "mark", "cancel", "rollback", "await", "done"}
Requests    == [by : Senders \cup {"probe"}, sql : Sql]
Calls       == {"execute", "refresh", "act", "stop", "close"}
NoProbe     == [step |-> "none", id |-> 0, status |-> "unknown"]

ServerType ==
    /\ tx \in TxStates /\ owner \in {"nobody", "user", "wrapper"}
    /\ fresh \in BOOLEAN /\ cursor \in BOOLEAN /\ committed \in BOOLEAN

WireType ==
    /\ wire \in Seq(Requests) /\ reported \in TxStates /\ cancels \in Nat
    /\ place \in [Actors -> Nat] /\ answer \in [Actors -> Answers]

BeliefType ==
    /\ cached \in Statuses /\ mode \in {"autocommit", "manual"}
    /\ started \in Nat /\ applied \in Nat
    /\ probe \in [Probers -> [step : ProbeSteps, id : Nat, status : Statuses]]

CreditType ==
    running \in BOOLEAN /\ stop \in BOOLEAN /\ cleaning \in BOOLEAN /\ permit \in BOOLEAN

TaskType ==
    /\ pc \in Steps /\ shape \in {"script", "cursor", "bound"}
    /\ entry \in {"autocommit", "begin", "inside"}
    /\ stmt \in Sql /\ outcome \in Outcomes /\ tries \in Nat
    /\ status \in {"none", "completed", "cancelled", "failed"}
    /\ hits \in 0..2

CallerType ==
    /\ acting \in {"none", "await", "probe"}
    /\ closed \in BOOLEAN /\ closer \in CloseSteps
    /\ calls \in [Calls -> Nat]

TypeOK == ServerType /\ WireType /\ BeliefType /\ CreditType /\ TaskType /\ CallerType

\* A session just opened, its first ReadyForQuery read.
Init ==
    /\ tx = "idle" /\ owner = "nobody" /\ fresh = FALSE /\ cursor = FALSE
    /\ committed = FALSE
    /\ wire = <<>> /\ reported = "idle" /\ cancels = 0
    /\ place = [a \in Actors |-> 0] /\ answer = [a \in Actors |-> "none"]
    /\ cached = "idle" /\ mode = "autocommit"
    /\ started = 0 /\ applied = 0
    /\ probe = [a \in Probers |-> NoProbe]
    /\ running = FALSE /\ stop = FALSE /\ cleaning = FALSE /\ permit = FALSE
    /\ pc = "idle" /\ shape = "script" /\ entry = "autocommit" /\ stmt = "probe"
    /\ outcome = "none" /\ tries = 0 /\ status = "none" /\ hits = 0
    /\ acting = "none" /\ closed = FALSE /\ closer = "none"
    /\ calls = [c \in Calls |-> 0]

\* A call of the given kind, within its bound.
Call(kind, bound) ==
    /\ calls[kind] < bound
    /\ calls' = [calls EXCEPT ![kind] = @ + 1]

-----------------------------------------------------------------------------
(* The connection and the server behind it.                                 *)

\* An actor sends a request and waits for its answer.
Enqueue(a, by, sql) ==
    /\ wire' = Append(wire, [by |-> by, sql |-> sql])
    /\ place' = [place EXCEPT ![a] = Len(wire) + 1]
    /\ answer' = [answer EXCEPT ![a] = "none"]

Answered(a) == place[a] = 0

\* An actor's timeout drops its wait; the request stays on the wire.
GiveUp(a) ==
    /\ place[a] # 0
    /\ place' = [place EXCEPT ![a] = 0]

\* What the server can make of a statement, as answer and transaction after it.
\* An error aborts an open transaction; a failing COMMIT ends it, and one
\* cancelled before it began aborts it; a script may do anything.
Broken == IF tx = "idle" THEN "idle" ELSE "failed"

\* The wrapper of a cursor read opens with BEGIN; SET LOCAL ..., which can fail on
\* either side of its BEGIN.
HalfBegun == {Broken} \cup {t \in {"failed"} : shape = "cursor" /\ entry = "autocommit"}

Succeeds(sql) ==
    CASE sql = "probe"   -> {<<"ok", tx>>}
      [] sql = "script"  -> {"ok"} \X {"idle", "active"}
      [] sql = "begin"   -> IF tx = "failed" THEN {} ELSE {<<"ok", "active">>}
      [] sql = "declare" -> IF tx = "active" THEN {<<"ok", tx>>} ELSE {}
      [] sql = "fetch"   -> IF cursor THEN {"ok", "driver"} \X {tx} ELSE {}
      [] sql = "prepare" -> IF tx = "failed" THEN {} ELSE {"ok", "rows"} \X {tx}
      [] sql = "execute" -> IF tx = "failed" THEN {} ELSE {<<"ok", tx>>}
      [] sql = "closeCursor"  -> IF cursor THEN {<<"ok", tx>>} ELSE {}
      [] sql = "commitCursor" -> IF cursor THEN {<<"ok", "idle">>} ELSE {}
      [] OTHER -> {<<"ok", "idle">>}

Fails(sql) ==
    CASE sql \in {"probe", "rollback"} -> {}
      [] sql = "script" -> {"error", "canceled"} \X {"idle", "failed"}
      [] sql = "begin"  -> {"error"} \X HalfBegun
      [] sql \in {"commit", "commitCursor"} -> {"error"} \X {Broken, "idle"}
      [] sql = "closeCursor" -> {<<"error", Broken>>}
      \* statement_timeout raises the SQLSTATE of a cancel.
      [] OTHER -> {"error", "canceled"} \X {Broken}

IsCanceled(sql) ==
    {"canceled"} \X (CASE sql \in {"script", "commit", "commitCursor"} -> {Broken, "idle"}
                       [] sql = "begin" -> HalfBegun
                       [] OTHER -> {Broken})

Hit == hits' = IF hits < 2 THEN hits + 1 ELSE hits

\* The effect of one statement that ends with answer r in transaction state t.
\* The ReadyForQuery of a failed one may still be draining when the next
\* statement's sender looks at the reported status.
Effect(req, r, t) ==
    /\ tx' = t
    /\ owner' = IF t = "idle" THEN "nobody"
                ELSE IF req.sql = "script" THEN "user"
                ELSE IF tx # "idle" THEN owner
                ELSE IF entry = "autocommit" THEN "wrapper" ELSE "user"
    /\ fresh' = (t # "idle" /\ (fresh \/ (req.sql = "begin" /\ tx = "idle")))
    /\ cursor' = /\ t = "active"
                 /\ \/ cursor /\ ~(req.sql = "closeCursor" /\ r = "ok")
                    \/ req.sql = "declare" /\ r = "ok"
    /\ committed' = \/ committed
                    \/ /\ req.by = "exec" /\ req.sql \in {"commit", "commitCursor"}
                       /\ r = "ok" /\ tx = "active"
    /\ reported' \in IF r \in {"ok", "rows"} THEN {t} ELSE {reported, t}
    /\ wire' = Tail(wire)
    /\ place' = [a \in Actors |-> IF place[a] = 0 THEN 0 ELSE place[a] - 1]
    /\ answer' = [a \in Actors |-> IF place[a] = 1 THEN r ELSE answer[a]]

\* The server finishes the request at the head of the wire.
ServerAnswers ==
    /\ wire # <<>>
    /\ LET req == Head(wire) IN
       \E o \in Succeeds(req.sql) \cup Fails(req.sql) : Effect(req, o[1], o[2])
    /\ UNCHANGED <<cancels, cached, mode, probeVars, creditVars, taskVars, hits,
                   acting, closeVars, calls>>

\* A cancel request arrives while that statement runs.  An empty query runs
\* nothing that could be interrupted.
CancelLands ==
    /\ cancels > 0
    /\ cancels' = cancels - 1
    /\ wire # <<>> /\ Head(wire).sql # "probe"
    /\ LET req == Head(wire) IN
       /\ \E o \in IsCanceled(req.sql) : Effect(req, o[1], o[2])
       /\ IF req.sql \in CleanupSql THEN Hit ELSE UNCHANGED hits
    /\ UNCHANGED <<cached, mode, probeVars, creditVars, taskVars,
                   acting, closeVars, calls>>

\* A cancel request that finds no statement running is discarded, and so is one
\* whose own connection fails.
CancelDiscarded ==
    /\ cancels > 0
    /\ cancels' = cancels - 1
    /\ UNCHANGED <<serverVars, wire, reported, place, answer, cached, mode, probeVars,
                   creditVars, taskVars, hits, acting, closeVars, calls>>

-----------------------------------------------------------------------------
(* observe_session: number the probe, complete an empty query, read the     *)
(* status last reported, and cache it unless a later probe already was.     *)

ProbeStart(a) ==
    /\ probe[a].step = "start"
    /\ started' = started + 1
    /\ probe' = [probe EXCEPT ![a] = [@ EXCEPT !.step = "send", !.id = started + 1]]
    /\ UNCHANGED <<serverVars, wireVars, cached, mode, applied, creditVars, taskVars, hits,
                   acting, closeVars, calls>>

ProbeSend(a) ==
    /\ probe[a].step = "send"
    /\ Enqueue(a, "probe", "probe")
    /\ probe' = [probe EXCEPT ![a].step = "await"]
    /\ UNCHANGED <<serverVars, reported, cancels, cached, mode, started, applied, creditVars,
                   taskVars, hits, acting, closeVars, calls>>

\* The empty query completed, or was given up after two seconds.  (It fails only
\* with the connection, which then fails the execution too: see QueryOutbox.)
ProbeRead(a) ==
    /\ probe[a].step = "await"
    /\ \/ /\ Answered(a)
          /\ UNCHANGED place
          /\ probe' = [probe EXCEPT ![a] = [@ EXCEPT !.step = "apply", !.status = reported]]
       \/ /\ GiveUp(a)
          /\ probe' = [probe EXCEPT ![a] = [@ EXCEPT !.step = "apply", !.status = "unknown"]]
    /\ UNCHANGED <<serverVars, wire, reported, cancels, answer, cached, mode, started, applied,
                   creditVars, taskVars, hits, acting, closeVars, calls>>

\* Mutation of Admit: whichever probe comes last wins.
AdmitAny(a) ==
    /\ applied' = probe[a].id
    /\ cached' = probe[a].status

\* ProbeOrder::admit, under the lock of the snapshot.
Admit(a) ==
    \/ /\ applied < probe[a].id
       /\ applied' = probe[a].id
       /\ cached' = probe[a].status
    \/ /\ applied >= probe[a].id
       /\ UNCHANGED <<applied, cached>>

ProbeApply(a) ==
    /\ probe[a].step = "apply"
    /\ Admit(a)
    /\ probe' = [probe EXCEPT ![a] = NoProbe]
    /\ pc' = IF a = "exec" THEN "settle" ELSE pc
    /\ acting' = IF a = "action" THEN "none" ELSE acting
    /\ UNCHANGED <<serverVars, wireVars, mode, started, creditVars, shape, entry, stmt, outcome,
                   tries, status, hits, closeVars, calls>>

Probing(a) == ProbeStart(a) \/ ProbeSend(a) \/ ProbeRead(a) \/ ProbeApply(a)

-----------------------------------------------------------------------------
(* The execution.                                                           *)

Wrapper == entry = "autocommit"

\* The TransactionEntry run_execution picks from the admitted snapshot.
EntryOf(m, s) == IF s # "idle" THEN "inside"
                 ELSE IF m = "manual" THEN "begin" ELSE "autocommit"

\* Manager.execute.
Execute(sh) ==
    /\ acting = "none"
    /\ ~closed
    /\ ~running
    /\ cached # "unknown"
    /\ Call("execute", MaxExecutions)
    /\ running' = TRUE /\ stop' = FALSE /\ cleaning' = FALSE
    /\ shape' = sh /\ entry' = EntryOf(mode, cached)
    /\ pc' = "start" /\ stmt' = "probe" /\ outcome' = "none" /\ tries' = 0
    /\ status' = "none" /\ committed' = FALSE /\ fresh' = FALSE
    /\ hits' = IF owner = "wrapper" THEN hits ELSE 0
    /\ UNCHANGED <<tx, owner, cursor, wireVars, cached, mode, probeVars, permit, acting,
                   closeVars>>

\* Where an execution goes: on to a statement, with or without a checkpoint
\* before it, or to the end with an outcome.
ToCheck(s)  == pc' = "check" /\ stmt' = s /\ UNCHANGED <<outcome, tries, permit>>
ToSend(s)   == pc' = "send" /\ stmt' = s /\ UNCHANGED <<outcome, tries, permit>>
ToCleanup(o) == pc' = "cleanup" /\ outcome' = o /\ UNCHANGED <<stmt, tries, permit>>
ToRollback(o) == pc' = "send" /\ stmt' = "rollback" /\ outcome' = o /\ UNCHANGED <<tries, permit>>
Finish(o)   == pc' = "finish" /\ outcome' = o /\ permit' = FALSE /\ UNCHANGED <<stmt, tries>>

\* ExecutionStarted was delivered, or the session is gone; then the first
\* statement of the shape.
Begin ==
    /\ pc = "start"
    /\ \/ closed /\ pc' = "abandon" /\ UNCHANGED <<stmt, outcome, tries, permit>>
       \/ /\ ~closed
          /\ \/ /\ shape = "script"
                /\ ToSend(IF entry = "begin" THEN "begin" ELSE "script")
             \/ /\ shape = "cursor"
                /\ ToCheck(IF entry = "inside" THEN "declare" ELSE "begin")
             \/ /\ shape = "bound"
                /\ ToCheck(IF Pooled /\ entry # "inside" THEN "begin" ELSE "prepare")
    /\ UNCHANGED <<serverVars, wireVars, cached, mode, probeVars, running, stop, cleaning,
                   shape, entry, status, hits, acting, closeVars, calls>>

\* A Stop honoured between statements: what is open must be cleaned up.
Stopped ==
    \/ /\ shape = "cursor"
       /\ IF (IF Wrapper THEN stmt # "begin" ELSE stmt = "fetch")
          THEN ToCleanup("stopped") ELSE Finish("stopped")
    \/ /\ shape = "bound"
       /\ IF Pooled /\ stmt = "execute" /\ entry # "inside"
          THEN ToRollback("stopped") ELSE Finish("stopped")

\* ExecutionControl::checkpoint, before a statement of a statement-scoped shape.
Checkpoint ==
    /\ pc = "check"
    /\ \/ closed /\ pc' = "abandon" /\ UNCHANGED <<stmt, outcome, tries, permit>>
       \/ ~closed /\ stop /\ Stopped
       \/ ~closed /\ ~stop /\ ToSend(stmt)
    /\ UNCHANGED <<serverVars, wireVars, cached, mode, probeVars, running, stop, cleaning,
                   shape, entry, status, hits, acting, closeVars, calls>>

Send ==
    /\ pc = "send"
    /\ pc' = "await"
    /\ Enqueue("exec", "exec", stmt)
    /\ tries' = IF stmt = "rollback" THEN tries + 1 ELSE tries
    /\ UNCHANGED <<serverVars, reported, cancels, cached, mode, probeVars, creditVars,
                   shape, entry, stmt, outcome, status, hits, acting, closeVars, calls>>

Failure(r) == IF r = "canceled" THEN "failed57014" ELSE "failed"

AfterScript(r) ==
    IF r # "ok" THEN Finish(Failure(r))
    ELSE IF stmt = "begin" THEN ToSend("script") ELSE Finish("completed")

\* Mutation of AfterCursor: any error is taken to have closed the cursor.
AfterCursorTrusting(r) ==
    IF r = "ok"
    THEN \/ stmt = "begin" /\ ToCheck("declare")
         \/ stmt = "declare" /\ ToCheck("fetch")
         \/ stmt = "fetch" /\ ToCleanup("completed")
    ELSE IF Wrapper THEN ToCleanup(Failure(r)) ELSE Finish(Failure(r))

\* Run::cursor_read up to its cleanup.  In the user's transaction a server error
\* has closed the cursor already; a driver error has not.
AfterCursor(r) ==
    IF r = "ok"
    THEN \/ stmt = "begin" /\ ToCheck("declare")
         \/ stmt = "declare" /\ ToCheck("fetch")
         \/ stmt = "fetch" /\ ToCleanup("completed")
    ELSE IF Wrapper \/ (stmt = "fetch" /\ r = "driver")
         THEN ToCleanup(Failure(r)) ELSE Finish(Failure(r))

\* Run::bound_command.
AfterBound(r) ==
    IF r = "ok"
    THEN \/ stmt = "prepare" /\ ToCheck(IF entry = "begin" THEN "begin" ELSE "execute")
         \/ stmt = "begin" /\ ToCheck("execute")
         \/ stmt = "execute" /\ Finish("completed")
    ELSE Finish(IF r = "rows" THEN "refused" ELSE Failure(r))

\* Run::pooled_bound_command: one transaction around prepare and execute.
AfterPooled(r) ==
    \/ stmt = "begin" /\ IF r = "ok" THEN ToSend("prepare") ELSE Finish(Failure(r))
    \/ /\ stmt = "prepare"
       /\ LET o == IF r = "rows" THEN "refused" ELSE Failure(r) IN
          IF r = "ok" THEN ToCheck("execute")
          ELSE IF entry # "inside" THEN ToRollback(o) ELSE Finish(o)
    \/ /\ stmt = "execute"
       /\ IF r = "ok" THEN IF Wrapper THEN ToSend("commit") ELSE Finish("completed")
          ELSE IF Wrapper THEN ToRollback(Failure(r)) ELSE Finish(Failure(r))

\* Mutation of AfterCleanup: a ROLLBACK that a late cancel hit is not sent again.
AfterCleanupOnce(r) ==
    \/ /\ stmt \in {"commitCursor", "commit"}
       /\ IF r = "ok" THEN Finish("completed") ELSE ToRollback(Failure(r))
    \/ /\ stmt = "closeCursor"
       /\ Finish(IF outcome = "completed" /\ r # "ok" THEN Failure(r) ELSE outcome)
    \/ /\ stmt = "rollback"
       /\ Finish(outcome)

\* Mutation of AfterCleanup: the answer to the COMMIT is not looked at.
AfterCleanupIgnoresError(r) ==
    \/ /\ stmt \in {"commitCursor", "commit"}
       /\ Finish("completed")
    \/ /\ stmt = "closeCursor"
       /\ Finish(IF outcome = "completed" /\ r # "ok" THEN Failure(r) ELSE outcome)
    \/ /\ stmt = "rollback"
       /\ IF r = "canceled" /\ tries < 2 THEN ToSend("rollback") ELSE Finish(outcome)

\* The ends of cleanup() and rollback(); r is "timeout" when the wait was given up.
AfterCleanup(r) ==
    \/ /\ stmt \in {"commitCursor", "commit"}
       /\ IF r = "ok" THEN Finish("completed") ELSE ToRollback(Failure(r))
    \/ /\ stmt = "closeCursor"
       /\ Finish(IF outcome = "completed" /\ r # "ok" THEN Failure(r) ELSE outcome)
    \/ /\ stmt = "rollback"
       /\ IF r = "canceled" /\ tries < 2 THEN ToSend("rollback") ELSE Finish(outcome)

Receive ==
    /\ pc = "await"
    /\ Answered("exec")
    /\ LET r == answer["exec"] IN
       \/ stmt \in CleanupSql /\ AfterCleanup(r)
       \/ stmt \in UserSql /\ shape = "script" /\ AfterScript(r)
       \/ stmt \in UserSql /\ shape = "cursor" /\ AfterCursor(r)
       \/ stmt \in UserSql /\ shape = "bound" /\ ~Pooled /\ AfterBound(r)
       \/ stmt \in UserSql /\ shape = "bound" /\ Pooled /\ AfterPooled(r)
    /\ UNCHANGED <<serverVars, wireVars, cached, mode, probeVars, running, stop, cleaning,
                   shape, entry, status, hits, acting, closeVars, calls>>

\* Mutation of CleanupTimeout: only cleanup() has a timeout, rollback() has none.
CleanupTimeoutNotRollback ==
    /\ pc = "await"
    /\ stmt \in CleanupSql \ {"rollback"}
    /\ GiveUp("exec")
    /\ AfterCleanup("timeout")
    /\ Hit
    /\ UNCHANGED <<serverVars, wire, reported, cancels, answer, cached, mode, probeVars,
                   running, stop, cleaning, shape, entry, status, acting, closeVars, calls>>

\* CLEANUP_TIMEOUT.
CleanupTimeout ==
    /\ pc = "await"
    /\ stmt \in CleanupSql
    /\ GiveUp("exec")
    /\ AfterCleanup("timeout")
    /\ Hit
    /\ UNCHANGED <<serverVars, wire, reported, cancels, answer, cached, mode, probeVars,
                   running, stop, cleaning, shape, entry, status, acting, closeVars, calls>>

\* Mutation of BeginCleanup: a Stop that arrived during the FETCH is not looked at.
BeginCleanupIgnoresStop ==
    /\ pc = "cleanup"
    /\ \/ closed /\ pc' = "abandon" /\ UNCHANGED <<stmt, outcome, cleaning, permit>>
       \/ /\ ~closed
          /\ cleaning' = TRUE /\ permit' = TRUE
          /\ UNCHANGED outcome
          /\ stmt' = IF ~Wrapper THEN "closeCursor"
                     ELSE IF outcome = "completed" THEN "commitCursor" ELSE "rollback"
          /\ pc' = "send"
    /\ UNCHANGED <<serverVars, wireVars, cached, mode, probeVars, running, stop,
                   shape, entry, tries, status, hits, acting, closeVars, calls>>

\* Mutation of BeginCleanup: the transaction is ended whoever opened it.
BeginCleanupEndsAny ==
    /\ pc = "cleanup"
    /\ \/ closed /\ pc' = "abandon" /\ UNCHANGED <<stmt, outcome, cleaning, permit>>
       \/ /\ ~closed
          /\ cleaning' = TRUE /\ permit' = TRUE
          /\ outcome' = IF outcome = "completed" /\ stop THEN "stopped" ELSE outcome
          /\ stmt' = IF outcome' = "completed" THEN "commitCursor" ELSE "rollback"
          /\ pc' = "send"
    /\ UNCHANGED <<serverVars, wireVars, cached, mode, probeVars, running, stop,
                   shape, entry, tries, status, hits, acting, closeVars, calls>>

\* begin_cleanup: the permit holds the closed flag until cleanup is over and
\* the Stop flag is read under the lock that refuses later Stops.
BeginCleanup ==
    /\ pc = "cleanup"
    /\ \/ closed /\ pc' = "abandon" /\ UNCHANGED <<stmt, outcome, cleaning, permit>>
       \/ /\ ~closed
          /\ cleaning' = TRUE /\ permit' = TRUE
          /\ outcome' = IF outcome = "completed" /\ stop THEN "stopped" ELSE outcome
          /\ stmt' = IF ~Wrapper THEN "closeCursor"
                     ELSE IF outcome' = "completed" THEN "commitCursor" ELSE "rollback"
          /\ pc' = "send"
    /\ UNCHANGED <<serverVars, wireVars, cached, mode, probeVars, running, stop,
                   shape, entry, tries, status, hits, acting, closeVars, calls>>

\* run_execution names the outcome, then asks for the transaction status.
Conclude ==
    /\ pc = "finish"
    /\ status' = CASE outcome = "completed" -> "completed"
                   [] outcome = "stopped" -> "cancelled"
                   [] outcome = "failed57014" /\ stop -> "cancelled"
                   [] OTHER -> "failed"
    /\ pc' = "probe"
    /\ probe' = [probe EXCEPT !["exec"].step = "start"]
    /\ UNCHANGED <<serverVars, wireVars, cached, mode, started, applied, creditVars, shape,
                   entry, stmt, outcome, tries, hits, acting, closeVars, calls>>

\* The terminal event was delivered and acknowledged; it cannot be once the
\* session is closed.  Either way the task and its locals are gone.
Settle ==
    /\ pc = "settle"
    /\ \/ ~closed /\ pc' = "idle" /\ running' = FALSE
       \/ closed /\ pc' = "over" /\ UNCHANGED running
    /\ shape' = "script" /\ entry' = "autocommit" /\ stmt' = "probe"
    /\ outcome' = "none" /\ tries' = 0 /\ status' = "none" /\ committed' = FALSE
    /\ UNCHANGED <<tx, owner, fresh, cursor, wireVars, cached, mode, probeVars, stop, cleaning,
                   permit, hits, acting, closeVars, calls>>

\* Outcome::Abandoned, or a send that failed: the session is removed.
Abandon ==
    /\ pc = "abandon"
    /\ pc' = "over"
    /\ closer' = IF closer = "none" THEN "mark" ELSE closer
    /\ UNCHANGED <<serverVars, wireVars, cached, mode, probeVars, creditVars, shape,
                   entry, stmt, outcome, tries, status, hits, acting, closed, calls>>

-----------------------------------------------------------------------------
(* The session's other callers.                                             *)

\* Manager.cancel: the flag first, then the cancel request.
RequestCancel ==
    /\ acting = "none"
    /\ Call("stop", MaxStops)
    /\ running /\ ~cleaning
    /\ stop' = TRUE
    /\ cancels' = cancels + 1
    /\ UNCHANGED <<serverVars, wire, reported, place, answer, cached, mode, probeVars, running,
                   cleaning, permit, taskVars, hits, acting, closeVars>>

\* Manager.refresh found no execution running; it may start probing much later.
Refresh(r) ==
    /\ acting = "none"
    /\ Call("refresh", MaxRefreshes)
    /\ ~running
    /\ probe[r].step = "none"
    /\ probe' = [probe EXCEPT ![r].step = "start"]
    /\ UNCHANGED <<serverVars, wireVars, cached, mode, started, applied, creditVars, taskVars,
                   hits, acting, closeVars>>

\* Manager.set_mode.
SetMode ==
    /\ cached = "idle"
    /\ mode' = IF mode = "manual" THEN "autocommit" ELSE "manual"
    /\ UNCHANGED <<serverVars, wireVars, cached, probeVars, creditVars, taskVars, hits,
                   acting, closeVars, calls>>

\* Manager.transaction_action holds the sequence and credit locks to its end.
Act(sql) ==
    /\ acting = "none"
    /\ ~closed
    /\ ~running
    /\ IF sql = "commit" THEN cached = "active" ELSE cached # "idle"
    /\ Call("act", MaxActions)
    /\ Enqueue("action", "action", sql)
    /\ acting' = "await"
    /\ UNCHANGED <<serverVars, reported, cancels, cached, mode, probeVars, creditVars, taskVars,
                   hits, closeVars>>

\* A failed COMMIT or ROLLBACK returns at once; a successful one is followed by
\* a probe.
ActReceive ==
    /\ acting = "await"
    /\ Answered("action")
    /\ \/ /\ answer["action"] = "ok"
          /\ acting' = "probe"
          /\ probe' = [probe EXCEPT !["action"].step = "start"]
       \/ /\ answer["action"] # "ok"
          /\ acting' = "none"
          /\ UNCHANGED probe
    /\ UNCHANGED <<serverVars, wireVars, cached, mode, started, applied, creditVars, taskVars,
                   hits, closeVars, calls>>

\* The tab, the window, the lease monitor or a teardown removes the session.
CloseRequest ==
    /\ closer = "none"
    /\ Call("close", MaxCloses)
    /\ closer' = "mark"
    /\ UNCHANGED <<serverVars, wireVars, cached, mode, probeVars, creditVars, taskVars, hits,
                   acting, closed>>

\* Mutation of MarkClosed: cleanup in progress does not delay the close.
MarkClosedAtOnce ==
    /\ closer = "mark"
    /\ acting = "none"
    /\ closed' = TRUE
    /\ closer' = "cancel"
    /\ UNCHANGED <<serverVars, wireVars, cached, mode, probeVars, creditVars, taskVars, hits,
                   acting, calls>>

\* mark_closed needs the sequence lock and the flag the permit holds.
MarkClosed ==
    /\ closer = "mark"
    /\ acting = "none"
    /\ ~permit
    /\ closed' = TRUE
    /\ closer' = "cancel"
    /\ UNCHANGED <<serverVars, wireVars, cached, mode, probeVars, creditVars, taskVars, hits,
                   acting, calls>>

CloseCancel ==
    /\ closer = "cancel"
    /\ closer' = "rollback"
    /\ cancels' = IF running THEN cancels + 1 ELSE cancels
    /\ UNCHANGED <<serverVars, wire, reported, place, answer, cached, mode, probeVars, creditVars,
                   taskVars, hits, acting, closed, calls>>

CloseRollback ==
    /\ closer = "rollback"
    /\ \/ /\ cached # "idle"
          /\ Enqueue("close", "close", "rollback")
          /\ closer' = "await"
       \/ /\ cached = "idle"
          /\ closer' = "done"
          /\ UNCHANGED <<wire, place, answer>>
    /\ UNCHANGED <<serverVars, reported, cancels, cached, mode, probeVars, creditVars, taskVars,
                   hits, acting, closed, calls>>

CloseReceive ==
    /\ closer = "await"
    /\ \/ Answered("close") /\ UNCHANGED place
       \/ GiveUp("close")
    /\ closer' = "done"
    /\ UNCHANGED <<serverVars, wire, reported, cancels, answer, cached, mode, probeVars,
                   creditVars, taskVars, hits, acting, closed, calls>>

-----------------------------------------------------------------------------
ExecStep ==
    \/ Begin \/ Checkpoint \/ Send \/ Receive \/ CleanupTimeout \/ BeginCleanup
    \/ Conclude \/ Settle \/ Abandon

CallStep ==
    \/ \E sh \in Shapes : Execute(sh)
    \/ \E r \in Refreshers : Refresh(r)
    \/ RequestCancel \/ SetMode \/ Act("commit") \/ Act("rollback") \/ CloseRequest

CloseStep == MarkClosed \/ CloseCancel \/ CloseRollback \/ CloseReceive

Next ==
    \/ ServerAnswers \/ CancelLands \/ CancelDiscarded
    \/ \E a \in Probers : Probing(a)
    \/ ExecStep \/ ActReceive \/ CloseStep \/ CallStep

Spec == Init /\ [][Next]_vars

\* Tasks are polled and their timers fire; nothing is assumed of the server.
Fairness ==
    /\ WF_vars(ExecStep)
    /\ WF_vars(CloseStep)
    /\ WF_vars(ActReceive)
    /\ WF_vars(Probing("action"))

FairSpec == Spec /\ Fairness

-----------------------------------------------------------------------------
(* What must hold.                                                          *)

\* A cached Idle is the truth whenever an execution could be admitted on it,
\* however probes, timed-out statements and late cancels interleaved before:
\* a cursor read wraps, and commits, a transaction of its own on that belief.
IdleIsTrue == pc \in {"idle", "settle"} /\ cached = "idle" => tx = "idle"

\* The probes whose answer will still count: those numbered from the running
\* execution's own probe on, or, between executions, those not yet overtaken.
Counts(id) ==
    \/ pc \in {"idle", "settle"} /\ id > applied
    \/ pc = "probe" /\ probe["exec"].step # "start" /\ id >= probe["exec"].id

OpenerSql == {"begin", "script"}

\* Probes are numbered as they start, and a task's own probe is part of it.
ProbesNumbered ==
    /\ applied <= started
    /\ \A a \in Probers : probe[a].id <= started
    /\ probe["exec"].step # "none" <=> pc = "probe"
    /\ probe["action"].step # "none" <=> acting = "probe"

\* An execution keeps its slot until it is over.
SlotHeld == pc # "idle" => running

\* Whoever waits for an answer waits for the request it sent.
WaitsMatch ==
    /\ pc = "await" /\ place["exec"] # 0
         => place["exec"] <= Len(wire) /\ wire[place["exec"]].sql = stmt
    /\ \A a \in Probers : probe[a].step = "await" /\ place[a] # 0
         => place[a] <= Len(wire) /\ wire[place[a]].sql = "probe"

\* Only a statement the execution is waiting for can open a transaction.
OpenersAwaited ==
    \A i \in 1..Len(wire) :
        wire[i].sql \in OpenerSql => pc = "await" /\ place["exec"] = i

\* An Idle that a probe that counts has cached, read or is about to read is true.
IdleReads ==
    /\ pc = "probe" /\ probe["exec"].step # "start" /\ applied >= probe["exec"].id
         /\ cached = "idle" => tx = "idle"
    /\ \A a \in Probers : Counts(probe[a].id) =>
         /\ probe[a].step = "apply" /\ probe[a].status = "idle" => tx = "idle"
         /\ probe[a].step = "await" /\ place[a] = 0 /\ reported = "idle" => tx = "idle"

\* The inductive invariant behind IdleIsTrue.
IdleInv ==
    /\ TypeOK
    /\ IdleIsTrue
    /\ SlotHeld
    /\ ProbesNumbered
    /\ WaitsMatch
    /\ OpenersAwaited
    /\ IdleReads

\* The COMMITs and ROLLBACKs an execution sends by itself end a transaction that
\* this execution opened, or nothing: never one the user opened before.  That
\* includes one whose wait timed out and that the server reaches much later.
CleanupSparesUser ==
    [][wire # <<>> /\ wire' = Tail(wire) /\ Head(wire).by = "exec"
         /\ Head(wire).sql \in {"commit", "commitCursor", "rollback"} /\ tx # "idle"
         => owner = "wrapper" \/ fresh]_vars

\* Holding the CleanupPermit, nothing of an execution's own cleanup is sent to
\* the server after the session closed.
NoCleanupAfterClose ==
    [][closed /\ Len(wire') > Len(wire)
         => ~(wire'[Len(wire')].by = "exec" /\ wire'[Len(wire')].sql \in CleanupSql)]_vars

\* What an execution in a wrapper transaction reports is what became of that
\* transaction: completed ones are committed and cancelled ones are not.  The COMMIT
\* of a bound command holds no permit, so the ROLLBACK of a closing session may
\* overtake it; that session reports nothing any more.
StatusTellsCommit ==
    Wrapper /\ (shape = "cursor" \/ (shape = "bound" /\ Pooled))
        => /\ status = "completed" /\ (~closed \/ shape = "cursor") => committed
           /\ status = "cancelled" => ~committed

\* A Stop the session accepted (request_cancel returned true) keeps a cursor
\* read's wrapper from committing, although the server lost the cancel.
AcceptedStopUndoes == shape = "cursor" /\ committed => ~stop

\* A wrapper transaction outlives its execution only when two late cancels or
\* timeouts hit its cleanup, or while its ROLLBACK is still on the wire.
WrapperEnds ==
    pc \in {"settle", "idle"} /\ owner = "wrapper"
        => hits >= 2 \/ \E i \in DOMAIN wire : wire[i].sql = "rollback"

\* The cursor a read declared in the user's transaction does not outlive it.
NoCursorLeft ==
    pc \in {"settle", "idle"} /\ cursor
        => \E i \in DOMAIN wire : wire[i].sql \in CleanupSql

\* What an execution opened on the shared connection ends with it: neither a
\* wrapper nor a cursor is left for the next one, but for a cleanup still to come.
NothingLeft == WrapperEnds /\ NoCursorLeft

\* Closing never waits for the server while an execution cleans up: the permit
\* is given back after bounded waits even if no statement is ever answered.  The
\* one wait it shares with the server is transaction_action's, which holds the
\* sequence lock without a timeout: the close completes unless a COMMIT or
\* ROLLBACK button stays unanswered for ever.
CloseCompletes ==
    []<>(acting # "await") => (closer = "mark" ~> closer = "done")

\* TransactionEntry::Inside: a transaction is already open or failed.
InsideIsInside == pc = "start" /\ entry = "inside" => tx # "idle"
=============================================================================
