---------------------------- MODULE QueryOutbox -----------------------------
(***************************************************************************)
(* Event delivery of one PostgreSQL query session: the Outbox of            *)
(* backend/src/query_session/mod.rs (sequence numbers, credit window,       *)
(* closed flag, wakeups), the run_execution task that feeds it, the ways a  *)
(* session is closed, and the native document that consumes the stream and  *)
(* acknowledges it through a one-cell watch channel.                        *)
(*                                                                          *)
(* One action is one critical section.  The code's lock order is            *)
(* sequence, closed, credit; what runs under the sequence lock (a send, the *)
(* closed transition) is one step, while the two reads of credit_gate and   *)
(* the notify_waiters that follow an unlocked change are steps of their own. *)
(* The transaction the execution runs in is the subject of module           *)
(* SessionTransaction; here an execution is a source of driver events.      *)
(***************************************************************************)
EXTENDS Naturals, Sequences, FiniteSets, FiniteSetsExt

CONSTANTS
    Window,         \* row batches that may be unacknowledged (4 in the code)
    ByteBudget,     \* bytes that may be unacknowledged (4 MiB in the code)
    BatchSizes,     \* encoded sizes a row batch can have
    MaxExecutions,  \* bound: executions the document starts
    MaxEvents       \* bound: row batches of all executions together; an
                    \* event that needs no credit uses up two of them

ASSUME OutboxAssumption ==
    /\ Window \in Nat \ {0}
    /\ ByteBudget \in Nat
    /\ BatchSizes \subseteq 1..ByteBudget
    /\ MaxExecutions \in Nat
    /\ MaxEvents \in Nat

VARIABLES
    seq,          \* Outbox.sequence
    closed,       \* Outbox.closed
    outstanding,  \* Credit.outstanding: the queue, as the set of its entries
    executionId,  \* Credit.execution_id, 0 for None
    terminal,     \* Credit.terminal_sequence, 0 for None
    retain,       \* Credit.retain_more_rows
    lastAcked,    \* Credit.last_acked_sequence
    pc,           \* where the run_execution task is
    gate,         \* which wait on the credit window it is in
    size,         \* encoded size of the batch it holds
    emitted,      \* what the driver's events have used up of MaxEvents
    woken,        \* its armed Notified future has completed
    acking,       \* the acknowledgement applied but not yet notified
    removed,      \* the session has left ManagerState.sessions
    closer,       \* progress of the close_session that follows
    emit,         \* close_session will report SessionClosed
    expiring,     \* the lease monitor is between its check and its removal
    inbox,        \* the document's mailbox
    sinkFailed,   \* the mailbox has failed; the failure is sticky
    execs,        \* executions the document has started
    cSeq,         \* Stream.sequence of the document
    cExec,        \* the document's current execution, 0 for none
    cTerminal,    \* sequence of its terminal event, 0 for none
    cRetain,      \* the result model still retains rows
    cell,         \* the acknowledgement watch channel
    connected,    \* the document still follows the session
    gap,          \* the document saw a sequence gap
    refused       \* an acknowledgement of the document was refused

outboxVars == <<seq, closed, outstanding, executionId, terminal, retain, lastAcked>>
taskVars   == <<pc, gate, size, emitted, woken>>
closeVars  == <<removed, closer, emit, expiring>>
sinkVars   == <<inbox, sinkFailed>>
docVars    == <<execs, cSeq, cExec, cTerminal, cRetain, cell, connected, gap, refused>>
vars == <<outboxVars, taskVars, acking, closeVars, sinkVars, docVars>>

-----------------------------------------------------------------------------
TaskSteps == {"idle", "start", "receive", "arm", "readClosed", "readCredit",
              "wait", "push", "terminal", "lost", "remove"}
CloseSteps == {"none", "mark", "notify", "report", "done"}
EventKinds == {"meta", "row", "terminal", "lost", "closed", "acked"}

\* QueryEventEnvelope, with the payload reduced to its kind.  "meta" stands for
\* SessionState, ExecutionStarted, ResultSetStarted, ResultSetCompleted and
\* Notice, which need no acknowledgement; "acked" is the worker's own reply.
Event(kind, exec, n) == [kind |-> kind, exec |-> exec, seq |-> n]
Events == [kind : EventKinds, exec : Nat, seq : Nat]

NoAck == [exec |-> 0, seq |-> 0, keep |-> TRUE]
AckPayloads == [exec : Nat, seq : Nat, keep : BOOLEAN]

Batches == [seq : Nat, bytes : BatchSizes \cup {0}]

TypeOK ==
    /\ seq \in Nat /\ closed \in BOOLEAN
    /\ outstanding \subseteq Batches /\ IsFiniteSet(outstanding)
    /\ executionId \in Nat /\ terminal \in Nat
    /\ retain \in BOOLEAN /\ lastAcked \in Nat
    /\ pc \in TaskSteps /\ gate \in {"row", "drain"}
    /\ size \in BatchSizes \cup {0} /\ emitted \in Nat /\ woken \in BOOLEAN
    /\ acking \in AckPayloads
    /\ removed \in BOOLEAN /\ closer \in CloseSteps /\ emit \in BOOLEAN
    /\ expiring \in {"no", "report", "remove"}
    /\ inbox \in Seq(Events) /\ sinkFailed \in BOOLEAN
    /\ execs \in Nat /\ cSeq \in Nat /\ cExec \in Nat /\ cTerminal \in Nat
    /\ cRetain \in BOOLEAN /\ cell \in AckPayloads
    /\ connected \in BOOLEAN /\ gap \in BOOLEAN /\ refused \in BOOLEAN

\* Manager.open has installed the session and delivered its SessionState.
Init ==
    /\ seq = 1 /\ closed = FALSE
    /\ outstanding = {} /\ executionId = 0 /\ terminal = 0
    /\ retain = TRUE /\ lastAcked = 0
    /\ pc = "idle" /\ gate = "row" /\ size = 0 /\ emitted = 0 /\ woken = FALSE
    /\ acking = NoAck
    /\ removed = FALSE /\ closer = "none" /\ emit = FALSE /\ expiring = "no"
    /\ inbox = <<Event("meta", 0, 1)>> /\ sinkFailed = FALSE
    /\ execs = 0 /\ cSeq = 0 /\ cExec = 0 /\ cTerminal = 0
    /\ cRetain = TRUE /\ cell = NoAck
    /\ connected = TRUE /\ gap = FALSE /\ refused = FALSE

-----------------------------------------------------------------------------
(* The mailbox: a send is delivered in order, or it fails and so does every *)
(* later one.                                                               *)

SinkAccepts(e) ==
    /\ ~sinkFailed
    /\ inbox' = Append(inbox, e)
    /\ UNCHANGED sinkFailed

\* Mutation of SinkRejects: a full mailbox refuses one event and forgets it.
SinkRejectsOnce == UNCHANGED <<inbox, sinkFailed>>

SinkRejects ==
    /\ sinkFailed' = TRUE
    /\ UNCHANGED inbox

-----------------------------------------------------------------------------
(* Outbox operations.  A send takes its number before the sink is asked, so  *)
(* a refused send still uses the number up.                                 *)

\* Mutation of SendPlain: the closed flag is not looked at under the lock.
SendPlainUnchecked(kind, exec, ok, failed) ==
    /\ seq' = seq + 1
    /\ \/ SinkAccepts(Event(kind, exec, seq + 1)) /\ pc' = ok
       \/ SinkRejects /\ pc' = failed

\* send: an event outside the credit window.
SendPlain(kind, exec, ok, failed) ==
    \/ /\ closed
       /\ pc' = failed
       /\ UNCHANGED <<seq, sinkVars>>
    \/ /\ ~closed
       /\ seq' = seq + 1
       /\ \/ SinkAccepts(Event(kind, exec, seq + 1)) /\ pc' = ok
          \/ SinkRejects /\ pc' = failed

SumBytes(batches) == MapThenSumSet(LAMBDA o : o.bytes, batches)

UsedBytes == SumBytes(outstanding)

\* Mutation of FitsWindow: the batch at hand is not counted in bytes.
FitsWindowOwnBytes ==
    /\ Cardinality(outstanding) < Window
    /\ UsedBytes <= ByteBudget

\* The closure send_with_credit passes to credit_gate.
FitsWindow ==
    /\ Cardinality(outstanding) < Window
    /\ UsedBytes + size <= ByteBudget

\* Mutation of MaxAckable: only row batches can be acknowledged.
MaxAckableRows ==
    IF outstanding # {} THEN Max({o.seq : o \in outstanding}) ELSE 0

\* The last sequence an acknowledgement may name, 0 when there is none.
MaxAckable ==
    IF terminal # 0 THEN terminal
    ELSE IF outstanding # {} THEN Max({o.seq : o \in outstanding})
    ELSE 0

AckValid(ack) ==
    /\ executionId = ack.exec
    /\ ack.seq <= seq
    /\ ack.seq > lastAcked
    /\ ack.seq <= MaxAckable

\* Mutation of AckUnnotified: the slot is freed when no row is left unacknowledged.
AckUnnotifiedEager(ack) ==
    /\ AckValid(ack)
    /\ outstanding' = {o \in outstanding : o.seq > ack.seq}
    /\ retain' = (retain /\ ack.keep)
    /\ lastAcked' = ack.seq
    /\ executionId' = IF outstanding' = {} THEN 0 ELSE executionId
    /\ terminal' = IF outstanding' = {} THEN 0 ELSE terminal
    /\ UNCHANGED <<seq, closed>>

\* The accepting path of Outbox::acknowledge, up to its notify_waiters.
AckUnnotified(ack) ==
    /\ AckValid(ack)
    /\ outstanding' = {o \in outstanding : o.seq > ack.seq}
    /\ retain' = (retain /\ ack.keep)
    /\ lastAcked' = ack.seq
    /\ executionId' = IF terminal = ack.seq THEN 0 ELSE executionId
    /\ terminal' = IF terminal = ack.seq THEN 0 ELSE terminal
    /\ UNCHANGED <<seq, closed>>

Acknowledge(ack) ==
    /\ AckUnnotified(ack)
    /\ acking' = ack

\* Credit::begin, under the locks of Manager.execute.
BeginCredit(exec) ==
    /\ executionId' = exec
    /\ terminal' = 0
    /\ retain' = TRUE
    /\ lastAcked' = 0

-----------------------------------------------------------------------------
(* The run_execution task.                                                  *)

\* ExecutionStarted.
RunStart ==
    /\ pc = "start"
    /\ SendPlain("meta", execs, "receive", "remove")
    /\ UNCHANGED <<closed, outstanding, executionId, terminal, retain, lastAcked,
                   gate, size, emitted, woken, acking, closeVars, docVars>>

\* The driver hands over an event that needs no credit.
RunMeta ==
    /\ pc = "receive"
    /\ emitted + 1 < MaxEvents
    /\ emitted' = emitted + 2
    /\ SendPlain("meta", execs, "receive", "remove")
    /\ UNCHANGED <<closed, outstanding, executionId, terminal, retain, lastAcked,
                   gate, size, woken, acking, closeVars, docVars>>

\* The driver hands over a row batch; send_with_credit measures it.
RunBatch ==
    /\ pc = "receive"
    /\ emitted < MaxEvents
    /\ emitted' = emitted + 1
    /\ size' \in BatchSizes
    /\ gate' = "row"
    /\ pc' = "arm"
    /\ UNCHANGED <<outboxVars, woken, acking, closeVars, sinkVars, docVars>>

\* The driver reports how the execution ended: with a terminal event to send
\* once the rows are acknowledged, with a lost connection, or abandoned
\* because the session closed under it.
RunFinish ==
    /\ pc = "receive"
    /\ \/ gate' = "drain" /\ pc' = "arm"
       \/ pc' = "lost" /\ UNCHANGED gate
       \/ closed /\ pc' = "remove" /\ UNCHANGED gate
    /\ UNCHANGED <<outboxVars, size, emitted, woken, acking, closeVars, sinkVars, docVars>>

\* credit_gate, first: the wakeup is armed before anything is read.
GateArm ==
    /\ pc = "arm"
    /\ woken' = FALSE
    /\ pc' = "readClosed"
    /\ UNCHANGED <<outboxVars, gate, size, emitted, acking, closeVars, sinkVars, docVars>>

\* credit_gate, second: the closed flag.  A closed row send fails the task; the
\* drain before the terminal event just ends.
GateReadClosed ==
    /\ pc = "readClosed"
    /\ pc' = IF ~closed THEN "readCredit"
             ELSE IF gate = "row" THEN "remove" ELSE "terminal"
    /\ UNCHANGED <<outboxVars, gate, size, emitted, woken, acking, closeVars, sinkVars, docVars>>

\* Mutation of GateReadCredit: the wakeup is armed when the task decides to wait.
GateReadCreditArmsLate ==
    /\ pc = "readCredit"
    /\ \/ /\ gate = "row"
          /\ pc' = IF ~retain THEN "receive" ELSE IF FitsWindow THEN "push" ELSE "wait"
       \/ /\ gate = "drain"
          /\ pc' = IF outstanding = {} THEN "terminal" ELSE "wait"
    /\ woken' = (woken /\ pc' # "wait")
    /\ UNCHANGED <<outboxVars, gate, size, emitted, acking, closeVars, sinkVars, docVars>>

\* credit_gate, third: the window, as the caller's closure judges it.  A batch
\* of a stream that no longer retains rows is dropped.
GateReadCredit ==
    /\ pc = "readCredit"
    /\ \/ /\ gate = "row"
          /\ pc' = IF ~retain THEN "receive" ELSE IF FitsWindow THEN "push" ELSE "wait"
       \/ /\ gate = "drain"
          /\ pc' = IF outstanding = {} THEN "terminal" ELSE "wait"
    /\ UNCHANGED <<outboxVars, gate, size, emitted, woken, acking, closeVars, sinkVars, docVars>>

\* The task parks on its armed Notified and then looks again.
GateWait ==
    /\ pc = "wait"
    /\ woken
    /\ pc' = "arm"
    /\ UNCHANGED <<outboxVars, gate, size, emitted, woken, acking, closeVars, sinkVars, docVars>>

\* Mutation of PushBatch: the batch joins the window before the closed flag is read.
PushBatchCountedEarly ==
    /\ pc = "push"
    /\ outstanding' = outstanding \cup {[seq |-> seq + 1, bytes |-> size]}
    /\ \/ /\ closed
          /\ pc' = "remove"
          /\ UNCHANGED <<seq, sinkVars>>
       \/ /\ ~closed
          /\ seq' = seq + 1
          /\ SinkAccepts(Event("row", execs, seq + 1))
          /\ pc' = "receive"
    /\ size' = 0 /\ woken' = FALSE
    /\ UNCHANGED <<closed, executionId, terminal, retain, lastAcked,
                   gate, emitted, acking, closeVars, docVars>>

\* send_with_credit, after the gate: a batch the sink refuses leaves the window.
\* Its locals, the size and the Notified, end with it.
PushBatch ==
    /\ pc = "push"
    /\ \/ /\ closed
          /\ pc' = "remove"
          /\ UNCHANGED <<seq, outstanding, sinkVars>>
       \/ /\ ~closed
          /\ seq' = seq + 1
          /\ \/ /\ SinkAccepts(Event("row", execs, seq + 1))
                /\ outstanding' = outstanding \cup {[seq |-> seq + 1, bytes |-> size]}
                /\ pc' = "receive"
             \/ /\ SinkRejects
                /\ UNCHANGED outstanding
                /\ pc' = "remove"
    /\ size' = 0 /\ woken' = FALSE
    /\ UNCHANGED <<closed, executionId, terminal, retain, lastAcked,
                   gate, emitted, acking, closeVars, docVars>>

\* send_terminal; it is the task's last step unless it fails.
SendTerminal ==
    /\ pc = "terminal"
    /\ \/ /\ closed
          /\ pc' = "remove"
          /\ UNCHANGED <<seq, terminal, sinkVars>>
       \/ /\ ~closed
          /\ seq' = seq + 1
          /\ \/ /\ SinkAccepts(Event("terminal", execs, seq + 1))
                /\ terminal' = seq + 1
                /\ pc' = "idle"
             \/ /\ SinkRejects
                /\ terminal' = 0
                /\ pc' = "remove"
    /\ gate' = "row" /\ woken' = FALSE
    /\ UNCHANGED <<closed, outstanding, executionId, retain, lastAcked,
                   size, emitted, acking, closeVars, docVars>>

\* The connection was lost: SessionLost, delivered or not, then removal.
RunLost ==
    /\ pc = "lost"
    /\ SendPlain("lost", 0, "remove", "remove")
    /\ UNCHANGED <<closed, outstanding, executionId, terminal, retain, lastAcked,
                   gate, size, emitted, woken, acking, closeVars, docVars>>

-----------------------------------------------------------------------------
(* Closing.  Whoever removes the session from the map runs close_session.    *)

RemoveAndClose(report) ==
    IF removed
    THEN UNCHANGED <<removed, closer, emit>>
    ELSE removed' = TRUE /\ closer' = "mark" /\ emit' = report

RunRemove ==
    /\ pc = "remove"
    /\ RemoveAndClose(FALSE)
    /\ pc' = "idle"
    /\ UNCHANGED <<outboxVars, gate, size, emitted, woken, acking, expiring, sinkVars, docVars>>

\* mark_closed, under the sequence and closed locks.
MarkClosed ==
    /\ closer = "mark"
    /\ closed' = TRUE
    /\ closer' = IF closed THEN "done" ELSE "notify"
    /\ UNCHANGED <<seq, outstanding, executionId, terminal, retain, lastAcked,
                   taskVars, acking, removed, emit, expiring, sinkVars, docVars>>

\* notify_waiters: it completes an armed Notified and is lost without one.
Notify == woken' = IF pc \in {"readClosed", "readCredit", "wait"} THEN TRUE ELSE woken

NotifyAfterClose ==
    /\ closer = "notify"
    /\ closer' = "report"
    /\ Notify
    /\ UNCHANGED <<outboxVars, pc, gate, size, emitted, acking, removed, emit, expiring,
                   sinkVars, docVars>>

\* The end of close_session: SessionClosed for a close the document asked for.
ReportClosed ==
    /\ closer = "report"
    /\ closer' = "done"
    /\ IF emit
       THEN seq' = seq + 1 /\ (SinkAccepts(Event("closed", 0, seq + 1)) \/ SinkRejects)
       ELSE UNCHANGED <<seq, sinkVars>>
    /\ UNCHANGED <<closed, outstanding, executionId, terminal, retain, lastAcked,
                   taskVars, acking, removed, emit, expiring, docVars>>

\* expire_stalled works on a copy of the session map: a lease that looks expired
\* is acted on after the locks are gone.  A frozen host can miss any lease.
ExpireCheck ==
    /\ expiring = "no"
    /\ ~removed
    /\ expiring' = "report"
    /\ UNCHANGED <<outboxVars, taskVars, acking, removed, closer, emit, sinkVars, docVars>>

ExpireReport ==
    /\ expiring = "report"
    /\ expiring' = "remove"
    /\ IF closed
       THEN UNCHANGED <<seq, sinkVars>>
       ELSE seq' = seq + 1 /\ (SinkAccepts(Event("lost", 0, seq + 1)) \/ SinkRejects)
    /\ UNCHANGED <<closed, outstanding, executionId, terminal, retain, lastAcked,
                   taskVars, acking, removed, closer, emit, docVars>>

ExpireRemove ==
    /\ expiring = "remove"
    /\ RemoveAndClose(FALSE)
    /\ expiring' = "no"
    /\ UNCHANGED <<outboxVars, taskVars, acking, sinkVars, docVars>>

-----------------------------------------------------------------------------
(* The native document: its worker's commands and its event handler.        *)

\* Run, accepted by Manager.execute.  The session was looked up before its
\* locks were taken, so it may have left the map since; only closed decides.
Execute ==
    /\ connected /\ cExec = 0 /\ cSeq > 0
    /\ execs < MaxExecutions
    /\ ~closed
    /\ executionId = 0
    /\ execs' = execs + 1
    /\ BeginCredit(execs + 1)
    /\ pc' = "start"
    /\ cExec' = execs + 1 /\ cTerminal' = 0 /\ cRetain' = TRUE
    /\ UNCHANGED <<seq, closed, outstanding, gate, size, emitted, woken, acking, closeVars, sinkVars,
                   cSeq, cell, connected, gap, refused>>

\* Mutation of AdmitEvent: only row batches are acknowledged.
AdmitEventRowAcks(e) ==
    /\ cSeq' = e.seq
    /\ UNCHANGED gap
    /\ connected' = (connected /\ e.kind \notin {"lost", "closed"})
    /\ cTerminal' = IF e.kind = "terminal" THEN e.seq ELSE cTerminal
    /\ cRetain' \in {cRetain, FALSE}
    /\ cell' = IF e.kind = "row"
               THEN [exec |-> e.exec, seq |-> e.seq, keep |-> cRetain'] ELSE cell

\* Stream::admit: events of another execution advance the sequence and no more.
AdmitEvent(e) ==
    /\ cSeq' = e.seq
    /\ UNCHANGED gap
    /\ \/ /\ e.exec \notin {0, cExec}
          /\ UNCHANGED <<cTerminal, cRetain, cell, connected>>
       \/ /\ e.exec \in {0, cExec}
          /\ \/ /\ e.kind \in {"lost", "closed"}
                /\ connected' = FALSE
                /\ UNCHANGED <<cTerminal, cRetain, cell>>
             \/ /\ e.kind = "meta"
                /\ UNCHANGED <<cTerminal, cRetain, cell, connected>>
             \/ /\ e.kind = "row"
                /\ cRetain' \in {cRetain, FALSE}
                /\ cell' = [exec |-> e.exec, seq |-> e.seq, keep |-> cRetain']
                /\ UNCHANGED <<cTerminal, connected>>
             \/ /\ e.kind = "terminal"
                /\ cTerminal' = e.seq
                /\ cell' = [exec |-> e.exec, seq |-> e.seq, keep |-> cRetain]
                /\ UNCHANGED <<cRetain, connected>>

\* The document handles the next message.  A gap ends the session for it.
DocReceive ==
    /\ connected
    /\ inbox # <<>>
    /\ inbox' = Tail(inbox)
    /\ LET e == Head(inbox) IN
       \/ /\ e.kind = "acked"
          /\ LET settled == e.exec = cExec /\ cTerminal # 0 /\ e.seq >= cTerminal IN
             /\ cExec' = IF settled THEN 0 ELSE cExec
             /\ cTerminal' = IF settled THEN 0 ELSE cTerminal
          /\ UNCHANGED <<cSeq, cRetain, cell, connected, gap>>
       \/ /\ e.kind # "acked"
          /\ UNCHANGED cExec
          /\ \/ e.seq <= cSeq /\ UNCHANGED <<cSeq, cTerminal, cRetain, cell, connected, gap>>
             \/ e.seq = cSeq + 1 /\ AdmitEvent(e)
             \/ /\ e.seq > cSeq + 1
                /\ gap' = TRUE /\ connected' = FALSE
                /\ UNCHANGED <<cSeq, cTerminal, cRetain, cell>>
    /\ UNCHANGED <<outboxVars, taskVars, acking, closeVars, sinkFailed, execs, refused>>

\* The worker takes the newest acknowledgement; earlier ones the document wrote
\* since are covered by it.  A refusal ends the worker, and so does a session
\* that is no longer in the map.
DocAck ==
    /\ connected
    /\ cell # NoAck /\ acking = NoAck
    /\ cell' = NoAck
    /\ \/ /\ Acknowledge(cell)
          /\ UNCHANGED <<connected, refused>>
       \/ /\ ~AckValid(cell)
          /\ connected' = FALSE /\ refused' = TRUE
          /\ UNCHANGED <<outboxVars, acking>>
       \/ /\ removed
          /\ connected' = FALSE
          /\ UNCHANGED <<outboxVars, acking, refused>>
    /\ UNCHANGED <<taskVars, closeVars, sinkVars, execs, cSeq, cExec, cTerminal, cRetain, gap>>

\* The end of Outbox::acknowledge, and the worker's reply to its document.
NotifyAfterAck ==
    /\ acking # NoAck
    /\ acking' = NoAck
    /\ Notify
    /\ \/ SinkAccepts(Event("acked", acking.exec, acking.seq))
       \/ SinkRejects
    /\ UNCHANGED <<outboxVars, pc, gate, size, emitted, closeVars, docVars>>

\* The document is closed, or its worker ends because its stream or its mailbox
\* did: close_native_session reports SessionClosed to whoever still listens.
DocStop ==
    /\ ~removed
    /\ RemoveAndClose(TRUE)
    /\ UNCHANGED <<outboxVars, taskVars, acking, expiring, sinkVars, docVars>>

-----------------------------------------------------------------------------
RunStep ==
    \/ RunStart \/ RunMeta \/ RunBatch \/ RunFinish
    \/ GateArm \/ GateReadClosed \/ GateReadCredit \/ GateWait
    \/ PushBatch \/ SendTerminal \/ RunLost \/ RunRemove

CloseStep == MarkClosed \/ NotifyAfterClose \/ ReportClosed

ExpireStep == ExpireCheck \/ ExpireReport \/ ExpireRemove

DocStep == Execute \/ DocReceive \/ DocAck \/ NotifyAfterAck \/ DocStop

Next == RunStep \/ CloseStep \/ ExpireStep \/ DocStep

Spec == Init /\ [][Next]_vars

\* Tokio polls a ready task, the lease monitor finishes a pass it began, and the
\* document handles its mailbox and, once its stream has ended, stops its worker.
\* Nothing is assumed about the user: executions and closes may never come.
Fairness ==
    /\ WF_vars(RunStep)
    /\ WF_vars(CloseStep)
    /\ WF_vars(ExpireReport \/ ExpireRemove)
    /\ WF_vars(DocReceive)
    /\ WF_vars(DocAck)
    /\ WF_vars(NotifyAfterAck)
    /\ WF_vars(DocStop /\ (~connected \/ sinkFailed))

FairSpec == Spec /\ Fairness

-----------------------------------------------------------------------------
(* What must hold.                                                          *)

\* The credit window bounds the batches a slow document leaves unacknowledged,
\* although the gate's check and the push behind it (send_with_credit) are
\* separate critical sections.
WindowBounded == Cardinality(outstanding) <= Window

\* It bounds their bytes too.
BytesBounded == UsedBytes <= ByteBudget

\* Settlement: the execution slot that execute() admits into is free only when
\* the last execution's task is over and its rows are acknowledged, and a
\* terminal event is only ever out when no row batch is.
SettledSlot ==
    /\ executionId = 0 => pc = "idle" /\ outstanding = {} /\ terminal = 0
    /\ terminal # 0 => pc = "idle" /\ outstanding = {}

GateOpen ==
    \/ closed
    \/ gate = "row" /\ (~retain \/ FitsWindow)
    \/ gate = "drain" /\ outstanding = {}

\* No lost wakeup: a task parked in credit_gate on a window that has opened, or
\* on a session that has closed, has been woken or is about to be, whatever
\* acknowledgement or close slipped in between its reads.
NoLostWakeup ==
    pc = "wait" /\ ~woken /\ GateOpen => acking # NoAck \/ closer = "notify"

\* The inductive invariant behind the window, settlement and wakeup properties:
\* what the task may rely on between its critical sections.
OutboxInv ==
    /\ TypeOK
    /\ WindowBounded
    /\ SettledSlot
    /\ NoLostWakeup
    /\ pc = "push" => Cardinality(outstanding) < Window
    /\ pc = "terminal" => outstanding = {} \/ closed
    /\ pc \in {"readCredit", "wait"} /\ closed /\ ~woken => closer = "notify"
    /\ \A o \in outstanding : o.seq <= seq
    /\ closed <=> closer \in {"notify", "report", "done"}
    /\ removed <=> closer # "none"

\* Stream::admit never has to drop an event or give a session up: the document
\* sees no gap in the sequence, although a refused send uses a number up and
\* several tasks (the execution, the lease monitor, the closer) send on the same
\* session, and an execution's events reach it while that execution is its
\* current one and before its terminal event.
EventsInOrder ==
    /\ ~gap
    /\ connected /\ inbox # <<>> /\ Head(inbox).kind \in {"meta", "row", "terminal"}
                 /\ Head(inbox).exec # 0
           => Head(inbox).exec = cExec /\ cTerminal = 0

\* The worker ends the whole document when an acknowledgement is refused, so
\* none of a live document's acknowledgements may be, whichever of them the
\* watch channel coalesced away.
AcksAccepted == ~refused

\* What keeps a document's stream alive, from the session and back: events it can
\* apply in their order, and acknowledgements the session can use.
DocumentFollows == EventsInOrder /\ AcksAccepted

\* mark_closed serialises with sequence assignment: once a session is closed the
\* only event it still delivers is the SessionClosed of its closer, and that
\* one once.
OnlyClosedAfterClose ==
    [][closed /\ Len(inbox') > Len(inbox)
        => \/ inbox'[Len(inbox')].kind = "acked"
           \/ inbox'[Len(inbox')].kind = "closed" /\ closer = "report"]_vars

\* Every execution settles or its session closes: parked behind the credit
\* window, draining before its terminal event, or losing its sink, it does not
\* keep the tab's slot for ever.
Settles == executionId # 0 ~> executionId = 0 \/ closed

\* The session as a bounded stream of acknowledged batches.
Stream == INSTANCE CreditStream WITH
    phase <- IF closed THEN "closed"
             ELSE IF executionId = 0 THEN "idle"
             ELSE IF terminal # 0 THEN "settling" ELSE "running",
    unacked <- Cardinality(outstanding)

\* The locks, wakeups and mailbox of the Outbox implement that stream.
ImplementsStream == Stream!StreamSpec
=============================================================================
