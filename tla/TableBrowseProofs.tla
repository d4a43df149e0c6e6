------------------------- MODULE TableBrowseProofs -------------------------
(***************************************************************************)
(* Proofs about TableBrowse, for any tabs, any number of requests and any  *)
(* number of executors spawned one after the other.                        *)
(***************************************************************************)
EXTENDS TableBrowse, TLAPS

----------------------------------------------------------------------------
(* The inductive invariant.                                                *)

(* The worker runs request r: it is the caller's to wait for. *)
RunPcs == {"runDrain", "select", "done"}
Runs(e, r) == worker[e].job = r /\ worker[e].pc \in RunPcs
Spawned(e) == worker[e].pc # "none"

(* Where a worker is, what it works on and what its server does. *)
WorkerInv ==
    \A e \in Executors :
        /\ worker[e].job # None <=> worker[e].pc \in RunPcs \cup {"endDrain"}
        /\ server[e] # "idle" => worker[e].pc \in {"runDrain", "select"} /\ worker[e].stage = "wait"
        /\ ~Spawned(e) => /\ ~group[e].registered /\ tasks[e].close = "none" /\ tasks[e].tabs = {}
                          /\ ~exec[e].closed /\ exec[e].flight = None /\ ~exec[e].pending
                          /\ \A t \in Tabs : exec[e].queued[t] = None /\ exec[e].latest[t] = 0
        /\ worker[e].pc = "done" => worker[e].result \in Answers
        /\ worker[e].pc = "exit" => exec[e].closed \/ group[e].aborted
        /\ Alive(e) => group[e].registered

(* A slot holds an open request of its tab, on an executor that is open. *)
SlotInv ==
    \A e \in Executors, t \in Tabs : exec[e].queued[t] # None =>
        /\ ~exec[e].closed
        /\ \A d \in Executors : worker[d].job # exec[e].queued[t]
        /\ req[exec[e].queued[t]].pc = "waiting" /\ req[exec[e].queued[t]].reply = "none"
        /\ req[exec[e].queued[t]].with = e /\ req[exec[e].queued[t]].tab = t

(* The worker's job is open until complete_job answers it. *)
JobInv ==
    \A e \in Executors : worker[e].job # None =>
        /\ req[worker[e].job].pc \in {"waiting", "settled"} /\ req[worker[e].job].tab \in Tabs
        /\ worker[e].pc \in RunPcs =>
            /\ req[worker[e].job].pc = "waiting" /\ req[worker[e].job].reply = "none"
            /\ req[worker[e].job].with = e
        /\ worker[e].pc = "endDrain" =>
            req[worker[e].job].pc = "settled" \/ req[worker[e].job].reply # "none"

(* A request is new, held by the gate, waiting or settled; one that waits  *)
(* without a reply is queued or running.                                   *)
RequestInv ==
    \A r \in Requests :
        /\ req[r].with # None => Spawned(req[r].with)
        /\ req[r].pc = "new" => req[r].tab = None /\ req[r].with = None /\ req[r].reply = "none"
        /\ req[r].pc = "held" =>
            /\ facade.pc = "submit" /\ req[r].reply = "none"
            /\ req[r].with # None /\ req[r].tab \in Tabs /\ doc[req[r].tab] = "open"
            /\ \A s \in Requests : req[s].pc = "held" => s = r
        /\ req[r].pc = "waiting" => req[r].with # None /\ req[r].tab \in Tabs
        /\ req[r].pc = "waiting" /\ req[r].reply = "none" =>
            Runs(req[r].with, r) \/ exec[req[r].with].queued[req[r].tab] = r
        /\ req[r].pc = "settled" => req[r].reply # "ok" /\ req[r].with = None

(* Nothing of tab t is left on a live executor. *)
Gone(t) ==
    \A e \in Executors : Alive(e) =>
        /\ ~Working(e, t) /\ exec[e].queued[t] = None
        /\ exec[e].latest[t] = 0 \/ exec[e].closed \/ group[e].aborted

(* The manager's fences over the executors that are registered. *)
MgrInv ==
    /\ mgr.executor # None => ~mgr.closing /\ Spawned(mgr.executor) /\ ~group[mgr.executor].aborted
    /\ ~mgr.closing => \A e \in Registered : e = mgr.executor
    /\ mgr.idleClosing => mgr.closing /\ monitor # None /\ \A e \in Registered : e = monitor
    /\ monitor # None =>
        exec[monitor].closed /\ worker[monitor].job = None /\ Spawned(monitor)
    /\ mgr.closing /\ ~mgr.idleClosing => \A t \in Tabs : doc[t] # "open"

(* The operation that holds the gate. *)
FacadeInv ==
    /\ facade.pc \in {"join", "finish"} => mgr.closing /\ ~mgr.idleClosing /\ mgr.executor = None
    /\ facade.pc = "finish" => Registered = {}
    /\ facade.pc \in {"tabHeld", "tab"} =>
        /\ facade.with # None /\ Spawned(facade.with) /\ ~group[facade.with].aborted
        /\ \A e \in Registered : e = facade.with
    /\ facade.pc \in {"tabHeld", "tab", "tabFinish"} =>
        facade.tab \in Tabs /\ doc[facade.tab] = "retired"
    /\ facade.pc = "tab" => facade.tab \in tasks[facade.with].tabs \/ Gone(facade.tab)
    /\ facade.pc = "tabFinish" => Gone(facade.tab)

(* A closed document is gone. *)
DocumentInv ==
    \A t \in Tabs : doc[t] = "closed" =>
        Gone(t) /\ \A r \in Requests : req[r].tab = t => req[r].pc = "settled"

(* What was told to stop is answered with an error, or runs interrupted. *)
StopInv ==
    /\ \A r \in stopped :
        \/ req[r].reply = "error" \/ req[r].pc = "settled"
        \/ \E e \in Executors : Runs(e, r) /\ exec[e].interrupt[req[r].tab]
    /\ \A e \in Executors : exec[e].flight # None =>
        \/ Runs(e, exec[e].flight)
        \/ /\ ~Alive(e)
           /\ req[exec[e].flight].reply = "error" \/ req[exec[e].flight].pc = "settled"

(* A protocol cancel is pending or under way for a stopped job only. *)
CancelInv ==
    \A e \in Executors :
        /\ exec[e].pending /\ Alive(e) =>
            worker[e].pc = "endDrain" \/ (worker[e].pc \in RunPcs /\ worker[e].job \in stopped)
        /\ worker[e].pc \in RunPcs => exec[e].flight = worker[e].job
        /\ tasks[e].close = "mark" /\ ~tasks[e].fence => exec[e].closed /\ worker[e].job = None
        /\ tasks[e].close = "cancel" =>
            /\ exec[e].closed
            /\ worker[e].job = None \/ worker[e].pc = "endDrain" \/ worker[e].job \in stopped

(* The parts of the invariant other than the types. *)
Parts ==
    /\ WorkerInv /\ SlotInv /\ JobInv /\ RequestInv
    /\ MgrInv /\ FacadeInv /\ DocumentInv
    /\ StopInv /\ CancelInv

BrowseIInv == TypeOK /\ Parts

----------------------------------------------------------------------------
(* What the model's operators do to a record, field by field.              *)

(* A oneshot reply changes only the reply (and what the request waits      *)
(* behind) of a request that has none.                                     *)
LEMMA ReplyFields ==
  ASSUME NEW q \in [Requests -> RequestStates], NEW S, NEW a \in Answers
  PROVE  /\ Reply(q, S, a) \in [Requests -> RequestStates]
         /\ \A r \in Requests :
              /\ Reply(q, S, a)[r].pc = q[r].pc
              /\ Reply(q, S, a)[r].tab = q[r].tab
              /\ Reply(q, S, a)[r].with = q[r].with
              /\ Reply(q, S, a)[r].reply = IF r \in S /\ q[r].reply = "none" THEN a ELSE q[r].reply
<1> DEFINE one(r) == IF r \in S /\ q[r].reply = "none"
                     THEN [q[r] EXCEPT !.reply = a, !.behind = {}] ELSE q[r]
<1>1. Reply(q, S, a) = [r \in Requests |-> one(r)]  BY DEF Reply
<1>2. ASSUME NEW r \in Requests
      PROVE /\ one(r) \in RequestStates
            /\ one(r).pc = q[r].pc /\ one(r).tab = q[r].tab /\ one(r).with = q[r].with
            /\ one(r).reply = IF r \in S /\ q[r].reply = "none" THEN a ELSE q[r].reply
  <2>1. q[r] \in RequestStates  OBVIOUS
  <2>2. CASE r \in S /\ q[r].reply = "none"
    BY <2>1, <2>2 DEF RequestStates
  <2>3. CASE ~(r \in S /\ q[r].reply = "none")
    BY <2>1, <2>3
  <2> QED BY <2>2, <2>3
<1> HIDE DEF one
<1> QED BY <1>1, <1>2

(* A caller that has its answer waits for no executor and holds no reply.  *)
LEMMA SettledFields ==
  ASSUME NEW q \in RequestStates
  PROVE  /\ Settled(q) \in RequestStates
         /\ Settled(q).pc = "settled" /\ Settled(q).tab = q.tab
         /\ Settled(q).with = None /\ Settled(q).reply = "none"
BY DEF Settled, RequestStates

(* Taking jobs from the slots empties exactly the slots that held them.    *)
LEMMA WithoutFields ==
  ASSUME NEW s \in [Tabs -> Requests \cup {None}], NEW S
  PROVE  /\ Without(s, S) \in [Tabs -> Requests \cup {None}]
         /\ \A t \in Tabs : Without(s, S)[t] = IF s[t] \in S THEN None ELSE s[t]
BY DEF Without

(* An interrupt sets the flag of tab t and may leave a protocol cancel     *)
(* pending, only when t's job is in flight.                                *)
LEMMA InterruptedFields ==
  ASSUME NEW x \in ExecutorStates, NEW e \in Executors, NEW t \in Tabs
  PROVE  LET y == Interrupted(x, e, t)
         IN  /\ y \in ExecutorStates
             /\ y.closed = x.closed /\ y.closingTabs = x.closingTabs /\ y.conn = x.conn
             /\ y.queued = x.queued /\ y.flight = x.flight /\ y.latest = x.latest
             /\ y.permit = x.permit
             /\ \A u \in Tabs : y.interrupt[u] = (x.interrupt[u] \/ (u = t /\ InFlight(e, t)))
             /\ y.pending = (x.pending \/ (InFlight(e, t) /\ x.conn # "none"))
<1>1. CASE ~InFlight(e, t)
  BY <1>1 DEF Interrupted, ExecutorStates
<1>2. CASE InFlight(e, t)
  <2> DEFINE i == [x.interrupt EXCEPT ![t] = TRUE]
             y == [x EXCEPT !.interrupt = i]
             z == [y EXCEPT !.pending = y.pending \/ y.conn # "none"]
  <2>1. i \in [Tabs -> BOOLEAN] /\ \A u \in Tabs : i[u] = (x.interrupt[u] \/ u = t)
    BY DEF ExecutorStates
  <2> HIDE DEF i
  <2>2. y \in ExecutorStates
        /\ y.closed = x.closed /\ y.closingTabs = x.closingTabs /\ y.conn = x.conn
        /\ y.queued = x.queued /\ y.flight = x.flight /\ y.latest = x.latest
        /\ y.permit = x.permit /\ y.interrupt = i /\ y.pending = x.pending
    BY <2>1 DEF ExecutorStates
  <2>3. Interrupted(x, e, t) = z
    BY <1>2 DEF Interrupted, QueueCancel, i
  <2> HIDE DEF y
  <2>4. z \in ExecutorStates
        /\ z.closed = y.closed /\ z.closingTabs = y.closingTabs /\ z.conn = y.conn
        /\ z.queued = y.queued /\ z.flight = y.flight /\ z.latest = y.latest
        /\ z.permit = y.permit /\ z.interrupt = y.interrupt
        /\ z.pending = (y.pending \/ y.conn # "none")
    BY <2>2 DEF ExecutorStates
  <2> HIDE DEF z
  <2> QED BY <2>1, <2>2, <2>3, <2>4, <1>2
<1> QED BY <1>1, <1>2

(* apply_tab_cancel empties the slot of tab t, interrupts its job in       *)
(* flight and wakes the worker; nothing else of the executor changes.      *)
LEMMA TabCancelledFields ==
  ASSUME NEW x \in ExecutorStates, NEW e \in Executors, NEW t \in Tabs
  PROVE  LET y == [TabCancelled(x, e, t) EXCEPT !.permit = TRUE]
         IN  /\ y \in ExecutorStates
             /\ y.closed = x.closed /\ y.closingTabs = x.closingTabs /\ y.conn = x.conn
             /\ y.flight = x.flight /\ y.latest = x.latest
             /\ \A u \in Tabs : y.queued[u] = IF u = t THEN None ELSE x.queued[u]
             /\ \A u \in Tabs : y.interrupt[u] = (x.interrupt[u] \/ (u = t /\ InFlight(e, t)))
             /\ y.pending = (x.pending \/ (InFlight(e, t) /\ x.conn # "none"))
<1> DEFINE q == [x.queued EXCEPT ![t] = None]
           w == [x EXCEPT !.queued = q]
           z == Interrupted(w, e, t)
           y == [z EXCEPT !.permit = TRUE]
<1>1. q \in [Tabs -> Requests \cup {None}] /\ \A u \in Tabs : q[u] = IF u = t THEN None ELSE x.queued[u]
  BY DEF ExecutorStates
<1> HIDE DEF q
<1>2. w \in ExecutorStates
      /\ w.closed = x.closed /\ w.closingTabs = x.closingTabs /\ w.conn = x.conn
      /\ w.queued = q /\ w.flight = x.flight /\ w.latest = x.latest
      /\ w.interrupt = x.interrupt /\ w.pending = x.pending
  BY <1>1 DEF ExecutorStates
<1>3. TabCancelled(x, e, t) = z
  BY DEF TabCancelled, q
<1> HIDE DEF w
<1>4. /\ z \in ExecutorStates
      /\ z.closed = w.closed /\ z.closingTabs = w.closingTabs /\ z.conn = w.conn
      /\ z.queued = w.queued /\ z.flight = w.flight /\ z.latest = w.latest
      /\ \A u \in Tabs : z.interrupt[u] = (w.interrupt[u] \/ (u = t /\ InFlight(e, t)))
      /\ z.pending = (w.pending \/ (InFlight(e, t) /\ w.conn # "none"))
  BY <1>2, InterruptedFields
<1> HIDE DEF z
<1>5. /\ y \in ExecutorStates
      /\ y.closed = z.closed /\ y.closingTabs = z.closingTabs /\ y.conn = z.conn
      /\ y.queued = z.queued /\ y.flight = z.flight /\ y.latest = z.latest
      /\ y.interrupt = z.interrupt /\ y.pending = z.pending
  BY <1>4 DEF ExecutorStates
<1> HIDE DEF y
<1>6. y = [TabCancelled(x, e, t) EXCEPT !.permit = TRUE]
  BY <1>3 DEF y
<1> QED BY <1>1, <1>2, <1>4, <1>5, <1>6

----------------------------------------------------------------------------
(* The fields the invariants read, with their types. *)
Typed ==
    /\ \A d \in Executors :
        /\ exec[d].closed \in BOOLEAN /\ exec[d].pending \in BOOLEAN
        /\ exec[d].flight \in Requests \cup {None}
        /\ \A t \in Tabs : exec[d].queued[t] \in Requests \cup {None} /\ exec[d].interrupt[t] \in BOOLEAN
        /\ worker[d].job \in Requests \cup {None}
        /\ group[d].registered \in BOOLEAN /\ group[d].aborted \in BOOLEAN
        /\ tasks[d].fence \in BOOLEAN
    /\ \A r \in Requests : req[r].with \in Executors \cup {None} /\ req[r].tab \in Tabs \cup {None}
    /\ mgr.executor \in Executors \cup {None}
    /\ mgr.closing \in BOOLEAN /\ mgr.idleClosing \in BOOLEAN
    /\ monitor \in Executors \cup {None}
    /\ facade.with \in Executors \cup {None} /\ facade.tab \in Tabs \cup {None}
    /\ facade.forced \in BOOLEAN
    /\ stopped \in SUBSET Requests

(* None is no request, no executor and no tab.                             *)
LEMMA NoneIsNothing == None \notin Requests /\ None \notin Executors /\ None \notin Tabs
BY BrowseAssumption DEF Requests, Executors

(* The types of the fields, from the types of the records.                 *)
LEMMA FieldTypes == ASSUME TypeOK PROVE Typed
<1>1. \A d \in Executors : exec[d] \in ExecutorStates /\ worker[d] \in WorkerStates
                           /\ tasks[d] \in TaskStates /\ group[d] \in [registered : BOOLEAN, aborted : BOOLEAN]
  BY DEF TypeOK
<1>2. \A r \in Requests : req[r] \in RequestStates  BY DEF TypeOK
<1>3. facade \in FacadeStates
      /\ mgr \in [executor : Executors \cup {None}, closing : BOOLEAN, idleClosing : BOOLEAN]
      /\ monitor \in Executors \cup {None} /\ stopped \in SUBSET Requests
  BY DEF TypeOK
<1>4. \A x \in ExecutorStates : /\ x.closed \in BOOLEAN /\ x.pending \in BOOLEAN
        /\ x.flight \in Requests \cup {None}
        /\ \A t \in Tabs : x.queued[t] \in Requests \cup {None} /\ x.interrupt[t] \in BOOLEAN
  BY DEF ExecutorStates
<1>5. \A x \in WorkerStates : x.job \in Requests \cup {None}  BY DEF WorkerStates
<1>6. \A x \in TaskStates : x.fence \in BOOLEAN  BY DEF TaskStates
<1>7. \A x \in RequestStates : x.with \in Executors \cup {None} /\ x.tab \in Tabs \cup {None}
  BY DEF RequestStates
<1>8. facade.with \in Executors \cup {None} /\ facade.tab \in Tabs \cup {None}
      /\ facade.forced \in BOOLEAN
  BY <1>3 DEF FacadeStates
<1>9. /\ mgr.executor \in Executors \cup {None}
      /\ mgr.closing \in BOOLEAN /\ mgr.idleClosing \in BOOLEAN
  BY <1>3
<1> QED BY <1>1, <1>2, <1>3, <1>4, <1>5, <1>6, <1>7, <1>8, <1>9 DEF Typed

(* A step that moves worker e, or its close task, past an await and        *)
(* touches no request, no slot and no fence.                               *)
QuietStep(e) ==
    /\ UNCHANGED <<group, mgr, doc, req, facade, monitor, stopped>>
    /\ \A d \in Executors :
        /\ exec'[d].closed = exec[d].closed /\ exec'[d].queued = exec[d].queued
        /\ exec'[d].flight = exec[d].flight /\ exec'[d].latest = exec[d].latest
        /\ exec'[d].interrupt = exec[d].interrupt
        /\ exec'[d].pending => exec[d].pending
        /\ tasks'[d].fence = tasks[d].fence /\ tasks'[d].tabs = tasks[d].tabs
        /\ tasks'[d].close = tasks[d].close \/ (d = e /\ tasks'[d].close \in {"notify", "none"})
        /\ d # e => worker'[d] = worker[d] /\ server'[d] = server[d]
    /\ Spawned(e) /\ Spawned(e)'
    /\ worker'[e].pc = "exit" => worker[e].pc = "exit" \/ (exec[e].closed /\ worker[e].pc = "check")
    /\ worker[e].pc = "exit" => worker'[e].pc = "exit"
    /\ \/ worker'[e].job = worker[e].job /\ (worker'[e].pc \in RunPcs <=> worker[e].pc \in RunPcs)
          /\ (worker'[e].pc = "endDrain" <=> worker[e].pc = "endDrain")
       \/ worker'[e].job = None /\ worker[e].pc = "endDrain" /\ worker'[e].pc = "check"
          /\ ~exec'[e].pending
    /\ worker'[e].pc = "done" => worker'[e].result \in Answers \/ worker'[e] = worker[e]
    /\ server'[e] # "idle" => worker'[e].pc \in {"runDrain", "select"} /\ worker'[e].stage = "wait"

(* A worker, or its close task, that moves past an await without touching  *)
(* a request, a slot or a fence keeps the invariant.                       *)
LEMMA QuietKeeps ==
  ASSUME Typed, Typed', Parts, NEW e \in Executors, QuietStep(e)
  PROVE  Parts'
<1> USE NoneIsNothing DEF Parts, QuietStep, RunPcs, Spawned, Alive
<1>1. WorkerInv'  BY DEF WorkerInv
<1>2. SlotInv'  BY SMTT(30) DEF SlotInv, Typed
<1>3. JobInv'  BY DEF JobInv, WorkerInv
<1>4. RequestInv'  BY DEF RequestInv, Typed, Runs, JobInv, WorkerInv
<1>5. MgrInv'  BY DEF MgrInv, Typed, Registered
<1>6. ASSUME NEW t \in Tabs, Gone(t) PROVE Gone(t)'
  BY <1>6 DEF Gone, Working
<1>7. FacadeInv'
  BY <1>6 DEF FacadeInv, Typed, Registered
<1>8. DocumentInv'
  BY <1>6 DEF DocumentInv
<1>9. StopInv'  BY SMTT(30) DEF StopInv, Runs, WorkerInv, Typed
<1>10. CancelInv'  BY DEF CancelInv, WorkerInv
<1> QED BY <1>1, <1>2, <1>3, <1>4, <1>5, <1>7, <1>8, <1>9, <1>10

----------------------------------------------------------------------------
(* Steps of the worker that are quiet, and their types.                    *)

WorkerPcs == {"none", "check", "drain", "pick", "park", "runDrain", "select", "done",
              "endDrain", "exit"}
Stages == {"none", "ensure", "connect", "wait"}

(* What the worker's record becomes. *)
MovesTo(e, p, j, s) ==
    /\ worker' \in [Executors -> WorkerStates]
    /\ worker'[e].pc = p /\ worker'[e].job = j /\ worker'[e].stage = s
    /\ \A d \in Executors : d # e => worker'[d] = worker[d]

(* A worker's record is replaced as a whole.                               *)
LEMMA PutWorker ==
  ASSUME TypeOK, NEW e \in Executors, NEW v \in WorkerStates, worker' = [worker EXCEPT ![e] = v]
  PROVE  MovesTo(e, v.pc, v.job, v.stage)
BY DEF TypeOK, MovesTo

(* The worker moves to another await and keeps its job.                    *)
LEMMA GoesFields ==
  ASSUME TypeOK, NEW e \in Executors, NEW p \in WorkerPcs, Goes(e, p)
  PROVE  MovesTo(e, p, worker[e].job, worker[e].stage)
<1> DEFINE w == worker[e]  v == [w EXCEPT !.pc = p]
<1>1. w \in WorkerStates  BY DEF TypeOK
<1>2. v \in WorkerStates /\ v.pc = p /\ v.job = w.job /\ v.stage = w.stage
  BY <1>1 DEF WorkerStates, WorkerPcs
<1>3. worker' = [worker EXCEPT ![e] = v]  BY DEF Goes
<1> HIDE DEF v
<1> QED BY <1>2, <1>3, PutWorker

(* The running job moves to its next stage.                                *)
LEMMA StageFields ==
  ASSUME TypeOK, NEW e \in Executors, NEW s \in Stages, Stage(e, s)
  PROVE  MovesTo(e, worker[e].pc, worker[e].job, s)
<1> DEFINE w == worker[e]  v == [w EXCEPT !.stage = s]
<1>1. w \in WorkerStates  BY DEF TypeOK
<1>2. v \in WorkerStates /\ v.pc = w.pc /\ v.job = w.job /\ v.stage = s
  BY <1>1 DEF WorkerStates, Stages
<1>3. worker' = [worker EXCEPT ![e] = v]  BY DEF Stage
<1> HIDE DEF v
<1> QED BY <1>2, <1>3, PutWorker

(* The running job ends with a result.                                     *)
LEMMA EndsFields ==
  ASSUME TypeOK, NEW e \in Executors, NEW a \in Answers, Ends(e, a)
  PROVE  MovesTo(e, "done", worker[e].job, "none") /\ worker'[e].result = a
<1> DEFINE w == worker[e]  v == [w EXCEPT !.pc = "done", !.stage = "none", !.result = a]
<1>1. worker \in [Executors -> WorkerStates] /\ w \in WorkerStates  BY DEF TypeOK
<1>2. /\ v \in WorkerStates /\ v.pc = "done" /\ v.job = w.job /\ v.stage = "none"
      /\ v.result = a
  BY <1>1 DEF WorkerStates
<1>3. worker' = [worker EXCEPT ![e] = v]  BY <1>1 DEF Ends
<1> HIDE DEF v
<1> QED BY <1>1, <1>2, <1>3, PutWorker

(* The fields of the executors that a quiet step leaves alone. *)
ExecKept ==
    \A d \in Executors :
        /\ exec'[d].closed = exec[d].closed /\ exec'[d].queued = exec[d].queued
        /\ exec'[d].flight = exec[d].flight /\ exec'[d].latest = exec[d].latest
        /\ exec'[d].interrupt = exec[d].interrupt
        /\ exec'[d].pending => exec[d].pending

(* Connection, wake permit and a pending cancel that is cleared are all a  *)
(* quiet step changes of an executor.                                      *)
LEMMA ExecQuiet ==
  ASSUME TypeOK, NEW e \in Executors, NEW c \in {"none", "up", "dead"}, NEW b \in BOOLEAN,
         \/ exec' = exec
         \/ exec' = [exec EXCEPT ![e].conn = c]
         \/ exec' = [exec EXCEPT ![e].permit = b]
         \/ exec' = [exec EXCEPT ![e].pending = FALSE, ![e].permit = b]
  PROVE  exec' \in [Executors -> ExecutorStates] /\ ExecKept
<1> DEFINE x == exec[e]
<1>1. exec \in [Executors -> ExecutorStates] /\ x \in ExecutorStates  BY DEF TypeOK
<1>2. ASSUME NEW v \in ExecutorStates, exec' = [exec EXCEPT ![e] = v],
             v.closed = x.closed, v.queued = x.queued, v.flight = x.flight,
             v.latest = x.latest, v.interrupt = x.interrupt, v.pending => x.pending
      PROVE  exec' \in [Executors -> ExecutorStates] /\ ExecKept
  BY <1>1, <1>2 DEF ExecKept
<1>3. CASE exec' = exec  BY <1>1, <1>3 DEF ExecKept
<1>4. CASE exec' = [exec EXCEPT ![e].conn = c]
  <2> DEFINE v == [x EXCEPT !.conn = c]
  <2>1. v \in ExecutorStates /\ v.closed = x.closed /\ v.queued = x.queued /\ v.flight = x.flight
        /\ v.latest = x.latest /\ v.interrupt = x.interrupt /\ (v.pending => x.pending)
    BY <1>1 DEF ExecutorStates
  <2>2. exec' = [exec EXCEPT ![e] = v]  BY <1>4
  <2> HIDE DEF v
  <2> QED BY <2>1, <2>2, <1>2
<1>5. CASE exec' = [exec EXCEPT ![e].permit = b]
  <2> DEFINE v == [x EXCEPT !.permit = b]
  <2>1. v \in ExecutorStates /\ v.closed = x.closed /\ v.queued = x.queued /\ v.flight = x.flight
        /\ v.latest = x.latest /\ v.interrupt = x.interrupt /\ (v.pending => x.pending)
    BY <1>1 DEF ExecutorStates
  <2>2. exec' = [exec EXCEPT ![e] = v]  BY <1>5
  <2> HIDE DEF v
  <2> QED BY <2>1, <2>2, <1>2
<1>6. CASE exec' = [exec EXCEPT ![e].pending = FALSE, ![e].permit = b]
  <2> DEFINE v == [x EXCEPT !.pending = FALSE, !.permit = b]
  <2>1. v \in ExecutorStates /\ v.closed = x.closed /\ v.queued = x.queued /\ v.flight = x.flight
        /\ v.latest = x.latest /\ v.interrupt = x.interrupt /\ (v.pending => x.pending)
    BY <1>1 DEF ExecutorStates
  <2>2. exec' = [exec EXCEPT ![e] = v]  BY <1>1, <1>6
  <2> HIDE DEF v
  <2> QED BY <2>1, <2>2, <1>2
<1> QED BY <1>3, <1>4, <1>5, <1>6

(* Types and values the quiet steps read. *)
Reads(e) ==
    /\ worker[e].pc \in WorkerPcs /\ worker[e].job \in Requests \cup {None}
    /\ worker[e].stage \in Stages /\ exec[e].conn \in {"none", "up", "dead"}
    /\ exec[e].permit \in BOOLEAN /\ exec[e].pending \in BOOLEAN
    /\ tasks[e] \in TaskStates

(* The types of what the quiet steps read.                                 *)
LEMMA ReadTypes == ASSUME TypeOK, NEW e \in Executors PROVE Reads(e)
<1>1. exec[e] \in ExecutorStates /\ worker[e] \in WorkerStates /\ tasks[e] \in TaskStates
  BY DEF TypeOK
<1> QED BY <1>1 DEF Reads, ExecutorStates, WorkerStates, WorkerPcs, Stages

(* The same, from the types of the state before and after.                 *)
LEMMA QuietParts ==
  ASSUME TypeOK, TypeOK', Parts, NEW e \in Executors, QuietStep(e) PROVE Parts'
<1>1. Typed /\ Typed'  BY FieldTypes, PTL
<1> QED BY <1>1, QuietKeeps

(* run_executor looks at closed at the top of its loop.                    *)
LEMMA CheckClosedKeeps ==
  ASSUME TypeOK, Parts, NEW e \in Executors, CheckClosed(e) PROVE TypeOK' /\ Parts'
<1> DEFINE p == IF exec[e].closed THEN "exit" ELSE "drain"
<1>1. /\ worker[e].pc = "check" /\ Goes(e, p)
      /\ UNCHANGED <<exec, server, tasks, group, mgr, doc, req, facade, monitor, stopped>>
  BY DEF CheckClosed
<1>2. MovesTo(e, p, worker[e].job, worker[e].stage)
  BY <1>1, GoesFields DEF WorkerPcs
<1>3. TypeOK'  BY <1>1, <1>2 DEF TypeOK, MovesTo
<1>4. QuietStep(e)
  BY <1>1, <1>2 DEF QuietStep, Spawned, RunPcs, Parts, WorkerInv, MovesTo
<1> QED BY <1>3, <1>4, QuietParts

(* next_job finds nothing on a closed executor.                            *)
LEMMA NextJobClosedKeeps ==
  ASSUME TypeOK, Parts, NEW e \in Executors, NextJobClosed(e) PROVE TypeOK' /\ Parts'
<1>1. /\ worker[e].pc = "pick" /\ Goes(e, "park")
      /\ UNCHANGED <<exec, server, tasks, group, mgr, doc, req, facade, monitor, stopped>>
  BY DEF NextJobClosed
<1>2. MovesTo(e, "park", worker[e].job, worker[e].stage)
  BY <1>1, GoesFields DEF WorkerPcs
<1>3. TypeOK'  BY <1>1, <1>2 DEF TypeOK, MovesTo
<1>4. QuietStep(e)
  BY <1>1, <1>2 DEF QuietStep, Spawned, RunPcs, Parts, WorkerInv, MovesTo
<1> QED BY <1>3, <1>4, QuietParts

(* A notified worker takes the stored wake permit.                         *)
LEMMA NotifiedKeeps ==
  ASSUME TypeOK, Parts, NEW e \in Executors, Notified(e) PROVE TypeOK' /\ Parts'
<1> DEFINE p == IF worker[e].pc = "park" THEN "check" ELSE "runDrain"
<1>1. /\ worker[e].pc \in {"park", "select"} /\ Goes(e, p)
      /\ exec' = [exec EXCEPT ![e].permit = FALSE]
      /\ UNCHANGED <<server, tasks, group, mgr, doc, req, facade, monitor, stopped>>
  BY DEF Notified
<1>2. MovesTo(e, p, worker[e].job, worker[e].stage)
  BY <1>1, GoesFields DEF WorkerPcs
<1>3. exec' \in [Executors -> ExecutorStates] /\ ExecKept
  BY <1>1, ExecQuiet
<1>4. TypeOK'  BY <1>1, <1>2, <1>3 DEF TypeOK, MovesTo
<1>5. QuietStep(e)
  BY <1>1, <1>2, <1>3 DEF QuietStep, Spawned, RunPcs, Parts, WorkerInv, MovesTo, ExecKept
<1> QED BY <1>4, <1>5, QuietParts

(* ensure_connection: the statement starts, or a connection is opened.     *)
LEMMA EnsureConnectionKeeps ==
  ASSUME TypeOK, Parts, NEW e \in Executors, EnsureConnection(e) PROVE TypeOK' /\ Parts'
<1>1. /\ worker[e].pc = "select" /\ worker[e].stage = "ensure"
      /\ UNCHANGED <<tasks, group, mgr, doc, req, facade, monitor, stopped>>
  BY DEF EnsureConnection, Running
<1>2. CASE exec[e].conn = "up"
  <2>1. Stage(e, "wait") /\ server' = [server EXCEPT ![e] = "running"] /\ exec' = exec
    BY <1>2 DEF EnsureConnection, Statement
  <2>2. MovesTo(e, "select", worker[e].job, "wait")
    BY <1>1, <2>1, StageFields DEF Stages
  <2>3. TypeOK'  BY <1>1, <2>1, <2>2 DEF TypeOK, MovesTo
  <2>4. QuietStep(e)
    BY <1>1, <2>1, <2>2 DEF QuietStep, Spawned, RunPcs, Parts, WorkerInv, MovesTo, TypeOK
  <2> QED BY <2>3, <2>4, QuietParts
<1>3. CASE exec[e].conn # "up"
  <2>1. Stage(e, "connect") /\ server' = server /\ exec' = [exec EXCEPT ![e].conn = "none"]
    BY <1>3 DEF EnsureConnection
  <2>2. MovesTo(e, "select", worker[e].job, "connect")
    BY <1>1, <2>1, StageFields DEF Stages
  <2>3. exec' \in [Executors -> ExecutorStates] /\ ExecKept
    BY <2>1, ExecQuiet
  <2>4. TypeOK'  BY <1>1, <2>1, <2>2, <2>3 DEF TypeOK, MovesTo
  <2>5. QuietStep(e)
    BY <1>1, <2>1, <2>2, <2>3 DEF QuietStep, Spawned, RunPcs, Parts, WorkerInv, MovesTo, ExecKept
  <2> QED BY <2>4, <2>5, QuietParts
<1> QED BY <1>2, <1>3

(* The connection attempt succeeds or fails.                               *)
LEMMA ConnectedKeeps ==
  ASSUME TypeOK, Parts, NEW e \in Executors, Connected(e) \/ ConnectFailed(e)
  PROVE  TypeOK' /\ Parts'
<1>1. /\ worker[e].pc = "select" /\ worker[e].stage = "connect"
      /\ UNCHANGED <<tasks, group, mgr, doc, req, facade, monitor, stopped>>
  BY DEF Connected, ConnectFailed, Running
<1>2. CASE Ends(e, "error") /\ UNCHANGED <<exec, server>>
  <2>1. MovesTo(e, "done", worker[e].job, "none") /\ worker'[e].result \in Answers
    BY <1>2, EndsFields DEF Answers
  <2>2. TypeOK'  BY <1>1, <1>2, <2>1 DEF TypeOK, MovesTo
  <2>3. QuietStep(e)
    BY <1>1, <1>2, <2>1 DEF QuietStep, Spawned, RunPcs, Parts, WorkerInv, MovesTo
  <2> QED BY <2>2, <2>3, QuietParts
<1>3. CASE Statement(e) /\ exec' = [exec EXCEPT ![e].conn = "up"]
  <2>1. Stage(e, "wait") /\ server' = [server EXCEPT ![e] = "running"]
    BY <1>3 DEF Statement
  <2>2. MovesTo(e, "select", worker[e].job, "wait")
    BY <1>1, <2>1, StageFields DEF Stages
  <2>3. exec' \in [Executors -> ExecutorStates] /\ ExecKept
    BY <1>3, ExecQuiet
  <2>4. TypeOK'  BY <1>1, <2>1, <2>2, <2>3 DEF TypeOK, MovesTo
  <2>5. QuietStep(e)
    BY <1>1, <2>1, <2>2, <2>3 DEF QuietStep, Spawned, RunPcs, Parts, WorkerInv, MovesTo, ExecKept, TypeOK
  <2> QED BY <2>4, <2>5, QuietParts
<1> QED BY <1>2, <1>3 DEF Connected, ConnectFailed

(* The database ends the statement, or the socket is lost.                 *)
LEMMA ServerAnswersKeeps ==
  ASSUME TypeOK, Parts, NEW e \in Executors, ServerAnswers(e) PROVE TypeOK' /\ Parts'
<1>1. PICK a \in Answers, lost \in BOOLEAN :
        /\ server[e] = "running" /\ server' = [server EXCEPT ![e] = a]
        /\ exec' = [exec EXCEPT ![e].conn = IF lost /\ @ = "up" THEN "dead" ELSE @]
        /\ UNCHANGED <<worker, tasks, group, mgr, doc, req, facade, monitor, stopped>>
  BY DEF ServerAnswers
<1> DEFINE c == IF lost /\ exec[e].conn = "up" THEN "dead" ELSE exec[e].conn
<1>2. c \in {"none", "up", "dead"}  BY ReadTypes DEF Reads
<1>3. exec' = [exec EXCEPT ![e].conn = c]  BY <1>1
<1> HIDE DEF c
<1>4. exec' \in [Executors -> ExecutorStates] /\ ExecKept
  BY <1>2, <1>3, ExecQuiet
<1>5. TypeOK'  BY <1>1, <1>4 DEF TypeOK, Answers
<1>6. QuietStep(e)
  BY <1>1, <1>4 DEF QuietStep, Spawned, RunPcs, Parts, WorkerInv, ExecKept, TypeOK
<1> QED BY <1>5, <1>6, QuietParts

(* The running job has its result.                                         *)
LEMMA AnsweredKeeps ==
  ASSUME TypeOK, Parts, NEW e \in Executors, Answered(e) PROVE TypeOK' /\ Parts'
<1>1. /\ worker[e].pc = "select" /\ server' = [server EXCEPT ![e] = "idle"]
      /\ UNCHANGED <<exec, tasks, group, mgr, doc, req, facade, monitor, stopped>>
  BY DEF Answered, Running
<1>2. Ends(e, "ok") \/ Ends(e, "error")  BY DEF Answered
<1>3. MovesTo(e, "done", worker[e].job, "none") /\ worker'[e].result \in Answers
  BY <1>2, EndsFields DEF Answers
<1>4. TypeOK'  BY <1>1, <1>3 DEF TypeOK, MovesTo
<1>5. QuietStep(e)
  BY <1>1, <1>3 DEF QuietStep, Spawned, RunPcs, Parts, WorkerInv, MovesTo, TypeOK
<1> QED BY <1>4, <1>5, QuietParts

(* drain_pending_cancel: the pending cancel is sent by the worker itself,  *)
(* and after a job the worker forgets it.                                  *)
LEMMA DrainCancelKeeps ==
  ASSUME TypeOK, Parts, NEW e \in Executors, DrainCancel(e) PROVE TypeOK' /\ Parts'
<1> DEFINE b == exec[e].permit \/ worker[e].pc = "endDrain"
<1>1. /\ worker[e].pc \in {"drain", "runDrain", "endDrain"}
      /\ exec' = [exec EXCEPT ![e].pending = FALSE, ![e].permit = b]
      /\ UNCHANGED <<server, tasks, group, mgr, doc, req, facade, monitor, stopped>>
  BY DEF DrainCancel
<1>2. \/ worker[e].pc = "drain" /\ Goes(e, "pick")
      \/ worker[e].pc = "runDrain" /\ Goes(e, "select")
      \/ worker[e].pc = "endDrain" /\ worker' = [worker EXCEPT ![e] = [Asleep EXCEPT !.pc = "check"]]
  BY <1>1 DEF DrainCancel, Goes
<1>3. b \in BOOLEAN  BY ReadTypes DEF Reads
<1> HIDE DEF b
<1>4. exec' \in [Executors -> ExecutorStates] /\ ExecKept
  BY <1>1, <1>3, ExecQuiet
<1>5. ~exec'[e].pending
  <2>1. exec \in [Executors -> ExecutorStates] /\ exec[e] \in ExecutorStates  BY DEF TypeOK
  <2> QED BY <1>1, <2>1 DEF ExecutorStates
<1>6. \/ worker[e].pc = "drain" /\ MovesTo(e, "pick", worker[e].job, worker[e].stage)
      \/ worker[e].pc = "runDrain" /\ MovesTo(e, "select", worker[e].job, worker[e].stage)
      \/ worker[e].pc = "endDrain" /\ MovesTo(e, "check", None, "none")
  <2> DEFINE v == [Asleep EXCEPT !.pc = "check"]
  <2>1. v \in WorkerStates /\ v.pc = "check" /\ v.job = None /\ v.stage = "none"
    BY DEF Asleep, WorkerStates
  <2>2. worker' = [worker EXCEPT ![e] = v] => MovesTo(e, "check", None, "none")
    <3> HIDE DEF v
    <3> QED BY <2>1, PutWorker
  <2> QED BY <1>2, <2>2, GoesFields DEF WorkerPcs
<1>7. TypeOK'  BY <1>1, <1>4, <1>6 DEF TypeOK, MovesTo
<1>8. QuietStep(e)
  BY <1>1, <1>4, <1>5, <1>6 DEF QuietStep, Spawned, RunPcs, Parts, WorkerInv, MovesTo, ExecKept, TypeOK
<1> QED BY <1>7, <1>8, QuietParts

----------------------------------------------------------------------------
(* The cleanup tasks.                                                      *)

(* A cleanup task's record is replaced as a whole.                         *)
LEMMA PutTask ==
  ASSUME TypeOK, NEW e \in Executors, NEW v \in TaskStates, tasks' = [tasks EXCEPT ![e] = v]
  PROVE  /\ tasks' \in [Executors -> TaskStates] /\ tasks'[e] = v
         /\ \A d \in Executors : d # e => tasks'[d] = tasks[d]
BY DEF TypeOK

(* What the cleanup tasks of one executor become. *)
TaskTo(e, c, f, T) ==
    /\ tasks' \in [Executors -> TaskStates]
    /\ tasks'[e].close = c /\ tasks'[e].fence = f /\ tasks'[e].tabs = T
    /\ \A d \in Executors : d # e => tasks'[d] = tasks[d]

(* close_executor moves to its next await.                                 *)
LEMMA CloseGoes ==
  ASSUME TypeOK, NEW e \in Executors, NEW c \in {"none", "mark", "cancel", "notify"},
         tasks' = [tasks EXCEPT ![e].close = c]
  PROVE  TaskTo(e, c, tasks[e].fence, tasks[e].tabs)
<1> DEFINE v == [tasks[e] EXCEPT !.close = c]
<1>1. tasks[e] \in TaskStates  BY DEF TypeOK
<1>2. v \in TaskStates /\ v.close = c /\ v.fence = tasks[e].fence /\ v.tabs = tasks[e].tabs
  BY <1>1 DEF TaskStates
<1>3. tasks' = [tasks EXCEPT ![e] = v]  OBVIOUS
<1> HIDE DEF v
<1> QED BY <1>2, <1>3, PutTask DEF TaskTo

(* start_close starts the close task of a registered executor only.        *)
LEMMA StartCloseFields ==
  ASSUME TypeOK, NEW e \in Executors \cup {None}, NEW f \in BOOLEAN, tasks' = StartClose(e, f)
  PROVE  \/ tasks' = tasks /\ (e # None => ~group[e].registered)
         \/ e \in Executors /\ group[e].registered /\ TaskTo(e, "mark", f, tasks[e].tabs)
<1>1. CASE e # None /\ group[e].registered
  <2> DEFINE v == [tasks[e] EXCEPT !.close = "mark", !.fence = f]
  <2>1. tasks \in [Executors -> TaskStates] /\ e \in Executors /\ tasks[e] \in TaskStates
    BY <1>1 DEF TypeOK
  <2>2. v \in TaskStates /\ v.close = "mark" /\ v.fence = f /\ v.tabs = tasks[e].tabs
    BY <2>1 DEF TaskStates
  <2>3. tasks' = [tasks EXCEPT ![e] = v]  BY <1>1, <2>1 DEF StartClose
  <2> HIDE DEF v
  <2> QED BY <1>1, <2>1, <2>2, <2>3, PutTask DEF TaskTo
<1>2. CASE ~(e # None /\ group[e].registered)
  BY <1>2 DEF StartClose
<1> QED BY <1>1, <1>2

(* close_executor's own protocol cancel.                                   *)
LEMMA CloseCancelsKeeps ==
  ASSUME TypeOK, Parts, NEW e \in Executors, CloseCancels(e) PROVE TypeOK' /\ Parts'
<1>1. /\ tasks[e].close = "cancel" /\ tasks' = [tasks EXCEPT ![e].close = "notify"]
      /\ UNCHANGED <<exec, worker, server, group, mgr, doc, req, facade, monitor, stopped>>
  BY DEF CloseCancels
<1>2. TaskTo(e, "notify", tasks[e].fence, tasks[e].tabs)
  BY <1>1, CloseGoes
<1>3. TypeOK'  BY <1>1, <1>2 DEF TypeOK, TaskTo
<1>4. QuietStep(e)
  BY <1>1, <1>2 DEF QuietStep, Spawned, RunPcs, Parts, WorkerInv, TaskTo, TypeOK
<1> QED BY <1>3, <1>4, QuietParts

(* close_executor wakes the worker and ends.                               *)
LEMMA CloseNotifiesKeeps ==
  ASSUME TypeOK, Parts, NEW e \in Executors, CloseNotifies(e) PROVE TypeOK' /\ Parts'
<1>1. /\ tasks[e].close = "notify" /\ tasks' = [tasks EXCEPT ![e].close = "none"]
      /\ exec' = [exec EXCEPT ![e].permit = TRUE]
      /\ worker' = [worker EXCEPT ![e] = Woken(@)]
      /\ UNCHANGED <<server, group, mgr, doc, req, facade, monitor, stopped>>
  BY DEF CloseNotifies
<1>2. TaskTo(e, "none", tasks[e].fence, tasks[e].tabs)
  BY <1>1, CloseGoes
<1>3. exec' \in [Executors -> ExecutorStates] /\ ExecKept
  BY <1>1, ExecQuiet
<1>4. \/ worker[e].pc = "park" /\ Goes(e, "check")
      \/ worker[e].pc = "select" /\ Goes(e, "runDrain")
      \/ worker[e].pc \notin {"park", "select"} /\ worker' = worker
  BY <1>1 DEF Woken, Goes, TypeOK
<1>5. \/ worker[e].pc = "park" /\ MovesTo(e, "check", worker[e].job, worker[e].stage)
      \/ worker[e].pc = "select" /\ MovesTo(e, "runDrain", worker[e].job, worker[e].stage)
      \/ worker[e].pc \notin {"park", "select"} /\ worker' = worker
  BY <1>4, GoesFields DEF WorkerPcs
<1>6. worker' \in [Executors -> WorkerStates]  BY <1>5 DEF MovesTo, TypeOK
<1>7. TypeOK'  BY <1>1, <1>2, <1>3, <1>6 DEF TypeOK, TaskTo
<1>8. QuietStep(e)
  BY <1>1, <1>2, <1>3, <1>5 DEF QuietStep, Spawned, RunPcs, Parts, WorkerInv, TaskTo, MovesTo, ExecKept, TypeOK
<1> QED BY <1>7, <1>8, QuietParts

(* A forced join aborts the cleanup tasks.                                 *)
LEMMA TasksAbortedKeeps ==
  ASSUME TypeOK, Parts, NEW e \in Executors, TasksAborted(e) PROVE TypeOK' /\ Parts'
<1>1. /\ group[e].aborted /\ tasks' = [tasks EXCEPT ![e].close = "none", ![e].tabs = {}]
      /\ UNCHANGED <<exec, worker, server, group, mgr, doc, req, facade, monitor, stopped>>
  BY DEF TasksAborted
<1>2. TaskTo(e, "none", tasks[e].fence, {})
  <2> DEFINE v == [tasks[e] EXCEPT !.close = "none", !.tabs = {}]
  <2>1. tasks \in [Executors -> TaskStates] /\ tasks[e] \in TaskStates  BY DEF TypeOK
  <2>2. v \in TaskStates /\ v.close = "none" /\ v.fence = tasks[e].fence /\ v.tabs = {}
    BY <2>1 DEF TaskStates
  <2>3. tasks' = [tasks EXCEPT ![e] = v]  BY <1>1, <2>1
  <2> HIDE DEF v
  <2> QED BY <2>2, <2>3, PutTask DEF TaskTo
<1>3. TypeOK'  BY <1>1, <1>2 DEF TypeOK, TaskTo
<1>4. Typed /\ Typed'  BY <1>3, FieldTypes, PTL
<1> USE <1>1, <1>2, <1>4, NoneIsNothing DEF Parts, RunPcs, Spawned, Alive, TaskTo
<1>5. WorkerInv'  BY DEF WorkerInv
<1>6. SlotInv'  BY DEF SlotInv
<1>7. JobInv'  BY DEF JobInv
<1>8. RequestInv'  BY DEF RequestInv, Runs
<1>9. MgrInv'  BY DEF MgrInv, Registered
<1>10. \A t \in Tabs : Gone(t)' <=> Gone(t)
  BY DEF Gone, Working
<1>11. FacadeInv'
  BY <1>10 DEF FacadeInv, Typed, Registered
<1>12. DocumentInv'  BY <1>10 DEF DocumentInv
<1>13. StopInv'  BY DEF StopInv, Runs
<1>14. CancelInv'  BY DEF CancelInv
<1> QED BY <1>3, <1>5, <1>6, <1>7, <1>8, <1>9, <1>11, <1>12, <1>13, <1>14

----------------------------------------------------------------------------
(* The facade's operations.                                                *)

(* Nothing of the executors, workers and requests changes. *)
Still == UNCHANGED <<exec, worker, server, req, stopped>>

(* An operation of the gate that touches no executor, worker or request    *)
(* keeps what is said of them.                                             *)
LEMMA StillKeeps ==
  ASSUME Parts, Still, tasks' = tasks, group' = group
  PROVE  /\ WorkerInv' /\ SlotInv' /\ JobInv' /\ StopInv' /\ CancelInv'
         /\ \A t \in Tabs : Gone(t)' <=> Gone(t)
<1> USE DEF Parts, Still, Runs, RunPcs, Spawned, Alive
<1>1. WorkerInv'  BY DEF WorkerInv
<1>2. SlotInv'  BY DEF SlotInv
<1>3. JobInv'  BY DEF JobInv
<1>4. StopInv'  BY DEF StopInv
<1>5. CancelInv'  BY DEF CancelInv
<1>6. \A t \in Tabs : Gone(t)' <=> Gone(t)  BY DEF Gone, Working
<1> QED BY <1>1, <1>2, <1>3, <1>4, <1>5, <1>6

(* The states of the operation that holds the gate.                        *)
LEMMA FacadeAt ==
  ASSUME NEW p \in {"free", "submit", "tabHeld", "tab", "tabFinish", "join", "finish"},
         NEW t \in Tabs \cup {None}, NEW e \in Executors \cup {None}, NEW b \in BOOLEAN
  PROVE  [pc |-> p, tab |-> t, with |-> e, forced |-> b] \in FacadeStates
BY DEF FacadeStates

(* close_data_document retires the document and reads the current          *)
(* executor.                                                               *)
LEMMA CloseDocumentKeeps ==
  ASSUME TypeOK, Parts, NEW t \in Tabs, CloseDocument(t) PROVE TypeOK' /\ Parts'
<1> DEFINE p == IF mgr.executor = None THEN "tabFinish" ELSE "tabHeld"
<1>1. /\ facade = Free /\ doc[t] = "open" /\ doc' = [doc EXCEPT ![t] = "retired"]
      /\ UNCHANGED <<exec, worker, server, tasks, group, mgr, req, monitor, stopped>>
  BY DEF CloseDocument
<1>t. Typed  BY FieldTypes
<1>2. facade' = [pc |-> p, tab |-> t, with |-> mgr.executor, forced |-> FALSE]
  BY DEF CloseDocument, Free
<1>3. facade' \in FacadeStates /\ facade'.pc = p /\ facade'.tab = t /\ facade'.with = mgr.executor
  BY <1>2, <1>t, FacadeAt DEF Typed
<1>4. TypeOK'  BY <1>1, <1>3 DEF TypeOK
<1>5. /\ WorkerInv' /\ SlotInv' /\ JobInv' /\ StopInv' /\ CancelInv'
      /\ \A u \in Tabs : Gone(u)' <=> Gone(u)
  BY <1>1, StillKeeps DEF Still
<1>6. /\ doc'[t] = "retired" /\ \A u \in Tabs : u # t => doc'[u] = doc[u]
      /\ facade.pc = "free"
  BY <1>1 DEF TypeOK, Free
<1> USE <1>1, <1>t, <1>3, <1>6, NoneIsNothing DEF Parts, RunPcs, Spawned, Alive
<1>7. RequestInv'  BY DEF RequestInv, Runs
<1>8. MgrInv'  BY DEF MgrInv, Registered
<1>9. mgr.executor = None => Gone(t)
  BY DEF MgrInv, Gone, Working, Registered, WorkerInv, SlotInv, Typed
<1>10. FacadeInv'
  BY <1>5, <1>9 DEF FacadeInv, MgrInv, Registered, Typed
<1>11. DocumentInv'  BY <1>5 DEF DocumentInv
<1> QED BY <1>4, <1>5, <1>7, <1>8, <1>10, <1>11

(* close_native_tab returns: the tab's task is gone, so nothing of the tab *)
(* is left on a live executor.                                             *)
LEMMA TabClosedKeeps ==
  ASSUME TypeOK, Parts, TabClosed PROVE TypeOK' /\ Parts'
<1>1. /\ facade.pc = "tab" /\ facade.tab \notin tasks[facade.with].tabs
      /\ facade' = [facade EXCEPT !.pc = "tabFinish"]
      /\ UNCHANGED <<exec, worker, server, tasks, group, mgr, doc, req, monitor, stopped>>
  BY DEF TabClosed
<1>t. Typed  BY FieldTypes
<1>2. facade' \in FacadeStates /\ facade'.pc = "tabFinish" /\ facade'.tab = facade.tab
  BY <1>1 DEF TypeOK, FacadeStates
<1>3. TypeOK'  BY <1>1, <1>2 DEF TypeOK
<1>4. /\ WorkerInv' /\ SlotInv' /\ JobInv' /\ StopInv' /\ CancelInv'
      /\ \A u \in Tabs : Gone(u)' <=> Gone(u)
  BY <1>1, StillKeeps DEF Still
<1> USE <1>1, <1>t, <1>2, NoneIsNothing DEF Parts, RunPcs, Spawned, Alive
<1>5. RequestInv'  BY DEF RequestInv, Runs
<1>6. MgrInv'  BY DEF MgrInv, Registered
<1>7. FacadeInv'
  BY <1>4 DEF FacadeInv, Registered, Typed
<1>8. DocumentInv'  BY <1>4 DEF DocumentInv
<1> QED BY <1>3, <1>4, <1>5, <1>6, <1>7, <1>8

(* finish closes the document once its requests have settled.              *)
LEMMA DocumentFinishedKeeps ==
  ASSUME TypeOK, Parts, DocumentFinished PROVE TypeOK' /\ Parts'
<1>1. /\ facade.pc = "tabFinish" /\ Settles(facade.tab)
      /\ facade' = Free /\ doc' = [doc EXCEPT ![facade.tab] = "closed"]
      /\ UNCHANGED <<exec, worker, server, tasks, group, mgr, req, monitor, stopped>>
  BY DEF DocumentFinished
<1>t. Typed  BY FieldTypes
<1>2. facade' \in FacadeStates /\ facade'.pc = "free"
  BY <1>1, FacadeAt DEF Free
<1>3. TypeOK'  BY <1>1, <1>2 DEF TypeOK
<1>4. /\ WorkerInv' /\ SlotInv' /\ JobInv' /\ StopInv' /\ CancelInv'
      /\ \A u \in Tabs : Gone(u)' <=> Gone(u)
  BY <1>1, StillKeeps DEF Still
<1>5. /\ facade.tab \in Tabs /\ doc'[facade.tab] = "closed" /\ Gone(facade.tab)
      /\ \A u \in Tabs : u # facade.tab => doc'[u] = doc[u]
  BY <1>1 DEF TypeOK, Parts, FacadeInv
<1> USE <1>1, <1>t, <1>2, <1>5, NoneIsNothing DEF Parts, RunPcs, Spawned, Alive
<1>6. RequestInv'  BY DEF RequestInv, Runs
<1>7. MgrInv'  BY DEF MgrInv, Registered
<1>8. FacadeInv'
  BY DEF FacadeInv
<1>9. DocumentInv'  BY <1>4 DEF DocumentInv, Settles, OfTab
<1> QED BY <1>3, <1>4, <1>6, <1>7, <1>8, <1>9

(* The final deadline fails the operation and leaves its fence.            *)
LEMMA FinalDeadlineKeeps ==
  ASSUME TypeOK, Parts, FinalDeadline PROVE TypeOK' /\ Parts'
<1>1. /\ facade.pc \in {"join", "finish"} /\ facade' = Free
      /\ UNCHANGED <<exec, worker, server, tasks, group, mgr, doc, req, monitor, stopped>>
  BY DEF FinalDeadline
<1>t. Typed  BY FieldTypes
<1>2. facade' \in FacadeStates /\ facade'.pc = "free"
  BY <1>1, FacadeAt DEF Free
<1>3. TypeOK'  BY <1>1, <1>2 DEF TypeOK
<1>4. /\ WorkerInv' /\ SlotInv' /\ JobInv' /\ StopInv' /\ CancelInv'
      /\ \A u \in Tabs : Gone(u)' <=> Gone(u)
  BY <1>1, StillKeeps DEF Still
<1> USE <1>1, <1>t, <1>2, NoneIsNothing DEF Parts, RunPcs, Spawned, Alive
<1>6. RequestInv'  BY DEF RequestInv, Runs
<1>7. MgrInv'  BY DEF MgrInv, Registered
<1>8. FacadeInv'
  BY DEF FacadeInv
<1>9. DocumentInv'  BY <1>4 DEF DocumentInv
<1> QED BY <1>3, <1>4, <1>6, <1>7, <1>8, <1>9

(* finish_retired closes the documents and end_connection_teardown lifts   *)
(* the fence: with every group joined, no executor is left.                *)
LEMMA DataRetiredKeeps ==
  ASSUME TypeOK, Parts, DataRetired PROVE TypeOK' /\ Parts'
<1>1. /\ facade.pc = "finish" /\ \A t \in Tabs : doc[t] = "retired" => Settles(t)
      /\ facade' = Free /\ mgr' = [mgr EXCEPT !.closing = FALSE]
      /\ doc' = [t \in Tabs |-> IF doc[t] = "retired" THEN "closed" ELSE doc[t]]
      /\ UNCHANGED <<exec, worker, server, tasks, group, req, monitor, stopped>>
  BY DEF DataRetired
<1>t. Typed  BY FieldTypes
<1>2. facade' \in FacadeStates /\ facade'.pc = "free"
  BY <1>1, FacadeAt DEF Free
<1>3. /\ mgr' \in [executor : Executors \cup {None}, closing : BOOLEAN, idleClosing : BOOLEAN]
      /\ mgr'.executor = mgr.executor /\ ~mgr'.closing /\ mgr'.idleClosing = mgr.idleClosing
  BY <1>1 DEF TypeOK
<1>4. doc' \in [Tabs -> {"none", "open", "retired", "closed"}]  BY <1>1 DEF TypeOK
<1>5. TypeOK'  BY <1>1, <1>2, <1>3, <1>4 DEF TypeOK
<1>6. /\ WorkerInv' /\ SlotInv' /\ JobInv' /\ StopInv' /\ CancelInv'
      /\ \A u \in Tabs : Gone(u)' <=> Gone(u)
  BY <1>1, StillKeeps DEF Still
<1> USE <1>1, <1>t, <1>2, <1>3, NoneIsNothing DEF Parts, RunPcs, Spawned, Alive
<1>7. \A t \in Tabs : Gone(t)
  BY DEF FacadeInv, Gone, Registered, WorkerInv
<1>8. RequestInv'  BY DEF RequestInv, Runs
<1>9. MgrInv'  BY DEF MgrInv, Registered, FacadeInv
<1>10. FacadeInv'
  BY DEF FacadeInv
<1>11. DocumentInv'  BY <1>6, <1>7 DEF DocumentInv, Settles, OfTab
<1> QED BY <1>5, <1>6, <1>8, <1>9, <1>10, <1>11

(* The connection's fence, once begin_connection_teardown has set it. *)
LEMMA RetiredDocsType ==
  ASSUME TypeOK, doc' = RetiredDocs
  PROVE  /\ doc' \in [Tabs -> {"none", "open", "retired", "closed"}]
         /\ \A t \in Tabs : doc'[t] = IF doc[t] = "open" THEN "retired" ELSE doc[t]
BY DEF TypeOK, RetiredDocs

(* retire_data fences the connection and starts the close of its executor. *)
LEMMA RetireDataKeeps ==
  ASSUME TypeOK, Parts, RetireData PROVE TypeOK' /\ Parts'
<1> DEFINE e == mgr.executor
<1>1. /\ facade = Free /\ doc' = RetiredDocs
      /\ mgr' = [executor |-> None, closing |-> TRUE, idleClosing |-> FALSE]
      /\ tasks' = StartClose(e, TRUE) /\ facade' = [Free EXCEPT !.pc = "join"]
      /\ UNCHANGED <<exec, worker, server, group, req, monitor, stopped>>
  BY DEF RetireData
<1>t. Typed  BY FieldTypes
<1>2. /\ mgr' \in [executor : Executors \cup {None}, closing : BOOLEAN, idleClosing : BOOLEAN]
      /\ mgr'.executor = None /\ mgr'.closing /\ ~mgr'.idleClosing
  BY <1>1
<1>3. /\ doc' \in [Tabs -> {"none", "open", "retired", "closed"}]
      /\ \A t \in Tabs : doc'[t] = IF doc[t] = "open" THEN "retired" ELSE doc[t]
  BY <1>1, RetiredDocsType
<1>4. facade' \in FacadeStates /\ facade'.pc = "join" /\ facade.pc = "free"
  BY <1>1 DEF Free, FacadeStates
<1>5. \/ tasks' = tasks
      \/ e \in Executors /\ group[e].registered /\ TaskTo(e, "mark", TRUE, tasks[e].tabs)
  BY <1>1, <1>t, StartCloseFields DEF Typed
<1>6. tasks' \in [Executors -> TaskStates]  BY <1>5 DEF TypeOK, TaskTo
<1>s. \A d \in Executors :
        \/ tasks'[d] = tasks[d]
        \/ group[d].registered /\ tasks'[d].close = "mark" /\ tasks'[d].fence
  BY <1>5 DEF TaskTo
<1> HIDE DEF e
<1>9. WorkerInv'
  <2>1. ASSUME NEW d \in Executors, worker[d].pc = "none"
        PROVE  tasks'[d].close = "none" /\ tasks'[d].tabs = {}
    BY <2>1, <1>s DEF Parts, WorkerInv, Spawned
  <2> QED BY <1>1, <2>1 DEF Parts, WorkerInv, RunPcs, Spawned, Alive
<1>7. TypeOK'  BY <1>1, <1>2, <1>3, <1>4, <1>6 DEF TypeOK
<1>8. Typed'  BY <1>7, FieldTypes, PTL
<1> USE <1>1, <1>t, <1>2, <1>3, <1>4, <1>8, NoneIsNothing DEF Parts, RunPcs, Spawned, Alive
<1>10. SlotInv'  BY DEF SlotInv
<1>11. JobInv'  BY DEF JobInv
<1>12. RequestInv'  BY DEF RequestInv, Runs
<1>13. MgrInv'  BY DEF MgrInv, Registered
<1>14. \A t \in Tabs : Gone(t)' <=> Gone(t)
  BY DEF Gone, Working
<1>15. FacadeInv'
  BY DEF FacadeInv
<1>16. DocumentInv'  BY <1>14 DEF DocumentInv
<1>17. StopInv'  BY DEF StopInv, Runs
<1>18. CancelInv'
  <2>1. ASSUME NEW d \in Executors
        PROVE  /\ tasks'[d].close = "mark" /\ ~tasks'[d].fence => tasks[d].close = "mark" /\ ~tasks[d].fence
               /\ tasks'[d].close = "cancel" => tasks[d].close = "cancel"
    BY <1>s
  <2> QED BY <2>1 DEF CancelInv
<1> QED BY <1>7, <1>9, <1>10, <1>11, <1>12, <1>13, <1>15, <1>16, <1>17, <1>18

(* The graceful deadline retires every document and aborts the registered  *)
(* groups.                                                                 *)
LEMMA GracefulDeadlineKeeps ==
  ASSUME TypeOK, Parts, GracefulDeadline PROVE TypeOK' /\ Parts'
<1>1. /\ facade.pc \in {"tab", "tabFinish", "join"} /\ doc' = RetiredDocs
      /\ mgr' = [executor |-> None, closing |-> TRUE, idleClosing |-> FALSE]
      /\ group' = [e \in Executors |-> [group[e] EXCEPT !.aborted = @ \/ e \in Registered]]
      /\ facade' = [Free EXCEPT !.pc = "join", !.forced = TRUE]
      /\ UNCHANGED <<exec, worker, server, tasks, req, monitor, stopped>>
  BY DEF GracefulDeadline
<1>t. Typed  BY FieldTypes
<1>2. /\ mgr' \in [executor : Executors \cup {None}, closing : BOOLEAN, idleClosing : BOOLEAN]
      /\ mgr'.executor = None /\ mgr'.closing /\ ~mgr'.idleClosing
  BY <1>1
<1>3. /\ doc' \in [Tabs -> {"none", "open", "retired", "closed"}]
      /\ \A t \in Tabs : doc'[t] = IF doc[t] = "open" THEN "retired" ELSE doc[t]
  BY <1>1, RetiredDocsType
<1>4. facade' \in FacadeStates /\ facade'.pc = "join"
  BY <1>1 DEF Free, FacadeStates
<1>5. /\ group' \in [Executors -> [registered : BOOLEAN, aborted : BOOLEAN]]
      /\ \A e \in Executors : group'[e].registered = group[e].registered
                              /\ (group[e].aborted => group'[e].aborted)
  BY <1>1 DEF TypeOK
<1>7. TypeOK'  BY <1>1, <1>2, <1>3, <1>4, <1>5 DEF TypeOK
<1>8. Typed'  BY <1>7, FieldTypes, PTL
<1> USE <1>1, <1>t, <1>2, <1>3, <1>4, <1>5, <1>8, NoneIsNothing DEF Parts, RunPcs, Spawned, Alive
<1>9. WorkerInv'  BY DEF WorkerInv
<1>10. SlotInv'  BY DEF SlotInv
<1>11. JobInv'  BY DEF JobInv
<1>12. RequestInv'  BY DEF RequestInv, Runs
<1>13. MgrInv'  BY DEF MgrInv, Registered
<1>14. \A t \in Tabs : Gone(t) => Gone(t)'
  BY DEF Gone, Working
<1>15. FacadeInv'
  BY DEF FacadeInv
<1>16. DocumentInv'  BY <1>14 DEF DocumentInv
<1>17. StopInv'  BY DEF StopInv, Runs
<1>18. CancelInv'  BY DEF CancelInv
<1> QED BY <1>7, <1>9, <1>10, <1>11, <1>12, <1>13, <1>15, <1>16, <1>17, <1>18

----------------------------------------------------------------------------
(* Idle closes and joins.                                                  *)

(* A joined executor keeps only its closed flag and its slots.             *)
LEMMA UnregisterFields ==
  ASSUME TypeOK, NEW S, Unregister(S)
  PROVE  /\ group' \in [Executors -> [registered : BOOLEAN, aborted : BOOLEAN]]
         /\ exec' \in [Executors -> ExecutorStates]
         /\ \A d \in Executors :
              /\ group'[d].registered <=> group[d].registered /\ d \notin S
              /\ group'[d].aborted = group[d].aborted
              /\ exec'[d].closed = exec[d].closed /\ exec'[d].queued = exec[d].queued
              /\ d \notin S => exec'[d] = exec[d]
              /\ d \in S => /\ exec'[d].flight = None /\ ~exec'[d].pending
                            /\ \A t \in Tabs : exec'[d].latest[t] = 0
<1>1. group' \in [Executors -> [registered : BOOLEAN, aborted : BOOLEAN]]
      /\ \A d \in Executors :
              /\ group'[d].registered <=> group[d].registered /\ d \notin S
              /\ group'[d].aborted = group[d].aborted
  BY DEF TypeOK, Unregister
<1> DEFINE v(d) == [Unspawned EXCEPT !.closed = exec[d].closed, !.queued = exec[d].queued]
<1>2. ASSUME NEW d \in Executors
      PROVE /\ exec[d] \in ExecutorStates /\ v(d) \in ExecutorStates
            /\ v(d).closed = exec[d].closed /\ v(d).queued = exec[d].queued
            /\ v(d).flight = None /\ ~v(d).pending /\ \A t \in Tabs : v(d).latest[t] = 0
  <2>1. exec[d] \in ExecutorStates  BY DEF TypeOK
  <2>2. exec[d].closed \in BOOLEAN /\ exec[d].queued \in [Tabs -> Requests \cup {None}]
    BY <2>1 DEF ExecutorStates
  <2>3. Unspawned \in ExecutorStates
    BY BrowseAssumption DEF Unspawned, ExecutorStates, NoJobs
  <2>4. Unspawned.flight = None /\ ~Unspawned.pending /\ \A t \in Tabs : Unspawned.latest[t] = 0
    BY DEF Unspawned
  <2> QED BY <2>1, <2>2, <2>3, <2>4 DEF ExecutorStates
<1>3. exec' = [d \in Executors |-> IF d \in S THEN v(d) ELSE exec[d]]
  BY DEF Unregister
<1> HIDE DEF v
<1> QED BY <1>1, <1>2, <1>3

(* close_native_idle closes and fences an executor that is idle under both *)
(* locks.                                                                  *)
LEMMA IdleCloseKeeps ==
  ASSUME TypeOK, Parts, IdleClose PROVE TypeOK' /\ Parts'
<1> DEFINE e == mgr.executor
<1>1. /\ monitor = None /\ e # None /\ worker[e].job = None
      /\ exec' = [exec EXCEPT ![e].closed = TRUE] /\ tasks' = StartClose(e, FALSE)
      /\ mgr' = [executor |-> None, closing |-> TRUE, idleClosing |-> TRUE] /\ monitor' = e
      /\ UNCHANGED <<worker, server, group, doc, req, facade, stopped>>
  BY DEF IdleClose
<1>t. Typed  BY FieldTypes
<1>2. e \in Executors /\ \A t \in Tabs : exec[e].queued[t] = None
  <2>1. e \in Executors /\ Queued(e) = {}  BY <1>1, <1>t DEF IdleClose, Typed
  <2> HIDE DEF e
  <2>2. ASSUME NEW t \in Tabs PROVE exec[e].queued[t] = None
    <3>1. QueuedOf(e, t) = {}  BY <2>1 DEF Queued
    <3> QED BY <3>1 DEF QueuedOf
  <2> QED BY <2>1, <2>2
<1>3. /\ mgr' \in [executor : Executors \cup {None}, closing : BOOLEAN, idleClosing : BOOLEAN]
      /\ mgr'.executor = None /\ mgr'.closing /\ mgr'.idleClosing
  BY <1>1
<1>4. /\ exec' \in [Executors -> ExecutorStates]
      /\ exec'[e].closed /\ exec'[e].queued = exec[e].queued /\ exec'[e].flight = exec[e].flight
      /\ exec'[e].latest = exec[e].latest /\ exec'[e].interrupt = exec[e].interrupt
      /\ exec'[e].pending = exec[e].pending
      /\ \A d \in Executors : d # e => exec'[d] = exec[d]
  <2> DEFINE v == [exec[e] EXCEPT !.closed = TRUE]
  <2>1. exec \in [Executors -> ExecutorStates] /\ exec[e] \in ExecutorStates  BY <1>2 DEF TypeOK
  <2>2. v \in ExecutorStates /\ v.closed /\ v.queued = exec[e].queued /\ v.flight = exec[e].flight
        /\ v.latest = exec[e].latest /\ v.interrupt = exec[e].interrupt /\ v.pending = exec[e].pending
    BY <2>1 DEF ExecutorStates
  <2>3. exec' = [exec EXCEPT ![e] = v]  BY <1>1
  <2> HIDE DEF v, e
  <2> QED BY <1>2, <2>1, <2>2, <2>3
<1>5. \/ tasks' = tasks /\ ~group[e].registered
      \/ group[e].registered /\ TaskTo(e, "mark", FALSE, tasks[e].tabs)
  BY <1>1, <1>2, StartCloseFields
<1>6. tasks' \in [Executors -> TaskStates]  BY <1>5 DEF TypeOK, TaskTo
<1>7. TypeOK'  BY <1>1, <1>2, <1>3, <1>4, <1>6 DEF TypeOK
<1>8. Typed'  BY <1>7, FieldTypes, PTL
<1>s. \A d \in Executors :
        \/ tasks'[d] = tasks[d]
        \/ d = e /\ group[d].registered /\ tasks'[d].close = "mark" /\ tasks'[d].tabs = tasks[d].tabs
  BY <1>5 DEF TaskTo
<1>w. Spawned(e) /\ ~mgr.closing /\ \A d \in Registered : d = e
  BY <1>1 DEF Parts, MgrInv
<1>u. /\ worker[e].job = None /\ monitor = None /\ monitor' = e
      /\ UNCHANGED <<worker, server, group, doc, req, facade, stopped>>
  BY <1>1
<1> HIDE DEF e
<1> USE <1>u, <1>2, <1>t, <1>3, <1>4, <1>8, <1>s, <1>w, NoneIsNothing DEF Parts, RunPcs, Spawned, Alive
<1>9. WorkerInv'
  <2>1. ASSUME NEW d \in Executors, worker[d].pc = "none"
        PROVE  tasks'[d].close = "none" /\ tasks'[d].tabs = {} /\ d # e
    BY <2>1 DEF WorkerInv
  <2> QED BY <2>1 DEF WorkerInv
<1>10. SlotInv'  BY DEF SlotInv
<1>11. JobInv'  BY DEF JobInv
<1>12. RequestInv'  BY DEF RequestInv, Runs, Typed
<1>13. MgrInv'  BY DEF MgrInv, Registered
<1>14. \A t \in Tabs : Gone(t) => Gone(t)'
  BY DEF Gone, Working
<1>15. FacadeInv'
  BY <1>14 DEF FacadeInv, Registered, Typed
<1>16. DocumentInv'  BY <1>14 DEF DocumentInv
<1>17. StopInv'  BY DEF StopInv, Runs
<1>18. CancelInv'  BY DEF CancelInv
<1> QED BY <1>7, <1>9, <1>10, <1>11, <1>12, <1>13, <1>15, <1>16, <1>17, <1>18

(* The executors in S are joined: nothing of them was left to run. *)
LEMMA UnregisterKeeps ==
  ASSUME Typed, Typed', Parts, NEW S, Unregister(S), TypeOK, \A d \in Executors \cap S : Joined(d),
         UNCHANGED <<worker, server, tasks, doc, req, stopped>>
  PROVE  /\ WorkerInv' /\ SlotInv' /\ JobInv' /\ StopInv' /\ CancelInv'
         /\ \A t \in Tabs : Gone(t) => Gone(t)'
<1>1. \A d \in Executors :
        /\ group'[d].registered <=> group[d].registered /\ d \notin S
        /\ group'[d].aborted = group[d].aborted
        /\ exec'[d].closed = exec[d].closed /\ exec'[d].queued = exec[d].queued
        /\ d \notin S => exec'[d] = exec[d]
        /\ d \in S => /\ exec'[d].flight = None /\ ~exec'[d].pending
                      /\ \A t \in Tabs : exec'[d].latest[t] = 0
  BY UnregisterFields
<1>2. \A d \in Executors : d \in S => worker[d].pc = "exit" /\ tasks[d].close = "none"
  BY DEF Joined
<1>3. WorkerInv'
  <2> SUFFICES ASSUME NEW d \in Executors
               PROVE  /\ worker[d].pc = "none" =>
                         /\ ~group'[d].registered /\ ~exec'[d].closed /\ exec'[d].flight = None
                         /\ ~exec'[d].pending
                         /\ \A t \in Tabs : exec'[d].queued[t] = None /\ exec'[d].latest[t] = 0
                      /\ worker[d].pc = "exit" => exec'[d].closed \/ group'[d].aborted
                      /\ Alive(d) => group'[d].registered
    BY DEF Parts, WorkerInv, Spawned, Alive
  <2> QED BY <1>1, <1>2 DEF Parts, Spawned, Alive, WorkerInv, Typed
<1> USE <1>1, <1>2, NoneIsNothing DEF Parts, Runs, RunPcs, Spawned, Alive
<1>4. SlotInv'  BY DEF SlotInv
<1>5. JobInv'  BY DEF JobInv
<1>6. StopInv'  BY DEF StopInv
<1>7. CancelInv'  BY DEF CancelInv
<1>8. \A t \in Tabs : Gone(t) => Gone(t)'  BY DEF Gone, Working
<1> QED BY <1>3, <1>4, <1>5, <1>6, <1>7, <1>8

(* The idle monitor has joined its executor and lifts its own fence only.  *)
LEMMA IdleClosedKeeps ==
  ASSUME TypeOK, Parts, IdleClosed PROVE TypeOK' /\ Parts'
<1>1. /\ monitor # None /\ Joined(monitor) /\ Unregister({monitor}) /\ monitor' = None
      /\ mgr' = [mgr EXCEPT !.idleClosing = FALSE, !.closing = @ /\ ~mgr.idleClosing]
      /\ UNCHANGED <<worker, server, tasks, doc, req, facade, stopped>>
  BY DEF IdleClosed
<1>t. Typed  BY FieldTypes
<1>2. /\ mgr' \in [executor : Executors \cup {None}, closing : BOOLEAN, idleClosing : BOOLEAN]
      /\ mgr'.executor = mgr.executor /\ mgr'.closing = (mgr.closing /\ ~mgr.idleClosing)
      /\ ~mgr'.idleClosing
  BY <1>1 DEF TypeOK
<1>3. /\ group' \in [Executors -> [registered : BOOLEAN, aborted : BOOLEAN]]
      /\ exec' \in [Executors -> ExecutorStates]
      /\ \A d \in Executors :
              /\ group'[d].registered = (group[d].registered /\ d # monitor)
              /\ group'[d].aborted = group[d].aborted /\ exec'[d].queued = exec[d].queued
  BY <1>1, UnregisterFields
<1>4. TypeOK'  BY <1>1, <1>2, <1>3 DEF TypeOK
<1>5. Typed'  BY <1>4, FieldTypes, PTL
<1>6. /\ WorkerInv' /\ SlotInv' /\ JobInv' /\ StopInv' /\ CancelInv'
      /\ \A t \in Tabs : Gone(t) => Gone(t)'
  BY <1>1, <1>t, <1>5, UnregisterKeeps
<1> USE <1>1, <1>t, <1>2, <1>3, <1>5, NoneIsNothing DEF Parts, RunPcs, Spawned, Alive
<1>7. RequestInv'  BY DEF RequestInv, Runs, Typed
<1>8. MgrInv'  BY DEF MgrInv, Registered
<1>9. FacadeInv'
  BY <1>6 DEF FacadeInv, Registered, Typed
<1>10. DocumentInv'  BY <1>6 DEF DocumentInv
<1> QED BY <1>4, <1>6, <1>7, <1>8, <1>9, <1>10

(* A teardown has joined every group of the connection.                    *)
LEMMA GroupsJoinedKeeps ==
  ASSUME TypeOK, Parts, GroupsJoined PROVE TypeOK' /\ Parts'
<1>1. /\ facade.pc = "join" /\ (\A e \in Registered : Joined(e)) /\ Unregister(Registered)
      /\ facade' = [facade EXCEPT !.pc = "finish"]
      /\ UNCHANGED <<worker, server, tasks, mgr, doc, req, monitor, stopped>>
  BY DEF GroupsJoined
<1>t. Typed  BY FieldTypes
<1>2. facade' \in FacadeStates /\ facade'.pc = "finish"
  BY <1>1 DEF TypeOK, FacadeStates
<1>3. /\ group' \in [Executors -> [registered : BOOLEAN, aborted : BOOLEAN]]
      /\ exec' \in [Executors -> ExecutorStates]
      /\ \A d \in Executors :
              /\ group'[d].registered = (group[d].registered /\ d \notin Registered)
              /\ group'[d].aborted = group[d].aborted
              /\ exec'[d].queued = exec[d].queued /\ exec'[d].closed = exec[d].closed
  BY <1>1, UnregisterFields
<1>r. \A d \in Executors : ~group'[d].registered  BY <1>3 DEF Registered
<1>4. TypeOK'  BY <1>1, <1>2, <1>3 DEF TypeOK
<1>5. Typed'  BY <1>4, FieldTypes, PTL
<1>6. /\ WorkerInv' /\ SlotInv' /\ JobInv' /\ StopInv' /\ CancelInv'
      /\ \A t \in Tabs : Gone(t) => Gone(t)'
  BY <1>1, <1>t, <1>5, UnregisterKeeps
<1> USE <1>1, <1>t, <1>2, <1>3, <1>r, <1>5, NoneIsNothing DEF Parts, RunPcs, Spawned, Alive
<1>7. RequestInv'  BY DEF RequestInv, Runs, Typed
<1>8. MgrInv'  BY DEF MgrInv, Registered, Typed
<1>9. FacadeInv'
  BY <1>6 DEF FacadeInv, Registered, Typed
<1>10. DocumentInv'  BY <1>6 DEF DocumentInv
<1> QED BY <1>4, <1>6, <1>7, <1>8, <1>9, <1>10

----------------------------------------------------------------------------
(* Submissions and waiters.                                                *)

(* What one request becomes. *)
RequestTo(r, p, t, w, a) ==
    /\ req' \in [Requests -> RequestStates]
    /\ req'[r].pc = p /\ req'[r].tab = t /\ req'[r].with = w /\ req'[r].reply = a
    /\ \A s \in Requests : s # r => req'[s] = req[s]

(* A request's record is replaced as a whole.                              *)
LEMMA PutRequest ==
  ASSUME TypeOK, NEW r \in Requests, NEW v \in RequestStates, req' = [req EXCEPT ![r] = v]
  PROVE  RequestTo(r, v.pc, v.tab, v.with, v.reply)
BY DEF TypeOK, RequestTo

(* An admitted request is held by the gate and its document is open.       *)
LEMMA AdmittedFields ==
  ASSUME TypeOK, NEW r \in Requests, NEW t \in Tabs, NEW e \in Executors, Admitted(r, t, e)
  PROVE  /\ RequestTo(r, "held", t, e, req[r].reply)
         /\ doc' \in [Tabs -> {"none", "open", "retired", "closed"}]
         /\ doc'[t] = "open" /\ \A u \in Tabs : u # t => doc'[u] = doc[u]
         /\ facade' \in FacadeStates /\ facade'.pc = "submit"
<1> DEFINE v == [req[r] EXCEPT !.pc = "held", !.tab = t, !.with = e]
<1>1. req[r] \in RequestStates /\ req \in [Requests -> RequestStates]  BY DEF TypeOK
<1>2. v \in RequestStates /\ v.pc = "held" /\ v.tab = t /\ v.with = e /\ v.reply = req[r].reply
  BY <1>1 DEF RequestStates
<1>3. req' = [req EXCEPT ![r] = v]  BY <1>1 DEF Admitted, RequestStates
<1> HIDE DEF v
<1>4. RequestTo(r, "held", t, e, req[r].reply)  BY <1>2, <1>3, PutRequest
<1>5. facade' \in FacadeStates /\ facade'.pc = "submit"
  BY DEF Admitted, Free, FacadeStates
<1>6. doc' \in [Tabs -> {"none", "open", "retired", "closed"}]
      /\ doc'[t] = "open" /\ \A u \in Tabs : u # t => doc'[u] = doc[u]
  BY DEF Admitted, TypeOK
<1> QED BY <1>4, <1>5, <1>6

(* An admitted request: executor e is the connection's, spawned or not. *)
LEMMA AdmittedParts ==
  ASSUME TypeOK, Typed, Typed', Parts, NEW r \in Requests, NEW t \in Tabs, NEW e \in Executors,
         MaySubmit(r, t), ~mgr.closing, Admitted(r, t, e),
         worker'[e].pc # "none", \A d \in Executors : worker'[d].job = worker[d].job,
         \A d \in Executors : worker[d].pc # "none" => worker'[d] = worker[d],
         UNCHANGED <<exec, server, tasks, monitor, stopped>>
  PROVE  RequestInv' /\ SlotInv' /\ JobInv' /\ CancelInv' /\ StopInv'
<1>1. /\ req'[r].pc = "held" /\ req'[r].tab = t /\ req'[r].with = e /\ req'[r].reply = "none"
      /\ \A s \in Requests : s # r => req'[s] = req[s]
      /\ doc'[t] = "open" /\ \A u \in Tabs : u # t => doc'[u] = doc[u]
      /\ facade'.pc = "submit"
  BY AdmittedFields DEF RequestTo, Parts, RequestInv, MaySubmit
<1>2. /\ req[r].pc = "new" /\ facade.pc = "free" /\ r \notin stopped
  BY DEF MaySubmit, Free, Parts, StopInv, RequestInv, JobInv, Runs, WorkerInv, RunPcs, Typed
<1> USE <1>1, <1>2, NoneIsNothing DEF Parts, Runs, RunPcs, Spawned, Alive
<1>3. RequestInv'  BY SMTT(30) DEF RequestInv, Typed, WorkerInv
<1>4. SlotInv'  BY SMTT(30) DEF SlotInv, Typed
<1>5. JobInv'  BY DEF JobInv, WorkerInv, Typed
<1>6. CancelInv'  BY DEF CancelInv, WorkerInv
<1>7. StopInv'
  <2>1. \A d \in Executors : exec[d].flight # r
    BY DEF StopInv, JobInv, RequestInv, Typed
  <2>2. \A d \in Executors, s \in Requests : Runs(d, s) => worker'[d] = worker[d]
    OBVIOUS
  <2>3. \A d \in Executors : exec[d].flight # None => worker'[d] = worker[d]
    BY DEF WorkerInv
  <2>4. \A s \in stopped : s \in Requests /\ req'[s] = req[s]
    BY DEF Typed
  <2>5. \A d \in Executors : exec[d].flight # None => req'[exec[d].flight] = req[exec[d].flight]
    BY <2>1 DEF Typed
  <2> QED BY <2>2, <2>3, <2>4, <2>5 DEF StopInv
<1> QED BY <1>3, <1>4, <1>5, <1>6, <1>7

(* native_executor_for returns the current executor.                       *)
LEMMA SubmitToCurrentKeeps ==
  ASSUME TypeOK, Parts, NEW r \in Requests, NEW t \in Tabs, SubmitToCurrent(r, t)
  PROVE  TypeOK' /\ Parts'
<1> DEFINE e == mgr.executor
<1>1. /\ MaySubmit(r, t) /\ ~mgr.closing /\ e # None /\ Admitted(r, t, e)
      /\ UNCHANGED <<exec, worker, server, tasks, group, mgr, monitor, stopped>>
  BY DEF SubmitToCurrent
<1>t. Typed  BY FieldTypes
<1>2. e \in Executors /\ worker[e].pc # "none"  BY <1>1, <1>t DEF Typed, Parts, MgrInv, Spawned
<1> HIDE DEF e
<1>3. /\ RequestTo(r, "held", t, e, req[r].reply)
      /\ doc' \in [Tabs -> {"none", "open", "retired", "closed"}]
      /\ doc'[t] = "open" /\ \A u \in Tabs : u # t => doc'[u] = doc[u]
      /\ facade' \in FacadeStates /\ facade'.pc = "submit"
  BY <1>1, <1>2, AdmittedFields
<1>4. TypeOK'  BY <1>1, <1>3 DEF TypeOK, RequestTo
<1>5. Typed'  BY <1>4, FieldTypes, PTL
<1>6. RequestInv' /\ SlotInv' /\ JobInv' /\ CancelInv' /\ StopInv'
  BY <1>1, <1>t, <1>2, <1>5, AdmittedParts
<1>u. /\ doc[t] # "closed" /\ facade.pc = "free" /\ req[r].pc = "new"
  BY <1>1 DEF MaySubmit, Free
<1> USE <1>1, <1>2, <1>t, <1>3, <1>5, <1>u, NoneIsNothing DEF Parts, RunPcs, Spawned, Alive, RequestTo
<1>7. WorkerInv'  BY DEF WorkerInv
<1>8. MgrInv'  BY DEF MgrInv, Registered
<1>9. FacadeInv'  BY DEF FacadeInv
<1>10. DocumentInv'
  <2>1. ASSUME NEW u \in Tabs, Gone(u) PROVE Gone(u)'
    BY SMTT(30), <2>1 DEF Gone, Working, JobInv, Typed
  <2> QED BY <2>1 DEF DocumentInv
<1> QED BY <1>4, <1>6, <1>7, <1>8, <1>9, <1>10

(* native_executor_for spawns an executor: no other is registered.         *)
LEMMA SubmitSpawnsKeeps ==
  ASSUME TypeOK, Parts, NEW r \in Requests, NEW t \in Tabs, SubmitSpawns(r, t)
  PROVE  TypeOK' /\ Parts'
<1>1. PICK e \in Executors :
        /\ MaySubmit(r, t) /\ ~mgr.closing /\ mgr.executor = None /\ Admitted(r, t, e)
        /\ worker[e].pc = "none" /\ worker' = [worker EXCEPT ![e].pc = "check"]
        /\ group' = [group EXCEPT ![e] = [registered |-> TRUE, aborted |-> FALSE]]
        /\ mgr' = [mgr EXCEPT !.executor = e]
        /\ UNCHANGED <<exec, server, tasks, monitor, stopped>>
  BY DEF SubmitSpawns
<1>t. Typed  BY FieldTypes
<1>2. MovesTo(e, "check", worker[e].job, worker[e].stage)
  BY <1>1, GoesFields DEF Goes, WorkerPcs
<1>3. /\ RequestTo(r, "held", t, e, req[r].reply)
      /\ doc' \in [Tabs -> {"none", "open", "retired", "closed"}]
      /\ doc'[t] = "open" /\ \A u \in Tabs : u # t => doc'[u] = doc[u]
      /\ facade' \in FacadeStates /\ facade'.pc = "submit"
  BY <1>1, AdmittedFields
<1>g. /\ group' \in [Executors -> [registered : BOOLEAN, aborted : BOOLEAN]]
      /\ group'[e].registered /\ ~group'[e].aborted
      /\ \A d \in Executors : d # e => group'[d] = group[d]
  BY <1>1 DEF TypeOK
<1>m. /\ mgr' \in [executor : Executors \cup {None}, closing : BOOLEAN, idleClosing : BOOLEAN]
      /\ mgr'.executor = e /\ mgr'.closing = mgr.closing /\ mgr'.idleClosing = mgr.idleClosing
  BY <1>1 DEF TypeOK
<1>4. TypeOK'  BY <1>1, <1>2, <1>3, <1>g, <1>m DEF TypeOK, RequestTo, MovesTo
<1>5. Typed'  BY <1>4, FieldTypes, PTL
<1>6. RequestInv' /\ SlotInv' /\ JobInv' /\ CancelInv' /\ StopInv'
  <2>1. /\ worker'[e].pc # "none" /\ \A d \in Executors : worker'[d].job = worker[d].job
        /\ \A d \in Executors : worker[d].pc # "none" => worker'[d] = worker[d]
    BY <1>1, <1>2 DEF MovesTo
  <2> QED BY <1>1, <1>t, <2>1, <1>5, AdmittedParts
<1>u. /\ doc[t] # "closed" /\ facade.pc = "free" /\ req[r].pc = "new"
      /\ worker[e].pc = "none" /\ ~mgr.closing /\ mgr.executor = None
      /\ UNCHANGED <<exec, server, tasks, monitor, stopped>>
  BY <1>1 DEF MaySubmit, Free
<1> USE <1>u, <1>2, <1>t, <1>3, <1>5, <1>g, <1>m, NoneIsNothing
        DEF Parts, RunPcs, Spawned, Alive, RequestTo, MovesTo
<1>7. WorkerInv'  BY DEF WorkerInv
<1>8. MgrInv'
  <2>1. \A d \in Executors : ~group[d].registered
    BY DEF MgrInv, Registered
  <2>2. \A d \in Executors : group'[d].registered => d = e
    BY <2>1 DEF Typed
  <2>3. Registered' \subseteq {e}
    BY <2>2 DEF Registered
  <2>4. ~mgr.idleClosing /\ monitor # e
    BY DEF MgrInv
  <2> QED BY <2>3, <2>4 DEF MgrInv, Typed
<1>9. FacadeInv'  BY DEF FacadeInv
<1>10. DocumentInv'
  <2>1. ASSUME NEW u \in Tabs, Gone(u) PROVE Gone(u)'
    <3>1. ~Working(e, u)' /\ exec'[e].queued[u] = None /\ exec'[e].latest[u] = 0
      BY DEF Working, WorkerInv
    <3>2. ASSUME NEW d \in Executors, d # e, worker'[d].pc \notin {"none", "exit"}
          PROVE  /\ ~Working(d, u)' /\ exec'[d].queued[u] = None
                 /\ exec'[d].latest[u] = 0 \/ exec'[d].closed \/ group'[d].aborted
      <4>1. worker'[d] = worker[d] /\ group'[d] = group[d] /\ worker[d].job # r
        BY <3>2 DEF JobInv
      <4>2. worker[d].job # None => req'[worker[d].job] = req[worker[d].job]
        BY <4>1 DEF Typed
      <4>3. /\ ~Working(d, u) /\ exec[d].queued[u] = None
            /\ exec[d].latest[u] = 0 \/ exec[d].closed \/ group[d].aborted
        BY <2>1, <3>2, <4>1 DEF Gone
      <4> QED BY <4>1, <4>2, <4>3 DEF Working
    <3> QED BY <3>1, <3>2 DEF Gone
  <2> QED BY <2>1 DEF DocumentInv
<1> QED BY <1>4, <1>6, <1>7, <1>8, <1>9, <1>10

----------------------------------------------------------------------------
(* Jobs that leave the queue with an answer.                               *)

(* The queue is the set of the jobs in the slots.                          *)
LEMMA QueuedSlot ==
  ASSUME Typed, NEW e \in Executors
  PROVE  /\ Queued(e) \subseteq Requests
         /\ \A r : r \in Queued(e) <=> r # None /\ \E t \in Tabs : exec[e].queued[t] = r
         /\ \A t \in Tabs : \A r : r \in QueuedOf(e, t) <=> r # None /\ exec[e].queued[t] = r
BY DEF Queued, QueuedOf, Typed

(* The requests of S are answered with an error, or told by their deadline, *)
(* and leave executor e's slots.                                           *)
Drops(e, S) ==
    /\ S \subseteq Queued(e)
    /\ \A d \in Executors, t \in Tabs :
        /\ exec'[d].queued[t] = IF d = e /\ exec[d].queued[t] \in S THEN None ELSE exec[d].queued[t]
        /\ exec'[d].queued[t] # None => exec'[d].closed = exec[d].closed
    /\ \A r \in Requests : IF r \in S
        THEN /\ req'[r].tab = req[r].tab
             /\ \/ req'[r].pc = req[r].pc /\ req'[r].with = req[r].with /\ req'[r].reply = "error"
                \/ req'[r].pc = "settled" /\ req'[r].with = None /\ req'[r].reply = "none"
        ELSE /\ req'[r].pc = req[r].pc /\ req'[r].tab = req[r].tab
             /\ req'[r].with = req[r].with /\ req'[r].reply = req[r].reply

(* An error reply to queued jobs reaches each of them: none has a reply    *)
(* yet.                                                                    *)
LEMMA RepliedFields ==
  ASSUME TypeOK, Parts, NEW e \in Executors, NEW S \in SUBSET Queued(e), req' = Reply(req, S, "error")
  PROVE  /\ req' \in [Requests -> RequestStates]
         /\ \A r \in Requests :
              /\ req'[r].pc = req[r].pc /\ req'[r].tab = req[r].tab /\ req'[r].with = req[r].with
              /\ req'[r].reply = IF r \in S THEN "error" ELSE req[r].reply
<1>1. Typed  BY FieldTypes
<1>2. \A r \in S : req[r].reply = "none"
  BY <1>1, QueuedSlot DEF Parts, SlotInv
<1>3. req \in [Requests -> RequestStates]  BY DEF TypeOK
<1>4. "error" \in Answers  BY DEF Answers
<1>5. /\ Reply(req, S, "error") \in [Requests -> RequestStates]
      /\ \A r \in Requests :
           /\ Reply(req, S, "error")[r].pc = req[r].pc
           /\ Reply(req, S, "error")[r].tab = req[r].tab
           /\ Reply(req, S, "error")[r].with = req[r].with
           /\ Reply(req, S, "error")[r].reply = IF r \in S /\ req[r].reply = "none" THEN "error" ELSE req[r].reply
  BY <1>3, <1>4, ReplyFields
<1> QED BY <1>2, <1>5

(* A dropped job has no worker: each job is in one place. *)
LEMMA DroppedOpen ==
  ASSUME Typed, Parts, NEW e \in Executors, NEW S \in SUBSET Queued(e)
  PROVE  \A r \in S :
           /\ r \in Requests /\ req[r].pc = "waiting" /\ req[r].reply = "none" /\ req[r].with = e
           /\ req[r].tab \in Tabs /\ exec[e].queued[req[r].tab] = r
           /\ \A d \in Executors : worker[d].job # r
BY QueuedSlot DEF Parts, SlotInv

(* The workers stay where they are, or the one of e parks. *)
Parked(e) ==
    \A d \in Executors :
        \/ worker'[d] = worker[d]
        \/ /\ d = e /\ worker[d].pc = "pick" /\ worker'[d].pc = "park"
           /\ worker'[d].job = worker[d].job

(* Jobs that leave the slots with an answer keep the invariants on slots,  *)
(* jobs and requests.                                                      *)
LEMMA DropKeeps ==
  ASSUME Typed, Typed', Parts, NEW e \in Executors, NEW S, Drops(e, S),
         Parked(e), doc' = doc, facade.pc = "submit" => facade'.pc = "submit"
  PROVE  /\ SlotInv' /\ JobInv' /\ RequestInv'
         /\ \A d \in Executors, t \in Tabs : Working(d, t)' <=> Working(d, t)
<1>1. \A r \in S :
           /\ r \in Requests /\ req[r].pc = "waiting" /\ req[r].reply = "none" /\ req[r].with = e
           /\ req[r].tab \in Tabs /\ exec[e].queued[req[r].tab] = r
           /\ \A d \in Executors : worker[d].job # r
  BY DroppedOpen DEF Drops
<1> USE <1>1, NoneIsNothing DEF Drops, Parts, Runs, RunPcs, Spawned, Parked
<1>2. SlotInv'
  <2> SUFFICES ASSUME NEW d \in Executors, NEW t \in Tabs, exec'[d].queued[t] # None
               PROVE  /\ ~exec'[d].closed
                      /\ \A c \in Executors : worker'[c].job # exec'[d].queued[t]
                      /\ req'[exec'[d].queued[t]].pc = "waiting" /\ req'[exec'[d].queued[t]].reply = "none"
                      /\ req'[exec'[d].queued[t]].with = d /\ req'[exec'[d].queued[t]].tab = t
    BY DEF SlotInv
  <2> DEFINE r == exec[d].queued[t]
  <2>1. exec'[d].queued[t] = r /\ r # None /\ r \in Requests /\ ~(d = e /\ r \in S)
    BY DEF Typed
  <2>2. r \notin S
    BY <2>1 DEF SlotInv
  <2> QED BY <2>1, <2>2 DEF SlotInv
<1>3. JobInv'
  BY SMTT(30) DEF JobInv, Typed
<1>4. RequestInv'
  <2>1. ASSUME NEW r \in Requests, req'[r].pc = "waiting", req'[r].reply = "none"
        PROVE  (Runs(req[r].with, r) \/ exec[req[r].with].queued[req[r].tab] = r)'
    <3>1. r \notin S /\ req[r].pc = "waiting" /\ req[r].reply = "none"
      BY <2>1
    <3>2. PICK w \in Executors, t \in Tabs : w = req[r].with /\ t = req[r].tab
      BY <3>1 DEF RequestInv, Typed
    <3>3. w = req'[r].with /\ t = req'[r].tab  BY <3>1, <3>2
    <3>4. CASE Runs(w, r)
      <4>1. worker'[w].job = r /\ worker'[w].pc = worker[w].pc  BY <3>4
      <4> QED BY <3>3, <3>4, <4>1
    <3>5. CASE exec[w].queued[t] = r
      <4>1. exec'[w].queued[t] = r  BY <3>1, <3>5
      <4> QED BY <3>3, <4>1
    <3> QED BY <3>1, <3>2, <3>4, <3>5 DEF RequestInv
  <2>2. \A d \in Executors : Spawned(d) => Spawned(d)'
    OBVIOUS
  <2>3. ASSUME NEW r \in Requests
        PROVE  /\ req'[r].with # None => Spawned(req[r].with)'
               /\ req'[r].pc \in {"new", "held"} =>
                    r \notin S /\ req'[r].tab = req[r].tab /\ req'[r].with = req[r].with
                    /\ req'[r].reply = req[r].reply
               /\ req'[r].pc = "waiting" => req'[r].with # None /\ req'[r].tab \in Tabs
               /\ req'[r].pc = "settled" => req'[r].reply # "ok" /\ req'[r].with = None
    BY <2>2 DEF RequestInv, Typed
  <2>4. \A r \in Requests : req'[r].pc \in {"new", "held"} => req'[r].pc = req[r].pc
    OBVIOUS
  <2> QED BY <2>1, <2>3, <2>4 DEF RequestInv
<1>5. \A d \in Executors, t \in Tabs : Working(d, t)' <=> Working(d, t)
  BY DEF Working, Typed
<1> QED BY <1>2, <1>3, <1>4, <1>5

(* They keep what is said of stopped jobs.                                 *)
LEMMA DropStops ==
  ASSUME Typed, Typed', Parts, NEW e \in Executors, NEW S, Drops(e, S), Parked(e),
         \A d \in Executors :
            /\ exec'[d].flight \in {exec[d].flight, None}
            /\ \A t \in Tabs : exec[d].interrupt[t] /\ Working(d, t) => exec'[d].interrupt[t],
         \A r \in stopped' :
            \/ r \in stopped \/ r \in S
            \/ r # None /\ r = exec[e].flight /\ (Working(e, req[r].tab) => exec'[e].interrupt[req[r].tab])
  PROVE  StopInv'
<1>0. \A r \in S :
           /\ r \in Requests /\ req[r].pc = "waiting" /\ req[r].reply = "none"
           /\ \A d \in Executors : worker[d].job # r
  BY DroppedOpen DEF Drops
<1>1. ASSUME NEW r \in stopped'
      PROVE  \/ req'[r].reply = "error" \/ req'[r].pc = "settled"
             \/ \E d \in Executors : Runs(d, r)' /\ exec'[d].interrupt[req'[r].tab]
  <2>1. r \in Requests  BY <1>1 DEF Typed
  <2>2. CASE r \in S  BY <2>1, <2>2 DEF Drops
  <2>3. CASE r \notin S
    <3>1. req'[r].reply = req[r].reply /\ req'[r].pc = req[r].pc /\ req'[r].tab = req[r].tab
      BY <2>1, <2>3 DEF Drops
    <3>2. ASSUME NEW d \in Executors, Runs(d, r)
          PROVE  Runs(d, r)' /\ Working(d, req[r].tab) /\ req[r].tab \in Tabs
      BY <3>2, <2>1, NoneIsNothing DEF Runs, RunPcs, Working, Parts, JobInv, Parked
    <3>3. CASE r \in stopped  BY <3>1, <3>2, <3>3 DEF Parts, StopInv
    <3>4. CASE r # None /\ r = exec[e].flight
               /\ (Working(e, req[r].tab) => exec'[e].interrupt[req[r].tab])
      <4>1. Runs(e, r) \/ req[r].reply = "error" \/ req[r].pc = "settled"
        BY <3>4 DEF Parts, StopInv
      <4> QED BY <3>1, <3>2, <3>4, <4>1
    <3> QED BY <2>3, <3>3, <3>4
  <2> QED BY <2>2, <2>3
<1>2. ASSUME NEW d \in Executors, exec'[d].flight # None
      PROVE  \/ Runs(d, exec[d].flight)'
             \/ /\ ~Alive(d)'
                /\ req'[exec'[d].flight].reply = "error" \/ req'[exec'[d].flight].pc = "settled"
  <2> DEFINE f == exec[d].flight
  <2>1. exec'[d].flight = f /\ f # None /\ f \in Requests  BY <1>2 DEF Typed
  <2>2. Runs(d, f) \/ (~Alive(d) /\ (req[f].reply = "error" \/ req[f].pc = "settled"))
    BY <2>1 DEF Parts, StopInv
  <2>3. CASE Runs(d, f)  BY <2>1, <2>3 DEF Runs, RunPcs, Parked
  <2>4. CASE ~Alive(d) /\ (req[f].reply = "error" \/ req[f].pc = "settled")
    <3>1. f \notin S  BY <1>0, <2>4
    <3>2. req'[f].reply = req[f].reply /\ req'[f].pc = req[f].pc
      BY <2>1, <3>1 DEF Drops
    <3> QED BY <2>1, <2>4, <3>2 DEF Alive, Parked
  <2> QED BY <2>2, <2>3, <2>4
<1> QED BY <1>1, <1>2 DEF StopInv

(* They keep what is said of workers, fences and closed documents.         *)
LEMMA DropFrame ==
  ASSUME Typed, Typed', Parts, NEW e \in Executors, NEW S, Drops(e, S), Spawned(e), Parked(e),
         UNCHANGED <<server, group, mgr, doc, monitor>>,
         \A d \in Executors :
            /\ exec[d].closed => exec'[d].closed
            /\ exec'[d].flight \in {exec[d].flight, None}
            /\ \A t \in Tabs : exec'[d].latest[t] \in {exec[d].latest[t], 0}
            /\ d # e => /\ exec'[d].pending = exec[d].pending /\ exec'[d].closed = exec[d].closed
                        /\ tasks'[d] = tasks[d]
  PROVE  /\ WorkerInv' /\ MgrInv' /\ DocumentInv'
         /\ \A t \in Tabs : Gone(t) => Gone(t)'
<1>0. \A d \in Executors, t \in Tabs :
        /\ exec[d].queued[t] = None => exec'[d].queued[t] = None
        /\ Working(d, t)' => Working(d, t)
  BY NoneIsNothing DEF Drops, Working, Typed, Parked
<1>1. WorkerInv'
  BY <1>0 DEF Parts, WorkerInv, Spawned, Alive, RunPcs, Parked
<1>2. MgrInv'
  BY DEF Parts, MgrInv, Registered, Spawned, Typed, Parked
<1>3. \A t \in Tabs : Gone(t) => Gone(t)'
  BY <1>0 DEF Gone, Alive, Parked
<1>4. \A r \in Requests : req[r].pc = "settled" => req'[r].pc = "settled" /\ req'[r].tab = req[r].tab
  BY DEF Drops
<1>5. \A r \in Requests : req'[r].tab = req[r].tab
  BY DEF Drops
<1>6. DocumentInv'
  BY <1>3, <1>4, <1>5 DEF Parts, DocumentInv
<1> QED BY <1>1, <1>2, <1>3, <1>6

(* The slots of e once the jobs of S are taken. *)
Takes(e, S) == exec' = [exec EXCEPT ![e].queued = Without(@, S)]

(* The executors after jobs left the slots of one of them.                 *)
LEMMA WithoutPut ==
  ASSUME TypeOK, NEW e \in Executors, NEW S, Takes(e, S)
  PROVE  /\ exec' \in [Executors -> ExecutorStates]
         /\ \A d \in Executors :
              /\ exec'[d].closed = exec[d].closed /\ exec'[d].flight = exec[d].flight
              /\ exec'[d].latest = exec[d].latest /\ exec'[d].interrupt = exec[d].interrupt
              /\ exec'[d].pending = exec[d].pending
              /\ \A t \in Tabs : exec'[d].queued[t] =
                   IF d = e /\ exec[d].queued[t] \in S THEN None ELSE exec[d].queued[t]
<1> DEFINE q == Without(exec[e].queued, S)  v == [exec[e] EXCEPT !.queued = q]
<1>1. exec \in [Executors -> ExecutorStates] /\ exec[e] \in ExecutorStates  BY DEF TypeOK
<1>2. exec[e].queued \in [Tabs -> Requests \cup {None}]  BY <1>1 DEF ExecutorStates
<1>3. q \in [Tabs -> Requests \cup {None}]
      /\ \A t \in Tabs : q[t] = IF exec[e].queued[t] \in S THEN None ELSE exec[e].queued[t]
  BY <1>2, WithoutFields
<1>4. exec' = [exec EXCEPT ![e] = v]  BY DEF Takes
<1> HIDE DEF q
<1>5. v \in ExecutorStates /\ v.closed = exec[e].closed /\ v.flight = exec[e].flight
      /\ v.latest = exec[e].latest /\ v.interrupt = exec[e].interrupt
      /\ v.pending = exec[e].pending /\ v.queued = q
  BY <1>1, <1>3 DEF ExecutorStates
<1> HIDE DEF v
<1> QED BY <1>1, <1>3, <1>4, <1>5

(* A waiter's deadline takes its own job from the queue (take_queued).     *)
LEMMA QueueDeadlineKeeps ==
  ASSUME TypeOK, Parts, NEW r \in Requests, QueueDeadline(r) PROVE TypeOK' /\ Parts'
<1> DEFINE e == req[r].with
           S == {r}
<1>1. /\ r \in Queued(e) /\ req' = [req EXCEPT ![r] = Settled(@)]
      /\ exec' = [exec EXCEPT ![e].queued = Without(@, {r})]
      /\ UNCHANGED <<worker, server, tasks, group, mgr, doc, facade, monitor, stopped>>
  BY DEF QueueDeadline
<1>t. Typed  BY FieldTypes
<1>2. e \in Executors
  <2>1. req[r].pc = "waiting"  BY DEF QueueDeadline
  <2> QED BY <1>t, <2>1 DEF Parts, RequestInv, Typed
<1>3. RequestTo(r, "settled", req[r].tab, None, "none")
  <2> DEFINE v == Settled(req[r])
  <2>1. req[r] \in RequestStates  BY DEF TypeOK
  <2>2. /\ v \in RequestStates /\ v.pc = "settled" /\ v.tab = req[r].tab
        /\ v.with = None /\ v.reply = "none"
    BY <2>1, SettledFields
  <2>3. req' = [req EXCEPT ![r] = v]  BY <1>1
  <2> HIDE DEF v
  <2> QED BY <2>2, <2>3, PutRequest
<1> HIDE DEF e
<1>4. /\ exec' \in [Executors -> ExecutorStates]
      /\ \A d \in Executors :
           /\ exec'[d].closed = exec[d].closed /\ exec'[d].flight = exec[d].flight
           /\ exec'[d].latest = exec[d].latest /\ exec'[d].interrupt = exec[d].interrupt
           /\ exec'[d].pending = exec[d].pending
           /\ \A t \in Tabs : exec'[d].queued[t] =
                IF d = e /\ exec[d].queued[t] \in S THEN None ELSE exec[d].queued[t]
  <2>1. Takes(e, S)  BY <1>1 DEF Takes, e
  <2> HIDE DEF S
  <2> QED BY <1>2, <2>1, WithoutPut
<1>5. TypeOK'  BY <1>1, <1>3, <1>4 DEF TypeOK, RequestTo
<1>6. Typed'  BY <1>5, FieldTypes, PTL
<1>7. Drops(e, S)
  BY <1>1, <1>3, <1>4 DEF Drops, RequestTo
<1>8. Spawned(e)
  BY <1>1, <1>2, <1>t, QueuedSlot DEF Parts, WorkerInv
<1> HIDE DEF S
<1>9. /\ SlotInv' /\ JobInv' /\ RequestInv'
      /\ \A d \in Executors, t \in Tabs : Working(d, t)' <=> Working(d, t)
  BY <1>1, <1>t, <1>6, <1>2, <1>7, DropKeeps DEF Parked
<1>10. StopInv'
  BY <1>1, <1>t, <1>6, <1>2, <1>4, <1>7, DropStops DEF Parked
<1>11. /\ WorkerInv' /\ MgrInv' /\ DocumentInv'
       /\ \A t \in Tabs : Gone(t) => Gone(t)'
  BY <1>1, <1>t, <1>6, <1>2, <1>4, <1>7, <1>8, DropFrame DEF Parked
<1>12. FacadeInv'
  BY <1>1, <1>11, <1>t DEF Parts, FacadeInv, Registered, Spawned, Typed
<1>13. CancelInv'
  BY <1>1, <1>4 DEF Parts, CancelInv, Alive
<1> QED BY <1>5, <1>9, <1>10, <1>11, <1>12, <1>13 DEF Parts

----------------------------------------------------------------------------
(* apply_tab_cancel, and the ends of an executor's jobs.                   *)

(* What apply_tab_cancel does to the executor, the replies and the set of  *)
(* stopped jobs.                                                           *)
LEMMA ApplyFields ==
  ASSUME TypeOK, Parts, NEW e \in Executors, NEW t \in Tabs, NEW x \in ExecutorStates,
         x.closed = exec[e].closed, x.conn = exec[e].conn, x.queued = exec[e].queued,
         x.flight = exec[e].flight, x.latest = exec[e].latest,
         x.interrupt = exec[e].interrupt, x.pending = exec[e].pending,
         ApplyTabCancel(e, t, x)
  PROVE  /\ exec' \in [Executors -> ExecutorStates] /\ req' \in [Requests -> RequestStates]
         /\ stopped' \in SUBSET Requests
         /\ Drops(e, QueuedOf(e, t))
         /\ \A d \in Executors :
              /\ exec'[d].closed = exec[d].closed /\ exec'[d].flight = exec[d].flight
              /\ exec'[d].latest = exec[d].latest
              /\ \A u \in Tabs : exec[d].interrupt[u] => exec'[d].interrupt[u]
              /\ d # e => exec'[d].pending = exec[d].pending
         /\ exec'[e].pending => exec[e].pending \/ InFlight(e, t)
         /\ InFlight(e, t) => exec'[e].interrupt[t] /\ exec[e].flight \in stopped'
         /\ \A r \in stopped' : \/ r \in stopped \/ r \in QueuedOf(e, t)
                                \/ r # None /\ r = exec[e].flight /\ req[r].tab = t
                                   /\ exec'[e].interrupt[t]
         /\ stopped \subseteq stopped'
<1> DEFINE y == [TabCancelled(x, e, t) EXCEPT !.permit = TRUE]
           S == QueuedOf(e, t)
<1>t. Typed  BY FieldTypes
<1>1. /\ exec' = [exec EXCEPT ![e] = y] /\ req' = Reply(req, S, "error")
      /\ stopped' = stopped \cup S \cup FlightOf(e, t)
  BY DEF ApplyTabCancel
<1>2. /\ y \in ExecutorStates
      /\ y.closed = exec[e].closed /\ y.flight = exec[e].flight /\ y.latest = exec[e].latest
      /\ \A u \in Tabs : y.queued[u] = IF u = t THEN None ELSE exec[e].queued[u]
      /\ \A u \in Tabs : y.interrupt[u] = (exec[e].interrupt[u] \/ (u = t /\ InFlight(e, t)))
      /\ y.pending = (exec[e].pending \/ (InFlight(e, t) /\ exec[e].conn # "none"))
  BY TabCancelledFields
<1> HIDE DEF y
<1>3. exec \in [Executors -> ExecutorStates]  BY DEF TypeOK
<1>4. exec' \in [Executors -> ExecutorStates] /\ exec'[e] = y
      /\ \A d \in Executors : d # e => exec'[d] = exec[d]
  BY <1>1, <1>2, <1>3
<1>5. S \subseteq Queued(e) /\ S \subseteq Requests /\ \A r : r \in S <=> r # None /\ exec[e].queued[t] = r
  BY <1>t, QueuedSlot
<1> HIDE DEF S
<1>6. /\ req' \in [Requests -> RequestStates]
      /\ \A r \in Requests :
           /\ req'[r].pc = req[r].pc /\ req'[r].tab = req[r].tab /\ req'[r].with = req[r].with
           /\ req'[r].reply = IF r \in S THEN "error" ELSE req[r].reply
  BY <1>1, <1>5, RepliedFields
<1>7. \A u \in Tabs : exec[e].queued[u] \in S => u = t
  BY <1>5, <1>t DEF Parts, SlotInv
<1>8. Drops(e, S)
  <2>1. \A u \in Tabs : y.queued[u] = IF exec[e].queued[u] \in S THEN None ELSE exec[e].queued[u]
    BY <1>2, <1>5, <1>7
  <2> QED BY <1>2, <1>4, <1>5, <1>6, <2>1 DEF Drops
<1>9. /\ FlightOf(e, t) \subseteq Requests
      /\ \A r \in FlightOf(e, t) : r # None /\ r = exec[e].flight /\ InFlight(e, t)
      /\ (InFlight(e, t) => exec[e].flight \in FlightOf(e, t))
  BY <1>t DEF FlightOf, InFlight, Typed
<1>10. InFlight(e, t) => exec'[e].interrupt[t]
  BY <1>2, <1>4
<1>11. InFlight(e, t) => req[exec[e].flight].tab = t
  BY DEF InFlight
<1>12. stopped \in SUBSET Requests  BY DEF TypeOK
<1>13. \A d \in Executors :
         /\ exec'[d].closed = exec[d].closed /\ exec'[d].flight = exec[d].flight
         /\ exec'[d].latest = exec[d].latest
         /\ \A u \in Tabs : exec[d].interrupt[u] => exec'[d].interrupt[u]
         /\ d # e => exec'[d].pending = exec[d].pending
  BY <1>2, <1>4
<1>14. exec'[e].pending => exec[e].pending \/ InFlight(e, t)
  BY <1>2, <1>4
<1>15. InFlight(e, t) => exec'[e].interrupt[t] /\ exec[e].flight \in stopped'
  <2>1. FlightOf(e, t) \subseteq stopped'  BY <1>1
  <2>2. InFlight(e, t) => exec[e].flight \in FlightOf(e, t)  BY <1>9
  <2>3. InFlight(e, t) => exec[e].flight \in stopped'  BY <2>1, <2>2
  <2> QED BY <2>3, <1>10
<1>16. \A r \in stopped' : \/ r \in stopped \/ r \in S
                           \/ r # None /\ r = exec[e].flight /\ req[r].tab = t
                              /\ exec'[e].interrupt[t]
  BY <1>1, <1>9, <1>10, <1>11
<1>17. stopped' \in SUBSET Requests /\ stopped \subseteq stopped'
  BY <1>1, <1>5, <1>9, <1>12
<1> QED BY <1>4, <1>6, <1>8, <1>13, <1>14, <1>15, <1>16, <1>17 DEF S

(* cancel_data cancels a tab on the current executor.                      *)
LEMMA CancelTabKeeps ==
  ASSUME TypeOK, Parts, NEW t \in Tabs, CancelTab(t) PROVE TypeOK' /\ Parts'
<1> DEFINE e == mgr.executor
           S == QueuedOf(e, t)
<1>1. /\ e # None /\ ApplyTabCancel(e, t, exec[e])
      /\ UNCHANGED <<worker, server, tasks, group, mgr, doc, facade, monitor>>
  BY DEF CancelTab
<1>t. Typed  BY FieldTypes
<1>2. e \in Executors /\ Spawned(e)  BY <1>1, <1>t DEF Typed, Parts, MgrInv
<1>x. exec[e] \in ExecutorStates  BY <1>2 DEF TypeOK
<1> HIDE DEF e
<1>3. /\ exec' \in [Executors -> ExecutorStates] /\ req' \in [Requests -> RequestStates]
      /\ stopped' \in SUBSET Requests
      /\ Drops(e, S)
      /\ \A d \in Executors :
           /\ exec'[d].closed = exec[d].closed /\ exec'[d].flight = exec[d].flight
           /\ exec'[d].latest = exec[d].latest
           /\ \A u \in Tabs : exec[d].interrupt[u] => exec'[d].interrupt[u]
           /\ d # e => exec'[d].pending = exec[d].pending
      /\ exec'[e].pending => exec[e].pending \/ InFlight(e, t)
      /\ InFlight(e, t) => exec'[e].interrupt[t] /\ exec[e].flight \in stopped'
      /\ \A r \in stopped' : \/ r \in stopped \/ r \in S
                             \/ r # None /\ r = exec[e].flight /\ req[r].tab = t
                                /\ exec'[e].interrupt[t]
      /\ stopped \subseteq stopped'
  BY <1>1, <1>2, <1>x, ApplyFields
<1> HIDE DEF S
<1>4. TypeOK'  BY <1>1, <1>3 DEF TypeOK
<1>5. Typed'  BY <1>4, FieldTypes, PTL
<1>6. /\ SlotInv' /\ JobInv' /\ RequestInv'
      /\ \A d \in Executors, u \in Tabs : Working(d, u)' <=> Working(d, u)
  BY <1>1, <1>t, <1>5, <1>2, <1>3, DropKeeps DEF Parked
<1>7. StopInv'
  BY <1>1, <1>t, <1>5, <1>2, <1>3, DropStops DEF Parked
<1>8. /\ WorkerInv' /\ MgrInv' /\ DocumentInv'
      /\ \A u \in Tabs : Gone(u) => Gone(u)'
  BY <1>1, <1>t, <1>5, <1>2, <1>3, DropFrame DEF Parked
<1>9. FacadeInv'
  BY <1>1, <1>8, <1>t DEF Parts, FacadeInv, Registered, Spawned, Typed
<1>10. CancelInv'
  <2>1. InFlight(e, t) /\ Alive(e) => Runs(e, exec[e].flight)
    BY <1>2 DEF Parts, StopInv, InFlight
  <2> QED BY <1>1, <1>3, <2>1 DEF Parts, CancelInv, Alive, Runs, RunPcs
<1> QED BY <1>4, <1>6, <1>7, <1>8, <1>9, <1>10 DEF Parts

(* close_native_tab fences the tab, cancels its jobs and starts the task   *)
(* that waits for them.                                                    *)
LEMMA FenceTabKeeps ==
  ASSUME TypeOK, Parts, FenceTab PROVE TypeOK' /\ Parts'
<1>t. Typed  BY FieldTypes
<1>0. PICK e \in Executors, t \in Tabs : e = facade.with /\ t = facade.tab
  BY <1>t, NoneIsNothing DEF FenceTab, Typed, Parts, FacadeInv
<1> DEFINE S == QueuedOf(e, t)
           x == [exec[e] EXCEPT !.closingTabs = @ \cup {t}]
<1>1. /\ facade.pc = "tabHeld" /\ ApplyTabCancel(e, t, x)
      /\ tasks' = [tasks EXCEPT ![e].tabs = IF group[e].registered THEN @ \cup {t} ELSE @]
      /\ facade' = [facade EXCEPT !.pc = "tab"]
      /\ UNCHANGED <<worker, server, group, mgr, doc, monitor>>
  BY <1>0 DEF FenceTab
<1>2. e \in Executors /\ Spawned(e) /\ t \in Tabs /\ doc[t] = "retired"
      /\ ~group[e].aborted /\ \A d \in Registered : d = e
  BY <1>0, <1>1, <1>t DEF Typed, Parts, FacadeInv
<1>f. facade' \in FacadeStates /\ facade'.pc = "tab" /\ facade'.with = e /\ facade'.tab = t
  BY <1>0, <1>1 DEF TypeOK, FacadeStates
<1>k. TaskTo(e, tasks[e].close, tasks[e].fence, IF group[e].registered THEN tasks[e].tabs \cup {t} ELSE tasks[e].tabs)
  <2> DEFINE T == IF group[e].registered THEN tasks[e].tabs \cup {t} ELSE tasks[e].tabs
             v == [tasks[e] EXCEPT !.tabs = T]
  <2>1. tasks[e] \in TaskStates  BY <1>2 DEF TypeOK
  <2>2. T \in SUBSET Tabs  BY <1>2, <2>1 DEF TaskStates
  <2>3. tasks' = [tasks EXCEPT ![e] = v]  BY <1>1
  <2> HIDE DEF T
  <2>4. v \in TaskStates /\ v.close = tasks[e].close /\ v.fence = tasks[e].fence /\ v.tabs = T
    BY <2>1, <2>2 DEF TaskStates
  <2> HIDE DEF v
  <2>5. TaskTo(e, tasks[e].close, tasks[e].fence, T)
    BY <1>2, <2>3, <2>4, PutTask DEF TaskTo
  <2> QED BY <2>5 DEF T
<1>x. /\ x \in ExecutorStates
      /\ x.closed = exec[e].closed /\ x.conn = exec[e].conn /\ x.queued = exec[e].queued
      /\ x.flight = exec[e].flight /\ x.latest = exec[e].latest
      /\ x.interrupt = exec[e].interrupt /\ x.pending = exec[e].pending
  <2>1. exec[e] \in ExecutorStates  BY <1>2 DEF TypeOK
  <2> QED BY <1>2, <2>1 DEF ExecutorStates
<1> HIDE DEF x
<1>3. /\ exec' \in [Executors -> ExecutorStates] /\ req' \in [Requests -> RequestStates]
      /\ stopped' \in SUBSET Requests
      /\ Drops(e, S)
      /\ \A d \in Executors :
           /\ exec'[d].closed = exec[d].closed /\ exec'[d].flight = exec[d].flight
           /\ exec'[d].latest = exec[d].latest
           /\ \A u \in Tabs : exec[d].interrupt[u] => exec'[d].interrupt[u]
           /\ d # e => exec'[d].pending = exec[d].pending
      /\ exec'[e].pending => exec[e].pending \/ InFlight(e, t)
      /\ InFlight(e, t) => exec'[e].interrupt[t] /\ exec[e].flight \in stopped'
      /\ \A r \in stopped' : \/ r \in stopped \/ r \in S
                             \/ r # None /\ r = exec[e].flight /\ req[r].tab = t
                                /\ exec'[e].interrupt[t]
      /\ stopped \subseteq stopped'
  BY <1>1, <1>2, <1>x, ApplyFields
<1> HIDE DEF S
<1>4. TypeOK'  BY <1>1, <1>3, <1>f, <1>k DEF TypeOK, TaskTo
<1>5. Typed'  BY <1>4, FieldTypes, PTL
<1>6. /\ SlotInv' /\ JobInv' /\ RequestInv'
      /\ \A d \in Executors, u \in Tabs : Working(d, u)' <=> Working(d, u)
  BY <1>1, <1>t, <1>5, <1>2, <1>3, DropKeeps DEF Parked
<1>7. StopInv'
  BY <1>1, <1>t, <1>5, <1>2, <1>3, DropStops DEF Parked
<1>8. /\ WorkerInv' /\ MgrInv' /\ DocumentInv'
      /\ \A u \in Tabs : Gone(u) => Gone(u)'
  BY <1>1, <1>t, <1>5, <1>2, <1>3, <1>k, DropFrame DEF TaskTo, Parked
<1>9. ~group[e].registered => Gone(t)'
  BY <1>1, <1>2 DEF Parts, WorkerInv, Registered, Gone, Alive
<1>10. FacadeInv'
  <2>1. t \in tasks'[e].tabs \/ Gone(t)'
    BY <1>9, <1>k, <1>2 DEF TaskTo
  <2>2. /\ e # None /\ Spawned(e)' /\ ~group'[e].aborted
        /\ \A d \in Registered' : d = e
    <3>1. worker' = worker /\ group' = group  BY <1>1
    <3> QED BY <1>2, <3>1, NoneIsNothing DEF Spawned, Registered
  <2>3. doc' = doc  BY <1>1
  <2> QED BY <1>2, <1>f, <2>1, <2>2, <2>3 DEF FacadeInv
<1>11. CancelInv'
  <2>1. InFlight(e, t) /\ Alive(e) => Runs(e, exec[e].flight)
    BY <1>2 DEF Parts, StopInv, InFlight
  <2> QED BY <1>1, <1>3, <1>k, <2>1 DEF Parts, CancelInv, Alive, Runs, RunPcs, TaskTo
<1> QED BY <1>4, <1>6, <1>7, <1>8, <1>10, <1>11 DEF Parts

(* close_executor closes the queue and answers every job in it; with the   *)
(* fence it interrupts the job in flight.                                  *)
LEMMA CloseExecutorKeeps ==
  ASSUME TypeOK, Parts, NEW e \in Executors, CloseExecutor(e) PROVE TypeOK' /\ Parts'
<1> DEFINE S == Queued(e)
           fence == tasks[e].fence
           I == IF fence THEN [t \in Tabs |-> TRUE] ELSE exec[e].interrupt
           c == IF exec[e].conn # "none" THEN "cancel" ELSE "notify"
           F == IF fence /\ exec[e].flight # None THEN {exec[e].flight} ELSE {}
           x == [exec[e] EXCEPT !.closed = TRUE, !.queued = NoJobs, !.pending = FALSE, !.conn = "none",
                                !.interrupt = I]
<1>1. /\ tasks[e].close = "mark" /\ exec' = [exec EXCEPT ![e] = x]
      /\ req' = Reply(req, S, "error") /\ stopped' = stopped \cup S \cup F
      /\ tasks' = [tasks EXCEPT ![e].close = c]
      /\ UNCHANGED <<worker, server, group, mgr, doc, facade, monitor>>
  <2>1. x = [exec[e] EXCEPT !.closed = TRUE, !.queued = NoJobs, !.pending = FALSE, !.conn = "none",
                            !.interrupt = IF tasks[e].fence THEN [t \in Tabs |-> TRUE] ELSE @]
    OBVIOUS
  <2> HIDE DEF x
  <2> QED BY <2>1 DEF CloseExecutor
<1>t. Typed  BY FieldTypes
<1>s. Spawned(e)  BY <1>1 DEF Parts, WorkerInv
<1>x. exec[e] \in ExecutorStates /\ exec \in [Executors -> ExecutorStates]  BY DEF TypeOK
<1>i. I \in [Tabs -> BOOLEAN]  BY <1>x DEF ExecutorStates
<1>j. \A t \in Tabs : I[t] <=> fence \/ exec[e].interrupt[t]  OBVIOUS
<1> HIDE DEF I
<1>2. /\ x \in ExecutorStates /\ x.closed /\ x.queued = NoJobs /\ ~x.pending
      /\ x.interrupt = I /\ x.flight = exec[e].flight /\ x.latest = exec[e].latest
  <2>1. NoJobs \in [Tabs -> Requests \cup {None}]  BY DEF NoJobs
  <2> QED BY <1>x, <1>i, <2>1 DEF ExecutorStates
<1> HIDE DEF x
<1>3. /\ exec' \in [Executors -> ExecutorStates] /\ exec'[e] = x
      /\ \A d \in Executors : d # e => exec'[d] = exec[d]
  BY <1>1, <1>2, <1>x
<1>4. TaskTo(e, c, fence, tasks[e].tabs)
  BY <1>1, CloseGoes
<1>c. c \in {"cancel", "notify"}  OBVIOUS
<1> HIDE DEF c, S
<1>5. /\ req' \in [Requests -> RequestStates]
      /\ \A r \in Requests :
           /\ req'[r].pc = req[r].pc /\ req'[r].tab = req[r].tab /\ req'[r].with = req[r].with
           /\ req'[r].reply = IF r \in S THEN "error" ELSE req[r].reply
  BY <1>1, RepliedFields DEF S
<1>6. F \subseteq Requests /\ S \subseteq Requests /\ stopped \subseteq Requests
  BY <1>t, QueuedSlot DEF Typed, S
<1>7. TypeOK'  BY <1>1, <1>3, <1>4, <1>5, <1>6 DEF TypeOK, TaskTo
<1>8. Typed'  BY <1>7, FieldTypes, PTL
<1>9. Drops(e, S)
  <2>1. \A t \in Tabs : exec'[e].queued[t] = None
    BY <1>2, <1>3 DEF NoJobs
  <2>2. \A t \in Tabs : exec[e].queued[t] \in S \/ exec[e].queued[t] = None
    BY <1>t, QueuedSlot DEF S
  <2> QED BY <1>3, <1>5, <2>1, <2>2 DEF Drops, S
<1>10. /\ SlotInv' /\ JobInv' /\ RequestInv'
       /\ \A d \in Executors, u \in Tabs : Working(d, u)' <=> Working(d, u)
  BY <1>1, <1>t, <1>8, <1>9, DropKeeps DEF Parked
<1>11. StopInv'
  <2>1. \A d \in Executors :
            /\ exec'[d].flight \in {exec[d].flight, None}
            /\ \A t \in Tabs : exec[d].interrupt[t] /\ Working(d, t) => exec'[d].interrupt[t]
    BY <1>2, <1>3, <1>j
  <2>2. ASSUME NEW r \in stopped'
        PROVE  \/ r \in stopped \/ r \in S
               \/ r # None /\ r = exec[e].flight /\ (Working(e, req[r].tab) => exec'[e].interrupt[req[r].tab])
    <3>1. CASE r \in stopped \/ r \in S  BY <3>1
    <3>2. CASE r \in F
      <4>1. fence /\ r # None /\ r = exec[e].flight  BY <3>2
      <4>2. Working(e, req[r].tab) => req[r].tab \in Tabs
        BY <4>1, <1>t, NoneIsNothing DEF Working, Parts, JobInv, Typed
      <4> QED BY <4>1, <4>2, <1>2, <1>3, <1>j
    <3> QED BY <1>1, <3>1, <3>2
  <2> QED BY <1>1, <1>t, <1>8, <1>9, <2>1, <2>2, DropStops DEF Parked
<1>12. /\ WorkerInv' /\ MgrInv' /\ DocumentInv'
       /\ \A u \in Tabs : Gone(u) => Gone(u)'
  BY <1>1, <1>t, <1>8, <1>s, <1>2, <1>3, <1>4, <1>9, DropFrame DEF TaskTo, Parked
<1>13. FacadeInv'
  <2>1. UNCHANGED <<worker, group, mgr, doc, facade>>  BY <1>1
  <2>2. \A d \in Executors : tasks'[d].tabs = tasks[d].tabs  BY <1>4 DEF TaskTo
  <2> QED BY <2>1, <2>2, <1>12, <1>t DEF Parts, FacadeInv, Registered, Spawned, Typed
<1>14. CancelInv'
  <2>1. \/ worker[e].job = None \/ worker[e].pc = "endDrain" \/ worker[e].job \in stopped'
    <3>1. CASE fence
      <4>1. worker[e].pc \in RunPcs => exec[e].flight = worker[e].job
        BY DEF Parts, CancelInv
      <4>2. worker[e].job # None => worker[e].pc \in RunPcs \cup {"endDrain"}
        BY DEF Parts, WorkerInv
      <4>3. exec[e].flight # None => exec[e].flight \in stopped'
        BY <3>1, <1>1
      <4> QED BY <4>1, <4>2, <4>3
    <3>2. CASE ~fence  BY <3>2, <1>1 DEF Parts, CancelInv
    <3> QED BY <3>1, <3>2
  <2>2. stopped \subseteq stopped' /\ worker' = worker  BY <1>1
  <2>3. ASSUME NEW d \in Executors, d # e
        PROVE  exec'[d] = exec[d] /\ tasks'[d] = tasks[d]
    BY <2>3, <1>3, <1>4 DEF TaskTo
  <2>4. exec'[e].closed /\ ~exec'[e].pending /\ exec'[e].flight = exec[e].flight
        /\ tasks'[e].close = c
    BY <1>2, <1>3, <1>4 DEF TaskTo
  <2> QED BY <1>c, <2>1, <2>2, <2>3, <2>4 DEF Parts, CancelInv, Alive
<1> QED BY <1>7, <1>10, <1>11, <1>12, <1>13, <1>14 DEF Parts

(* The task of a closing tab removes the slot once the worker has left the *)
(* tab's job.                                                              *)
LEMMA CloseTabKeeps ==
  ASSUME TypeOK, Parts, NEW e \in Executors, NEW t \in Tabs, CloseTab(e, t) PROVE TypeOK' /\ Parts'
<1> DEFINE S == QueuedOf(e, t)
           q == [exec[e].queued EXCEPT ![t] = None]
           l == [exec[e].latest EXCEPT ![t] = 0]
           i == [exec[e].interrupt EXCEPT ![t] = FALSE]
           f == IF InFlight(e, t) THEN None ELSE exec[e].flight
           x == [exec[e] EXCEPT !.queued = q, !.latest = l, !.interrupt = i, !.flight = f,
                                !.closingTabs = @ \ {t}]
           T == tasks[e].tabs \ {t}
<1>x. exec[e] \in ExecutorStates /\ exec \in [Executors -> ExecutorStates]
      /\ tasks[e] \in TaskStates /\ tasks \in [Executors -> TaskStates]
  BY DEF TypeOK
<1>1. /\ t \in tasks[e].tabs /\ ~Working(e, t) /\ exec' = [exec EXCEPT ![e] = x]
      /\ req' = Reply(req, S, "error") /\ tasks' = [tasks EXCEPT ![e].tabs = T]
      /\ UNCHANGED <<worker, server, group, mgr, doc, facade, monitor, stopped>>
  <2>1. x = [exec[e] EXCEPT !.queued[t] = None, !.latest[t] = 0, !.interrupt[t] = FALSE,
                            !.flight = IF InFlight(e, t) THEN None ELSE @,
                            !.closingTabs = @ \ {t}]
    BY <1>x DEF ExecutorStates
  <2> HIDE DEF x
  <2> QED BY <2>1 DEF CloseTab, RemoveTab
<1>t. Typed  BY FieldTypes
<1>s. Spawned(e)  BY <1>1 DEF Parts, WorkerInv
<1>q. /\ q \in [Tabs -> Requests \cup {None}] /\ l \in [Tabs -> 0..MaxRequests]
      /\ i \in [Tabs -> BOOLEAN] /\ f \in Requests \cup {None}
      /\ q[t] = None /\ l[t] = 0
      /\ \A u \in Tabs : u # t => q[u] = exec[e].queued[u] /\ l[u] = exec[e].latest[u]
                                  /\ i[u] = exec[e].interrupt[u]
  BY <1>x, BrowseAssumption DEF ExecutorStates
<1> HIDE DEF q, l, i
<1>2. /\ x \in ExecutorStates /\ x.closed = exec[e].closed /\ x.queued = q /\ x.pending = exec[e].pending
      /\ x.interrupt = i /\ x.flight = f /\ x.latest = l
  BY <1>x, <1>q DEF ExecutorStates
<1> HIDE DEF x
<1>3. /\ exec' \in [Executors -> ExecutorStates] /\ exec'[e] = x
      /\ \A d \in Executors : d # e => exec'[d] = exec[d]
  BY <1>1, <1>2, <1>x
<1>4. TaskTo(e, tasks[e].close, tasks[e].fence, T)
  <2> DEFINE v == [tasks[e] EXCEPT !.tabs = T]
  <2>1. v \in TaskStates /\ v.close = tasks[e].close /\ v.fence = tasks[e].fence /\ v.tabs = T
    BY <1>x DEF TaskStates
  <2>2. tasks' = [tasks EXCEPT ![e] = v]  BY <1>1
  <2> HIDE DEF v
  <2> QED BY <2>1, <2>2, PutTask DEF TaskTo
<1>5. S \subseteq Queued(e) /\ (\A r : r \in S <=> r # None /\ exec[e].queued[t] = r)
  BY <1>t, QueuedSlot
<1> HIDE DEF S
<1>6. /\ req' \in [Requests -> RequestStates]
      /\ \A r \in Requests :
           /\ req'[r].pc = req[r].pc /\ req'[r].tab = req[r].tab /\ req'[r].with = req[r].with
           /\ req'[r].reply = IF r \in S THEN "error" ELSE req[r].reply
  BY <1>1, <1>5, RepliedFields
<1>7. TypeOK'  BY <1>1, <1>3, <1>4, <1>6 DEF TypeOK, TaskTo
<1>8. Typed'  BY <1>7, FieldTypes, PTL
<1>9. Drops(e, S)
  <2>1. \A u \in Tabs : exec[e].queued[u] \in S => u = t
    BY <1>5, <1>t DEF Parts, SlotInv
  <2>2. \A u \in Tabs : exec'[e].queued[u] = IF exec[e].queued[u] \in S THEN None ELSE exec[e].queued[u]
    BY <1>2, <1>3, <1>5, <1>q, <2>1
  <2> QED BY <1>2, <1>3, <1>5, <1>6, <2>2 DEF Drops
<1>10. /\ SlotInv' /\ JobInv' /\ RequestInv'
       /\ \A d \in Executors, u \in Tabs : Working(d, u)' <=> Working(d, u)
  BY <1>1, <1>t, <1>8, <1>9, DropKeeps DEF Parked
<1>11. StopInv'
  <2>1. \A d \in Executors :
            /\ exec'[d].flight \in {exec[d].flight, None}
            /\ \A u \in Tabs : exec[d].interrupt[u] /\ Working(d, u) => exec'[d].interrupt[u]
    BY <1>1, <1>2, <1>3, <1>q
  <2>2. \A r \in stopped' : r \in stopped  BY <1>1
  <2> QED BY <1>1, <1>t, <1>8, <1>9, <2>1, <2>2, DropStops DEF Parked
<1>12. /\ WorkerInv' /\ MgrInv' /\ DocumentInv'
       /\ \A u \in Tabs : Gone(u) => Gone(u)'
  <2>1. \A d \in Executors :
            /\ exec[d].closed => exec'[d].closed
            /\ exec'[d].flight \in {exec[d].flight, None}
            /\ \A u \in Tabs : exec'[d].latest[u] \in {exec[d].latest[u], 0}
            /\ d # e => /\ exec'[d].pending = exec[d].pending /\ exec'[d].closed = exec[d].closed
                        /\ tasks'[d] = tasks[d]
    BY <1>2, <1>3, <1>4, <1>q DEF TaskTo
  <2> QED BY <1>1, <1>t, <1>8, <1>s, <1>9, <2>1, DropFrame DEF Parked
<1>13. FacadeInv'
  <2>1. UNCHANGED <<worker, group, mgr, doc, facade>>  BY <1>1
  <2>2. ASSUME facade.pc = "tab"
        PROVE  facade.tab \in tasks'[facade.with].tabs \/ Gone(facade.tab)'
    <3>1. CASE facade.with = e /\ facade.tab = t
      <4>1. \A d \in Registered : d = e  BY <2>2, <3>1 DEF Parts, FacadeInv
      <4>2. ~Working(e, t)' /\ exec'[e].queued[t] = None /\ exec'[e].latest[t] = 0
        BY <1>1, <1>2, <1>3, <1>q, <1>10
      <4>3. \A d \in Executors : Alive(d)' => d = e
        BY <2>1, <4>1 DEF Parts, WorkerInv, Alive, Registered
      <4>4. Gone(t)'  BY <4>2, <4>3 DEF Gone
      <4>5. facade'.tab = t  BY <2>1, <3>1
      <4> QED BY <4>4, <4>5 DEF Gone, Working
    <3>2. CASE ~(facade.with = e /\ facade.tab = t)
      <4>1. facade.with \in Executors /\ facade.tab \in Tabs
        BY <2>2, <1>t DEF Parts, FacadeInv, Typed
      <4>2. facade.tab \in tasks[facade.with].tabs => facade.tab \in tasks'[facade.with].tabs
        BY <3>2, <4>1, <1>4 DEF TaskTo
      <4>3. Gone(facade.tab) => Gone(facade.tab)'
        <5>1. PICK u \in Tabs : u = facade.tab  BY <4>1
        <5>2. Gone(u) => Gone(u)'  BY <1>12
        <5>3. facade'.tab = u  BY <5>1, <2>1
        <5> QED BY <5>1, <5>2, <5>3 DEF Gone, Working
      <4> QED BY <2>2, <4>2, <4>3 DEF Parts, FacadeInv
    <3> QED BY <3>1, <3>2
  <2>3. facade.pc = "tabFinish" => Gone(facade.tab)'
    <3>1. ASSUME facade.pc = "tabFinish" PROVE Gone(facade.tab)'
      <4>1. PICK u \in Tabs : u = facade.tab  BY <3>1 DEF Parts, FacadeInv
      <4>2. Gone(u)'  BY <3>1, <4>1, <1>12 DEF Parts, FacadeInv
      <4>3. facade'.tab = u  BY <4>1, <2>1
      <4> QED BY <4>2, <4>3 DEF Gone, Working
    <3> QED BY <3>1
  <2> QED BY <2>1, <2>2, <2>3, <1>t DEF Parts, FacadeInv, Registered, Spawned, Typed
<1>14. CancelInv'
  <2>1. ASSUME worker[e].pc \in RunPcs PROVE exec'[e].flight = worker[e].job
    <3>1. exec[e].flight = worker[e].job  BY <2>1 DEF Parts, CancelInv
    <3>2. ~InFlight(e, t)
      BY <1>1, <3>1 DEF InFlight, Working
    <3> QED BY <3>1, <3>2, <1>2, <1>3
  <2>2. stopped' = stopped /\ worker' = worker  BY <1>1
  <2>3. ASSUME NEW d \in Executors, d # e
        PROVE  exec'[d] = exec[d] /\ tasks'[d] = tasks[d]
    BY <2>3, <1>3, <1>4 DEF TaskTo
  <2>4. exec'[e].closed = exec[e].closed /\ exec'[e].pending = exec[e].pending
        /\ tasks'[e].close = tasks[e].close /\ tasks'[e].fence = tasks[e].fence
    BY <1>2, <1>3, <1>4 DEF TaskTo
  <2> QED BY <2>1, <2>2, <2>3, <2>4 DEF Parts, CancelInv, Alive
<1> QED BY <1>7, <1>10, <1>11, <1>12, <1>13, <1>14 DEF Parts

----------------------------------------------------------------------------
(* Answers: the waiter's, the worker's and an abort's.                     *)

(* A caller receives its reply.                                            *)
LEMMA ReceiveKeeps ==
  ASSUME TypeOK, Parts, NEW r \in Requests, Receive(r) PROVE TypeOK' /\ Parts'
<1>1. /\ req[r].pc = "waiting" /\ req[r].reply # "none" /\ req' = [req EXCEPT ![r] = Settled(@)]
      /\ stopped' = stopped \ {r}
  BY DEF Receive
<1>u. UNCHANGED <<exec, worker, server, tasks, group, mgr, doc, facade, monitor>>
  BY DEF Receive
<1>t. Typed  BY FieldTypes
<1>2. RequestTo(r, "settled", req[r].tab, None, "none")
  <2> DEFINE v == Settled(req[r])
  <2>1. req[r] \in RequestStates  BY DEF TypeOK
  <2>2. /\ v \in RequestStates /\ v.pc = "settled" /\ v.tab = req[r].tab
        /\ v.with = None /\ v.reply = "none"
    BY <2>1, SettledFields
  <2>3. req' = [req EXCEPT ![r] = v]  BY <1>1
  <2> HIDE DEF v
  <2> QED BY <2>2, <2>3, PutRequest
<1>3. TypeOK'  BY <1>1, <1>2, <1>u DEF TypeOK, RequestTo
<1>4. Typed'  BY <1>3, FieldTypes, PTL
<1>5. /\ \A d \in Executors, t \in Tabs : exec[d].queued[t] # r
      /\ \A d \in Executors : worker[d].job = r => worker[d].pc = "endDrain"
  BY <1>1, <1>t, NoneIsNothing DEF Parts, SlotInv, JobInv, WorkerInv
<1> USE <1>u, <1>2, <1>5, NoneIsNothing DEF Parts, Runs, RunPcs, Spawned, Alive, RequestTo
<1>6. WorkerInv'  BY DEF WorkerInv
<1>7. SlotInv'  BY <1>t DEF SlotInv, Typed
<1>8. JobInv'  BY <1>t DEF JobInv, Typed
<1>9. RequestInv'  BY <1>1, <1>t DEF RequestInv, Typed
<1>10. MgrInv'  BY DEF MgrInv, Registered
<1>11. \A t \in Tabs : Gone(t) => Gone(t)'
  BY <1>t DEF Gone, Working, Typed
<1>12. FacadeInv'
  BY <1>11, <1>t DEF FacadeInv, Registered, Typed
<1>13. DocumentInv'  BY <1>11 DEF DocumentInv
<1>14. StopInv'
  <2>1. \A s \in stopped' : s \in stopped /\ s # r /\ s \in Requests
    BY <1>1, <1>t DEF Typed
  <2>2. \A d \in Executors : exec[d].flight # None => exec[d].flight \in Requests
    BY <1>t DEF Typed
  <2> QED BY <2>1, <2>2 DEF StopInv
<1>15. CancelInv'  BY <1>1 DEF CancelInv, WorkerInv
<1> QED BY <1>3, <1>6, <1>7, <1>8, <1>9, <1>10, <1>12, <1>13, <1>14, <1>15

(* The worker of e answers, or drops, the job it holds. *)
LEMMA JobReplied ==
  ASSUME TypeOK, Parts, NEW e \in Executors, NEW a \in Answers, req' = Reply(req, {worker[e].job}, a)
  PROVE  /\ req' \in [Requests -> RequestStates]
         /\ \A r \in Requests :
              /\ req'[r].pc = req[r].pc /\ req'[r].tab = req[r].tab /\ req'[r].with = req[r].with
              /\ req'[r].reply = IF r = worker[e].job /\ req[r].reply = "none" THEN a ELSE req[r].reply
<1>1. req \in [Requests -> RequestStates]  BY DEF TypeOK
<1> QED BY <1>1, ReplyFields

(* complete_job answers the running job: with an error when it was         *)
(* interrupted or its flight is gone.                                      *)
LEMMA CompleteJobKeeps ==
  ASSUME TypeOK, Parts, NEW e \in Executors, CompleteJob(e) PROVE TypeOK' /\ Parts'
<1>t. Typed  BY FieldTypes
<1>0. PICK r \in Requests, t \in Tabs :
        /\ r = worker[e].job /\ t = req[r].tab /\ req[r].pc = "waiting" /\ req[r].reply = "none"
        /\ req[r].with = e /\ exec[e].flight = r
  BY <1>t DEF CompleteJob, Completed, Parts, WorkerInv, JobInv, CancelInv, RunPcs, Typed
<1> DEFINE a == Finalize(JobInterrupt(e), worker[e].result)
           i == [exec[e].interrupt EXCEPT ![t] = FALSE]
           c == IF exec[e].conn = "dead" /\ ~JobInterrupt(e) THEN "none" ELSE exec[e].conn
           x == [exec[e] EXCEPT !.flight = None, !.interrupt = i, !.conn = c]
<1>x. exec[e] \in ExecutorStates /\ exec \in [Executors -> ExecutorStates]
      /\ worker[e] \in WorkerStates
  BY DEF TypeOK
<1>1. /\ worker[e].pc = "done" /\ req' = Reply(req, {r}, a) /\ Goes(e, "endDrain")
      /\ UNCHANGED <<server, tasks, group, mgr, doc, facade, monitor, stopped>>
  BY <1>0 DEF CompleteJob, Completed
<1>e. exec' = [exec EXCEPT ![e] = x]
  BY <1>0, <1>x DEF CompleteJob, Completed, ExecutorStates
<1>3. i \in [Tabs -> BOOLEAN] /\ c \in {"none", "up", "dead"}
      /\ \A u \in Tabs : u # t => i[u] = exec[e].interrupt[u]
  BY <1>x DEF ExecutorStates
<1>4. a \in Answers /\ (exec[e].interrupt[t] => a = "error")
  BY <1>0, <1>1 DEF Finalize, JobInterrupt, Answers, Parts, WorkerInv
<1> HIDE DEF a
<1>5. /\ req' \in [Requests -> RequestStates]
      /\ \A s \in Requests :
           /\ req'[s].pc = req[s].pc /\ req'[s].tab = req[s].tab /\ req'[s].with = req[s].with
           /\ req'[s].reply = IF s = r THEN a ELSE req[s].reply
  BY <1>0, <1>1, <1>4, JobReplied
<1>6. MovesTo(e, "endDrain", r, worker[e].stage)
  BY <1>0, <1>1, GoesFields DEF WorkerPcs
<1> HIDE DEF i, c
<1>7. /\ x \in ExecutorStates /\ x.closed = exec[e].closed /\ x.queued = exec[e].queued
      /\ x.pending = exec[e].pending /\ x.interrupt = i /\ x.flight = None
      /\ x.latest = exec[e].latest
  BY <1>x, <1>3 DEF ExecutorStates
<1> HIDE DEF x
<1>8. /\ exec' \in [Executors -> ExecutorStates] /\ exec'[e] = x
      /\ \A d \in Executors : d # e => exec'[d] = exec[d]
  BY <1>x, <1>e, <1>7
<1>9. TypeOK'  BY <1>1, <1>5, <1>6, <1>8 DEF TypeOK, MovesTo
<1>10. Typed'  BY <1>9, FieldTypes, PTL
<1>u. /\ UNCHANGED <<server, tasks, group, mgr, doc, facade, monitor, stopped>>
      /\ worker[e].pc = "done"
  BY <1>1
<1>w. /\ worker'[e].pc = "endDrain" /\ worker'[e].job = r
      /\ \A d \in Executors : d # e => worker'[d] = worker[d]
  BY <1>6 DEF MovesTo
<1>v. \A d \in Executors :
        /\ exec'[d].closed = exec[d].closed /\ exec'[d].queued = exec[d].queued
        /\ exec'[d].pending = exec[d].pending /\ exec'[d].latest = exec[d].latest
  BY <1>7, <1>8
<1>z. \A s \in Requests : s # r => req'[s].reply = req[s].reply
  BY <1>5
<1>y. req'[r].reply = a /\ req'[r].reply # "none"
  BY <1>5, <1>4 DEF Answers
<1>p. \A s \in Requests :
         req'[s].pc = req[s].pc /\ req'[s].tab = req[s].tab /\ req'[s].with = req[s].with
  BY <1>5
<1> USE <1>0, <1>u, <1>v, <1>w, <1>p, <1>y, <1>z, NoneIsNothing DEF RunPcs, Spawned, Alive
<1>11. WorkerInv'
  <2>1. \A d \in Executors : d # e => exec'[d] = exec[d]  BY <1>8
  <2> QED BY <2>1 DEF Parts, WorkerInv
<1>12. SlotInv'
  <2>1. \A d \in Executors, u \in Tabs : exec[d].queued[u] # r
    BY DEF Parts, SlotInv
  <2>2. \A d \in Executors : worker'[d].job = worker[d].job
    OBVIOUS
  <2>3. ASSUME NEW d \in Executors, NEW u \in Tabs, exec[d].queued[u] # None
        PROVE  exec[d].queued[u] \in Requests /\ req'[exec[d].queued[u]].reply = "none"
    BY <2>1, <2>3, <1>t DEF Parts, SlotInv, Typed
  <2> QED BY <2>2, <2>3 DEF Parts, SlotInv
<1>13. JobInv'
  <2>1. \A d \in Executors : d # e => worker[d].job # r \/ worker[d].pc = "endDrain"
    <3> SUFFICES ASSUME NEW d \in Executors, d # e, worker[d].job = r, worker[d].pc # "endDrain"
                 PROVE  FALSE
      OBVIOUS
    <3>1. worker[d].pc \in {"runDrain", "select", "done"}  BY DEF Parts, WorkerInv
    <3> QED BY <3>1 DEF Parts, JobInv
  <2> QED BY <2>1, <1>t DEF Parts, JobInv, Typed
<1>14. RequestInv'
  BY SMTT(30), <1>t DEF Parts, RequestInv, Typed, Runs
<1>15. MgrInv'
  <2>1. monitor # e  BY DEF Parts, MgrInv
  <2> QED BY <2>1, <1>t DEF Parts, MgrInv, Registered, Typed
<1>16. \A u \in Tabs : Gone(u) => Gone(u)'
  BY <1>t DEF Gone, Working, Typed
<1>17. FacadeInv'
  BY <1>16, <1>t DEF Parts, FacadeInv, Registered, Typed
<1>18. DocumentInv'  BY <1>16 DEF Parts, DocumentInv
<1>19. StopInv'
  <2>1. ASSUME NEW s \in stopped
        PROVE  \/ req'[s].reply = "error" \/ req'[s].pc = "settled"
               \/ \E d \in Executors : Runs(d, s)' /\ exec'[d].interrupt[req'[s].tab]
    <3>1. s \in Requests  BY <1>t DEF Typed
    <3>2. CASE s = r
      <4>1. \A d \in Executors : Runs(d, r) => d = e
        BY DEF Runs, Parts, JobInv
      <4>2. exec[e].interrupt[t]
        BY <3>2, <4>1 DEF Parts, StopInv
      <4> QED BY <3>2, <4>2, <1>4
    <3>3. CASE s # r
      <4>1. \A d \in Executors : Runs(d, s) => d # e /\ Runs(d, s)' /\ exec'[d] = exec[d]
        BY <3>3, <1>8 DEF Runs
      <4> QED BY <3>1, <3>3, <4>1 DEF Parts, StopInv
    <3> QED BY <3>2, <3>3
  <2>2. ASSUME NEW d \in Executors, exec'[d].flight # None
        PROVE  \/ Runs(d, exec[d].flight)'
               \/ /\ ~Alive(d)'
                  /\ req'[exec'[d].flight].reply = "error" \/ req'[exec'[d].flight].pc = "settled"
    <3>1. d # e /\ exec'[d] = exec[d]  BY <2>2, <1>7, <1>8
    <3>2. exec[d].flight \in Requests  BY <3>1, <2>2, <1>t DEF Typed
    <3>3. CASE Runs(d, exec[d].flight)  BY <3>1, <3>3 DEF Runs
    <3>4. CASE ~Runs(d, exec[d].flight)
      <4>1. ~Alive(d) /\ (req[exec[d].flight].reply = "error" \/ req[exec[d].flight].pc = "settled")
        BY <3>1, <2>2, <3>4 DEF Parts, StopInv
      <4>2. exec[d].flight # r  BY <4>1
      <4> QED BY <3>1, <3>2, <4>1, <4>2
    <3> QED BY <3>3, <3>4
  <2> QED BY <2>1, <2>2, <1>u DEF StopInv
<1>20. CancelInv'
  <2>1. \A d \in Executors : d # e => exec'[d] = exec[d]  BY <1>8
  <2> QED BY <2>1 DEF Parts, CancelInv
<1> QED BY <1>9, <1>11, <1>12, <1>13, <1>14, <1>15, <1>17, <1>18, <1>19, <1>20 DEF Parts

(* An aborted worker drops its job, and the caller sees its channel close. *)
LEMMA WorkerAbortedKeeps ==
  ASSUME TypeOK, Parts, NEW e \in Executors, WorkerAborted(e) PROVE TypeOK' /\ Parts'
<1>t. Typed  BY FieldTypes
<1>0. PICK r \in Requests \cup {None} : r = worker[e].job
  BY <1>t DEF Typed
<1>1. /\ group[e].aborted /\ worker[e].pc \notin {"none", "exit"}
      /\ worker' = [worker EXCEPT ![e] = [Asleep EXCEPT !.pc = "exit"]]
      /\ req' = Reply(req, {worker[e].job}, "error")
      /\ server' = [server EXCEPT ![e] = "idle"]
      /\ UNCHANGED <<exec, tasks, group, mgr, doc, facade, monitor, stopped>>
  BY DEF WorkerAborted
<1>2. MovesTo(e, "exit", None, "none")
  <2> DEFINE v == [Asleep EXCEPT !.pc = "exit"]
  <2>1. v \in WorkerStates /\ v.pc = "exit" /\ v.job = None /\ v.stage = "none"
    BY DEF Asleep, WorkerStates
  <2>2. worker' = [worker EXCEPT ![e] = v]  BY <1>1
  <2> HIDE DEF v
  <2> QED BY <2>1, <2>2, PutWorker
<1>3. /\ req' \in [Requests -> RequestStates]
      /\ \A s \in Requests :
           /\ req'[s].pc = req[s].pc /\ req'[s].tab = req[s].tab /\ req'[s].with = req[s].with
           /\ req'[s].reply = IF s = r /\ req[s].reply = "none" THEN "error" ELSE req[s].reply
  <2>1. "error" \in Answers  BY DEF Answers
  <2>2. req' = Reply(req, {worker[e].job}, "error") /\ r = worker[e].job
    BY <1>0, <1>1
  <2> QED BY <2>1, <2>2, JobReplied
<1>4. server' \in [Executors -> {"idle", "running"} \cup Answers]
      /\ server'[e] = "idle" /\ \A d \in Executors : d # e => server'[d] = server[d]
  BY <1>1 DEF TypeOK
<1>5. TypeOK'  BY <1>1, <1>2, <1>3, <1>4 DEF TypeOK, MovesTo
<1>6. Typed'  BY <1>5, FieldTypes, PTL
<1>u. /\ UNCHANGED <<exec, tasks, group, mgr, doc, facade, monitor, stopped>>
      /\ group[e].aborted /\ worker[e].pc \notin {"none", "exit"}
  BY <1>1
<1>w. /\ worker'[e].pc = "exit" /\ worker'[e].job = None
      /\ \A d \in Executors : d # e => worker'[d] = worker[d]
  BY <1>2 DEF MovesTo
<1>p. \A s \in Requests :
        /\ req'[s].pc = req[s].pc /\ req'[s].tab = req[s].tab /\ req'[s].with = req[s].with
        /\ req[s].reply # "none" => req'[s].reply = req[s].reply
        /\ s # r => req'[s].reply = req[s].reply
        /\ req'[s].reply = req[s].reply \/ req'[s].reply = "error"
        /\ s = r => req'[s].reply # "none"
  BY <1>3
<1> USE <1>u, <1>w, <1>p, NoneIsNothing DEF RunPcs, Spawned, Alive
<1>11. WorkerInv'
  BY <1>4 DEF Parts, WorkerInv
<1>12. SlotInv'
  BY SMTT(30), <1>0, <1>t DEF Parts, SlotInv, Typed
<1>13. JobInv'
  <2>1. ASSUME NEW d \in Executors, d # e, worker[d].pc \in {"runDrain", "select", "done"},
               worker[d].job # None
        PROVE  worker[d].job # r
    <3>1. CASE worker[e].pc \in {"runDrain", "select", "done"}
      BY <2>1, <3>1, <1>0 DEF Parts, JobInv
    <3>2. CASE worker[e].pc = "endDrain"
      BY <2>1, <3>2, <1>0 DEF Parts, JobInv
    <3>3. CASE worker[e].pc \notin {"runDrain", "select", "done", "endDrain"}
      BY <2>1, <3>3, <1>0 DEF Parts, WorkerInv
    <3> QED BY <3>1, <3>2, <3>3
  <2> QED BY <2>1, <1>t DEF Parts, JobInv, Typed
<1>14. RequestInv'
  <2>1. ASSUME NEW s \in Requests, req'[s].pc = "waiting", req'[s].reply = "none"
        PROVE  (Runs(req[s].with, s) \/ exec[req[s].with].queued[req[s].tab] = s)'
    <3>1. s # r /\ req[s].pc = "waiting" /\ req[s].reply = "none" /\ req[s].with \in Executors
      BY <2>1, <1>t DEF Parts, RequestInv, Typed
    <3>2. CASE Runs(req[s].with, s)
      <4>1. PICK w \in Executors : w = req[s].with /\ w = req'[s].with  BY <3>1
      <4>2. w # e  BY <3>1, <3>2, <4>1, <1>0 DEF Runs
      <4>3. worker'[w] = worker[w]  BY <4>2
      <4> QED BY <3>2, <4>1, <4>3 DEF Runs
    <3>3. CASE exec[req[s].with].queued[req[s].tab] = s
      BY <3>3
    <3> QED BY <3>1, <3>2, <3>3 DEF Parts, RequestInv
  <2>2. \A s \in Requests : req[s].with # None => Spawned(req[s].with)'
    BY <1>t DEF Parts, RequestInv, Typed
  <2>3. \A s \in Requests : req[s].pc \in {"new", "held"} => req'[s].reply = req[s].reply
    BY <1>0 DEF Parts, JobInv
  <2>4. \A s, q \in Requests : req'[s].pc = "held" => (req'[q].pc = "held" <=> req[q].pc = "held")
    OBVIOUS
  <2> QED BY <2>1, <2>2, <2>3, <2>4 DEF Parts, RequestInv
<1>15. MgrInv'
  BY <1>t DEF Parts, MgrInv, Registered, Typed
<1>16. \A u \in Tabs : Gone(u) => Gone(u)'
  BY <1>t DEF Gone, Working, Typed
<1>17. FacadeInv'
  BY <1>16, <1>t DEF Parts, FacadeInv, Registered, Typed
<1>18. DocumentInv'  BY <1>16 DEF Parts, DocumentInv
<1>19. StopInv'
  <2>1. ASSUME NEW s \in stopped
        PROVE  \/ req'[s].reply = "error" \/ req'[s].pc = "settled"
               \/ \E d \in Executors : Runs(d, s)' /\ exec[d].interrupt[req'[s].tab]
    <3>1. s \in Requests  BY <1>t DEF Typed
    <3>2. CASE req[s].reply = "error" \/ req[s].pc = "settled"
      BY <3>1, <3>2
    <3>3. ASSUME NEW d \in Executors, Runs(d, s), exec[d].interrupt[req[s].tab]
          PROVE  req'[s].reply = "error" \/ (Runs(d, s)' /\ exec[d].interrupt[req'[s].tab])
      <4>1. CASE d = e
        <5>1. s = r /\ req[s].reply = "none"
          BY <3>1, <3>3, <4>1, <1>0 DEF Runs, Parts, JobInv
        <5> QED BY <3>1, <5>1, <1>3
      <4>2. CASE d # e  BY <3>1, <3>3, <4>2 DEF Runs
      <4> QED BY <4>1, <4>2
    <3> QED BY <3>2, <3>3 DEF Parts, StopInv
  <2>2. ASSUME NEW d \in Executors, exec[d].flight # None
        PROVE  \/ Runs(d, exec[d].flight)'
               \/ /\ ~Alive(d)'
                  /\ req'[exec[d].flight].reply = "error" \/ req'[exec[d].flight].pc = "settled"
    <3> DEFINE f == exec[d].flight
    <3>1. f \in Requests  BY <2>2, <1>t DEF Typed
    <3>2. CASE ~Alive(d) /\ (req[f].reply = "error" \/ req[f].pc = "settled")
      BY <3>1, <3>2
    <3>3. CASE Runs(d, f) /\ d = e
      <4>1. f = r /\ req[f].reply = "none"
        BY <3>1, <3>3, <1>0 DEF Runs, Parts, JobInv
      <4> QED BY <3>1, <3>3, <4>1, <1>3
    <3>4. CASE Runs(d, f) /\ d # e
      BY <3>1, <3>4 DEF Runs
    <3> QED BY <2>2, <3>2, <3>3, <3>4 DEF Parts, StopInv
  <2> QED BY <2>1, <2>2, <1>u DEF StopInv
<1>20. CancelInv'
  BY DEF Parts, CancelInv
<1> QED BY <1>5, <1>11, <1>12, <1>13, <1>14, <1>15, <1>17, <1>18, <1>19, <1>20 DEF Parts

----------------------------------------------------------------------------
(* next_job.                                                               *)

(* next_job finds no job: the expired ones are answered and the worker     *)
(* parks.                                                                  *)
LEMMA NextJobParksKeeps ==
  ASSUME TypeOK, Parts, NEW e \in Executors, NEW expired \in SUBSET Queued(e),
         worker[e].pc = "pick", req' = Reply(req, expired, "error"),
         Takes(e, expired), Goes(e, "park"),
         UNCHANGED <<server, tasks, group, mgr, doc, facade, monitor, stopped>>
  PROVE  TypeOK' /\ Parts'
<1>t. Typed  BY FieldTypes
<1>1. MovesTo(e, "park", worker[e].job, worker[e].stage)  BY GoesFields DEF WorkerPcs
<1>2. /\ req' \in [Requests -> RequestStates]
      /\ \A r \in Requests :
           /\ req'[r].pc = req[r].pc /\ req'[r].tab = req[r].tab /\ req'[r].with = req[r].with
           /\ req'[r].reply = IF r \in expired THEN "error" ELSE req[r].reply
  BY RepliedFields
<1>3. /\ exec' \in [Executors -> ExecutorStates]
      /\ \A d \in Executors :
           /\ exec'[d].closed = exec[d].closed /\ exec'[d].flight = exec[d].flight
           /\ exec'[d].latest = exec[d].latest /\ exec'[d].interrupt = exec[d].interrupt
           /\ exec'[d].pending = exec[d].pending
           /\ \A t \in Tabs : exec'[d].queued[t] =
                IF d = e /\ exec[d].queued[t] \in expired THEN None ELSE exec[d].queued[t]
  BY WithoutPut
<1>4. TypeOK'  BY <1>1, <1>2, <1>3 DEF TypeOK, MovesTo
<1>5. Typed'  BY <1>4, FieldTypes, PTL
<1>6. Drops(e, expired)
  BY <1>2, <1>3 DEF Drops
<1>7. Spawned(e) /\ Parked(e)
  BY <1>1 DEF Spawned, Parked, MovesTo
<1>8. /\ SlotInv' /\ JobInv' /\ RequestInv'
      /\ \A d \in Executors, t \in Tabs : Working(d, t)' <=> Working(d, t)
  BY <1>t, <1>5, <1>6, <1>7, DropKeeps
<1>9. StopInv'
  BY <1>t, <1>5, <1>3, <1>6, <1>7, DropStops
<1>10. /\ WorkerInv' /\ MgrInv' /\ DocumentInv'
       /\ \A t \in Tabs : Gone(t) => Gone(t)'
  BY <1>t, <1>5, <1>3, <1>6, <1>7, DropFrame
<1>11. FacadeInv'
  BY <1>7, <1>10, <1>t DEF Parts, FacadeInv, Registered, Spawned, Typed, Parked
<1>12. CancelInv'
  BY <1>3, <1>7 DEF Parts, CancelInv, Alive, Parked, RunPcs
<1> QED BY <1>4, <1>8, <1>9, <1>10, <1>11, <1>12 DEF Parts

(* What next_job does to the fields when it hands out request r of tab t.  *)
Starts(e, t, r, S) ==
    /\ worker[e].pc = "pick" /\ ~exec[e].closed
    /\ r \in Requests /\ r \notin S
    /\ req[r].pc = "waiting" /\ req[r].reply = "none" /\ req[r].with = e /\ req[r].tab = t
    /\ exec[e].queued[t] = r /\ exec'[e].flight = r
    /\ worker'[e].pc = "runDrain" /\ worker'[e].job = r
    /\ \A d \in Executors : worker[d].job # r /\ (d # e => worker'[d] = worker[d])
    /\ \A d \in Executors, u \in Tabs : exec[d].queued[u] = r => d = e /\ u = t
    /\ \A s \in S : /\ s \in Requests /\ req[s].pc = "waiting" /\ req[s].reply = "none" /\ req[s].with = e
                   /\ \A d \in Executors : worker[d].job # s
    /\ \A s \in Requests :
        /\ req'[s].pc = req[s].pc /\ req'[s].tab = req[s].tab /\ req'[s].with = req[s].with
        /\ req'[s].reply = IF s \in S THEN "error" ELSE req[s].reply
    /\ \A d \in Executors :
        /\ exec'[d].closed = exec[d].closed /\ exec'[d].latest = exec[d].latest
        /\ exec'[d].pending = exec[d].pending
        /\ \A u \in Tabs : exec'[d].queued[u] =
             IF d = e /\ exec[d].queued[u] \in S \cup {r} THEN None ELSE exec[d].queued[u]
        /\ d # e => exec'[d] = exec[d]
    /\ UNCHANGED <<server, tasks, group, mgr, doc, facade, monitor, stopped>>

(* The record updates of next_job, as it hands out a job. *)
Picks(e, r, S) ==
    /\ req' = [Reply(req, S, "error") EXCEPT ![r].behind = {}]
    /\ exec' = [exec EXCEPT ![e].queued = Without(@, S \cup {r}),
                            ![e].flight = r, ![e].interrupt[req[r].tab] = FALSE]
    /\ worker' = [worker EXCEPT ![e] =
                    [pc |-> "runDrain", job |-> r, stage |-> "ensure", result |-> "none"]]

(* The record updates of next_job have the effect Starts.                  *)
LEMMA PicksFields ==
  ASSUME TypeOK, Parts, NEW e \in Executors, NEW expired \in SUBSET Queued(e),
         NEW r \in Queued(e) \ expired, worker[e].pc = "pick", ~exec[e].closed, Picks(e, r, expired),
         UNCHANGED <<server, tasks, group, mgr, doc, facade, monitor, stopped>>
  PROVE  TypeOK' /\ \E t \in Tabs : Starts(e, t, r, expired)
<1>t. Typed  BY FieldTypes
<1>0. PICK t \in Tabs :
        /\ t = req[r].tab /\ r \in Requests /\ req[r].pc = "waiting" /\ req[r].reply = "none"
        /\ req[r].with = e /\ exec[e].queued[t] = r
        /\ \A d \in Executors : worker[d].job # r
        /\ \A d \in Executors, u \in Tabs : exec[d].queued[u] = r => d = e /\ u = t
  <2>1. r \in Requests /\ req[r].pc = "waiting" /\ req[r].reply = "none" /\ req[r].with = e
        /\ req[r].tab \in Tabs /\ exec[e].queued[req[r].tab] = r
        /\ (\A d \in Executors : worker[d].job # r)
    BY <1>t, DroppedOpen
  <2>2. \A d \in Executors, u \in Tabs : exec[d].queued[u] = r => d = e /\ u = req[r].tab
    BY <2>1, NoneIsNothing DEF Parts, SlotInv
  <2> QED BY <2>1, <2>2
<1>1. MovesTo(e, "runDrain", r, "ensure")
  <2> DEFINE v == [pc |-> "runDrain", job |-> r, stage |-> "ensure", result |-> "none"]
  <2>1. v \in WorkerStates /\ v.pc = "runDrain" /\ v.job = r /\ v.stage = "ensure"
    BY <1>0 DEF WorkerStates
  <2>2. worker' = [worker EXCEPT ![e] = v]  BY DEF Picks
  <2> HIDE DEF v
  <2> QED BY <2>1, <2>2, PutWorker
<1>s. \A s \in expired : s \in Requests /\ req[s].pc = "waiting" /\ req[s].reply = "none" /\ req[s].with = e
                         /\ (\A d \in Executors : worker[d].job # s)
  BY <1>t, DroppedOpen
<1>2. /\ req' \in [Requests -> RequestStates]
      /\ \A s \in Requests :
           /\ req'[s].pc = req[s].pc /\ req'[s].tab = req[s].tab /\ req'[s].with = req[s].with
           /\ req'[s].reply = IF s \in expired THEN "error" ELSE req[s].reply
  <2> DEFINE q == Reply(req, expired, "error")
             v == [q[r] EXCEPT !.behind = {}]
  <2>1. /\ q \in [Requests -> RequestStates]
        /\ \A s \in Requests :
             /\ q[s].pc = req[s].pc /\ q[s].tab = req[s].tab /\ q[s].with = req[s].with
             /\ q[s].reply = IF s \in expired THEN "error" ELSE req[s].reply
    <3>1. req \in [Requests -> RequestStates]  BY DEF TypeOK
    <3>2. "error" \in Answers  BY DEF Answers
    <3> QED BY <3>1, <3>2, <1>s, ReplyFields
  <2> HIDE DEF q
  <2>2. /\ v \in RequestStates /\ v.pc = q[r].pc /\ v.tab = q[r].tab /\ v.with = q[r].with
        /\ v.reply = q[r].reply
    <3>1. q[r] \in RequestStates  BY <1>0, <2>1
    <3> QED BY <3>1 DEF RequestStates
  <2>3. req' = [q EXCEPT ![r] = v]  BY DEF q, Picks
  <2> HIDE DEF v
  <2>4. req' \in [Requests -> RequestStates] /\ req'[r] = v
        /\ \A s \in Requests : s # r => req'[s] = q[s]
    BY <1>0, <2>1, <2>2, <2>3
  <2> QED BY <1>0, <2>1, <2>2, <2>4, <1>s
<1>3. /\ exec' \in [Executors -> ExecutorStates]
      /\ exec'[e].flight = r
      /\ \A u \in Tabs : u # t => exec'[e].interrupt[u] = exec[e].interrupt[u]
      /\ \A d \in Executors :
           /\ exec'[d].closed = exec[d].closed
           /\ exec'[d].latest = exec[d].latest
           /\ exec'[d].pending = exec[d].pending
           /\ \A u \in Tabs : exec'[d].queued[u] =
                IF d = e /\ exec[d].queued[u] \in expired \cup {r} THEN None ELSE exec[d].queued[u]
           /\ d # e => exec'[d] = exec[d]
  <2> DEFINE q == Without(exec[e].queued, expired \cup {r})
             i == [exec[e].interrupt EXCEPT ![t] = FALSE]
             v == [exec[e] EXCEPT !.queued = q, !.flight = r, !.interrupt = i]
  <2>1. exec \in [Executors -> ExecutorStates] /\ exec[e] \in ExecutorStates  BY DEF TypeOK
  <2>2. /\ exec[e].queued \in [Tabs -> Requests \cup {None}]
        /\ i \in [Tabs -> BOOLEAN] /\ \A u \in Tabs : u # t => i[u] = exec[e].interrupt[u]
    BY <2>1, <1>0 DEF ExecutorStates
  <2>3. q \in [Tabs -> Requests \cup {None}]
        /\ \A u \in Tabs : q[u] = IF exec[e].queued[u] \in expired \cup {r} THEN None ELSE exec[e].queued[u]
    BY <2>2, WithoutFields
  <2>4. exec' = [exec EXCEPT ![e] = v]  BY <1>0, <2>1 DEF ExecutorStates, Picks
  <2> HIDE DEF q, i
  <2>5. v \in ExecutorStates /\ v.closed = exec[e].closed /\ v.flight = r
        /\ v.latest = exec[e].latest /\ v.interrupt = i
        /\ v.pending = exec[e].pending /\ v.queued = q
    BY <1>0, <2>1, <2>2, <2>3 DEF ExecutorStates
  <2> HIDE DEF v
  <2>6. exec' \in [Executors -> ExecutorStates] /\ exec'[e] = v
        /\ \A d \in Executors : d # e => exec'[d] = exec[d]
    BY <2>1, <2>4, <2>5
  <2> QED BY <2>2, <2>3, <2>5, <2>6
<1>4. TypeOK'  BY <1>1, <1>2, <1>3 DEF TypeOK, MovesTo
<1>5. Starts(e, t, r, expired)
  BY <1>0, <1>s, <1>1, <1>2, <1>3 DEF Starts, MovesTo
<1> QED BY <1>4, <1>5

(* next_job hands out a queued job: it leaves its slot and becomes the job *)
(* in flight, with its interrupt cleared.                                  *)
LEMMA StartsKeeps ==
  ASSUME Typed, Typed', Parts, NEW e \in Executors, NEW t \in Tabs, NEW r, NEW S, Starts(e, t, r, S)
  PROVE  Parts'
<1>t. Typed  OBVIOUS
<1>0. /\ t = req[r].tab /\ r \in Requests /\ req[r].pc = "waiting" /\ req[r].reply = "none"
      /\ req[r].with = e /\ exec[e].queued[t] = r /\ r \notin S
      /\ \A d \in Executors : worker[d].job # r
      /\ worker[e].pc = "pick" /\ ~exec[e].closed
      /\ UNCHANGED <<server, tasks, group, mgr, doc, facade, monitor, stopped>>
  BY DEF Starts
<1>s. \A s \in S : /\ s \in Requests /\ req[s].pc = "waiting" /\ req[s].reply = "none" /\ req[s].with = e
                  /\ \A d \in Executors : worker[d].job # s
  BY DEF Starts
<1>3. /\ exec'[e].flight = r
      /\ \A d \in Executors : d # e => exec'[d] = exec[d]
  BY DEF Starts
<1>w. /\ worker'[e].pc = "runDrain" /\ worker'[e].job = r
      /\ \A d \in Executors : d # e => worker'[d] = worker[d]
  BY DEF Starts
<1>v. worker[e].job = None  BY <1>0 DEF Parts, WorkerInv, RunPcs
<1>p. \A d \in Executors :
        /\ exec'[d].closed = exec[d].closed /\ exec'[d].latest = exec[d].latest
        /\ exec'[d].pending = exec[d].pending
        /\ \A u \in Tabs : /\ exec'[d].queued[u] \in {exec[d].queued[u], None}
                           /\ exec'[d].queued[u] # r
                           /\ exec'[d].queued[u] \notin S
                           /\ exec[d].queued[u] \notin S \cup {r} => exec'[d].queued[u] = exec[d].queued[u]
  <2>1. \A d \in Executors, u \in Tabs : exec[d].queued[u] \in S => d = e
    BY <1>s, <1>t, NoneIsNothing DEF Parts, SlotInv
  <2> QED BY <2>1, NoneIsNothing, <1>t DEF Starts
<1>q. \A s \in Requests :
        /\ req'[s].pc = req[s].pc /\ req'[s].tab = req[s].tab /\ req'[s].with = req[s].with
        /\ s \in S => req'[s].reply = "error"
        /\ s \notin S => req'[s].reply = req[s].reply
  BY DEF Starts
<1> USE NoneIsNothing, <1>0, <1>s, <1>p, <1>q, <1>w, <1>v DEF RunPcs, Spawned, Alive
<1>6. WorkerInv'
  BY <1>3 DEF Parts, WorkerInv
<1>7. SlotInv'
  <2> SUFFICES ASSUME NEW d \in Executors, NEW u \in Tabs, exec'[d].queued[u] # None
               PROVE  /\ ~exec'[d].closed
                      /\ \A c \in Executors : worker'[c].job # exec'[d].queued[u]
                      /\ req'[exec'[d].queued[u]].pc = "waiting" /\ req'[exec'[d].queued[u]].reply = "none"
                      /\ req'[exec'[d].queued[u]].with = d /\ req'[exec'[d].queued[u]].tab = u
    BY DEF SlotInv
  <2> DEFINE s == exec[d].queued[u]
  <2>1. exec'[d].queued[u] = s /\ s # None /\ s \in Requests /\ s # r /\ s \notin S
    BY <1>t DEF Typed
  <2>2. \A c \in Executors : worker'[c].job # s
    BY <2>1 DEF Parts, SlotInv
  <2> QED BY <2>1, <2>2 DEF Parts, SlotInv
<1>8. JobInv'
  <2>1. \A d \in Executors : d # e => worker[d].job \notin S
    OBVIOUS
  <2> QED BY <2>1, <1>t DEF Parts, JobInv, Typed
<1>9. RequestInv'
  <2>1. ASSUME NEW s \in Requests, req'[s].pc = "waiting", req'[s].reply = "none"
        PROVE  (Runs(req[s].with, s) \/ exec[req[s].with].queued[req[s].tab] = s)'
    <3>1. s \notin S /\ req[s].pc = "waiting" /\ req[s].reply = "none"
      BY <2>1
    <3>2. PICK w \in Executors, u \in Tabs : w = req[s].with /\ u = req[s].tab
      BY <3>1, <1>t DEF Parts, RequestInv, Typed
    <3>3. w = req'[s].with /\ u = req'[s].tab  BY <3>1, <3>2
    <3>4. CASE s = r  BY <3>2, <3>3, <3>4 DEF Runs
    <3>5. CASE s # r /\ Runs(w, s)
      <4>1. w # e  BY <3>5 DEF Runs
      <4> QED BY <3>3, <3>5, <4>1 DEF Runs
    <3>6. CASE s # r /\ exec[w].queued[u] = s
      <4>1. exec'[w].queued[u] = s  BY <3>1, <3>6
      <4> QED BY <3>3, <4>1
    <3> QED BY <3>1, <3>2, <3>4, <3>5, <3>6 DEF Parts, RequestInv
  <2>2. \A s \in Requests : req'[s].with # None => Spawned(req[s].with)'
    BY <1>t DEF Parts, RequestInv, Typed
  <2>3. \A s \in Requests : req'[s].pc \in {"new", "held", "settled"} => req'[s].reply = req[s].reply
    OBVIOUS
  <2> QED BY SMTT(30), <2>1, <2>2, <2>3, <1>t DEF Parts, RequestInv, Typed
<1>10. MgrInv'
  <2>1. monitor # e  BY DEF Parts, MgrInv
  <2> QED BY <2>1, <1>t DEF Parts, MgrInv, Registered, Typed
<1>11. \A u \in Tabs : Gone(u) => Gone(u)'
  <2>1. ASSUME NEW u \in Tabs, Gone(u) PROVE Gone(u)'
    <3>1. u # t  BY <2>1 DEF Gone
    <3>2. \A d \in Executors : Alive(d)' => Alive(d)  OBVIOUS
    <3>3. ASSUME NEW d \in Executors, ~Working(d, u) PROVE ~Working(d, u)'
      <4>1. CASE d = e  BY <3>1, <4>1 DEF Working
      <4>2. CASE d # e  BY <3>3, <4>2, <1>t DEF Working, Typed
      <4> QED BY <4>1, <4>2
    <3> QED BY <2>1, <3>2, <3>3 DEF Gone
  <2> QED BY <2>1
<1>12. FacadeInv'
  BY <1>11, <1>t DEF Parts, FacadeInv, Registered, Typed
<1>13. DocumentInv'  BY <1>11 DEF Parts, DocumentInv
<1>14. StopInv'
  <2>1. ASSUME NEW s \in stopped
        PROVE  \/ req'[s].reply = "error" \/ req'[s].pc = "settled"
               \/ \E d \in Executors : Runs(d, s)' /\ exec'[d].interrupt[req'[s].tab]
    <3>1. s \in Requests  BY <1>t DEF Typed
    <3>2. \A d \in Executors : Runs(d, s) => d # e /\ Runs(d, s)' /\ exec'[d] = exec[d]
      BY <3>1, <1>3 DEF Runs
    <3> QED BY <3>1, <3>2 DEF Parts, StopInv
  <2>2. ASSUME NEW d \in Executors, exec'[d].flight # None
        PROVE  \/ Runs(d, exec[d].flight)'
               \/ /\ ~Alive(d)'
                  /\ req'[exec'[d].flight].reply = "error" \/ req'[exec'[d].flight].pc = "settled"
    <3>1. CASE d = e  BY <3>1, <1>3 DEF Runs
    <3>2. CASE d # e
      <4> DEFINE f == exec[d].flight
      <4>1. exec'[d].flight = f /\ f \in Requests  BY <3>2, <2>2, <1>3, <1>t DEF Typed
      <4>2. CASE Runs(d, f)  BY <3>2, <4>1, <4>2 DEF Runs
      <4>3. CASE ~Alive(d) /\ (req[f].reply = "error" \/ req[f].pc = "settled")
        BY <3>2, <4>1, <4>3
      <4> QED BY <2>2, <4>1, <4>2, <4>3 DEF Parts, StopInv
    <3> QED BY <3>1, <3>2
  <2> QED BY <2>1, <2>2 DEF StopInv
<1>15. CancelInv'
  <2>1. ~exec[e].pending /\ tasks[e].close # "cancel" /\ ~(tasks[e].close = "mark" /\ ~tasks[e].fence)
    BY DEF Parts, CancelInv
  <2>2. ASSUME NEW d \in Executors, d # e PROVE exec'[d] = exec[d] /\ worker'[d] = worker[d]
    BY <2>2, <1>3
  <2> QED BY <2>1, <2>2, <1>3 DEF Parts, CancelInv
<1> QED BY <1>6, <1>7, <1>8, <1>9, <1>10, <1>12, <1>13, <1>14, <1>15 DEF Parts

(* next_job, with or without a job.                                        *)
LEMMA NextJobKeeps ==
  ASSUME TypeOK, Parts, NEW e \in Executors, NEW expired \in SUBSET Queued(e), NextJob(e, expired)
  PROVE  TypeOK' /\ Parts'
<1>t. Typed  BY FieldTypes
<1>0. /\ worker[e].pc = "pick" /\ ~exec[e].closed
      /\ UNCHANGED <<server, tasks, group, mgr, doc, facade, monitor, stopped>>
  BY DEF NextJob
<1>1. CASE /\ req' = Reply(req, expired, "error")
           /\ Takes(e, expired)
           /\ Goes(e, "park")
  BY <1>0, <1>1, NextJobParksKeeps
<1>2. ASSUME NEW r \in Queued(e) \ expired, Picks(e, r, expired)
      PROVE  TypeOK' /\ Parts'
  <2>1. TypeOK' /\ \E t \in Tabs : Starts(e, t, r, expired)
    BY <1>0, <1>2, PicksFields
  <2>2. Typed'  BY <2>1, FieldTypes, PTL
  <2> QED BY <1>t, <2>1, <2>2, StartsKeeps
<1>3. \/ /\ req' = Reply(req, expired, "error")
         /\ Takes(e, expired)
         /\ Goes(e, "park")
      \/ \E r \in Queued(e) \ expired : Picks(e, r, expired)
  BY DEF NextJob, Takes, Picks
<1> QED BY <1>1, <1>2, <1>3

----------------------------------------------------------------------------
(* Enqueue: submit's second half.                                          *)

(* The gate's request is answered at once: no slot changes. *)
AnswersHeld(r) ==
    /\ req[r].pc = "held" /\ facade' = Free /\ ExecKept
    /\ \/ req'[r].pc = "settled" /\ req'[r].with = None /\ req'[r].reply = "none"
       \/ req'[r].pc = "waiting" /\ req'[r].with = req[r].with /\ req'[r].reply = "error"
    /\ req'[r].tab = req[r].tab
    /\ \A s \in Requests : s # r =>
        /\ req'[s].pc = req[s].pc /\ req'[s].tab = req[s].tab
        /\ req'[s].with = req[s].with /\ req'[s].reply = req[s].reply
    /\ UNCHANGED <<worker, server, tasks, group, mgr, doc, monitor, stopped>>

(* A submission that meets a closed executor, a closing tab or a newer     *)
(* request of its tab is answered at once.                                 *)
LEMMA AnswersHeldKeeps ==
  ASSUME Typed, Typed', Parts, NEW r \in Requests, AnswersHeld(r) PROVE Parts'
<1> USE NoneIsNothing DEF RunPcs, Spawned, Alive
<1>1. /\ req[r].pc = "held" /\ facade'.pc = "free"
      /\ \A s \in Requests \ {r} :
        /\ req'[s].pc = req[s].pc /\ req'[s].tab = req[s].tab
        /\ req'[s].with = req[s].with /\ req'[s].reply = req[s].reply
      /\ req'[r].tab = req[r].tab /\ req'[r].pc \in {"settled", "waiting"}
      /\ UNCHANGED <<worker, server, tasks, group, mgr, doc, monitor, stopped>>
  BY DEF AnswersHeld, Free
<1>2. \A d \in Executors :
        /\ exec'[d].closed = exec[d].closed /\ exec'[d].queued = exec[d].queued
        /\ exec'[d].flight = exec[d].flight /\ exec'[d].latest = exec[d].latest
        /\ exec'[d].interrupt = exec[d].interrupt
        /\ exec'[d].pending => exec[d].pending
  BY DEF AnswersHeld, ExecKept
<1>3. /\ \A d \in Executors, t \in Tabs : exec[d].queued[t] # r
      /\ \A d \in Executors : worker[d].job # r
  BY <1>1 DEF Parts, SlotInv, JobInv
<1>4. WorkerInv'  BY <1>1, <1>2 DEF Parts, WorkerInv
<1>5. SlotInv'
  <2>1. ASSUME NEW d \in Executors, NEW t \in Tabs, exec'[d].queued[t] # None
        PROVE  /\ ~exec'[d].closed
               /\ \A c \in Executors : worker'[c].job # exec'[d].queued[t]
               /\ req'[exec'[d].queued[t]].pc = "waiting" /\ req'[exec'[d].queued[t]].reply = "none"
               /\ req'[exec'[d].queued[t]].with = d /\ req'[exec'[d].queued[t]].tab = t
    <3> DEFINE s == exec[d].queued[t]
    <3>1. exec'[d].queued[t] = s /\ s # None /\ s # r /\ s \in Requests
      BY <2>1, <1>2, <1>3 DEF Typed
    <3>2. /\ ~exec[d].closed /\ \A c \in Executors : worker[c].job # s
          /\ req[s].pc = "waiting" /\ req[s].reply = "none" /\ req[s].with = d /\ req[s].tab = t
      BY <3>1 DEF Parts, SlotInv
    <3> HIDE DEF s
    <3> QED BY <3>1, <3>2, <1>1, <1>2
  <2> QED BY <2>1 DEF SlotInv
<1>6. JobInv'  BY <1>1, <1>3 DEF Parts, JobInv, Typed
<1>7. RequestInv'
  <2>1. \A s \in Requests : req'[s].pc # "held"
    BY <1>1 DEF Parts, RequestInv
  <2>2. \A s \in Requests : req'[s].pc = "waiting" /\ req'[s].reply = "none" =>
          s # r /\ ((Runs(req[s].with, s) \/ exec[req[s].with].queued[req[s].tab] = s)')
    <3>1. \A s \in Requests : req'[s].pc = "waiting" /\ req'[s].reply = "none" => s # r
      BY DEF AnswersHeld
    <3> QED BY <3>1, <1>1, <1>2, <1>3 DEF Parts, RequestInv, Typed, Runs
  <2>3. \A s \in Requests : req'[s].with # None => req'[s].with = req[s].with
    BY <1>1 DEF AnswersHeld
  <2>4. req'[r].pc = "waiting" => req'[r].with = req[r].with
    BY DEF AnswersHeld
  <2>5. req'[r].pc = "settled" => req'[r].with = None /\ req'[r].reply = "none"
    BY DEF AnswersHeld
  <2> QED BY <2>1, <2>2, <2>3, <2>4, <2>5, <1>1 DEF Parts, RequestInv, Typed
<1>8. MgrInv'  BY <1>1, <1>2 DEF Parts, MgrInv, Registered, Typed
<1>9. FacadeInv'  BY <1>1 DEF FacadeInv
<1>10. \A t \in Tabs : Gone(t) => Gone(t)'
  <2>1. \A d \in Executors, t \in Tabs : Working(d, t)' <=> Working(d, t)
    BY <1>1, <1>3 DEF Working, Typed
  <2> QED BY <2>1, <1>1, <1>2 DEF Gone
<1>11. DocumentInv'
  <2>1. doc[req[r].tab] = "open" /\ req[r].tab \in Tabs  BY <1>1 DEF Parts, RequestInv
  <2> QED BY <2>1, <1>1, <1>10 DEF Parts, DocumentInv
<1>12. StopInv'
  <2>1. req'[r].reply = "error" \/ req'[r].pc = "settled"  BY DEF AnswersHeld
  <2> QED BY SMTT(30), <2>1, <1>1, <1>2, <1>3 DEF Parts, StopInv, Runs, Typed
<1>13. CancelInv'  BY <1>1, <1>2 DEF Parts, CancelInv
<1> QED BY <1>4, <1>5, <1>6, <1>7, <1>8, <1>9, <1>11, <1>12, <1>13 DEF Parts

(* The gate's request takes the slot of its tab: the job S it finds there  *)
(* is superseded, and so is the job of that tab in flight.                 *)
TakesSlot(r, e, t, S) ==
    /\ req[r].pc = "held" /\ facade'.pc = "free" /\ ~exec[e].closed
    /\ req[r].with = e /\ req[r].tab = t
    /\ S \subseteq Requests /\ \A s : s \in S <=> s # None /\ exec[e].queued[t] = s
    /\ req'[r].pc = "waiting" /\ req'[r].with = e /\ req'[r].tab = t /\ req'[r].reply = "none"
    /\ \A s \in Requests : s # r =>
        /\ req'[s].pc = req[s].pc /\ req'[s].tab = req[s].tab /\ req'[s].with = req[s].with
        /\ req'[s].reply = IF s \in S THEN "error" ELSE req[s].reply
    /\ \A d \in Executors :
        /\ exec'[d].closed = exec[d].closed /\ exec'[d].flight = exec[d].flight
        /\ d # e => exec'[d] = exec[d]
    /\ \A u \in Tabs :
        /\ exec'[e].queued[u] = IF u = t THEN r ELSE exec[e].queued[u]
        /\ u # t => exec'[e].latest[u] = exec[e].latest[u]
        /\ exec[e].interrupt[u] => exec'[e].interrupt[u]
    /\ InFlight(e, t) => exec'[e].interrupt[t] /\ exec[e].flight \in stopped'
    /\ exec'[e].pending => exec[e].pending \/ InFlight(e, t)
    /\ stopped \subseteq stopped'
    /\ \A s \in stopped' : s \in stopped \/ s \in S \/ (InFlight(e, t) /\ s = exec[e].flight)
    /\ UNCHANGED <<worker, server, tasks, group, mgr, doc, monitor>>

(* A submission takes its tab's slot; the job it supersedes is answered,   *)
(* and the job in flight interrupted.                                      *)
LEMMA TakesSlotKeeps ==
  ASSUME Typed, Typed', Parts, NEW r \in Requests, NEW e \in Executors, NEW t \in Tabs, NEW S,
         TakesSlot(r, e, t, S)
  PROVE  Parts'
<1> USE NoneIsNothing DEF RunPcs, Spawned, Alive
<1>1. /\ req[r].pc = "held" /\ facade'.pc = "free" /\ ~exec[e].closed
      /\ req[r].with = e /\ req[r].tab = t /\ worker[e].pc # "none" /\ doc[t] = "open"
      /\ req'[r].pc = "waiting" /\ req'[r].with = e /\ req'[r].tab = t /\ req'[r].reply = "none"
      /\ UNCHANGED <<worker, server, tasks, group, mgr, doc, monitor>>
  BY DEF TakesSlot, Parts, RequestInv
<1>s. /\ S \subseteq Requests /\ \A s : s \in S <=> s # None /\ exec[e].queued[t] = s
  BY DEF TakesSlot
<1>2. \A s \in Requests \ {r} :
        /\ req'[s].pc = req[s].pc /\ req'[s].tab = req[s].tab /\ req'[s].with = req[s].with
        /\ s \in S => req'[s].reply = "error"
        /\ s \notin S => req'[s].reply = req[s].reply
  BY DEF TakesSlot
<1>3. /\ \A d \in Executors : exec'[d].closed = exec[d].closed /\ exec'[d].flight = exec[d].flight
      /\ \A d \in Executors : d # e => exec'[d] = exec[d]
  BY DEF TakesSlot
<1>4. \A u \in Tabs :
        /\ u = t => exec'[e].queued[u] = r
        /\ u # t => exec'[e].queued[u] = exec[e].queued[u] /\ exec'[e].latest[u] = exec[e].latest[u]
        /\ exec[e].interrupt[u] => exec'[e].interrupt[u]
  BY DEF TakesSlot
<1>5. /\ \A d \in Executors, u \in Tabs : exec[d].queued[u] # r
      /\ \A d \in Executors : worker[d].job # r
      /\ \A s \in S, d \in Executors : worker[d].job # s
      /\ \A s \in S : req[s].pc = "waiting"
      /\ \A s \in S, d \in Executors, u \in Tabs : exec[d].queued[u] = s => d = e /\ u = t
  BY <1>1, <1>s DEF Parts, SlotInv, JobInv
<1>6. WorkerInv'
  <2>1. \A d \in Executors : worker[d].pc = "none" => exec'[d] = exec[d]  BY <1>1, <1>3
  <2> QED BY <2>1, <1>1, <1>3 DEF Parts, WorkerInv
<1>7. SlotInv'
  <2>1. ASSUME NEW d \in Executors, NEW u \in Tabs, exec'[d].queued[u] # None, ~(d = e /\ u = t)
        PROVE  LET s == exec[d].queued[u]
               IN  exec'[d].queued[u] = s /\ s \in Requests /\ s # r /\ s \notin S
    <3>1. exec'[d].queued[u] = exec[d].queued[u]  BY <2>1, <1>3, <1>4
    <3> QED BY <2>1, <3>1, <1>5 DEF Typed
  <2>2. ASSUME NEW d \in Executors, NEW u \in Tabs, exec'[d].queued[u] # None
        PROVE  /\ ~exec'[d].closed
               /\ \A c \in Executors : worker'[c].job # exec'[d].queued[u]
               /\ req'[exec'[d].queued[u]].pc = "waiting" /\ req'[exec'[d].queued[u]].reply = "none"
               /\ req'[exec'[d].queued[u]].with = d /\ req'[exec'[d].queued[u]].tab = u
    <3>1. CASE d = e /\ u = t  BY <3>1, <1>1, <1>3, <1>4, <1>5
    <3>2. CASE ~(d = e /\ u = t)
      <4> DEFINE s == exec[d].queued[u]
      <4>1. exec'[d].queued[u] = s /\ s \in Requests /\ s # r /\ s \notin S /\ s # None
        BY <2>1, <2>2, <3>2
      <4>2. /\ ~exec[d].closed /\ \A c \in Executors : worker[c].job # s
            /\ req[s].pc = "waiting" /\ req[s].reply = "none" /\ req[s].with = d /\ req[s].tab = u
        BY <4>1 DEF Parts, SlotInv
      <4> HIDE DEF s
      <4> QED BY <4>1, <4>2, <1>1, <1>2, <1>3
    <3> QED BY <3>1, <3>2
  <2> QED BY <2>2 DEF SlotInv
<1>8. JobInv'  BY <1>1, <1>2, <1>5 DEF Parts, JobInv, Typed
<1>9. RequestInv'
  <2>1. \A s \in Requests : req'[s].pc # "held"
    BY <1>1, <1>2 DEF Parts, RequestInv
  <2>2. ASSUME NEW s \in Requests, req'[s].pc = "waiting", req'[s].reply = "none"
        PROVE  (Runs(req[s].with, s) \/ exec[req[s].with].queued[req[s].tab] = s)'
    <3>1. CASE s = r  BY <3>1, <1>1, <1>4
    <3>2. CASE s # r
      <4>1. s \notin S /\ req[s].pc = "waiting" /\ req[s].reply = "none"  BY <2>2, <3>2, <1>2
      <4>2. PICK w \in Executors, u \in Tabs : w = req[s].with /\ u = req[s].tab
        BY <4>1 DEF Parts, RequestInv, Typed
      <4>3. w = req'[s].with /\ u = req'[s].tab  BY <4>2, <3>2, <1>2
      <4>4. CASE Runs(w, s)  BY <4>3, <4>4, <1>1 DEF Runs
      <4>5. CASE exec[w].queued[u] = s
        <5>1. ~(w = e /\ u = t)  BY <4>1, <4>5, <1>s
        <5>2. exec'[w].queued[u] = s  BY <4>5, <5>1, <1>3, <1>4
        <5> QED BY <4>3, <5>2
      <4> QED BY <4>1, <4>2, <4>4, <4>5 DEF Parts, RequestInv
    <3> QED BY <3>1, <3>2
  <2>3. \A s \in Requests : req'[s].with = req[s].with /\ req'[s].tab = req[s].tab
    BY <1>1, <1>2
  <2>4. \A s \in Requests : req'[s].pc \in {"new", "settled"} =>
          req'[s].pc = req[s].pc /\ req'[s].reply = req[s].reply
    BY <1>1, <1>2, <1>5
  <2>5. \A s \in Requests : req'[s].pc = "waiting" => req[s].pc \in {"held", "waiting"}
    BY <1>1, <1>2
  <2> QED BY <2>1, <2>2, <2>3, <2>4, <2>5, <1>1 DEF Parts, RequestInv
<1>10. MgrInv'  BY <1>1, <1>3 DEF Parts, MgrInv, Registered, Typed
<1>11. FacadeInv'  BY <1>1 DEF FacadeInv
<1>12. \A u \in Tabs : u # t /\ Gone(u) => Gone(u)'
  <2>1. \A d \in Executors, u \in Tabs : Working(d, u)' <=> Working(d, u)
    BY <1>1, <1>2, <1>5 DEF Working, Typed
  <2> QED BY <2>1, <1>1, <1>3, <1>4 DEF Gone
<1>13. DocumentInv'
  <2>1. \A s \in Requests : req[s].pc = "settled" => req'[s].pc = "settled"  BY <1>1, <1>2
  <2>2. \A s \in Requests : req'[s].tab = req[s].tab  BY <1>1, <1>2
  <2> QED BY <2>1, <2>2, <1>1, <1>12 DEF Parts, DocumentInv
<1>14. InFlight(e, t) => /\ exec[e].flight # None /\ exec[e].flight \in Requests
                         /\ req[exec[e].flight].tab = t
  BY DEF InFlight, Typed
<1>15. InFlight(e, t) => exec'[e].interrupt[t] /\ exec[e].flight \in stopped'
  BY DEF TakesSlot
<1>f. \A d \in Executors, s \in Requests : Runs(d, s) => Runs(d, s)' /\ s # r /\ s \notin S
  BY <1>1, <1>5 DEF Runs
<1>16. ASSUME NEW f \in Requests, f # None, req[f].reply = "error" \/ req[f].pc = "settled"
       PROVE  req'[f].reply = "error" \/ req'[f].pc = "settled"
  BY <1>16, <1>1, <1>2 DEF Parts, RequestInv
<1>17. StopInv'
  <2>1. ASSUME NEW s \in Requests, NEW d \in Executors, Runs(d, s), exec[d].interrupt[req[s].tab]
        PROVE  Runs(d, s)' /\ exec'[d].interrupt[req'[s].tab]
    <3>1. Runs(d, s)' /\ s # r /\ s \notin S  BY <2>1, <1>f
    <3>2. req'[s].tab = req[s].tab /\ req[s].tab \in Tabs
      BY <3>1, <2>1, <1>2 DEF Runs, Parts, JobInv
    <3> QED BY <2>1, <3>1, <3>2, <1>3, <1>4
  <2>2. ASSUME NEW s \in stopped'
        PROVE  \/ req'[s].reply = "error" \/ req'[s].pc = "settled"
               \/ \E d \in Executors : Runs(d, s)' /\ exec'[d].interrupt[req'[s].tab]
    <3>1. CASE s \in stopped
      <4>1. s \in Requests  BY <3>1 DEF Typed
      <4> QED BY <3>1, <4>1, <2>1, <1>16 DEF Parts, StopInv
    <3>2. CASE s \in S
      BY <3>2, <1>1, <1>2, <1>5, <1>s
    <3>3. CASE InFlight(e, t) /\ s = exec[e].flight
      <4>1. CASE Runs(e, s)
        <5>1. Runs(e, s)' /\ s # r  BY <4>1, <3>3, <1>14, <1>f
        <5> QED BY <3>3, <5>1, <1>2, <1>14, <1>15
      <4>2. CASE req[s].reply = "error" \/ req[s].pc = "settled"
        BY <3>3, <4>2, <1>14, <1>16
      <4> QED BY <3>3, <4>1, <4>2, <1>14 DEF Parts, StopInv
    <3> QED BY <3>1, <3>2, <3>3 DEF TakesSlot
  <2>3. ASSUME NEW d \in Executors, exec'[d].flight # None
        PROVE  \/ Runs(d, exec[d].flight)'
               \/ /\ ~Alive(d)'
                  /\ req'[exec'[d].flight].reply = "error" \/ req'[exec'[d].flight].pc = "settled"
    <3> DEFINE f == exec[d].flight
    <3>1. exec'[d].flight = f /\ f \in Requests /\ f # None  BY <2>3, <1>3 DEF Typed
    <3>2. CASE Runs(d, f)
      <4>1. worker'[d].job = f /\ worker'[d].pc \in RunPcs  BY <3>2, <1>1 DEF Runs
      <4> QED BY <3>1, <4>1 DEF Runs
    <3>3. CASE ~Alive(d) /\ (req[f].reply = "error" \/ req[f].pc = "settled")
      BY <3>1, <3>3, <1>1, <1>16
    <3> QED BY <3>1, <3>2, <3>3 DEF Parts, StopInv
  <2> QED BY <2>2, <2>3 DEF StopInv
<1>18. CancelInv'
  <2>1. InFlight(e, t) /\ Alive(e) => Runs(e, exec[e].flight)
    BY <1>14 DEF Parts, StopInv
  <2>2. exec'[e].pending => exec[e].pending \/ InFlight(e, t)  BY DEF TakesSlot
  <2>3. stopped \subseteq stopped'  BY DEF TakesSlot
  <2> QED BY <1>1, <1>3, <1>15, <2>1, <2>2, <2>3 DEF Parts, CancelInv, Runs
<1> QED BY <1>6, <1>7, <1>8, <1>9, <1>10, <1>11, <1>13, <1>17, <1>18 DEF Parts

(* submit's second half, in its three cases.                               *)
LEMMA EnqueueKeeps ==
  ASSUME TypeOK, Parts, NEW r \in Requests, Enqueue(r) PROVE TypeOK' /\ Parts'
<1>t. Typed  BY FieldTypes
<1>0. PICK e \in Executors, t \in Tabs : e = req[r].with /\ t = req[r].tab
  BY <1>t DEF Enqueue, Parts, RequestInv, Typed
<1>1. /\ req[r].pc = "held" /\ facade' = Free
      /\ UNCHANGED <<worker, server, tasks, group, mgr, doc, monitor>>
  BY DEF Enqueue
<1>f. facade' \in FacadeStates /\ facade'.pc = "free"
  BY <1>1, FacadeAt DEF Free
<1>x. exec \in [Executors -> ExecutorStates] /\ exec[e] \in ExecutorStates
      /\ req \in [Requests -> RequestStates] /\ req[r] \in RequestStates
  BY DEF TypeOK
<1>n. req[r].reply = "none"  BY <1>1 DEF Parts, RequestInv
<1>2. CASE req' = [req EXCEPT ![r] = Settled(@)] /\ UNCHANGED <<exec, stopped>>
  <2> DEFINE v == Settled(req[r])
  <2>1. /\ v \in RequestStates /\ v.pc = "settled" /\ v.tab = req[r].tab
        /\ v.with = None /\ v.reply = "none"
    BY <1>x, SettledFields
  <2>2. req' = [req EXCEPT ![r] = v]  BY <1>2
  <2> HIDE DEF v
  <2>3. RequestTo(r, "settled", req[r].tab, None, "none")
    BY <2>1, <2>2, PutRequest
  <2>4. TypeOK'  BY <1>1, <1>f, <1>2, <2>3 DEF TypeOK, RequestTo
  <2>5. Typed'  BY <2>4, FieldTypes, PTL
  <2>6. AnswersHeld(r)  BY <1>1, <1>2, <2>3 DEF AnswersHeld, RequestTo, ExecKept
  <2> QED BY <1>t, <2>4, <2>5, <2>6, AnswersHeldKeeps
<1>3. CASE /\ req' = [Reply(req, {r}, "error") EXCEPT ![r].pc = "waiting"]
           /\ exec' = [exec EXCEPT ![e].permit = TRUE] /\ stopped' = stopped
  <2> DEFINE p == Reply(req, {r}, "error")
             v == [p[r] EXCEPT !.pc = "waiting"]
  <2>1. /\ p \in [Requests -> RequestStates]
        /\ \A s \in Requests :
             /\ p[s].pc = req[s].pc /\ p[s].tab = req[s].tab /\ p[s].with = req[s].with
             /\ p[s].reply = IF s \in {r} /\ req[s].reply = "none" THEN "error" ELSE req[s].reply
    <3>1. "error" \in Answers  BY DEF Answers
    <3> QED BY <1>x, <3>1, ReplyFields
  <2>2. req' = [p EXCEPT ![r] = v]  BY <1>3
  <2> HIDE DEF p
  <2>3. /\ v \in RequestStates /\ v.pc = "waiting" /\ v.tab = p[r].tab /\ v.with = p[r].with
        /\ v.reply = p[r].reply
    <3>1. p[r] \in RequestStates  BY <2>1
    <3> QED BY <3>1 DEF RequestStates
  <2> HIDE DEF v
  <2>4. /\ req' \in [Requests -> RequestStates] /\ req'[r] = v
        /\ \A s \in Requests : s # r => req'[s] = p[s]
    BY <2>1, <2>2, <2>3
  <2>5. exec' \in [Executors -> ExecutorStates] /\ ExecKept
    BY <1>3, ExecQuiet
  <2>6. TypeOK'  BY <1>1, <1>f, <1>3, <2>4, <2>5 DEF TypeOK
  <2>7. Typed'  BY <2>6, FieldTypes, PTL
  <2>9. /\ req'[r].pc = "waiting" /\ req'[r].with = req[r].with
        /\ req'[r].reply = "error" /\ req'[r].tab = req[r].tab
    BY <1>n, <2>1, <2>3, <2>4
  <2>10. \A s \in Requests : s # r =>
            /\ req'[s].pc = req[s].pc /\ req'[s].tab = req[s].tab
            /\ req'[s].with = req[s].with /\ req'[s].reply = req[s].reply
    BY <2>1, <2>4
  <2>8. AnswersHeld(r)  BY <1>1, <1>3, <2>5, <2>9, <2>10 DEF AnswersHeld
  <2> QED BY <1>t, <2>6, <2>7, <2>8, AnswersHeldKeeps
<1> DEFINE S == QueuedOf(e, t)
<1>4. CASE /\ ~exec[e].closed
           /\ req' = [Reply(req, S, "error") EXCEPT ![r].pc = "waiting", ![r].behind = Queued(e) \ S]
           /\ exec' = [exec EXCEPT ![e] =
                Interrupted([exec[e] EXCEPT !.queued[t] = r, !.latest[t] = r, !.permit = TRUE], e, t)]
           /\ stopped' = stopped \cup S \cup FlightOf(e, t)
  <2>0. /\ S \subseteq Queued(e) /\ S \subseteq Requests /\ Queued(e) \subseteq Requests
        /\ \A s : s \in S <=> s # None /\ exec[e].queued[t] = s
    BY <1>t, QueuedSlot
  <2>s. r \notin S /\ \A s \in S : req[s].reply = "none"
    BY <2>0, <1>1 DEF Parts, SlotInv
  <2> HIDE DEF S
  <2> DEFINE p == Reply(req, S, "error")
             b == Queued(e) \ S
             v == [p[r] EXCEPT !.pc = "waiting", !.behind = b]
             i == [exec[e].queued EXCEPT ![t] = r]
             l == [exec[e].latest EXCEPT ![t] = r]
             x == [exec[e] EXCEPT !.queued = i, !.latest = l, !.permit = TRUE]
             y == Interrupted(x, e, t)
  <2>1. /\ p \in [Requests -> RequestStates]
        /\ \A s \in Requests :
             /\ p[s].pc = req[s].pc /\ p[s].tab = req[s].tab /\ p[s].with = req[s].with
             /\ p[s].reply = IF s \in S /\ req[s].reply = "none" THEN "error" ELSE req[s].reply
    <3>1. "error" \in Answers  BY DEF Answers
    <3> QED BY <1>x, <3>1, ReplyFields
  <2>2. b \in SUBSET Requests  BY <2>0
  <2>b. b = Queued(e) \ S  OBVIOUS
  <2> HIDE DEF p, b
  <2>3. /\ v \in RequestStates /\ v.pc = "waiting" /\ v.tab = p[r].tab /\ v.with = p[r].with
        /\ v.reply = p[r].reply
    <3>1. p[r] \in RequestStates  BY <2>1
    <3> QED BY <2>2, <3>1 DEF RequestStates
  <2>4. req' = [p EXCEPT ![r] = v]
    <3>1. p[r] \in RequestStates  BY <2>1
    <3> QED BY <1>4, <2>1, <2>b, <3>1 DEF p, RequestStates
  <2> HIDE DEF v
  <2>5. /\ req' \in [Requests -> RequestStates] /\ req'[r] = v
        /\ \A s \in Requests : s # r => req'[s] = p[s]
    BY <2>1, <2>3, <2>4
  <2>6. /\ i \in [Tabs -> Requests \cup {None}] /\ \A u \in Tabs : i[u] = IF u = t THEN r ELSE exec[e].queued[u]
        /\ l \in [Tabs -> 0..MaxRequests] /\ \A u \in Tabs : u # t => l[u] = exec[e].latest[u]
    <3>1. r \in 0..MaxRequests  BY BrowseAssumption DEF Requests
    <3> QED BY <1>x, <3>1 DEF ExecutorStates
  <2>7. exec' = [exec EXCEPT ![e] = y]
    <3>1. [exec[e] EXCEPT !.queued[t] = r, !.latest[t] = r, !.permit = TRUE] = x
      BY <1>x DEF ExecutorStates
    <3> QED BY <1>4, <3>1
  <2> HIDE DEF i, l
  <2>8. /\ x \in ExecutorStates
        /\ x.closed = exec[e].closed /\ x.queued = i /\ x.flight = exec[e].flight
        /\ x.latest = l /\ x.interrupt = exec[e].interrupt /\ x.pending = exec[e].pending
    BY <1>x, <2>6 DEF ExecutorStates
  <2> HIDE DEF x
  <2>9. /\ y \in ExecutorStates
        /\ y.closed = x.closed /\ y.queued = x.queued /\ y.flight = x.flight /\ y.latest = x.latest
        /\ \A u \in Tabs : y.interrupt[u] = (x.interrupt[u] \/ (u = t /\ InFlight(e, t)))
        /\ y.pending = (x.pending \/ (InFlight(e, t) /\ x.conn # "none"))
    BY <2>8, InterruptedFields
  <2> HIDE DEF y
  <2>10. /\ exec' \in [Executors -> ExecutorStates] /\ exec'[e] = y
         /\ \A d \in Executors : d # e => exec'[d] = exec[d]
    BY <1>x, <2>7, <2>9
  <2>11. /\ FlightOf(e, t) \subseteq Requests
         /\ \A s \in FlightOf(e, t) : InFlight(e, t) /\ s = exec[e].flight
         /\ InFlight(e, t) => exec[e].flight \in FlightOf(e, t)
    BY <1>t DEF FlightOf, InFlight, Typed
  <2>12. stopped' \in SUBSET Requests
    BY <1>4, <1>t, <2>0, <2>11 DEF Typed
  <2>13. TypeOK'  BY <1>1, <1>f, <2>5, <2>10, <2>12 DEF TypeOK
  <2>14. Typed'  BY <2>13, FieldTypes, PTL
  <2>15. TakesSlot(r, e, t, S)
    <3>1. /\ req'[r].pc = "waiting" /\ req'[r].with = e /\ req'[r].tab = t /\ req'[r].reply = "none"
          /\ \A s \in Requests : s # r =>
               /\ req'[s].pc = req[s].pc /\ req'[s].tab = req[s].tab /\ req'[s].with = req[s].with
               /\ req'[s].reply = IF s \in S THEN "error" ELSE req[s].reply
      BY <1>0, <1>n, <2>1, <2>3, <2>5, <2>s
    <3>2. /\ \A d \in Executors :
               /\ exec'[d].closed = exec[d].closed /\ exec'[d].flight = exec[d].flight
               /\ d # e => exec'[d] = exec[d]
          /\ \A u \in Tabs :
               /\ exec'[e].queued[u] = IF u = t THEN r ELSE exec[e].queued[u]
               /\ u # t => exec'[e].latest[u] = exec[e].latest[u]
               /\ exec[e].interrupt[u] => exec'[e].interrupt[u]
      BY <2>6, <2>8, <2>9, <2>10
    <3>3. InFlight(e, t) => exec'[e].interrupt[t]
      BY <2>9, <2>10
    <3>4. exec'[e].pending => exec[e].pending \/ InFlight(e, t)
      BY <2>8, <2>9, <2>10
    <3>5. /\ stopped \subseteq stopped'
          /\ InFlight(e, t) => exec[e].flight \in stopped'
          /\ \A s \in stopped' : s \in stopped \/ s \in S \/ (InFlight(e, t) /\ s = exec[e].flight)
      BY <1>4, <2>11
    <3> QED BY <1>0, <1>1, <1>f, <1>4, <2>0, <3>1, <3>2, <3>3, <3>4, <3>5 DEF TakesSlot
  <2> QED BY <1>t, <2>13, <2>14, <2>15, TakesSlotKeeps
<1> QED BY <1>0, <1>2, <1>3, <1>4 DEF Enqueue, EnqueueJob

----------------------------------------------------------------------------
(* The theorems.                                                           *)

(* Nothing is spawned, queued or fenced at first.                          *)
LEMMA InitParts == Init => TypeOK /\ Parts
<1> SUFFICES ASSUME Init PROVE TypeOK /\ Parts  OBVIOUS
<1>1. /\ \A e \in Executors :
           /\ exec[e] = Unspawned /\ worker[e] = Asleep /\ server[e] = "idle"
           /\ tasks[e] = [close |-> "none", fence |-> FALSE, tabs |-> {}]
           /\ group[e] = [registered |-> FALSE, aborted |-> FALSE]
      /\ \A r \in Requests :
           req[r] = [pc |-> "new", tab |-> None, with |-> None, reply |-> "none", behind |-> {}]
      /\ \A t \in Tabs : doc[t] = "none"
      /\ mgr = [executor |-> None, closing |-> FALSE, idleClosing |-> FALSE]
      /\ facade = Free /\ monitor = None /\ stopped = {}
  BY DEF Init
<1>2. /\ Unspawned \in ExecutorStates /\ Asleep \in WorkerStates /\ Free \in FacadeStates
      /\ [close |-> "none", fence |-> FALSE, tabs |-> {}] \in TaskStates
      /\ [pc |-> "new", tab |-> None, with |-> None, reply |-> "none", behind |-> {}] \in RequestStates
  BY BrowseAssumption DEF Unspawned, NoJobs, ExecutorStates, Asleep, WorkerStates, Free,
     FacadeStates, TaskStates, RequestStates
<1>3. TypeOK  BY <1>2 DEF Init, TypeOK
<1>4. /\ \A e \in Executors :
           /\ ~exec[e].closed /\ exec[e].flight = None /\ ~exec[e].pending
           /\ \A t \in Tabs : exec[e].queued[t] = None /\ exec[e].latest[t] = 0
           /\ worker[e].pc = "none" /\ worker[e].job = None
           /\ tasks[e].close = "none" /\ tasks[e].tabs = {} /\ ~group[e].registered
      /\ \A r \in Requests : req[r].pc = "new" /\ req[r].tab = None /\ req[r].with = None /\ req[r].reply = "none"
      /\ mgr.executor = None /\ ~mgr.closing /\ ~mgr.idleClosing /\ facade.pc = "free"
  BY <1>1 DEF Unspawned, NoJobs, Asleep, Free
<1>5. WorkerInv  BY <1>1, <1>4 DEF WorkerInv, RunPcs, Spawned, Alive
<1>6. SlotInv /\ JobInv /\ MgrInv /\ FacadeInv
  BY <1>1, <1>4 DEF SlotInv, JobInv, MgrInv, FacadeInv, Registered
<1>7. RequestInv  BY <1>4 DEF RequestInv
<1>8. DocumentInv /\ StopInv  BY <1>1, <1>4 DEF DocumentInv, StopInv
<1>9. CancelInv  BY <1>4 DEF CancelInv, Alive, RunPcs
<1> QED BY <1>3, <1>5, <1>6, <1>7, <1>8, <1>9 DEF Parts

(* A step of something else changes nothing here.                          *)
LEMMA StutterKeeps == ASSUME TypeOK, Parts, UNCHANGED vars PROVE TypeOK' /\ Parts'
<1>1. UNCHANGED <<exec, worker, server, tasks, group, mgr, doc, req, facade, monitor, stopped>>
  BY DEF vars
<1>2. TypeOK'  BY <1>1 DEF TypeOK
<1>3. WorkerInv' /\ SlotInv' /\ JobInv'
  BY <1>1 DEF Parts, WorkerInv, SlotInv, JobInv, RunPcs, Spawned, Alive
<1>4. RequestInv'  BY <1>1 DEF Parts, RequestInv, Runs, Spawned, RunPcs
<1>5. \A t \in Tabs : Gone(t)' <=> Gone(t)  BY <1>1 DEF Gone, Working, Alive
<1>6. MgrInv' /\ FacadeInv'
  BY <1>1, <1>5 DEF Parts, MgrInv, FacadeInv, Registered, Spawned
<1>7. DocumentInv'  BY <1>1, <1>5 DEF Parts, DocumentInv
<1>8. StopInv' /\ CancelInv'
  BY <1>1 DEF Parts, StopInv, CancelInv, Runs, RunPcs, Alive
<1> QED BY <1>2, <1>3, <1>4, <1>6, <1>7, <1>8 DEF Parts

(* Every step keeps the inductive invariant, one lemma per action.         *)
LEMMA StepKeeps == ASSUME TypeOK, Parts, [Next]_vars PROVE TypeOK' /\ Parts'
<1>1. CASE Users
  BY <1>1, RetireDataKeeps, CancelTabKeeps, CloseDocumentKeeps, SubmitToCurrentKeeps,
     SubmitSpawnsKeeps DEF Users
<1>2. CASE Facade
  BY <1>2, FenceTabKeeps, TabClosedKeeps, DocumentFinishedKeeps, GroupsJoinedKeeps,
     DataRetiredKeeps, GracefulDeadlineKeeps, FinalDeadlineKeeps, EnqueueKeeps DEF Facade
<1>3. CASE IdleClose \/ IdleClosed
  BY <1>3, IdleCloseKeeps, IdleClosedKeeps
<1>4. CASE \E r \in Requests : Waiter(r)
  BY <1>4, ReceiveKeeps, QueueDeadlineKeeps DEF Waiter
<1>5. ASSUME NEW e \in Executors, Worker(e) PROVE TypeOK' /\ Parts'
  BY <1>5, CheckClosedKeeps, DrainCancelKeeps, NextJobClosedKeeps, NotifiedKeeps, NextJobKeeps,
     EnsureConnectionKeeps, ConnectedKeeps, AnsweredKeeps, CompleteJobKeeps DEF Worker, Run
<1>6. ASSUME NEW e \in Executors, ServerAnswers(e) \/ Cleanup(e) \/ Aborts(e) PROVE TypeOK' /\ Parts'
  BY <1>6, ServerAnswersKeeps, CloseExecutorKeeps, CloseCancelsKeeps, CloseNotifiesKeeps,
     CloseTabKeeps, WorkerAbortedKeeps, TasksAbortedKeeps DEF Cleanup, Aborts
<1>7. CASE UNCHANGED vars  BY <1>7, StutterKeeps
<1> QED BY <1>1, <1>2, <1>3, <1>4, <1>5, <1>6, <1>7 DEF Next

(* The inductive invariant holds of every behaviour of executors, workers, *)
(* waiters, cleanup tasks, monitor and facade.                             *)
THEOREM BrowseIInvHolds == Spec => []BrowseIInv
<1>1. Init => BrowseIInv  BY InitParts DEF BrowseIInv
<1>2. BrowseIInv /\ [Next]_vars => BrowseIInv'  BY StepKeeps DEF BrowseIInv
<1> QED BY <1>1, <1>2, PTL DEF Spec

(* What a closed document leaves behind is part of the inductive           *)
(* invariant.                                                              *)
LEMMA PartsClosed == ASSUME TypeOK, Parts PROVE ClosedDocumentGone
BY DEF ClosedDocumentGone, Parts, DocumentInv, Gone, QueuedOf

(* The inductive invariant contains the promises of BrowseInv.             *)
LEMMA PartsBrowse == ASSUME TypeOK, Parts PROVE BrowseInv
<1>t. Typed  BY FieldTypes
<1>1. OneExecutor
  BY <1>t, NoneIsNothing DEF OneExecutor, Parts, MgrInv, WorkerInv, Registered
<1>2. FenceHeld  BY DEF FenceHeld, Parts, FacadeInv
<1>3. QueuedUnanswered
  BY <1>t, QueuedSlot DEF QueuedUnanswered, Parts, SlotInv
<1>4. JoinSettlesRequests
  <2> SUFFICES ASSUME facade.pc = "finish", NEW r \in Requests, req[r].with # None,
                      ~group[req[r].with].aborted, req[r].reply = "none"
               PROVE  FALSE
    BY DEF JoinSettlesRequests
  <2>1. PICK e \in Executors : e = req[r].with  BY <1>t DEF Typed
  <2>2. worker[e].pc = "exit"
    <3>1. ~group[e].registered  BY DEF Parts, FacadeInv, Registered
    <3>2. Spawned(e)  BY <2>1 DEF Parts, RequestInv
    <3> QED BY <3>1, <3>2 DEF Parts, WorkerInv, Alive, Spawned
  <2>3. exec[e].closed  BY <2>1, <2>2 DEF Parts, WorkerInv
  <2>4. req[r].pc = "waiting"
    <3>1. req[r].pc \in {"new", "held", "waiting", "settled"}
      <4>1. req[r] \in RequestStates  BY DEF TypeOK
      <4> QED BY <4>1 DEF RequestStates
    <3> QED BY <3>1 DEF Parts, RequestInv
  <2>5. req[r].tab \in Tabs /\ exec[e].queued[req[r].tab] = r
    BY <2>1, <2>2, <2>4 DEF Parts, RequestInv, Runs, RunPcs
  <2> QED BY <2>3, <2>5, NoneIsNothing DEF Parts, SlotInv
<1>5. ClosedDocumentGone  BY PartsClosed
<1> QED BY <1>1, <1>2, <1>3, <1>4, <1>5 DEF BrowseInv

(* At most one executor per connection, teardown fences that last, a queue *)
(* of unanswered requests, joins that leave no caller waiting and closed   *)
(* documents that left nothing: native_executor_for, close_native_idle,    *)
(* close_native_connection, take_queued and close_native_tab, for any      *)
(* tabs, requests and executors.                                           *)
THEOREM BrowseCorrect == Spec => []BrowseInv
<1>1. BrowseIInv => BrowseInv  BY PartsBrowse DEF BrowseIInv
<1> QED BY <1>1, BrowseIInvHolds, PTL

(* A stopped job is answered with an error or still runs without a reply.  *)
LEMMA PartsStopped == ASSUME TypeOK, Parts PROVE StoppedNotDelivered
<1> SUFFICES ASSUME NEW r \in stopped, req[r].reply = "ok" PROVE FALSE
  BY DEF StoppedNotDelivered
<1>1. r \in Requests /\ r # None  BY FieldTypes, NoneIsNothing DEF Typed
<1>2. PICK e \in Executors : Runs(e, r)
  BY <1>1 DEF Parts, StopInv, RequestInv
<1> QED BY <1>1, <1>2 DEF Runs, Parts, JobInv

(* A request that was cancelled, superseded or closed before its answer    *)
(* never delivers rows, whatever the order of its result, the cancel and   *)
(* next_job's reset of the interrupt.                                      *)
THEOREM StoppedNeverDelivered == Spec => []StoppedNotDelivered
<1>1. BrowseIInv => StoppedNotDelivered  BY PartsStopped DEF BrowseIInv
<1> QED BY <1>1, BrowseIInvHolds, PTL

(* A closed document has no job, slot or tab fence left on a live executor *)
(* (close_native_tab, TabWork, finish).                                    *)
THEOREM ClosedDocumentsGone == Spec => []ClosedDocumentGone
<1>1. BrowseIInv => ClosedDocumentGone  BY PartsClosed DEF BrowseIInv
<1> QED BY <1>1, BrowseIInvHolds, PTL

(* A pending cancel belongs to a job that runs stopped, or to none; a      *)
(* close's cancel meets a job that its fence stopped, or none.             *)
LEMMA PartsCancels == ASSUME TypeOK, Parts PROVE CancelsForStopped
<1> SUFFICES ASSUME NEW e \in Executors, exec[e].pending \/ tasks[e].close = "cancel", Alive(e),
                    exec[e].flight # None
             PROVE  exec[e].flight \in stopped
  BY DEF CancelsForStopped
<1>1. worker[e].pc \in RunPcs /\ worker[e].job = exec[e].flight
  BY DEF Parts, StopInv, Runs
<1>2. exec[e].flight # None /\ worker[e].pc # "endDrain"
  BY <1>1 DEF RunPcs
<1> QED BY <1>1, <1>2 DEF Parts, CancelInv

(* A protocol cancel is kept and sent only while the job in flight, if     *)
(* any, is one that was cancelled, superseded or closed:                   *)
(* queue_protocol_cancel, the drains before and after a job and            *)
(* close_executor leave none to be sent under the next tab's job.          *)
THEOREM CancelsOnlyForStopped == Spec => []CancelsForStopped
<1>1. BrowseIInv => CancelsForStopped  BY PartsCancels DEF BrowseIInv
<1> QED BY <1>1, BrowseIInvHolds, PTL
============================================================================
