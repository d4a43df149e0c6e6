------------------------ MODULE ResultMutationProofs ------------------------
(***************************************************************************)
(* Proofs about ResultMutation, for any tabs and any number of requests,   *)
(* statements and virtual keys.                                            *)
(***************************************************************************)
EXTENDS ResultMutation, TLAPS

----------------------------------------------------------------------------
(* The inductive invariant.                                                *)

AnalysisSteps == {"query", "keys", "cache"}
ApplySteps == {"snapshot"} \cup TransactionSteps
StatementSteps == {"query", "begin", "change", "commit", "rollback", "verify"}

(* The task of the active request. *)
RunInv ==
    /\ run.pc = "none" => run = Resting
    /\ run.pc # "none" => run.r \in Requests /\ ex.active = run.r
    /\ run.pc \in AnalysisSteps => run.r \in Analyses
    /\ run.pc \in ApplySteps => run.r \in Applies
    /\ run.pc = "change" => run.left > 0
    /\ run.pc = "admit" => run.left = 0
    /\ run.pc \in {"none", "keys", "cache", "finish"} => run.result # "undefined"
    /\ ex.active # None => run.pc # "none" \/ group.aborted
    /\ ex.active = None => ~ex.admitted
    /\ run.pc # "none" => run.left <= Statements
    /\ run.pc \in {"check", "ensure", "connect", "recheck", "snapshot", "begin"} /\ run.r \in Applies =>
        run.left = Statements

(* Pending cancels *)
StopInv ==
    /\ tasks.cancel # "none" => ex.pending # None
    /\ ex.pending # None => ex.pending \in stopped /\ ex.active \in {None, ex.pending}
    /\ ex.pending # None => ex.pending \in Requests
    /\ tasks.close = "cancel" => ex.closed /\ ex.active \in stopped \cup {None}
    /\ ex.active \in stopped => Interrupted /\ ~ex.admitted
    /\ ex.admitted =>
        /\ ex.interrupt = "none" /\ ex.active \in Applies
        /\ run.pc # "none" => run.pc \in {"commit", "healthy", "unhealthy", "finish"}

(* A request that nobody has seen yet. *)
Unborn(r) ==
    /\ r \notin stopped /\ r \notin committed /\ r \notin ex.snaps /\ r # ex.active
    /\ req[r].reply = "none"

(* A request waits for its reply in the queue or as the active one.        *)
RequestInv ==
    \A r \in Requests :
        /\ req[r].gen <= ex.gen
        /\ req[r].pc # "new" => req[r].tab \in Tabs /\ doc[req[r].tab] # "none"
        /\ req[r].pc \in {"new", "held"} => Unborn(r)
        /\ req[r].pc = "held" => facade.r = r /\ facade.pc \in {"analyze", "apply"}
        /\ req[r].pc = "waiting" /\ req[r].reply = "none" =>
            r \in Queued \/ (run.pc # "none" /\ run.r = r)

(* What is queued is open, was not stopped and does not run. *)
QueueInv ==
    \A t \in Tabs : \A r \in QueuedOf(t) :
        /\ r \in Analyses /\ req[r].tab = t /\ req[r].pc = "waiting" /\ req[r].reply = "none"
        /\ r \notin stopped /\ r # ex.active /\ r \notin ex.snaps

(* So is what runs; its waiter may be gone. *)
ActiveInv ==
    /\ run.pc # "none" => req[run.r].reply = "none" /\ req[run.r].pc \in {"waiting", "settled"}
    /\ ex.active # None => req[ex.active].reply \in {"none", "lost"}

(* The operation that holds the gate. *)
FacadeInv ==
    /\ facade.pc \in {"analyze", "apply"} =>
        /\ facade.r \in Requests /\ req[facade.r].pc = "held"
        /\ doc[req[facade.r].tab] = "open"
        /\ mgr.executor # "none"
    /\ facade.pc = "analyze" => facade.r \in Analyses
    /\ facade.pc = "apply" => facade.r \in Applies
    /\ facade.pc \in {"tabHeld", "tab", "tabFinish"} =>
        facade.tab \in Tabs /\ doc[facade.tab] = "retired"
    /\ facade.pc = "tabHeld" => mgr.executor # "none"
    /\ facade.pc = "free" => facade = Free

(* executor lifecycle *)
Idle == run.pc = "none" /\ tasks.close = "none" /\ tasks.tabs = {} /\ tasks.cancel = "none"
LifeInv ==
    /\ mgr.executor = "none" =>
        /\ ~group.registered /\ ~group.aborted /\ ex.snaps = {} /\ Queued = {} /\ ex.active = None
        /\ Idle /\ ex.pending = None /\ ~ex.closed
    /\ mgr.executor = "current" =>
        group.registered /\ ~group.aborted /\ ~ex.closed /\ tasks.close = "none"
            /\ facade.pc \notin {"join", "finish"}
    /\ ex.closed => Queued = {}
    /\ ~group.registered /\ ~group.aborted => Idle
    /\ mgr.executor = "gone" /\ ~group.aborted =>
        ex.closed \/ (tasks.close = "mark" /\ facade.pc = "join")
    /\ mgr.executor = "gone" /\ ~group.aborted /\ facade.pc # "join" =>
        run.pc = "none" /\ tasks.cancel = "none"
    /\ facade.pc = "finish" => ~group.registered
    /\ facade.forced => group.aborted \/ ~group.registered
    /\ group.registered => mgr.executor # "none"
    /\ monitor => mgr.executor = "gone"

Gone(t) ==
    /\ QueuedOf(t) = {} /\ ~Working(t)
    /\ mgr.executor = "current" => \A a \in ex.snaps : req[a].tab # t
TabInv ==
    ~group.aborted =>
        /\ \A t \in Tabs : doc[t] = "closed" => Gone(t)
        /\ facade.pc = "tabFinish" => Gone(facade.tab)
        /\ facade.pc = "tab" /\ facade.tab \notin tasks.tabs => Gone(facade.tab)

KeyInv ==
    /\ SnapshotsCurrent
    /\ run.pc = "cache" /\ run.result = "ok" /\ req[run.r].gen = ex.gen /\ facade.pc # "save"
        /\ mgr.executor = "current" => run.keys = keys
    /\ run.pc \notin {"none", "finish"} => run.r \notin ex.snaps

(* server *)
Clean == server.txn = "none" /\ server.work = {}
SessionInv ==
    /\ server.stmt = "none" => server.answer = "none"
    /\ ex.active = None => server.stmt = "none" /\ Clean
    /\ run.pc # "none" => server.stmt = (IF run.pc \in StatementSteps THEN run.pc ELSE "none")
    /\ run.pc # "none" /\ run.pc \notin TransactionSteps => Clean
    /\ server.stmt \in StatementSteps \ {"query"} => ex.active \in Applies
    /\ server.stmt = "commit" => ex.admitted
    /\ Running => ex.conn = "up"
    /\ ex.conn # "up" => Clean
    /\ server.work \subseteq {ex.active}
    /\ server.stmt = "begin" => server.work = {}
    /\ server.stmt = "begin" /\ server.answer # "ok" => Clean
    /\ server.stmt = "begin" /\ server.answer = "ok" /\ ex.conn = "up" => server.txn = "open"
    /\ server.stmt \in {"query", "verify"} => Clean
    /\ server.stmt = "commit" /\ server.answer # "none" => Clean
    /\ server.stmt = "rollback" /\ server.answer = "ok" => Clean
    /\ Running /\ server.stmt \in {"change", "commit"} => server.txn = "open"
    /\ server.stmt = "commit" /\ Running => ex.active \in server.work
    /\ server.stmt = "change" /\ server.answer = "ok" /\ ex.conn = "up" =>
        server.txn = "open" /\ ex.active \in server.work
    /\ run.pc \in {"guard", "admit"} /\ ex.conn = "up" =>
        server.txn = "open" /\ (run.left < Statements => ex.active \in server.work)
    /\ run.pc = "healthy" => Clean

LedgerInv ==
    /\ committed \cap stopped = {}
    /\ \A r \in committed :
        /\ r # ex.active => req[r].reply # "none"
        /\ req[r].reply \in {"none", "ok", "lost"}
    /\ \A r \in Applies : req[r].reply = "ok" => r \in committed
    /\ ex.active \in committed => ex.admitted
    /\ server.stmt = "commit" => 
        /\ server.answer = "ok" => ex.active \in committed
        /\ server.answer \notin {"ok", "lost"} => ex.active \notin committed
    /\ run.pc \in {"healthy", "unhealthy", "finish"} /\ run.r \in Applies =>
        /\ run.result = "ok" => run.r \in committed
        /\ run.r \in committed => run.result \in {"ok", "lost"}
    /\ run.pc \in {"rollback", "verify"} => run.result # "ok"

(* The parts of the invariant other than the types. *)
Parts ==
    /\ RunInv /\ StopInv /\ RequestInv /\ QueueInv /\ ActiveInv /\ FacadeInv
    /\ LifeInv /\ TabInv /\ KeyInv /\ SessionInv /\ LedgerInv

MutationIInv == TypeOK /\ Parts

----------------------------------------------------------------------------
(* What the model's operators do to a record, field by field.              *)

(* A oneshot reply changes only the reply of a request that has none.      *)
LEMMA ReplyFields ==
  ASSUME NEW q \in [Requests -> RequestStates], NEW S, NEW a \in Answers
  PROVE  /\ Reply(q, S, a) \in [Requests -> RequestStates]
         /\ \A r \in Requests :
              /\ Reply(q, S, a)[r].pc = q[r].pc
              /\ Reply(q, S, a)[r].tab = q[r].tab
              /\ Reply(q, S, a)[r].gen = q[r].gen
              /\ Reply(q, S, a)[r].plan = q[r].plan
              /\ Reply(q, S, a)[r].keys = q[r].keys
              /\ Reply(q, S, a)[r].reply = IF r \in S /\ q[r].reply = "none" THEN a ELSE q[r].reply
<1> DEFINE one(r) == IF r \in S /\ q[r].reply = "none" THEN [q[r] EXCEPT !.reply = a] ELSE q[r]
<1>1. Reply(q, S, a) = [r \in Requests |-> one(r)]  BY DEF Reply
<1>2. ASSUME NEW r \in Requests
      PROVE /\ one(r) \in RequestStates
            /\ one(r).pc = q[r].pc /\ one(r).tab = q[r].tab /\ one(r).gen = q[r].gen
            /\ one(r).plan = q[r].plan /\ one(r).keys = q[r].keys
            /\ one(r).reply = IF r \in S /\ q[r].reply = "none" THEN a ELSE q[r].reply
  BY DEF RequestStates, Answers
<1> QED  BY <1>1, <1>2

(* A queue without some of its requests.                                   *)
LEMMA WithoutSlots ==
  ASSUME NEW queued \in [Tabs -> Slots], NEW S
  PROVE  /\ Without(queued, S) \in [Tabs -> Slots]
         /\ \A t \in Tabs : Without(queued, S)[t] = IF queued[t] \in S THEN None ELSE queued[t]
  BY DEF Without, Slots

(* `None` is neither a request nor a tab.                                  *)
LEMMA NoneApart == None \notin Requests /\ None \notin Tabs /\ None \notin Analyses /\ None \notin Applies
  BY MutationAssumption DEF Requests

(* The queued requests are analyses.                                       *)
LEMMA QueuedAnalyses == TypeOK => Queued \subseteq Analyses /\ \A t \in Tabs : QueuedOf(t) \subseteq Queued
  BY DEF TypeOK, ExecutorStates, Queued, QueuedOf, Slots

(* The types of the fields that the invariant reads. *)
Typed ==
    /\ ex.active \in Requests \cup {None} /\ ex.pending \in Requests \cup {None}
    /\ ex.gen \in Nat /\ ex.snaps \subseteq Analyses /\ ex.queued \in [Tabs -> Slots]
    /\ ex.closed \in BOOLEAN /\ ex.admitted \in BOOLEAN
    /\ ex.conn \in {"none", "up", "dead"}
    /\ run.r \in Requests \cup {None} /\ run.left \in Nat /\ run.keys \in Nat
    /\ run.result \in Results
    /\ server.answer \in Results \cup {"none"}
    /\ server.txn \in {"none", "open", "aborted"} /\ server.work \subseteq Applies
    /\ server.stmt \in StatementSteps \cup {"none"}
    /\ committed \subseteq Applies /\ stopped \subseteq Requests
    /\ tasks.tabs \subseteq Tabs
    /\ \A r \in Requests :
        /\ req[r].gen \in Nat /\ req[r].keys \in Nat /\ req[r].tab \in Tabs \cup {None}
        /\ req[r].reply \in Answers \cup {"none"}
        /\ req[r].pc \in {"new", "held", "waiting", "settled"}
    /\ \A t \in Tabs : doc[t] \in {"none", "open", "retired", "closed"}
    /\ mgr.executor \in {"none", "current", "gone"}
    /\ group.registered \in BOOLEAN /\ group.aborted \in BOOLEAN

(* Field by field, from the types of the records.                          *)
LEMMA FieldTypes == ASSUME TypeOK PROVE Typed
<1>1. \A x \in ExecutorStates :
        /\ x.active \in Requests \cup {None} /\ x.pending \in Requests \cup {None}
        /\ x.gen \in Nat /\ x.snaps \subseteq Analyses /\ x.queued \in [Tabs -> Slots]
        /\ x.closed \in BOOLEAN /\ x.admitted \in BOOLEAN /\ x.conn \in {"none", "up", "dead"}
  BY DEF ExecutorStates
<1>2. \A x \in RunStates :
        /\ x.r \in Requests \cup {None} /\ x.left \in Nat /\ x.keys \in Nat
        /\ x.result \in Results
  BY DEF RunStates
<1>3. \A x \in SessionStates :
        /\ x.answer \in Results \cup {"none"}
        /\ x.txn \in {"none", "open", "aborted"} /\ x.work \subseteq Applies
        /\ x.stmt \in StatementSteps \cup {"none"}
  BY DEF SessionStates, StatementSteps
<1>4. \A x \in TaskStates : x.tabs \subseteq Tabs  BY DEF TaskStates
<1>5. \A x \in RequestStates :
        /\ x.gen \in Nat /\ x.keys \in Nat /\ x.tab \in Tabs \cup {None}
        /\ x.reply \in Answers \cup {"none"} /\ x.pc \in {"new", "held", "waiting", "settled"}
  BY DEF RequestStates
<1>6. \A r \in Requests : req[r] \in RequestStates  BY DEF TypeOK
<1>7. mgr.executor \in {"none", "current", "gone"} /\ group.registered \in BOOLEAN
      /\ group.aborted \in BOOLEAN
  BY DEF TypeOK
<1>8. /\ ex \in ExecutorStates /\ run \in RunStates /\ server \in SessionStates
      /\ tasks \in TaskStates /\ committed \subseteq Applies /\ stopped \subseteq Requests
      /\ doc \in [Tabs -> {"none", "open", "retired", "closed"}]
  BY DEF TypeOK
<1> QED  BY <1>1, <1>2, <1>3, <1>4, <1>5, <1>6, <1>7, <1>8 DEF Typed


----------------------------------------------------------------------------
(* Steps of the active request's task.                                     *)

(* The task goes on: the request stays the active one, and neither the     *)
(* queue nor the fences nor the replies are touched.                       *)
RunnerStep ==
    /\ run.pc \notin {"none", "finish"} /\ run'.pc # "none" /\ run'.r = run.r
    /\ UNCHANGED <<committed, tasks, group, mgr, doc, facade, monitor, stopped>>
    /\ ex'.active = ex.active /\ ex'.interrupt = ex.interrupt /\ ex'.pending = ex.pending
    /\ ex'.closed = ex.closed /\ ex'.queued = ex.queued
    /\ ex'.gen >= ex.gen /\ ex'.snaps \subseteq ex.snaps \cup {run.r}
    /\ \A r \in Requests :
        /\ req'[r].pc = req[r].pc /\ req'[r].tab = req[r].tab
        /\ req'[r].gen = req[r].gen /\ req'[r].reply = req[r].reply

(* What such a step leaves alone.                                          *)
LEMMA RunnerKeeps ==
  ASSUME Typed, Typed', Parts, RunnerStep
  PROVE  RequestInv' /\ QueueInv' /\ ActiveInv' /\ FacadeInv' /\ LifeInv' /\ TabInv'
<1> USE NoneApart DEF Parts, RunnerStep
<1>1. run.r \in Requests /\ ex.active = run.r  BY DEF RunInv
<1>2. \A t \in Tabs : QueuedOf(t)' = QueuedOf(t)  BY DEF QueuedOf
<1>3. Queued' = Queued  BY <1>2 DEF Queued
<1>4. \A r \in Requests : Unborn(r) => Unborn(r)'  BY <1>1 DEF Unborn
<1>5. RequestInv'  BY <1>1, <1>3, <1>4 DEF RequestInv, Typed
<1>14. QueueInv' /\ ActiveInv'  BY <1>1, <1>2 DEF QueueInv, ActiveInv, Typed, Requests
<1>15. FacadeInv'  BY DEF FacadeInv
<1>6. mgr.executor # "none"  BY DEF LifeInv, Idle
<1>7. Idle' <=> FALSE  BY DEF Idle
<1>8. Idle <=> FALSE  BY DEF Idle
<1>9. LifeInv'  BY <1>3, <1>6, <1>7, <1>8 DEF LifeInv
<1>10. ex.pending \in Requests \cup {None}  BY DEF Typed
<1>11. \A t \in Tabs : Working(t)' <=> Working(t)
  BY <1>1, <1>10 DEF Working, StopInv
<1>12. \A t \in Tabs : Gone(t) => Gone(t)'
  BY <1>1, <1>2, <1>11 DEF Gone, Working, Typed, Requests
<1>13. TabInv'  BY <1>12 DEF TabInv, FacadeInv
<1> QED  BY <1>5, <1>9, <1>13, <1>14, <1>15

(* An admitted apply is on its way to the end.                             *)
LEMMA RunnerStops ==
  ASSUME Parts, RunnerStep, ex'.admitted = ex.admitted,
         ex.admitted => run'.pc \in {"commit", "healthy", "unhealthy", "finish"}
  PROVE  StopInv'
  BY DEF Parts, RunnerStep, StopInv, Interrupted

(* A step that caches nothing keeps the cache current.                     *)
LEMMA RunnerKeys ==
  ASSUME Typed, Typed', Parts, RunnerStep, run'.pc = "cache" => run'.result # "ok",
         UNCHANGED <<keys, req>>,
         (ex'.gen = ex.gen /\ ex'.snaps = ex.snaps) \/ ex'.snaps = {}
  PROVE  KeyInv'
  BY DEF Parts, RunnerStep, KeyInv, SnapshotsCurrent, Typed

RunPcs == {"none", "check", "ensure", "connect", "recheck", "query", "keys", "cache",
           "snapshot", "begin", "guard", "change", "admit", "commit", "rollback", "verify",
           "healthy", "unhealthy", "finish"}

(* The task moves to another step with a result. *)
RunMoves(p, v) ==
    /\ run' \in RunStates /\ run'.r = run.r /\ run'.left = run.left
    /\ run'.pc = p /\ run'.result = v

(* The task goes on.                                                       *)
LEMMA GoesFields ==
  ASSUME run \in RunStates, NEW p \in RunPcs, Goes(p)  PROVE  RunMoves(p, run.result)
  BY DEF Goes, RunStates, RunPcs, RunMoves

(* The task comes to its end.                                              *)
LEMMA EndsFields ==
  ASSUME run \in RunStates, NEW v \in Results, Ends(v)  PROVE  RunMoves("finish", v)
  BY DEF Ends, RunStates, Results, RunMoves

(* A statement is sent on the session as it is.                            *)
SentTo(s) ==
    /\ server' \in SessionStates
    /\ server'.stmt = s /\ server'.txn = server.txn /\ server'.work = server.work
    /\ server'.answer = IF ex.conn = "up" THEN "none" ELSE "lost"

(* What sending does to the session.                                       *)
LEMMA SendsFields ==
  ASSUME server \in SessionStates, NEW s \in StatementSteps, NEW then, Sends(s, then)
  PROVE  SentTo(s) /\ run' = then /\ committed' = committed
  BY DEF Sends, SessionStates, StatementSteps, Results, SentTo

(* The answer is taken: the session has no statement.                      *)
TakenFrom ==
    /\ server' \in SessionStates
    /\ server'.stmt = "none" /\ server'.answer = "none"
    /\ server'.txn = server.txn /\ server'.work = server.work

(* What taking an answer does to the session.                              *)
LEMMA TakenFields ==
  ASSUME server \in SessionStates, Taken
  PROVE  TakenFrom /\ committed' = committed
  BY DEF Taken, SessionStates, TakenFrom

(* Before its transaction, a task without a statement moves on.            *)
QuietRun ==
    /\ RunnerStep /\ UNCHANGED <<ex, server, req, keys>>
    /\ run.pc \in {"check", "ensure", "connect", "recheck", "snapshot"}
    /\ run'.left = run.left
    /\ \/ run'.pc \in {"ensure", "connect", "recheck"}
       \/ run'.pc = "snapshot" /\ run.r \in Applies
       \/ run'.pc = "finish" /\ run'.result \in {"refused", "lost"}

(* Such a move keeps the invariant.                                        *)
LEMMA QuietRunKeeps ==
  ASSUME Typed, Typed', Parts, QuietRun
  PROVE  Parts'
<1> USE NoneApart DEF QuietRun
<1>1. RequestInv' /\ QueueInv' /\ ActiveInv' /\ FacadeInv' /\ LifeInv' /\ TabInv'
  BY RunnerKeeps
<1>2. RunInv'  BY DEF Parts, RunInv, RunnerStep, AnalysisSteps, ApplySteps, TransactionSteps
<1>3. run.pc \notin {"commit", "healthy", "unhealthy", "finish"}
  BY DEF TransactionSteps, RunnerStep
<1>4. ~ex.admitted  BY <1>3 DEF Parts, RunnerStep, StopInv
<1>5. StopInv'  BY <1>4, RunnerStops
<1>6. KeyInv'  BY RunnerKeys
<1>7. SessionInv'
  BY <1>3 DEF Parts, RunnerStep, SessionInv, Running, Clean, StatementSteps, TransactionSteps
<1>8. LedgerInv'
  BY <1>4 DEF Parts, RunnerStep, LedgerInv, RunInv, SessionInv
<1> QED  BY <1>1, <1>2, <1>5, <1>6, <1>7, <1>8 DEF Parts


(* A step of the task that leaves the executor and the requests alone.     *)
PlainStep == RunnerStep /\ UNCHANGED <<ex, req, keys>>

(* What such a step keeps, but for the task and the session.               *)
LEMMA PlainKeeps ==
  ASSUME Typed, Typed', Parts, PlainStep, run'.pc = "cache" => run'.result # "ok",
         ex.admitted => run'.pc \in {"commit", "healthy", "unhealthy", "finish"}
  PROVE  /\ RequestInv' /\ QueueInv' /\ ActiveInv' /\ FacadeInv' /\ LifeInv' /\ TabInv'
         /\ StopInv' /\ KeyInv'
  BY RunnerKeeps, RunnerStops, RunnerKeys DEF PlainStep

(* The task sends statement `s` of its request where the code does.        *)
MaySend(s, v) ==
    \/ s = "query" /\ run.pc = "recheck" /\ run.r \in Analyses /\ v = run.result
    \/ s = "begin" /\ run.pc = "snapshot" /\ v = run.result
    \/ s = "change" /\ run.pc = "guard" /\ run.left > 0 /\ v = run.result
    \/ s = "rollback" /\ run.pc \in {"guard", "change", "admit"} /\ v # "ok"
    \/ s = "verify" /\ run.pc = "rollback" /\ server.answer = "ok" /\ v = run.result

(* Such a send keeps the invariant.                                        *)
LEMMA SendKeeps ==
  ASSUME Typed, Typed', Parts, PlainStep, NEW s, NEW v, MaySend(s, v),
         SentTo(s), RunMoves(s, v)
  PROVE  Parts'
<1> USE NoneApart DEF PlainStep, RunMoves, SentTo
<1>1. run.pc \notin {"none", "commit", "healthy", "unhealthy", "finish"}
  BY DEF MaySend
<1>2. ~ex.admitted  BY <1>1 DEF Parts, StopInv
<1>3. /\ RequestInv' /\ QueueInv' /\ ActiveInv' /\ FacadeInv' /\ LifeInv' /\ TabInv'
      /\ StopInv' /\ KeyInv'
  BY <1>2, PlainKeeps DEF MaySend
<1>4. RunInv'
  BY DEF Parts, RunInv, RunnerStep, MaySend, AnalysisSteps, ApplySteps, TransactionSteps
<1>6. ex.active = run.r /\ run'.r = run.r  BY <1>1 DEF Parts, RunInv
<1>7. s = "query" => SessionInv'
  BY <1>1, <1>6 DEF Parts, SessionInv, Running, Clean, StatementSteps, TransactionSteps, MaySend
<1>8. ASSUME s = "begin"  PROVE SessionInv'
  <2>1. run.r \in Applies  BY <1>8 DEF Parts, RunInv, MaySend, ApplySteps
  <2>2. SessionInv'
    BY <1>1, <1>6, <1>8, <2>1 DEF Parts, SessionInv, Running, Clean, StatementSteps, TransactionSteps,
                       MaySend
  <2> QED  BY <2>2
<1>9. ASSUME s \in {"change", "rollback", "verify"}  PROVE SessionInv'
  <2>1. run.r \in Applies
    BY <1>9 DEF Parts, RunInv, MaySend, ApplySteps, TransactionSteps
  <2>2. SessionInv'
    BY <1>1, <1>6, <1>9, <2>1 DEF Parts, SessionInv, Running, Clean, StatementSteps, TransactionSteps,
                       MaySend
  <2> QED  BY <2>2
<1>10. SessionInv'  BY <1>7, <1>8, <1>9 DEF MaySend
<1>11. LedgerInv'
  BY <1>1, <1>2, <1>6 DEF Parts, LedgerInv, RunnerStep, MaySend
<1> QED  BY <1>3, <1>4, <1>10, <1>11 DEF Parts

(* The task takes the answer it waits for, and goes on where the code does. *)
MayTake(p, v) ==
    \/ run.pc = "query" /\ p = "keys" /\ v = "ok"
    \/ run.pc = "query" /\ p = "cache" /\ v \in {"refused", "lost"}
    \/ run.pc = "begin" /\ server.answer # "ok" /\ p \in {"healthy", "unhealthy"} /\ v # "ok"
    \/ run.pc = "commit" /\ server.answer = "ok" /\ p = "healthy" /\ v = "ok"
    \/ run.pc = "commit" /\ server.answer # "ok" /\ p = "unhealthy" /\ v = server.answer
    \/ run.pc = "rollback" /\ p = "unhealthy" /\ v = run.result
    \/ run.pc = "verify" /\ p \in {"healthy", "unhealthy"} /\ v = run.result

(* Taking an answer keeps the invariant.                                   *)
LEMMA TakeKeeps ==
  ASSUME Typed, Typed', Parts, PlainStep, server.answer # "none", NEW p, NEW v, MayTake(p, v),
         TakenFrom, RunMoves(p, v)
  PROVE  Parts'
<1> USE NoneApart DEF PlainStep, RunMoves, TakenFrom
<1>1. run.pc \notin {"none", "healthy", "unhealthy", "finish"} /\ p # "none"
  BY DEF MayTake
<1>2. ex.admitted => run.pc = "commit"  BY <1>1 DEF Parts, StopInv
<1>3. /\ RequestInv' /\ QueueInv' /\ ActiveInv' /\ FacadeInv' /\ LifeInv' /\ TabInv'
      /\ StopInv' /\ KeyInv'
  BY <1>2, PlainKeeps DEF MayTake
<1>4. RunInv'
  BY DEF Parts, RunInv, RunnerStep, MayTake, AnalysisSteps, ApplySteps, TransactionSteps
<1>5. ex.active = run.r /\ run'.r = run.r  BY <1>1 DEF Parts, RunInv
<1>6. SessionInv'
  BY <1>1, <1>5 DEF Parts, RunInv, SessionInv, Running, Clean, StatementSteps, TransactionSteps,
                    MayTake, AnalysisSteps
<1>7. LedgerInv'
  <2>1. run.pc \in StatementSteps /\ server.stmt = run.pc
    BY <1>1 DEF Parts, SessionInv, MayTake, StatementSteps
  <2>2. server'.stmt = "none"  OBVIOUS
  <2>3. run.pc # "commit" => ex.active \notin committed  BY <1>2 DEF Parts, LedgerInv
  <2>4. p \in {"healthy", "unhealthy"} /\ run.r \in Applies =>
          (v = "ok" => run.r \in committed) /\ (run.r \in committed => v \in {"ok", "lost"})
    BY <1>5, <2>1, <2>3 DEF Parts, LedgerInv, MayTake, Typed, Results
  <2>5. p \notin {"rollback", "verify", "finish"}  BY DEF MayTake
  <2> QED  BY <1>5, <2>2, <2>4, <2>5 DEF Parts, LedgerInv, RunnerStep
<1> QED  BY <1>3, <1>4, <1>6, <1>7 DEF Parts

(* A transaction is open, or a statement of it is done.                    *)
LEMMA TakeGuardKeeps ==
  ASSUME Typed, Typed', Parts, PlainStep, server.answer = "ok", TakenFrom,
         run'.pc = "guard", run.pc \in {"begin", "change"},
         run'.left = IF run.pc = "begin" THEN run.left ELSE run.left - 1
  PROVE  Parts'
<1> USE NoneApart DEF PlainStep, TakenFrom
<1>1. ~ex.admitted  BY DEF Parts, StopInv
<1>2. /\ RequestInv' /\ QueueInv' /\ ActiveInv' /\ FacadeInv' /\ LifeInv' /\ TabInv'
      /\ StopInv' /\ KeyInv'
  BY <1>1, PlainKeeps
<1>3. run.r \in Applies  BY DEF Parts, RunInv, ApplySteps, TransactionSteps
<1>4. run'.left \in Nat /\ run'.left <= run.left
  BY DEF Parts, RunInv, Typed
<1>5. RunInv'
  BY <1>3, <1>4, MutationAssumption
  DEF Parts, RunInv, RunnerStep, AnalysisSteps, ApplySteps, TransactionSteps, Typed
<1>6. ex.active = run.r /\ run'.r = run.r  BY DEF Parts, RunInv, RunnerStep
<1>7. server.stmt = run.pc  BY DEF Parts, SessionInv, StatementSteps
<1>8. ex.conn = "up" => server.txn = "open" /\ (run'.left < Statements => ex.active \in server.work)
  BY <1>3, <1>7, MutationAssumption DEF Parts, SessionInv, RunInv, Typed
<1>9. SessionInv'
  BY <1>3, <1>6, <1>7, <1>8
  DEF Parts, SessionInv, Running, Clean, StatementSteps, TransactionSteps
<1>10. LedgerInv'
  BY <1>1, <1>6 DEF Parts, LedgerInv, RunnerStep
<1> QED  BY <1>2, <1>5, <1>9, <1>10 DEF Parts

(* What a step of the task does not touch.                                 *)
TaskOnly == UNCHANGED <<ex, committed, req>> /\ RunOnly

(* The types, and the shape of such a step.                                *)
LEMMA TaskOnlyKeeps ==
  ASSUME TypeOK, TaskOnly, run' \in RunStates, server' \in SessionStates, run'.r = run.r,
         run.pc \notin {"none", "finish"}, run'.pc # "none"
  PROVE  TypeOK' /\ Typed /\ Typed' /\ PlainStep
<1>1. TypeOK'  BY DEF TypeOK, TaskOnly, RunOnly, lifecycleVars
<1>2. Typed /\ Typed'  BY <1>1, FieldTypes, PTL
<1>3. PlainStep
  BY <1>2 DEF PlainStep, RunnerStep, TaskOnly, RunOnly, lifecycleVars, Typed
<1> QED  BY <1>1, <1>2, <1>3

(* A send, a taken answer and a move without the socket, as steps.         *)
LEMMA SendStep ==
  ASSUME MutationIInv, TaskOnly, NEW s, NEW v, MaySend(s, v), SentTo(s), RunMoves(s, v)
  PROVE  MutationIInv'
<1>1. run' \in RunStates /\ server' \in SessionStates /\ run'.r = run.r /\ run.pc \notin {"none", "finish"}
      /\ run'.pc # "none"
  BY DEF MaySend, SentTo, RunMoves
<1> QED  BY <1>1, TaskOnlyKeeps, SendKeeps DEF MutationIInv

(* The answer is taken; the session has no statement then.                 *)
LEMMA TakeStep ==
  ASSUME MutationIInv, TaskOnly, server.answer # "none", NEW p, NEW v, MayTake(p, v),
         TakenFrom, RunMoves(p, v)
  PROVE  MutationIInv'
<1>1. run' \in RunStates /\ server' \in SessionStates /\ run'.r = run.r /\ run.pc \notin {"none", "finish"}
      /\ run'.pc # "none"
  BY DEF MayTake, TakenFrom, RunMoves
<1> QED  BY <1>1, TaskOnlyKeeps, TakeKeeps DEF MutationIInv

(* A step of the task that touches nothing but its own state.              *)
LEMMA QuietStep ==
  ASSUME MutationIInv, TaskOnly, server' = server, NEW p, NEW v, RunMoves(p, v),
         run.pc \in {"check", "ensure", "connect", "recheck", "snapshot"},
         \/ p \in {"ensure", "connect", "recheck"}
         \/ p = "snapshot" /\ run.r \in Applies
         \/ p = "finish" /\ v \in {"refused", "lost"}
  PROVE  MutationIInv'
<1>1. run' \in RunStates /\ server' \in SessionStates /\ run'.r = run.r /\ run.pc \notin {"none", "finish"}
      /\ run'.pc # "none"
  BY DEF RunMoves, MutationIInv, TypeOK
<1>2. TypeOK' /\ Typed /\ Typed' /\ PlainStep  BY <1>1, TaskOnlyKeeps DEF MutationIInv
<1>3. QuietRun  BY <1>2 DEF QuietRun, PlainStep, RunMoves
<1> QED  BY <1>2, <1>3, QuietRunKeeps DEF MutationIInv

(* check_interrupted, and the end of a request that was stopped.           *)
LEMMA CheckInterruptedKeeps ==
  ASSUME MutationIInv, CheckInterrupted  PROVE MutationIInv'
<1>1. RunMoves("ensure", run.result) \/ RunMoves("finish", "refused")
  BY GoesFields, EndsFields DEF CheckInterrupted, RunPcs, Results, MutationIInv, TypeOK
<1>2. run.pc = "check" /\ server' = server /\ TaskOnly
  BY DEF CheckInterrupted, At, TaskOnly, databaseVars
<1> QED  BY <1>1, <1>2, QuietStep

(* The connection is there, or has to be made.                             *)
LEMMA EnsureConnectionKeeps ==
  ASSUME MutationIInv, EnsureConnection  PROVE MutationIInv'
<1>1. RunMoves("recheck", run.result) \/ RunMoves("connect", run.result)
  BY GoesFields DEF EnsureConnection, RunPcs, MutationIInv, TypeOK
<1>2. run.pc = "ensure" /\ server' = server /\ TaskOnly
  BY DEF EnsureConnection, At, TaskOnly, databaseVars
<1> QED  BY <1>1, <1>2, QuietStep

(* The connect failed.                                                     *)
LEMMA ConnectFailedKeeps ==
  ASSUME MutationIInv, ConnectFailed  PROVE MutationIInv'
<1>1. RunMoves("finish", "refused") \/ RunMoves("finish", "lost")
  BY EndsFields DEF ConnectFailed, Results, MutationIInv, TypeOK
<1>2. run.pc = "connect" /\ server' = server /\ TaskOnly
  BY DEF ConnectFailed, At, TaskOnly, databaseVars
<1> QED  BY <1>1, <1>2, QuietStep

(* Behind the connect: an analysis sends its statement, an apply takes its *)
(* snapshot again.                                                         *)
LEMMA RecheckKeeps ==
  ASSUME MutationIInv, Recheck  PROVE MutationIInv'
<1>1. run.pc = "recheck" /\ run \in RunStates /\ server \in SessionStates
      /\ UNCHANGED <<ex, req>> /\ RunOnly
  BY DEF Recheck, At, MutationIInv, TypeOK
<1>2. CASE Ends("refused") /\ UNCHANGED databaseVars
  BY <1>1, <1>2, EndsFields, QuietStep DEF Results, TaskOnly, databaseVars
<1>3. CASE run.r \in Applies /\ Goes("snapshot") /\ UNCHANGED databaseVars
  BY <1>1, <1>3, GoesFields, QuietStep DEF RunPcs, TaskOnly, databaseVars
<1>4. CASE run.r \in Analyses /\ Sends("query", [run EXCEPT !.pc = "query"])
  <2>1. SentTo("query") /\ run' = [run EXCEPT !.pc = "query"] /\ committed' = committed
    BY <1>1, <1>4, SendsFields DEF StatementSteps
  <2>2. RunMoves("query", run.result)  BY <1>1, <2>1, GoesFields DEF Goes, RunPcs
  <2> QED  BY <1>1, <1>4, <2>1, <2>2, SendStep DEF MaySend, TaskOnly
<1> QED  BY <1>2, <1>3, <1>4 DEF Recheck

(* The snapshot again, and BEGIN.                                          *)
LEMMA TakeSnapshotKeeps ==
  ASSUME MutationIInv, TakeSnapshot  PROVE MutationIInv'
<1>1. run.pc = "snapshot" /\ run \in RunStates /\ server \in SessionStates
      /\ UNCHANGED <<ex, req>> /\ RunOnly
  BY DEF TakeSnapshot, At, MutationIInv, TypeOK
<1>2. CASE Ends("refused") /\ UNCHANGED databaseVars
  BY <1>1, <1>2, EndsFields, QuietStep DEF Results, TaskOnly, databaseVars
<1>3. CASE Sends("begin", [run EXCEPT !.pc = "begin"])
  <2>1. SentTo("begin") /\ run' = [run EXCEPT !.pc = "begin"] /\ committed' = committed
    BY <1>1, <1>3, SendsFields DEF StatementSteps
  <2>2. RunMoves("begin", run.result)  BY <1>1, <2>1, GoesFields DEF Goes, RunPcs
  <2> QED  BY <1>1, <2>1, <2>2, SendStep DEF MaySend, TaskOnly
<1> QED  BY <1>2, <1>3 DEF TakeSnapshot

(* The task connected: a fresh session, or an executor that closed.        *)
LEMMA ConnectedKeeps ==
  ASSUME MutationIInv, Connected  PROVE MutationIInv'
<1> USE DEF MutationIInv
<1>1. run \in RunStates /\ ex \in ExecutorStates  BY DEF TypeOK
<1>2. CASE ex.closed
  <2>1. RunMoves("finish", "refused")  BY <1>1, <1>2, EndsFields DEF Connected, Results
  <2>2. TypeOK'
    BY <1>2, <2>1 DEF TypeOK, Connected, RunOnly, RunMoves, databaseVars, lifecycleVars
  <2>3. Typed /\ Typed'  BY <2>2, FieldTypes, PTL
  <2>4. run.pc = "connect" /\ UNCHANGED <<ex, server, committed, req>> /\ RunOnly
    BY <1>2 DEF Connected, At
  <2>5. QuietRun
    BY <2>1, <2>3, <2>4 DEF QuietRun, RunnerStep, RunMoves, TransactionSteps, RunOnly,
                      lifecycleVars, Typed
  <2> QED  BY <2>2, <2>3, <2>5, QuietRunKeeps
<1>3. CASE ~ex.closed
  <2>1. RunMoves("recheck", run.result)  BY <1>1, <1>3, GoesFields DEF Connected, RunPcs
  <2>2. ex' = [ex EXCEPT !.conn = "up"]  BY <1>3 DEF Connected
  <2>3. /\ ex' \in ExecutorStates /\ ex'.conn = "up"
        /\ ex'.active = ex.active /\ ex'.interrupt = ex.interrupt /\ ex'.pending = ex.pending
        /\ ex'.closed = ex.closed /\ ex'.queued = ex.queued /\ ex'.admitted = ex.admitted
        /\ ex'.gen = ex.gen /\ ex'.snaps = ex.snaps
    BY <1>1, <2>2 DEF ExecutorStates
  <2>4. server' = FreshSession  BY <1>3 DEF Connected
  <2>5. server' \in SessionStates  BY <2>4 DEF FreshSession, SessionStates
  <2>6. TypeOK'
    BY <2>1, <2>3, <2>5 DEF TypeOK, Connected, RunOnly, RunMoves, lifecycleVars
  <2>7. Typed /\ Typed'  BY <2>6, FieldTypes, PTL
  <2>8. run.pc = "connect"
        /\ UNCHANGED <<committed, tasks, group, mgr, doc, facade, monitor, stopped, req, keys>>
    BY DEF Connected, At, RunOnly, lifecycleVars
  <2>9. RunnerStep
    BY <2>1, <2>3, <2>7, <2>8 DEF RunnerStep, RunMoves, Typed
  <2>10. RequestInv' /\ QueueInv' /\ ActiveInv' /\ FacadeInv' /\ LifeInv' /\ TabInv'
    BY <2>7, <2>9, RunnerKeeps
  <2>11. ~ex.admitted  BY <2>8 DEF Parts, StopInv
  <2>12. StopInv'  BY <2>3, <2>9, <2>11, RunnerStops
  <2>13. KeyInv'  BY <2>1, <2>3, <2>7, <2>8, <2>9, RunnerKeys DEF RunMoves
  <2>14. RunInv'
    BY <2>1, <2>3, <2>8 DEF Parts, RunInv, RunMoves, AnalysisSteps, ApplySteps, TransactionSteps
  <2>15. SessionInv'
    BY <2>1, <2>3, <2>4, <2>8, NoneApart
    DEF Parts, RunInv, RunMoves, SessionInv, FreshSession, Running, Clean, StatementSteps,
        TransactionSteps
  <2>16. LedgerInv'
    BY <2>1, <2>3, <2>4, <2>8, <2>11 DEF Parts, RunMoves, LedgerInv, FreshSession
  <2> QED  BY <2>6, <2>10, <2>12, <2>13, <2>14, <2>15, <2>16 DEF Parts
<1> QED  BY <1>2, <1>3


(* The task takes the rollback's way, with a result that is no success.    *)
LEMMA UndoesStep ==
  ASSUME MutationIInv, UNCHANGED <<ex, req>>, RunOnly, NEW v \in Results \ {"ok"},
         Undoes(v), run.pc \in {"guard", "change", "admit"}
  PROVE  MutationIInv'
<1>1. run \in RunStates /\ server \in SessionStates  BY DEF MutationIInv, TypeOK
<1>2. SentTo("rollback") /\ committed' = committed
      /\ run' = [run EXCEPT !.pc = "rollback", !.result = v]
  BY <1>1, SendsFields DEF Undoes, StatementSteps
<1>3. RunMoves("rollback", v)  BY <1>1, <1>2 DEF RunMoves, RunStates
<1> QED  BY <1>2, <1>3, SendStep DEF MaySend, TaskOnly

(* The answer of an analysis's statement.                                  *)
LEMMA QueryAnsweredKeeps ==
  ASSUME MutationIInv, QueryAnswered  PROVE MutationIInv'
<1>1. run \in RunStates /\ server \in SessionStates  BY DEF MutationIInv, TypeOK
<1>2. TakenFrom /\ committed' = committed  BY <1>1, TakenFields DEF QueryAnswered
<1>3. RunMoves("keys", "ok") \/ RunMoves("cache", "refused") \/ RunMoves("cache", "lost")
  BY <1>1 DEF QueryAnswered, RunMoves, RunStates, Results
<1> QED  BY <1>2, <1>3, TakeStep DEF QueryAnswered, Answer, At, MayTake, TaskOnly

(* The answer of BEGIN.                                                    *)
LEMMA BeginAnsweredKeeps ==
  ASSUME MutationIInv, BeginAnswered  PROVE MutationIInv'
<1>1. run \in RunStates /\ server \in SessionStates  BY DEF MutationIInv, TypeOK
<1>2. TakenFrom /\ committed' = committed  BY <1>1, TakenFields DEF BeginAnswered
<1>3. run.pc = "begin" /\ server.answer # "none" /\ TaskOnly
  BY <1>2 DEF BeginAnswered, Answer, At, TaskOnly
<1>4. server.answer \in Results  BY <1>1, <1>3 DEF SessionStates
<1>5. CASE server.answer = "ok"
  <2>2. run' \in RunStates /\ run'.pc = "guard" /\ run'.r = run.r /\ run'.left = run.left
    BY <1>1, <1>5 DEF BeginAnswered, RunStates
  <2>3. server' \in SessionStates  BY <1>2 DEF TakenFrom
  <2>4. TypeOK' /\ Typed /\ Typed' /\ PlainStep
    BY <1>3, <2>2, <2>3, TaskOnlyKeeps DEF MutationIInv
  <2> QED  BY <1>2, <1>3, <1>5, <2>2, <2>4, TakeGuardKeeps DEF MutationIInv
<1>6. CASE server.answer # "ok"
  <2>2. RunMoves("healthy", server.answer) \/ RunMoves("unhealthy", server.answer)
    BY <1>1, <1>4, <1>6 DEF BeginAnswered, RunMoves, RunStates
  <2> QED  BY <1>2, <1>3, <1>6, <2>2, TakeStep DEF MayTake
<1> QED  BY <1>5, <1>6

(* Between two statements.                                                 *)
LEMMA GuardKeeps ==
  ASSUME MutationIInv, Guard  PROVE MutationIInv'
<1>1. run.pc = "guard" /\ run \in RunStates /\ server \in SessionStates
      /\ UNCHANGED <<ex, req>> /\ RunOnly
  BY DEF Guard, At, MutationIInv, TypeOK
<1>2. CASE Undoes("refused")
  BY <1>1, <1>2, UndoesStep DEF Results
<1>3. CASE run.left > 0 /\ Sends("change", [run EXCEPT !.pc = "change"])
  <2>1. SentTo("change") /\ run' = [run EXCEPT !.pc = "change"] /\ committed' = committed
    BY <1>1, <1>3, SendsFields DEF StatementSteps
  <2>2. RunMoves("change", run.result)  BY <1>1, <2>1, GoesFields DEF Goes, RunPcs
  <2> QED  BY <1>1, <1>3, <2>1, <2>2, SendStep DEF MaySend, TaskOnly
<1>4. CASE run.left = 0 /\ Goes("admit") /\ UNCHANGED databaseVars
  <2> USE NoneApart DEF MutationIInv
  <2>1. RunMoves("admit", run.result) /\ UNCHANGED <<server, committed>>
    BY <1>1, <1>4, GoesFields DEF RunPcs, databaseVars
  <2>2. TypeOK' /\ Typed /\ Typed' /\ PlainStep
    BY <1>1, <2>1, TaskOnlyKeeps DEF TaskOnly, RunMoves
  <2>3. ~ex.admitted  BY <1>1 DEF Parts, StopInv
  <2>4. /\ RequestInv' /\ QueueInv' /\ ActiveInv' /\ FacadeInv' /\ LifeInv' /\ TabInv'
        /\ StopInv' /\ KeyInv'
    BY <2>1, <2>2, <2>3, PlainKeeps DEF RunMoves
  <2>5. RunInv' /\ SessionInv' /\ LedgerInv'
    BY <1>1, <1>4, <2>1, <2>2, <2>3
    DEF Parts, PlainStep, RunnerStep, RunMoves, RunInv, SessionInv, LedgerInv, AnalysisSteps, ApplySteps,
        TransactionSteps, StatementSteps, Running, Clean
  <2> QED  BY <2>2, <2>4, <2>5 DEF Parts
<1> QED  BY <1>2, <1>3, <1>4 DEF Guard

(* The answer of a change.                                                 *)
LEMMA ChangeAnsweredKeeps ==
  ASSUME MutationIInv, ChangeAnswered  PROVE MutationIInv'
<1>1. run.pc = "change" /\ server.answer # "none" /\ run \in RunStates /\ server \in SessionStates
      /\ UNCHANGED <<ex, req>> /\ RunOnly
  BY DEF ChangeAnswered, Answer, At, MutationIInv, TypeOK
<1>2. CASE server.answer = "ok" /\ Taken /\ run' = [run EXCEPT !.pc = "guard", !.left = @ - 1]
  <2>2. TakenFrom /\ committed' = committed  BY <1>1, <1>2, TakenFields
  <2>3. run.left \in Nat /\ run.left > 0  BY <1>1 DEF MutationIInv, Parts, RunInv, RunStates
  <2>4. run' \in RunStates /\ run'.pc = "guard" /\ run'.r = run.r /\ run'.left = run.left - 1
    <3>1. PICK n \in Nat : n = run.left - 1  BY <2>3
    <3>2. run' = [run EXCEPT !.pc = "guard", !.left = n]  BY <1>2, <3>1
    <3>3. run' \in RunStates /\ run'.pc = "guard" /\ run'.r = run.r /\ run'.left = n
      BY <1>1, <3>2 DEF RunStates
    <3> QED  BY <3>1, <3>3
  <2>5. server' \in SessionStates  BY <2>2 DEF TakenFrom
  <2>6. TypeOK' /\ Typed /\ Typed' /\ PlainStep
    BY <1>1, <2>2, <2>4, <2>5, TaskOnlyKeeps DEF MutationIInv, TaskOnly
  <2> QED  BY <1>1, <1>2, <2>2, <2>4, <2>6, TakeGuardKeeps DEF MutationIInv
<1>3. CASE Undoes(IF server.answer = "ok" THEN "refused" ELSE server.answer)
  <2>1. (IF server.answer = "ok" THEN "refused" ELSE server.answer) \in Results \ {"ok"}
    BY <1>1 DEF Results, SessionStates
  <2> QED  BY <1>1, <1>3, <2>1, UndoesStep
<1> QED  BY <1>2, <1>3 DEF ChangeAnswered

(* The answers of COMMIT, ROLLBACK and the check behind it.                *)
LEMMA CommitAnsweredKeeps ==
  ASSUME MutationIInv, CommitAnswered  PROVE MutationIInv'
<1>1. run.pc = "commit" /\ server.answer # "none" /\ run \in RunStates /\ server \in SessionStates
      /\ UNCHANGED <<ex, req>> /\ RunOnly
  BY DEF CommitAnswered, Answer, At, MutationIInv, TypeOK
<1>2. TakenFrom /\ committed' = committed  BY <1>1, TakenFields DEF CommitAnswered
<1>3. server.answer \in Results  BY <1>1 DEF SessionStates
<1>4. IF server.answer = "ok" THEN RunMoves("healthy", server.answer) ELSE RunMoves("unhealthy", server.answer)
  BY <1>1, <1>3 DEF CommitAnswered, RunMoves, RunStates
<1> QED  BY <1>1, <1>2, <1>3, <1>4, TakeStep DEF MayTake, TaskOnly

(* The ROLLBACK's answer: its verification, or an unhealthy socket.        *)
LEMMA RollbackAnsweredKeeps ==
  ASSUME MutationIInv, RollbackAnswered  PROVE MutationIInv'
<1>1. run.pc = "rollback" /\ server.answer # "none" /\ run \in RunStates /\ server \in SessionStates
      /\ UNCHANGED <<ex, req>> /\ RunOnly
  BY DEF RollbackAnswered, Answer, At, MutationIInv, TypeOK
<1>2. CASE server.answer = "ok" /\ Sends("verify", [run EXCEPT !.pc = "verify"])
  <2>1. SentTo("verify") /\ run' = [run EXCEPT !.pc = "verify"] /\ committed' = committed
    BY <1>1, <1>2, SendsFields DEF StatementSteps
  <2>2. RunMoves("verify", run.result)  BY <1>1, <2>1, GoesFields DEF Goes, RunPcs
  <2> QED  BY <1>1, <1>2, <2>1, <2>2, SendStep DEF MaySend, TaskOnly
<1>3. CASE Taken /\ Goes("unhealthy")
  <2>1. TakenFrom /\ committed' = committed /\ RunMoves("unhealthy", run.result)
    BY <1>1, <1>3, TakenFields, GoesFields DEF RunPcs
  <2> QED  BY <1>1, <2>1, TakeStep DEF MayTake, TaskOnly
<1> QED  BY <1>2, <1>3 DEF RollbackAnswered

(* The verification's answer decides on the socket.                        *)
LEMMA VerifyAnsweredKeeps ==
  ASSUME MutationIInv, VerifyAnswered  PROVE MutationIInv'
<1>1. run.pc = "verify" /\ server.answer # "none" /\ run \in RunStates /\ server \in SessionStates
      /\ UNCHANGED <<ex, req>> /\ RunOnly /\ Taken
  BY DEF VerifyAnswered, Answer, At, MutationIInv, TypeOK
<1>2. TakenFrom /\ committed' = committed  BY <1>1, TakenFields
<1>3. RunMoves("healthy", run.result) \/ RunMoves("unhealthy", run.result)
  BY <1>1, GoesFields DEF VerifyAnswered, RunPcs
<1> QED  BY <1>1, <1>2, <1>3, TakeStep DEF MayTake, TaskOnly

(* The virtual keys are read before the snapshot is cached.                *)
LEMMA ReadKeysKeeps ==
  ASSUME MutationIInv, ReadKeys  PROVE MutationIInv'
<1> USE NoneApart DEF MutationIInv
<1>1. run.pc = "keys" /\ run \in RunStates /\ keys \in Nat /\ UNCHANGED <<server, committed, ex, req>>
      /\ RunOnly
  BY DEF ReadKeys, At, TypeOK, databaseVars
<1>2. /\ run' \in RunStates /\ run'.pc = "cache" /\ run'.keys = keys /\ run'.r = run.r
      /\ run'.result = run.result /\ run'.left = run.left
  BY <1>1 DEF ReadKeys, RunStates
<1>3. TypeOK' /\ Typed /\ Typed' /\ PlainStep
  BY <1>1, <1>2, TaskOnlyKeeps DEF TaskOnly, TypeOK
<1> USE DEF PlainStep
<1>4. ~ex.admitted  BY <1>1 DEF Parts, StopInv
<1>5. RequestInv' /\ QueueInv' /\ ActiveInv' /\ FacadeInv' /\ LifeInv' /\ TabInv' /\ StopInv'
  BY <1>3, <1>4, RunnerKeeps, RunnerStops
<1>6. KeyInv'  BY <1>1, <1>2, <1>3 DEF Parts, RunnerStep, KeyInv, SnapshotsCurrent
<1>7. RunInv' /\ SessionInv' /\ LedgerInv'
  BY <1>1, <1>2, <1>3, <1>4
  DEF Parts, RunnerStep, RunInv, SessionInv, LedgerInv, AnalysisSteps, ApplySteps,
      TransactionSteps, StatementSteps, Running, Clean
<1> QED  BY <1>3, <1>5, <1>6, <1>7 DEF Parts

(* The snapshot of an analysis that nothing overtook is cached.            *)
LEMMA CacheAnalysisKeeps ==
  ASSUME MutationIInv, CacheAnalysis  PROVE MutationIInv'
<1> USE NoneApart DEF MutationIInv
<1> DEFINE stale == req[run.r].gen # ex.gen
           snaps == IF ~stale /\ run.result = "ok" THEN ex.snaps \cup {run.r} ELSE ex.snaps
<1>1. /\ run.pc = "cache" /\ run \in RunStates /\ ex \in ExecutorStates /\ server \in SessionStates
      /\ req \in [Requests -> RequestStates] /\ UNCHANGED <<server, committed>> /\ RunOnly
  BY DEF CacheAnalysis, At, TypeOK, databaseVars
<1>2. run.r \in Analyses /\ run.r \in Requests /\ ex.active = run.r
  BY <1>1 DEF Parts, RunInv, AnalysisSteps
<1>3. /\ RunMoves("finish", IF stale THEN "refused" ELSE run.result)
      /\ run.result \in Results \ {"undefined"}
  <2>1. run.result \in Results \ {"undefined"}  BY <1>1 DEF Parts, RunInv, RunStates
  <2> QED  BY <1>1, <2>1, EndsFields DEF CacheAnalysis, Results
<1>4. /\ ex' \in ExecutorStates /\ ex'.snaps = snaps
      /\ ex'.active = ex.active /\ ex'.interrupt = ex.interrupt /\ ex'.pending = ex.pending
      /\ ex'.closed = ex.closed /\ ex'.queued = ex.queued /\ ex'.admitted = ex.admitted
      /\ ex'.gen = ex.gen /\ ex'.conn = ex.conn
  <2>1. ex' = IF ~stale /\ run.result = "ok" THEN [ex EXCEPT !.snaps = @ \cup {run.r}] ELSE ex
    BY DEF CacheAnalysis
  <2> QED  BY <1>1, <1>2, <2>1 DEF ExecutorStates
<1>5. /\ req' \in [Requests -> RequestStates]
      /\ \A r \in Requests :
           /\ req'[r].pc = req[r].pc /\ req'[r].tab = req[r].tab
           /\ req'[r].gen = req[r].gen /\ req'[r].reply = req[r].reply
           /\ req'[r].keys = IF r = run.r THEN run.keys ELSE req[r].keys
  <2>1. req' = [req EXCEPT ![run.r] = [req[run.r] EXCEPT !.keys = run.keys]]
    BY DEF CacheAnalysis
  <2>2. PICK one : one = [req[run.r] EXCEPT !.keys = run.keys]  OBVIOUS
  <2>3. /\ one \in RequestStates /\ one.pc = req[run.r].pc /\ one.tab = req[run.r].tab
        /\ one.gen = req[run.r].gen /\ one.reply = req[run.r].reply /\ one.keys = run.keys
    BY <1>1, <1>2, <2>2 DEF RequestStates, RunStates
  <2> QED  BY <1>1, <1>2, <2>1, <2>2, <2>3
<1>6. TypeOK'
  BY <1>1, <1>3, <1>4, <1>5 DEF TypeOK, RunMoves, RunOnly, lifecycleVars
<1>7. Typed /\ Typed'  BY <1>6, FieldTypes, PTL
<1>8. RunnerStep
  BY <1>1, <1>2, <1>3, <1>4, <1>5, <1>7
  DEF RunnerStep, RunMoves, RunOnly, lifecycleVars, Typed
<1>9. ~ex.admitted  BY <1>1 DEF Parts, StopInv
<1>10. RequestInv' /\ QueueInv' /\ ActiveInv' /\ FacadeInv' /\ LifeInv' /\ TabInv' /\ StopInv'
  BY <1>4, <1>7, <1>8, <1>9, RunnerKeeps, RunnerStops
<1>11. KeyInv'
  <2>1. run.r \notin ex.snaps  BY <1>1 DEF Parts, KeyInv
  <2>2. run'.pc = "finish" /\ keys' = keys /\ UNCHANGED <<mgr, facade>>
    BY <1>1, <1>3, <1>8 DEF RunMoves, RunOnly, RunnerStep
  <2>3. ex.snaps \subseteq Requests  BY <1>7 DEF Typed, Requests
  <2> QED
    BY <1>1, <1>2, <1>4, <1>5, <2>1, <2>2, <2>3 DEF Parts, KeyInv, SnapshotsCurrent
<1>12. RunInv' /\ SessionInv'
  BY <1>1, <1>2, <1>3, <1>4, <1>8
  DEF Parts, RunnerStep, RunMoves, RunInv, SessionInv, AnalysisSteps, ApplySteps,
      TransactionSteps, StatementSteps, Running, Clean
<1>13. run.r \notin Applies  BY <1>2, MutationAssumption
<1>14. Applies \subseteq Requests /\ committed \subseteq Applies  BY <1>7 DEF Requests, Typed
<1>15. LedgerInv'
  BY <1>1, <1>2, <1>3, <1>4, <1>5, <1>8, <1>9, <1>13, <1>14 DEF Parts, RunnerStep, RunMoves, LedgerInv
<1> QED  BY <1>6, <1>10, <1>11, <1>12, <1>15 DEF Parts

(* The apply is admitted to its COMMIT, or undone.                         *)
LEMMA AdmitCommitKeeps ==
  ASSUME MutationIInv, AdmitCommit  PROVE MutationIInv'
<1>1. /\ run.pc = "admit" /\ run \in RunStates /\ ex \in ExecutorStates /\ server \in SessionStates
      /\ req' = req /\ RunOnly
  BY DEF AdmitCommit, At, MutationIInv, TypeOK
<1>2. CASE Interrupted \/ ex.teardown
  BY <1>1, <1>2, UndoesStep DEF AdmitCommit, Results
<1>3. CASE ~(Interrupted \/ ex.teardown)
  <2> USE NoneApart DEF MutationIInv
  <2>1. SentTo("commit") /\ run' = [run EXCEPT !.pc = "commit"] /\ committed' = committed
    BY <1>1, <1>3, SendsFields DEF AdmitCommit, StatementSteps
  <2>2. RunMoves("commit", run.result)  BY <1>1, <2>1, GoesFields DEF Goes, RunPcs
  <2>3. /\ ex' \in ExecutorStates /\ ex'.admitted = TRUE /\ ex'.snaps = ex.snaps
        /\ ex'.active = ex.active /\ ex'.interrupt = ex.interrupt /\ ex'.pending = ex.pending
        /\ ex'.closed = ex.closed /\ ex'.queued = ex.queued
        /\ ex'.gen = ex.gen /\ ex'.conn = ex.conn
    <3>1. ex' = [ex EXCEPT !.admitted = TRUE]  BY <1>3 DEF AdmitCommit
    <3> QED  BY <1>1, <3>1 DEF ExecutorStates
  <2>4. TypeOK'
    BY <1>1, <2>1, <2>2, <2>3 DEF TypeOK, SentTo, RunMoves, RunOnly, lifecycleVars
  <2>5. Typed /\ Typed'  BY <2>4, FieldTypes, PTL
  <2>6. RunnerStep
    BY <1>1, <2>1, <2>2, <2>3, <2>5 DEF RunnerStep, RunMoves, RunOnly, lifecycleVars, Typed
  <2>7. RequestInv' /\ QueueInv' /\ ActiveInv' /\ FacadeInv' /\ LifeInv' /\ TabInv'
    BY <2>5, <2>6, RunnerKeeps
  <2>8. KeyInv'
    BY <1>1, <2>2, <2>3, <2>5, <2>6, RunnerKeys DEF RunMoves, RunOnly
  <2>9. run.r \in Applies /\ ex.active = run.r
    BY <1>1 DEF Parts, RunInv, ApplySteps, TransactionSteps
  <2>10. ex.active \notin stopped /\ ex.interrupt = "none" /\ ~ex.admitted
    BY <1>1, <1>3 DEF Parts, StopInv, Interrupted
  <2>11. StopInv'
    BY <2>2, <2>3, <2>6, <2>9, <2>10 DEF Parts, StopInv, RunnerStep, RunMoves, Interrupted
  <2>12. RunInv'
    BY <1>1, <2>2, <2>3, <2>6, <2>9
    DEF Parts, RunInv, RunnerStep, RunMoves, AnalysisSteps, ApplySteps, TransactionSteps
  <2>13. run.left = 0 /\ Statements > 0
    BY <1>1, MutationAssumption DEF Parts, RunInv
  <2>14. ex.conn = "up" => server.txn = "open" /\ ex.active \in server.work
    BY <1>1, <2>13 DEF Parts, SessionInv
  <2>15. SessionInv'
    BY <1>1, <2>1, <2>2, <2>3, <2>6, <2>9, <2>14
    DEF Parts, SessionInv, SentTo, RunMoves, Running, Clean, StatementSteps, TransactionSteps
  <2>16. LedgerInv'
    <3>1. ex.active \notin committed  BY <2>10 DEF Parts, LedgerInv
    <3> QED
      BY <2>1, <2>2, <2>3, <2>6, <2>9, <3>1, <1>1 DEF Parts, LedgerInv, SentTo, RunMoves, RunnerStep
  <2> QED  BY <2>4, <2>7, <2>8, <2>11, <2>12, <2>15, <2>16 DEF Parts
<1> QED  BY <1>2, <1>3

(* The apply has ended; an unhealthy socket goes.                          *)
LEMMA ApplyExecutedKeeps ==
  ASSUME MutationIInv, ApplyExecuted  PROVE MutationIInv'
<1> USE NoneApart DEF MutationIInv
<1> DEFINE v == IF run.result = "undefined" THEN "refused" ELSE run.result
<1>1. /\ run.pc \in {"healthy", "unhealthy"} /\ run \in RunStates /\ ex \in ExecutorStates
      /\ server \in SessionStates /\ UNCHANGED <<committed, req>> /\ RunOnly
  BY DEF ApplyExecuted, At, TypeOK
<1>2. RunMoves("finish", v)
  <2>1. run.result \in Results /\ v \in Results  BY <1>1 DEF RunStates, Results
  <2> QED  BY <1>1, <2>1, EndsFields DEF ApplyExecuted
<1>3. /\ server' \in SessionStates
      /\ IF run.pc = "unhealthy" THEN server' = FreshSession ELSE server' = server
  BY <1>1 DEF ApplyExecuted, FreshSession, SessionStates
<1>4. /\ ex' \in ExecutorStates
      /\ ex'.active = ex.active /\ ex'.interrupt = ex.interrupt /\ ex'.pending = ex.pending
      /\ ex'.closed = ex.closed /\ ex'.queued = ex.queued /\ ex'.admitted = ex.admitted
      /\ ex'.conn = (IF run.pc = "unhealthy" THEN "none" ELSE ex.conn)
      /\ ex'.gen >= ex.gen
      /\ (ex'.gen = ex.gen /\ ex'.snaps = ex.snaps) \/ ex'.snaps = {}
  <2> DEFINE x == IF run.pc = "unhealthy" THEN Disconnected(ex) ELSE ex
  <2>1. ex.gen \in Nat  BY <1>1 DEF ExecutorStates
  <2>2. PICK n \in Nat : n = ex.gen + 1 /\ n >= ex.gen  BY <2>1
  <2>3. /\ x \in ExecutorStates /\ x.gen = ex.gen
        /\ x.active = ex.active /\ x.interrupt = ex.interrupt /\ x.pending = ex.pending
        /\ x.closed = ex.closed /\ x.queued = ex.queued /\ x.admitted = ex.admitted
        /\ x.conn = (IF run.pc = "unhealthy" THEN "none" ELSE ex.conn)
        /\ x.snaps = ex.snaps \/ x.snaps = {}
    BY <1>1 DEF ExecutorStates, Disconnected
  <2>4. ex' = IF run.result = "undefined" THEN Invalidated(x) ELSE x  BY DEF ApplyExecuted
  <2> HIDE DEF x
  <2>5. CASE run.result # "undefined"  BY <2>1, <2>3, <2>4, <2>5
  <2>6. CASE run.result = "undefined"
    <3>1. ex' = [x EXCEPT !.gen = n, !.snaps = {}]
      BY <2>2, <2>3, <2>4, <2>6 DEF Invalidated, ExecutorStates
    <3> QED  BY <2>2, <2>3, <3>1 DEF ExecutorStates
  <2> QED  BY <2>5, <2>6
<1>5. TypeOK'
  BY <1>1, <1>2, <1>3, <1>4 DEF TypeOK, RunMoves, RunOnly, lifecycleVars
<1>6. Typed /\ Typed'  BY <1>5, FieldTypes, PTL
<1>7. RunnerStep
  BY <1>1, <1>2, <1>4, <1>6 DEF RunnerStep, RunMoves, RunOnly, lifecycleVars, Typed
<1>8. /\ RequestInv' /\ QueueInv' /\ ActiveInv' /\ FacadeInv' /\ LifeInv' /\ TabInv'
      /\ StopInv' /\ KeyInv'
  BY <1>1, <1>2, <1>4, <1>6, <1>7, RunnerKeeps, RunnerStops, RunnerKeys DEF RunMoves, RunOnly
<1>9. run.r \in Applies /\ ex.active = run.r
  BY <1>1 DEF Parts, RunInv, ApplySteps, TransactionSteps
<1>10. RunInv'
  BY <1>1, <1>2, <1>4, <1>7, <1>9
  DEF Parts, RunInv, RunnerStep, RunMoves, AnalysisSteps, ApplySteps, TransactionSteps
<1>11. SessionInv'
  BY <1>1, <1>2, <1>3, <1>4, <1>7, <1>9
  DEF Parts, SessionInv, RunnerStep, RunMoves, FreshSession, Running, Clean, StatementSteps, TransactionSteps
<1>12. LedgerInv'
  <2>1. server.stmt = "none"  BY <1>1 DEF Parts, SessionInv, StatementSteps
  <2>2. server'.stmt = "none"  BY <1>3, <2>1 DEF FreshSession
  <2> QED  BY <1>1, <1>2, <1>4, <1>7, <1>9, <2>2 DEF Parts, LedgerInv, RunnerStep, RunMoves
<1> QED  BY <1>5, <1>8, <1>10, <1>11, <1>12 DEF Parts

(* finish_active: the request has its reply, and the socket is free.       *)
LEMMA FinishActiveKeeps ==
  ASSUME MutationIInv, FinishActive  PROVE MutationIInv'
<1> USE NoneApart DEF MutationIInv
<1>1. /\ run.pc = "finish" /\ run \in RunStates /\ ex \in ExecutorStates
      /\ server \in SessionStates /\ req \in [Requests -> RequestStates]
      /\ UNCHANGED <<committed, tasks, group, mgr, doc, facade, monitor, keys, stopped>>
      /\ run' = Resting /\ req' = Reply(req, {run.r}, Terminal)
  BY DEF FinishActive, At, TypeOK, lifecycleVars
<1>2. run.r \in Requests /\ ex.active = run.r /\ run.result \in Results \ {"undefined"}
  BY <1>1 DEF Parts, RunInv, RunStates
<1>3. /\ Terminal \in Answers
      /\ Terminal = "ok" => run.result = "ok"
      /\ ex.interrupt = "none" => Terminal = run.result
  BY <1>2 DEF Terminal, Answers, Results, Interrupted
<1>4. /\ req' \in [Requests -> RequestStates]
      /\ \A r \in Requests :
           /\ req'[r].pc = req[r].pc /\ req'[r].tab = req[r].tab
           /\ req'[r].gen = req[r].gen /\ req'[r].keys = req[r].keys
           /\ req'[r].reply = IF r = run.r /\ req[r].reply = "none" THEN Terminal ELSE req[r].reply
  BY <1>1, <1>3, ReplyFields
<1>5. /\ ex' \in ExecutorStates
      /\ ex'.active = None /\ ex'.pending = ex.pending /\ ex'.interrupt = "none" /\ ~ex'.admitted
      /\ ex'.closed = ex.closed /\ ex'.queued = ex.queued /\ ex'.gen = ex.gen
      /\ ex'.snaps \subseteq ex.snaps
      /\ ex'.conn = ex.conn \/ ex'.conn = "none"
  BY <1>1 DEF FinishActive, Disconnected, ExecutorStates
<1>6. server' \in SessionStates /\ (server' = server \/ server' = FreshSession)
  BY <1>1 DEF FinishActive, FreshSession, SessionStates
<1>7. run' \in RunStates  BY <1>1 DEF Resting, RunStates, Results
<1>8. worker' \in [pc : {"none", "next", "shut", "park", "busy", "exit"}, permit : BOOLEAN]
  BY DEF FinishActive, NotifyWaiters, TypeOK
<1>9. TypeOK'  BY <1>1, <1>4, <1>5, <1>6, <1>7, <1>8 DEF TypeOK
<1>10. Typed /\ Typed'  BY <1>9, FieldTypes, PTL
<1>11. Queued' = Queued /\ \A t \in Tabs : QueuedOf(t)' = QueuedOf(t)
  BY <1>5 DEF QueuedOf, Queued
<1>12. RunInv'  BY <1>1, <1>5 DEF RunInv, Resting, AnalysisSteps, ApplySteps, TransactionSteps
<1>13. StopInv'  BY <1>1, <1>5, <1>10 DEF Parts, StopInv, Typed
<1>14. \A r \in Requests : Unborn(r) => Unborn(r)'
  BY <1>1, <1>2, <1>4, <1>5 DEF Unborn
<1>15. RequestInv'
  <2> SUFFICES ASSUME NEW r \in Requests
               PROVE  /\ req'[r].gen <= ex'.gen
                      /\ req'[r].pc # "new" => req'[r].tab \in Tabs /\ doc'[req'[r].tab] # "none"
                      /\ req'[r].pc \in {"new", "held"} => Unborn(r)'
                      /\ req'[r].pc = "held" => facade'.r = r /\ facade'.pc \in {"analyze", "apply"}
                      /\ req'[r].pc = "waiting" /\ req'[r].reply = "none" => r \in Queued'
    BY DEF RequestInv
  <2>1. r = run.r => req'[r].reply # "none"  BY <1>3, <1>4 DEF Answers
  <2>2. /\ req[r].gen <= ex.gen
        /\ req[r].pc # "new" => req[r].tab \in Tabs /\ doc[req[r].tab] # "none"
        /\ req[r].pc \in {"new", "held"} => Unborn(r)
        /\ req[r].pc = "held" => facade.r = r /\ facade.pc \in {"analyze", "apply"}
        /\ req[r].pc = "waiting" /\ req[r].reply = "none" => r \in Queued \/ r = run.r
    BY DEF Parts, RequestInv
  <2>3. UNCHANGED <<doc, facade>>  BY <1>1
  <2> QED  BY <1>4, <1>5, <1>11, <1>14, <2>1, <2>2, <2>3
<1>16. QueueInv' /\ ActiveInv'
  <2>1. \A t \in Tabs : \A r \in QueuedOf(t) : r \in Requests /\ r # run.r
    BY <1>2 DEF Parts, QueueInv, Requests
  <2>2. ASSUME NEW t \in Tabs, NEW r \in QueuedOf(t)
        PROVE  /\ r \in Analyses /\ req'[r].tab = t /\ req'[r].pc = "waiting" /\ req'[r].reply = "none"
               /\ r \notin stopped' /\ r # ex'.active /\ r \notin ex'.snaps
    <3>1. /\ r \in Analyses /\ req[r].tab = t /\ req[r].pc = "waiting" /\ req[r].reply = "none"
          /\ r \notin stopped /\ r \notin ex.snaps
      BY DEF Parts, QueueInv
    <3>2. r \in Requests /\ r # run.r  BY <2>1
    <3> QED  BY <1>1, <1>4, <1>5, <3>1, <3>2
  <2>3. QueueInv'  BY <1>11, <2>2 DEF QueueInv
  <2> QED  BY <1>1, <1>5, <2>3 DEF ActiveInv, Resting
<1>17. FacadeInv'  BY <1>1, <1>4 DEF Parts, FacadeInv
<1>18. LifeInv'
  BY <1>1, <1>5, <1>11 DEF Parts, LifeInv, Idle, Resting
<1>19. TabInv'
  <2>1. \A t \in Tabs : Working(t)' => Working(t)
    BY <1>1, <1>4, <1>5, <1>10 DEF Working, Parts, StopInv, Resting
  <2>2. ex.snaps \subseteq Requests  BY <1>10 DEF Typed, Requests
  <2>3. \A t \in Tabs : Gone(t) => Gone(t)'
    BY <1>1, <1>4, <1>5, <1>11, <2>1, <2>2 DEF Gone
  <2> QED  BY <1>1, <2>3 DEF Parts, TabInv, FacadeInv
<1>20. KeyInv'
  <2>1. ex.snaps \subseteq Requests  BY <1>10 DEF Typed, Requests
  <2>2. UNCHANGED <<keys, facade, mgr>> /\ run'.pc = "none"  BY <1>1 DEF Resting
  <2>3. SnapshotsCurrent  BY DEF Parts, KeyInv
  <2>4. SnapshotsCurrent'  BY <1>4, <1>5, <2>1, <2>2, <2>3 DEF SnapshotsCurrent
  <2> QED  BY <2>2, <2>4 DEF KeyInv
<1>21. server.stmt = "none" /\ server.answer = "none" /\ Clean
  BY <1>1 DEF Parts, SessionInv, StatementSteps, TransactionSteps
<1>22. SessionInv'
  BY <1>1, <1>5, <1>6, <1>21
  DEF SessionInv, FreshSession, Running, Clean, StatementSteps, TransactionSteps, Resting
<1>23. LedgerInv'
  <2>1. run.r \in committed => run.r \in Applies /\ Terminal \in {"ok", "lost"}
    BY <1>1, <1>2, <1>3, <1>10 DEF Parts, LedgerInv, StopInv, Typed
  <2>2. run.r \in Applies /\ Terminal = "ok" => run.r \in committed
    BY <1>1, <1>3 DEF Parts, LedgerInv
  <2>3. Applies \subseteq Requests /\ committed \subseteq Applies /\ stopped \subseteq Requests
    BY <1>10 DEF Requests, Typed
  <2>4. server'.stmt = "none"  BY <1>6, <1>21 DEF FreshSession
  <2>5. \A r \in committed : req'[r].reply \in {"ok", "lost"}
    <3> SUFFICES ASSUME NEW r \in committed  PROVE req'[r].reply \in {"ok", "lost"}
      OBVIOUS
    <3>1. CASE r = run.r  BY <1>2, <1>4, <2>1, <3>1, <2>3 DEF Parts, LedgerInv
    <3>2. CASE r # run.r  BY <1>2, <1>4, <2>3, <3>2 DEF Parts, LedgerInv
    <3> QED  BY <3>1, <3>2
  <2>6. \A r \in Applies : req'[r].reply = "ok" => r \in committed
    BY <1>4, <2>2, <2>3 DEF Parts, LedgerInv
  <2>7. committed \cap stopped = {} /\ None \notin committed
    BY <2>3 DEF Parts, LedgerInv
  <2> QED  BY <1>1, <1>5, <2>4, <2>5, <2>6, <2>7 DEF LedgerInv, Resting
<1> QED
  BY <1>9, <1>12, <1>13, <1>15, <1>16, <1>17, <1>18, <1>19, <1>20, <1>22, <1>23 DEF Parts

----------------------------------------------------------------------------
(* Stops: a cancel, a fence or a close takes requests off the queue and    *)
(* interrupts the active one.                                              *)

(* The queued requests `D` are dropped; `hit` says whether the active one, *)
(* not yet admitted to its COMMIT, is interrupted.                         *)
StopStep(D, hit) ==
    /\ D \subseteq Queued
    /\ hit => ex.active # None /\ ~ex.admitted /\ ex'.interrupt # "none"
    /\ ~hit => ex'.interrupt = ex.interrupt
    /\ run'.pc = run.pc /\ run'.r = run.r /\ run'.result = run.result /\ run'.left = run.left
    /\ run'.keys = run.keys /\ (run.pc = "none" => run' = run)
    /\ UNCHANGED <<server, committed, keys, group, doc>>
    /\ stopped' = stopped \cup D \cup (IF hit THEN {ex.active} ELSE {})
    /\ \A t \in Tabs : QueuedOf(t)' = QueuedOf(t) \ D
    /\ ex'.active = ex.active /\ ex'.admitted = ex.admitted /\ ex'.conn = ex.conn
    /\ ex'.gen = ex.gen /\ ex'.snaps = ex.snaps
    /\ ex'.pending = ex.pending \/ (hit /\ ex.pending = None /\ ex'.pending = ex.active)
    /\ \A r \in Requests :
        /\ req'[r].pc = req[r].pc /\ req'[r].tab = req[r].tab
        /\ req'[r].gen = req[r].gen /\ req'[r].keys = req[r].keys
        /\ req'[r].reply = IF r \in D /\ req[r].reply = "none" THEN "refused" ELSE req[r].reply
    /\ facade.pc \in {"analyze", "apply"} => facade' = facade
    /\ facade'.pc = "save" <=> facade.pc = "save"
    /\ mgr'.executor = mgr.executor

(* What a stop keeps.                                                      *)
LEMMA StopKeeps ==
  ASSUME Typed, Typed', Parts, NEW D, NEW hit \in BOOLEAN, StopStep(D, hit)
  PROVE  RunInv' /\ RequestInv' /\ QueueInv' /\ ActiveInv' /\ KeyInv' /\ SessionInv' /\ LedgerInv'
<1> USE NoneApart DEF StopStep
<1>1. RunInv'  BY DEF Parts, RunInv, AnalysisSteps, ApplySteps, TransactionSteps
<1>2. Queued' = Queued \ D  BY DEF Queued
<1>3. \A r \in D : r \in Analyses /\ r \in Requests /\ req[r].pc = "waiting" /\ req[r].reply = "none"
                   /\ r # ex.active /\ r \notin stopped
  BY DEF Parts, QueueInv, Queued, Requests
<1>4. ex.active # None => ex.active = run.r \/ run.pc = "none"
  BY DEF Parts, RunInv
<1>5. hit => ex.active \in Requests /\ ex.active \notin committed
  BY DEF Typed, Parts, LedgerInv
<1>6. RequestInv'
  <2> SUFFICES ASSUME NEW r \in Requests
               PROVE  /\ req'[r].gen <= ex'.gen
                      /\ req'[r].pc # "new" => req'[r].tab \in Tabs /\ doc'[req'[r].tab] # "none"
                      /\ req'[r].pc \in {"new", "held"} => Unborn(r)'
                      /\ req'[r].pc = "held" => facade'.r = r /\ facade'.pc \in {"analyze", "apply"}
                      /\ req'[r].pc = "waiting" /\ req'[r].reply = "none" =>
                           r \in Queued' \/ (run'.pc # "none" /\ run'.r = r)
    BY DEF RequestInv
  <2>1. req[r].pc \in {"new", "held"} => Unborn(r) /\ r \notin D
    BY <1>3 DEF Parts, RequestInv
  <2>2. req[r].pc \in {"new", "held"} => Unborn(r)'  BY <2>1 DEF Unborn
  <2>3. req[r].pc = "waiting" /\ req'[r].reply = "none" =>
          r \notin D /\ req[r].reply = "none"
    OBVIOUS
  <2> QED  BY <1>2, <2>2, <2>3 DEF Parts, RequestInv
<1>7. QueueInv'
  <2> SUFFICES ASSUME NEW t \in Tabs, NEW r \in QueuedOf(t)'
               PROVE  /\ r \in Analyses /\ req'[r].tab = t
                      /\ req'[r].pc = "waiting" /\ req'[r].reply = "none"
                      /\ r \notin stopped' /\ r # ex'.active /\ r \notin ex'.snaps
    BY DEF QueueInv
  <2>1. r \in QueuedOf(t) /\ r \notin D  OBVIOUS
  <2>2. /\ r \in Analyses /\ r \in Requests /\ req[r].tab = t /\ req[r].pc = "waiting"
        /\ req[r].reply = "none" /\ r \notin stopped /\ r # ex.active /\ r \notin ex.snaps
    BY <2>1 DEF Parts, QueueInv, Requests
  <2> QED  BY <2>1, <2>2
<1>8. ActiveInv'
  <2>1. run.pc # "none" => run.r \in Requests /\ run.r \notin D
    BY <1>3 DEF Parts, RunInv
  <2>2. ex.active # None => ex.active \in Requests /\ ex.active \notin D
    BY <1>3 DEF Typed
  <2> QED  BY <2>1, <2>2 DEF Parts, ActiveInv
<1>9. KeyInv'
  <2>1. ex.snaps \subseteq Requests  BY DEF Typed, Requests
  <2>2. run.pc # "none" => run.r \in Requests  BY DEF Parts, RunInv
  <2> QED  BY <2>1, <2>2 DEF Parts, KeyInv, SnapshotsCurrent
<1>10. SessionInv'
  BY DEF Parts, SessionInv, Running, Clean, StatementSteps, TransactionSteps
<1>11. LedgerInv'
  <2>1. Applies \subseteq Requests /\ committed \subseteq Applies  BY DEF Typed, Requests
  <2>2. D \cap Applies = {}  BY <1>3, MutationAssumption
  <2>3. committed' \cap stopped' = {}  BY <1>5, <2>1, <2>2 DEF Parts, LedgerInv
  <2>4. \A r \in Applies : req'[r].reply = req[r].reply  BY <2>1, <2>2
  <2> QED  BY <2>1, <2>3, <2>4 DEF Parts, LedgerInv
<1> QED  BY <1>1, <1>6, <1>7, <1>8, <1>9, <1>10, <1>11

(* A stop keeps the record of the pending cancel.                          *)
LEMMA StopStops ==
  ASSUME Typed, Typed', Parts, NEW D, NEW hit \in BOOLEAN, StopStep(D, hit),
         tasks'.cancel # "none" => ex'.pending # None,
         tasks'.close = "cancel" =>
            ex'.closed /\ (hit \/ tasks.close = "cancel" \/ ex.active = None)
  PROVE  StopInv'
<1> USE NoneApart DEF StopStep
<1>1. ex.active \in D => FALSE
  BY DEF Parts, QueueInv, Queued
<1>2. ex'.pending # None => ex'.pending \in stopped' /\ ex'.active \in {None, ex'.pending}
                            /\ ex'.pending \in Requests
  BY DEF Parts, StopInv, Typed
<1>3. ex'.active \in stopped' => Interrupted' /\ ~ex'.admitted
  BY <1>1 DEF Parts, StopInv, Interrupted
<1>4. ex'.admitted =>
        /\ ex'.interrupt = "none" /\ ex'.active \in Applies
        /\ run'.pc # "none" => run'.pc \in {"commit", "healthy", "unhealthy", "finish"}
  BY DEF Parts, StopInv
<1>5. tasks'.close = "cancel" => ex'.closed /\ ex'.active \in stopped' \cup {None}
  BY DEF Parts, StopInv
<1> QED  BY <1>2, <1>3, <1>4, <1>5 DEF StopInv

(* The fields an interrupt changes.                                        *)
LEMMA InterruptsFields ==
  ASSUME NEW x \in ExecutorStates, tasks \in TaskStates,
         NEW i \in {"supersede", "cancel", "closing"}, NEW by \in {"task", "run"},
         Interrupts(x, i, by)
  PROVE  /\ ex' \in ExecutorStates /\ ex'.interrupt = i
         /\ ex'.pending = (IF x.pending = None /\ x.conn # "none" THEN x.active ELSE x.pending)
         /\ ex'.closed = x.closed /\ ex'.conn = x.conn /\ ex'.gen = x.gen /\ ex'.snaps = x.snaps
         /\ ex'.queued = x.queued /\ ex'.active = x.active /\ ex'.admitted = x.admitted
         /\ tasks' \in TaskStates /\ tasks'.close = tasks.close /\ tasks'.tabs = tasks.tabs
         /\ tasks'.cancel = (IF x.pending = None /\ x.conn # "none" THEN by ELSE tasks.cancel)
<1>1. ex' = QueueCancel([x EXCEPT !.interrupt = i])  BY DEF Interrupts
<1>2. PICK y : y = [x EXCEPT !.interrupt = i]  OBVIOUS
<1>3. /\ y \in ExecutorStates /\ y.interrupt = i /\ y.pending = x.pending
      /\ y.closed = x.closed /\ y.conn = x.conn /\ y.gen = x.gen /\ y.snaps = x.snaps
      /\ y.queued = x.queued /\ y.active = x.active /\ y.admitted = x.admitted
  BY <1>2 DEF ExecutorStates
<1>4. ex' = IF x.pending = None /\ x.conn # "none" THEN [y EXCEPT !.pending = y.active] ELSE y
  BY <1>1, <1>2, <1>3 DEF QueueCancel, CancelQueued
<1>5. /\ tasks' \in TaskStates /\ tasks'.close = tasks.close /\ tasks'.tabs = tasks.tabs
      /\ tasks'.cancel = (IF x.pending = None /\ x.conn # "none" THEN by ELSE tasks.cancel)
  BY DEF Interrupts, CancelQueued, TaskStates
<1> QED  BY <1>3, <1>4, <1>5 DEF ExecutorStates

(* The apply hears that its caller is gone.                                *)
LEMMA DropNoticedKeeps ==
  ASSUME MutationIInv, DropNoticed  PROVE MutationIInv'
<1> USE NoneApart DEF MutationIInv
<1>1. /\ run.pc \notin {"none", "finish"} /\ run \in RunStates /\ ex \in ExecutorStates
      /\ tasks \in TaskStates /\ stopped \subseteq Requests
      /\ UNCHANGED <<server, committed, worker, group, mgr, doc, facade, monitor, req, keys>>
  BY DEF DropNoticed, TypeOK, databaseVars, lifecycleVars
<1>2. run.r \in Requests /\ ex.active = run.r  BY <1>1 DEF Parts, RunInv
<1>3. /\ run' \in RunStates /\ run'.pc = run.pc /\ run'.r = run.r /\ run'.result = run.result
      /\ run'.left = run.left /\ run'.keys = run.keys
  BY <1>1 DEF DropNoticed, RunStates
<1> DEFINE hit == ~ex.admitted
<1>4. /\ ex' \in ExecutorStates /\ tasks' \in TaskStates
      /\ ex'.interrupt = (IF hit THEN "cancel" ELSE ex.interrupt)
      /\ ex'.pending = (IF hit /\ ex.pending = None /\ ex.conn # "none" THEN ex.active ELSE ex.pending)
      /\ ex'.closed = ex.closed /\ ex'.conn = ex.conn /\ ex'.gen = ex.gen /\ ex'.snaps = ex.snaps
      /\ ex'.queued = ex.queued /\ ex'.active = ex.active /\ ex'.admitted = ex.admitted
      /\ tasks'.close = tasks.close /\ tasks'.tabs = tasks.tabs
      /\ tasks'.cancel = (IF hit /\ ex.pending = None /\ ex.conn # "none" THEN "run" ELSE tasks.cancel)
  BY <1>1, InterruptsFields DEF DropNoticed
<1>5. stopped' = stopped \cup {} \cup (IF hit THEN {ex.active} ELSE {})
  BY <1>2 DEF DropNoticed
<1>6. TypeOK'  BY <1>1, <1>2, <1>3, <1>4, <1>5 DEF TypeOK
<1>7. Typed /\ Typed'  BY <1>6, FieldTypes, PTL
<1>8. Queued' = Queued /\ \A t \in Tabs : QueuedOf(t)' = QueuedOf(t)
  BY <1>4 DEF QueuedOf, Queued
<1>9. StopStep({}, hit)
  BY <1>1, <1>2, <1>3, <1>4, <1>5, <1>8 DEF StopStep
<1>10. hit \in BOOLEAN  BY <1>7 DEF Typed
<1>11. RunInv' /\ RequestInv' /\ QueueInv' /\ ActiveInv' /\ KeyInv' /\ SessionInv' /\ LedgerInv'
  BY <1>7, <1>9, <1>10, StopKeeps
<1>12. tasks.close = "cancel" => ex.closed  BY DEF Parts, StopInv
<1>13. tasks.cancel # "none" => ex.pending # None  BY DEF Parts, StopInv
<1>14. StopInv'  BY <1>2, <1>4, <1>7, <1>9, <1>10, <1>12, <1>13, StopStops
<1>15. FacadeInv'  BY <1>1 DEF Parts, FacadeInv
<1>16. LifeInv'
  BY <1>1, <1>3, <1>4, <1>8 DEF Parts, LifeInv, Idle
<1>17. TabInv'
  <2>1. \A t \in Tabs : Working(t)' => Working(t)
    BY <1>1, <1>3, <1>4, <1>13 DEF Working
  <2>2. \A t \in Tabs : Gone(t) => Gone(t)'
    BY <1>1, <1>4, <1>8, <2>1 DEF Gone
  <2> QED  BY <1>1, <1>4, <2>2 DEF Parts, TabInv, FacadeInv
<1> QED  BY <1>6, <1>11, <1>14, <1>15, <1>16, <1>17 DEF Parts

(* A stop in tab `t` starts work at most in that tab.                      *)
LEMMA StopTabs ==
  ASSUME Typed, Typed', Parts, NEW D, NEW hit \in BOOLEAN, StopStep(D, hit), NEW t,
         tasks'.cancel = "task" =>
            \/ tasks.cancel = "task" /\ ex'.pending = ex.pending
            \/ ex'.pending = ex.active /\ ex.active \in Requests /\ req[ex.active].tab = t
  PROVE  \A u \in Tabs : u # t /\ Gone(u) => Gone(u)'
<1> USE NoneApart DEF StopStep
<1>1. \A r \in Requests \cup {None} : r # None => req'[r].tab = req[r].tab
  OBVIOUS
<1>2. run.pc # "none" => run.r \in Requests  BY DEF Parts, RunInv
<1>3. tasks.cancel # "none" => ex.pending \in Requests  BY DEF Parts, StopInv
<1>4. \A u \in Tabs : u # t /\ Working(u)' => Working(u)
  BY <1>1, <1>2, <1>3 DEF Working
<1>5. ex.snaps \subseteq Requests  BY DEF Typed, Requests
<1> QED  BY <1>4, <1>5 DEF Gone

(* The fields of a tab's stop: cancel_tab_state, and the fence that does   *)
(* the same.                                                               *)
TabStops(t) ==
    /\ ex'.interrupt = (IF Stoppable(t) THEN "cancel" ELSE ex.interrupt)
    /\ ex'.pending = (IF Stoppable(t) /\ ex.pending = None /\ ex.conn # "none"
                      THEN ex.active ELSE ex.pending)
    /\ ex'.closed = ex.closed /\ ex'.conn = ex.conn /\ ex'.gen = ex.gen /\ ex'.snaps = ex.snaps
    /\ ex'.queued = [ex.queued EXCEPT ![t] = None]
    /\ ex'.active = ex.active /\ ex'.admitted = ex.admitted
    /\ tasks'.close = tasks.close
    /\ tasks'.cancel = (IF Stoppable(t) /\ ex.pending = None /\ ex.conn # "none"
                        THEN "task" ELSE tasks.cancel)
    /\ req' = Reply(req, QueuedOf(t), "refused")
    /\ stopped' = stopped \cup QueuedOf(t) \cup (IF Stoppable(t) THEN {ex.active} ELSE {})

(* A tab's stop is a stop of what it has queued and, at most, of what runs. *)
LEMMA TabStopsIsStop ==
  ASSUME TypeOK, TypeOK', Parts, NEW t \in Tabs, TabStops(t),
         UNCHANGED <<run, server, committed, keys, group, mgr, doc>>,
         facade.pc \notin {"analyze", "apply", "save"}, facade'.pc # "save"
  PROVE  /\ Typed /\ Typed' /\ Stoppable(t) \in BOOLEAN /\ StopStep(QueuedOf(t), Stoppable(t))
         /\ RunInv' /\ RequestInv' /\ QueueInv' /\ ActiveInv' /\ KeyInv' /\ SessionInv' /\ LedgerInv'
         /\ StopInv'
         /\ \A u \in Tabs : u # t /\ Gone(u) => Gone(u)'
         /\ QueuedOf(t)' = {} /\ Queued' \subseteq Queued
<1> USE NoneApart DEF TabStops
<1>1. Typed /\ Typed'  BY FieldTypes, PTL
<1>2. /\ ex.queued \in [Tabs -> Slots] /\ req \in [Requests -> RequestStates]
  BY <1>1 DEF Typed, TypeOK
<1>3. \A r \in Requests :
        /\ req'[r].pc = req[r].pc /\ req'[r].tab = req[r].tab
        /\ req'[r].gen = req[r].gen /\ req'[r].keys = req[r].keys
        /\ req'[r].reply = IF r \in QueuedOf(t) /\ req[r].reply = "none" THEN "refused" ELSE req[r].reply
  BY <1>2, ReplyFields DEF Answers
<1>4. \A u \in Tabs : QueuedOf(u)' = IF u = t THEN {} ELSE QueuedOf(u)
  BY <1>2 DEF QueuedOf
<1>5. \A u \in Tabs : u # t => QueuedOf(u) \cap QueuedOf(t) = {}
  BY DEF Parts, QueueInv
<1>6. \A u \in Tabs : QueuedOf(u)' = QueuedOf(u) \ QueuedOf(t)
  BY <1>4, <1>5
<1>7. Queued' \subseteq Queued /\ QueuedOf(t) \subseteq Queued  BY <1>6 DEF Queued
<1>8. Stoppable(t) \in BOOLEAN /\ (Stoppable(t) => ex.active # None /\ ~ex.admitted)
  BY DEF Stoppable
<1>9. StopStep(QueuedOf(t), Stoppable(t))
  BY <1>3, <1>6, <1>7, <1>8 DEF StopStep
<1>10. RunInv' /\ RequestInv' /\ QueueInv' /\ ActiveInv' /\ KeyInv' /\ SessionInv' /\ LedgerInv'
  BY <1>1, <1>8, <1>9, StopKeeps
<1>11. tasks.close = "cancel" => ex.closed  BY DEF Parts, StopInv
<1>12. tasks.cancel # "none" => ex.pending # None  BY DEF Parts, StopInv
<1>13. StopInv'  BY <1>1, <1>8, <1>9, <1>11, <1>12, StopStops
<1>14. Stoppable(t) => ex.active \in Requests /\ req[ex.active].tab = t
  BY <1>1 DEF Stoppable, Typed
<1>15. \A u \in Tabs : u # t /\ Gone(u) => Gone(u)'
  BY <1>1, <1>8, <1>9, <1>12, <1>14, StopTabs
<1> QED  BY <1>1, <1>4, <1>7, <1>8, <1>9, <1>10, <1>13, <1>15

(* A cancel of the document.                                               *)
LEMMA CancelTabKeeps ==
  ASSUME MutationIInv, NEW t \in Tabs, CancelTab(t)  PROVE MutationIInv'
<1> USE NoneApart DEF MutationIInv
<1>1. /\ ex \in ExecutorStates /\ tasks \in TaskStates /\ req \in [Requests -> RequestStates]
      /\ UNCHANGED <<run, server, committed, group, mgr, doc, keys, monitor>>
      /\ facade = Free /\ doc[t] = "open" /\ mgr.executor = "current"
      /\ stopped \subseteq Requests
  BY DEF CancelTab, TypeOK, databaseVars
<1> DEFINE y == [ex EXCEPT !.queued[t] = None]
<1>2. /\ y \in ExecutorStates /\ y.queued = [ex.queued EXCEPT ![t] = None]
      /\ y.interrupt = ex.interrupt /\ y.pending = ex.pending
      /\ y.closed = ex.closed /\ y.conn = ex.conn /\ y.gen = ex.gen /\ y.snaps = ex.snaps
      /\ y.active = ex.active /\ y.admitted = ex.admitted
  BY <1>1 DEF ExecutorStates, Slots
<1> HIDE DEF y
<1>3. IF Stoppable(t) THEN Interrupts(y, "cancel", "task") ELSE ex' = y /\ UNCHANGED tasks
  BY DEF CancelTab, CancelTabState, y
<1>4. /\ req' = Reply(req, QueuedOf(t), "refused")
      /\ stopped' = stopped \cup QueuedOf(t) \cup (IF Stoppable(t) THEN {ex.active} ELSE {})
  BY DEF CancelTab, CancelTabState
<1>5. /\ TabStops(t) /\ ex' \in ExecutorStates /\ tasks' \in TaskStates /\ tasks'.tabs = tasks.tabs
  BY <1>1, <1>2, <1>3, <1>4, InterruptsFields DEF TabStops
<1>6. facade' \in FacadeStates /\ facade'.pc \in {"free", "cancel"} /\ (facade'.pc = "free" => facade' = Free)
      /\ ~facade'.forced
  BY DEF CancelTab, Free, FacadeStates
<1>7. worker' \in [pc : {"none", "next", "shut", "park", "busy", "exit"}, permit : BOOLEAN]
  BY DEF CancelTab, NotifyOne, TypeOK
<1>8. req' \in [Requests -> RequestStates]  BY <1>1, <1>4, ReplyFields DEF Answers
<1>9. stopped' \subseteq Requests
  <2>1. ex.active \in Requests \cup {None} /\ QueuedOf(t) \subseteq Requests
    BY <1>1 DEF ExecutorStates, QueuedOf, Slots, Requests
  <2> QED  BY <1>1, <1>4, <2>1 DEF Stoppable
<1>10. TypeOK'  BY <1>1, <1>5, <1>6, <1>7, <1>8, <1>9 DEF TypeOK
<1>11. facade.pc = "free"  BY <1>1 DEF Free
<1>12. /\ Typed /\ Typed'
       /\ RunInv' /\ RequestInv' /\ QueueInv' /\ ActiveInv' /\ KeyInv' /\ SessionInv' /\ LedgerInv'
       /\ StopInv'
       /\ \A u \in Tabs : u # t /\ Gone(u) => Gone(u)'
       /\ QueuedOf(t)' = {} /\ Queued' \subseteq Queued
  BY <1>1, <1>5, <1>6, <1>10, <1>11, TabStopsIsStop
<1>13. FacadeInv'  BY <1>6 DEF FacadeInv
<1>14. LifeInv'
  BY <1>1, <1>5, <1>6, <1>12 DEF Parts, LifeInv, Idle, TabStops
<1>15. TabInv'
  BY <1>1, <1>6, <1>12 DEF Parts, TabInv
<1> QED  BY <1>10, <1>12, <1>13, <1>14, <1>15 DEF Parts

(* The fence of a closing tab.                                             *)
LEMMA FenceTabKeeps ==
  ASSUME MutationIInv, FenceTab  PROVE MutationIInv'
<1> USE NoneApart DEF MutationIInv
<1> DEFINE t == facade.tab
           x == [ex EXCEPT !.closingTabs = @ \cup {t}]
           y == [x EXCEPT !.queued[t] = None]
           cleans == IF group.registered THEN {t} ELSE {}
<1>1. /\ ex \in ExecutorStates /\ tasks \in TaskStates /\ req \in [Requests -> RequestStates]
      /\ facade \in FacadeStates /\ UNCHANGED <<run, server, committed, group, mgr, doc, keys, monitor>>
      /\ facade.pc = "tabHeld" /\ facade' = [facade EXCEPT !.pc = "tab"]
      /\ stopped \subseteq Requests
  BY DEF FenceTab, TypeOK, databaseVars, FacadeOnly
<1>2. t \in Tabs /\ doc[t] = "retired" /\ mgr.executor # "none"
  BY <1>1 DEF Parts, FacadeInv
<1>3. /\ x \in ExecutorStates /\ x.queued = ex.queued
      /\ x.interrupt = ex.interrupt /\ x.pending = ex.pending
      /\ x.closed = ex.closed /\ x.conn = ex.conn /\ x.gen = ex.gen /\ x.snaps = ex.snaps
      /\ x.active = ex.active /\ x.admitted = ex.admitted
  BY <1>1, <1>2 DEF ExecutorStates
<1> HIDE DEF x
<1>4. /\ y \in ExecutorStates /\ y.queued = [ex.queued EXCEPT ![t] = None]
      /\ y.interrupt = ex.interrupt /\ y.pending = ex.pending
      /\ y.closed = ex.closed /\ y.conn = ex.conn /\ y.gen = ex.gen /\ y.snaps = ex.snaps
      /\ y.active = ex.active /\ y.admitted = ex.admitted
  BY <1>2, <1>3 DEF ExecutorStates, Slots
<1>5. /\ ex' = (IF Stoppable(t) THEN QueueCancel([y EXCEPT !.interrupt = "cancel"]) ELSE y)
      /\ tasks' = [tasks EXCEPT !.tabs = @ \cup cleans,
                     !.cancel = IF Stoppable(t) THEN (IF CancelQueued(ex) THEN "task" ELSE tasks.cancel) ELSE @]
  BY DEF FenceTab, y, x
<1> HIDE DEF y
<1>6. /\ req' = Reply(req, QueuedOf(t), "refused")
      /\ stopped' = stopped \cup QueuedOf(t) \cup (IF Stoppable(t) THEN {ex.active} ELSE {})
  BY DEF FenceTab
<1>7. /\ tasks' \in TaskStates /\ tasks'.tabs = tasks.tabs \cup cleans /\ tasks'.close = tasks.close
      /\ tasks'.cancel = (IF Stoppable(t) /\ ex.pending = None /\ ex.conn # "none"
                          THEN "task" ELSE tasks.cancel)
  BY <1>1, <1>2, <1>5 DEF TaskStates, CancelQueued
<1>8. /\ ex' \in ExecutorStates
      /\ ex'.interrupt = (IF Stoppable(t) THEN "cancel" ELSE ex.interrupt)
      /\ ex'.pending = (IF Stoppable(t) /\ ex.pending = None /\ ex.conn # "none"
                        THEN ex.active ELSE ex.pending)
      /\ ex'.closed = ex.closed /\ ex'.conn = ex.conn /\ ex'.gen = ex.gen /\ ex'.snaps = ex.snaps
      /\ ex'.queued = [ex.queued EXCEPT ![t] = None]
      /\ ex'.active = ex.active /\ ex'.admitted = ex.admitted
  <2>1. CASE ~Stoppable(t)  BY <1>4, <1>5, <2>1
  <2>2. CASE Stoppable(t)
    <3>1. PICK z : z = [y EXCEPT !.interrupt = "cancel"]  OBVIOUS
    <3>2. /\ z \in ExecutorStates /\ z.interrupt = "cancel" /\ z.pending = y.pending
          /\ z.closed = y.closed /\ z.conn = y.conn /\ z.gen = y.gen /\ z.snaps = y.snaps
          /\ z.queued = y.queued /\ z.active = y.active /\ z.admitted = y.admitted
      BY <1>4, <3>1 DEF ExecutorStates
    <3>3. ex' = IF z.pending = None /\ z.conn # "none" THEN [z EXCEPT !.pending = z.active] ELSE z
      BY <1>5, <2>2, <3>1, <3>2 DEF QueueCancel, CancelQueued
    <3> QED  BY <1>4, <2>2, <3>2, <3>3 DEF ExecutorStates
  <2> QED  BY <2>1, <2>2
<1>9. TabStops(t)  BY <1>6, <1>7, <1>8 DEF TabStops
<1>10. facade' \in FacadeStates /\ facade'.pc = "tab" /\ facade'.tab = t /\ facade'.forced = facade.forced
  BY <1>1 DEF FacadeStates
<1>11. worker' \in [pc : {"none", "next", "shut", "park", "busy", "exit"}, permit : BOOLEAN]
  BY DEF FenceTab, NotifyOne, TypeOK
<1>12. req' \in [Requests -> RequestStates]  BY <1>1, <1>6, ReplyFields DEF Answers
<1>13. stopped' \subseteq Requests
  <2>1. ex.active \in Requests \cup {None} /\ QueuedOf(t) \subseteq Requests
    BY <1>1, <1>2 DEF ExecutorStates, QueuedOf, Slots, Requests
  <2> QED  BY <1>1, <1>6, <2>1 DEF Stoppable
<1>14. TypeOK'  BY <1>1, <1>7, <1>8, <1>10, <1>11, <1>12, <1>13 DEF TypeOK
<1>15. /\ Typed /\ Typed'
       /\ RunInv' /\ RequestInv' /\ QueueInv' /\ ActiveInv' /\ KeyInv' /\ SessionInv' /\ LedgerInv'
       /\ StopInv'
       /\ \A u \in Tabs : u # t /\ Gone(u) => Gone(u)'
       /\ QueuedOf(t)' = {} /\ Queued' \subseteq Queued
  BY <1>1, <1>2, <1>9, <1>10, <1>14, TabStopsIsStop
<1>16. FacadeInv'  BY <1>1, <1>2, <1>10 DEF FacadeInv
<1>17. run.pc = "none" /\ ~group.aborted => ~Stoppable(t)
  BY DEF Parts, RunInv, Stoppable
<1>18. LifeInv'
  BY <1>1, <1>2, <1>7, <1>8, <1>10, <1>15, <1>17 DEF Parts, LifeInv, Idle
<1>19. TabInv'
  <2> SUFFICES ASSUME ~group.aborted  PROVE TabInv'
    BY <1>1 DEF TabInv
  <2>1. \A u \in Tabs : doc'[u] = "closed" => Gone(u)'
    BY <1>1, <1>2, <1>15 DEF Parts, TabInv
  <2>2. t \notin tasks'.tabs => Gone(t)'
    <3> SUFFICES ASSUME t \notin tasks'.tabs  PROVE Gone(t)'
      OBVIOUS
    <3>1. ~group.registered  BY <1>7
    <3>2. run.pc = "none" /\ tasks.cancel = "none" /\ mgr.executor # "current"
      BY <3>1 DEF Parts, LifeInv, Idle
    <3>3. tasks'.cancel = "none"  BY <1>7, <1>17, <3>2
    <3> QED  BY <1>1, <1>15, <3>2, <3>3 DEF Gone, Working
  <2> QED  BY <1>1, <1>10, <2>1, <2>2 DEF TabInv
<1> QED  BY <1>14, <1>15, <1>16, <1>18, <1>19 DEF Parts

(* prepare_executor_close.                                                 *)
LEMMA CloseExecutorKeeps ==
  ASSUME MutationIInv, CloseExecutor  PROVE MutationIInv'
<1> USE NoneApart DEF MutationIInv
<1> DEFINE hit == CloseInterrupts
<1>1. /\ ex \in ExecutorStates /\ tasks \in TaskStates /\ req \in [Requests -> RequestStates]
      /\ UNCHANGED <<run, server, committed, group, mgr, doc, facade, monitor, keys>>
      /\ tasks.close = "mark" /\ stopped \subseteq Requests
      /\ req' = Reply(req, Queued, "refused")
      /\ stopped' = stopped \cup Queued \cup (IF hit THEN {ex.active} ELSE {})
  BY DEF CloseExecutor, TypeOK, databaseVars, lifecycleVars
<1>2. /\ ex' \in ExecutorStates /\ ex'.closed = TRUE /\ ex'.queued = [t \in Tabs |-> None]
      /\ ex'.interrupt = (IF ~hit THEN ex.interrupt ELSE IF tasks.fence THEN "closing" ELSE "cancel")
      /\ ex'.active = ex.active /\ ex'.admitted = ex.admitted /\ ex'.conn = ex.conn
      /\ ex'.gen = ex.gen /\ ex'.snaps = ex.snaps /\ ex'.pending = ex.pending
  BY <1>1 DEF CloseExecutor, ExecutorStates, TaskStates, Slots
<1>3. /\ tasks' \in TaskStates /\ tasks'.close \in {"cancel", "wait"}
      /\ (tasks'.close = "cancel" => hit) /\ tasks'.cancel = tasks.cancel /\ tasks'.tabs = tasks.tabs
  BY <1>1 DEF CloseExecutor, TaskStates
<1>4. worker' \in [pc : {"none", "next", "shut", "park", "busy", "exit"}, permit : BOOLEAN]
  BY DEF CloseExecutor, NotifyWaiters, TypeOK
<1>5. /\ req' \in [Requests -> RequestStates]
      /\ \A r \in Requests :
           /\ req'[r].pc = req[r].pc /\ req'[r].tab = req[r].tab
           /\ req'[r].gen = req[r].gen /\ req'[r].keys = req[r].keys
           /\ req'[r].reply = IF r \in Queued /\ req[r].reply = "none" THEN "refused" ELSE req[r].reply
  BY <1>1, ReplyFields DEF Answers
<1>6. stopped' \subseteq Requests
  <2>1. ex.active \in Requests \cup {None}  BY <1>1 DEF ExecutorStates
  <2>2. Queued \subseteq Requests  BY QueuedAnalyses DEF Requests
  <2> QED  BY <1>1, <2>1, <2>2 DEF CloseInterrupts
<1>7. TypeOK'  BY <1>1, <1>2, <1>3, <1>4, <1>5, <1>6 DEF TypeOK
<1>8. Typed /\ Typed'  BY <1>7, FieldTypes, PTL
<1>9. \A t \in Tabs : QueuedOf(t)' = {} /\ QueuedOf(t) \subseteq Queued
  BY <1>2 DEF QueuedOf, Queued
<1>10. Queued' = {}  BY <1>9 DEF Queued
<1>11. StopStep(Queued, hit)
  BY <1>1, <1>2, <1>5, <1>9 DEF StopStep, CloseInterrupts
<1>12. hit \in BOOLEAN  BY DEF CloseInterrupts
<1>13. RunInv' /\ RequestInv' /\ QueueInv' /\ ActiveInv' /\ KeyInv' /\ SessionInv' /\ LedgerInv'
  BY <1>8, <1>11, <1>12, StopKeeps
<1>14. tasks.cancel # "none" => ex.pending # None  BY DEF Parts, StopInv
<1>15. StopInv'  BY <1>2, <1>3, <1>8, <1>11, <1>12, <1>14, StopStops
<1>16. FacadeInv'  BY <1>1, <1>5, <1>8 DEF Parts, FacadeInv
<1>17. LifeInv'
  BY <1>1, <1>2, <1>3, <1>10 DEF Parts, LifeInv, Idle
<1>18. TabInv'
  <2>1. \A u \in Tabs : u # None /\ Gone(u) => Gone(u)'
    BY <1>2, <1>3, <1>8, <1>11, <1>12, StopTabs
  <2> QED  BY <1>1, <1>3, <2>1 DEF Parts, TabInv, FacadeInv
<1> QED  BY <1>7, <1>13, <1>15, <1>16, <1>17, <1>18 DEF Parts

----------------------------------------------------------------------------
(* Submissions.                                                            *)

(* A new request holds the gate. *)
HoldStep(r, t) ==
    /\ r \in Requests /\ t \in Tabs /\ req[r].pc = "new" /\ facade = Free
    /\ \A q \in Requests :
        /\ req'[q].pc = (IF q = r THEN "held" ELSE req[q].pc)
        /\ req'[q].tab = (IF q = r THEN t ELSE req[q].tab)
        /\ req'[q].gen = req[q].gen /\ req'[q].keys = req[q].keys /\ req'[q].reply = req[q].reply
    /\ UNCHANGED <<ex, run, server, committed, tasks, stopped, keys>>
    /\ facade'.r = r /\ facade'.pc \in {"analyze", "apply"} /\ ~facade'.forced
    /\ group'.aborted = group.aborted
    /\ doc'[t] = "open" /\ \A u \in Tabs : doc[u] # "none" => doc'[u] # "none"

(* What a held request keeps.                                              *)
LEMMA HoldKeeps ==
  ASSUME Typed, Typed', Parts, NEW r, NEW t, HoldStep(r, t)
  PROVE  /\ RunInv' /\ StopInv' /\ RequestInv' /\ QueueInv' /\ ActiveInv' /\ SessionInv' /\ LedgerInv'
         /\ \A u \in Tabs : QueuedOf(u)' = QueuedOf(u) /\ (Working(u)' <=> Working(u))
         /\ Queued' = Queued
         /\ \A a \in ex.snaps : a \in Requests /\ a # r
         /\ run.pc # "none" => run.r \in Requests /\ run.r # r
<1> USE NoneApart DEF HoldStep
<1>1. Unborn(r)  BY DEF Parts, RequestInv
<1>2. \A u \in Tabs : QueuedOf(u)' = QueuedOf(u)  BY DEF QueuedOf
<1>3. Queued' = Queued  BY <1>2 DEF Queued
<1>4. \A a \in ex.snaps : a \in Requests /\ a # r  BY <1>1 DEF Unborn, Typed, Requests
<1>5. run.pc # "none" => run.r \in Requests /\ run.r # r  BY <1>1 DEF Unborn, Parts, RunInv
<1>6. ex.pending # None => ex.pending \in Requests /\ ex.pending # r
  BY <1>1 DEF Unborn, Parts, StopInv
<1>7. tasks.cancel # "none" => ex.pending # None  BY DEF Parts, StopInv
<1>8. \A u \in Tabs : Working(u)' <=> Working(u)  BY <1>5, <1>6, <1>7 DEF Working
<1>9. RunInv'  BY DEF Parts, RunInv
<1>10. StopInv'  BY DEF Parts, StopInv, Interrupted
<1>11. \A q \in Requests : Unborn(q)' <=> Unborn(q)  BY DEF Unborn
<1>12. facade.pc = "free"  BY DEF Free
<1>13. RequestInv'  BY <1>1, <1>3, <1>11, <1>12 DEF Parts, RequestInv
<1>14. QueueInv'
  <2>1. \A u \in Tabs : \A q \in QueuedOf(u) : q \in Requests /\ q # r
    BY DEF Parts, QueueInv, Requests
  <2> QED  BY <1>2, <2>1 DEF Parts, QueueInv
<1>15. ActiveInv'
  <2>1. ex.active # None => ex.active \in Requests  BY DEF Typed
  <2> QED  BY <1>5, <2>1 DEF Parts, ActiveInv
<1>16. SessionInv'
  BY DEF Parts, SessionInv, Running, Clean
<1>17. LedgerInv'
  <2>1. Applies \subseteq Requests /\ committed \subseteq Requests  BY DEF Typed, Requests
  <2> QED  BY <2>1 DEF Parts, LedgerInv
<1> QED  BY <1>2, <1>3, <1>4, <1>5, <1>8, <1>9, <1>10, <1>13, <1>14, <1>15, <1>16, <1>17

(* An analysis is submitted, to the executor there is or to a new one.     *)
LEMMA SubmitAnalysisKeeps ==
  ASSUME MutationIInv, NEW r \in Analyses, NEW t \in Tabs, SubmitAnalysis(r, t)
  PROVE  MutationIInv'
<1> USE NoneApart DEF MutationIInv
<1>1. /\ req \in [Requests -> RequestStates] /\ r \in Requests /\ req[r].pc = "new" /\ facade = Free
      /\ doc[t] \in {"none", "open"} /\ doc \in [Tabs -> {"none", "open", "retired", "closed"}]
      /\ mgr.executor # "gone" /\ req' = [req EXCEPT ![r].pc = "held", ![r].tab = t]
      /\ doc' = [doc EXCEPT ![t] = "open"] /\ facade' = [Free EXCEPT !.pc = "analyze", !.r = r]
      /\ UNCHANGED <<ex, run, server, committed, tasks, stopped, keys, monitor>>
  BY DEF SubmitAnalysis, MaySubmit, TypeOK, databaseVars, Requests
<1>2. /\ req' \in [Requests -> RequestStates]
      /\ \A q \in Requests :
        /\ req'[q].pc = (IF q = r THEN "held" ELSE req[q].pc)
        /\ req'[q].tab = (IF q = r THEN t ELSE req[q].tab)
        /\ req'[q].gen = req[q].gen /\ req'[q].keys = req[q].keys /\ req'[q].reply = req[q].reply
  <2>1. PICK one : one = [req[r] EXCEPT !.pc = "held", !.tab = t]  OBVIOUS
  <2>2. /\ one \in RequestStates /\ one.pc = "held" /\ one.tab = t /\ one.gen = req[r].gen
        /\ one.keys = req[r].keys /\ one.reply = req[r].reply
    <3>1. req[r] \in RequestStates  BY <1>1
    <3> QED  BY ONLY <2>1, <3>1, t \in Tabs DEF RequestStates
  <2>3. req' = [req EXCEPT ![r] = one]  BY <1>1, <2>1
  <2> QED  BY <1>1, <2>2, <2>3
<1>3. /\ facade' \in FacadeStates /\ facade'.r = r /\ facade'.pc = "analyze" /\ ~facade'.forced
  BY <1>1 DEF Free, FacadeStates
<1>4. /\ mgr' \in [executor : {"none", "current", "gone"}, closing : BOOLEAN, idleClosing : BOOLEAN]
      /\ mgr'.executor = "current"
      /\ group' \in [registered : BOOLEAN, aborted : BOOLEAN]
      /\ group'.registered = TRUE /\ group'.aborted = group.aborted
      /\ worker' \in [pc : {"none", "next", "shut", "park", "busy", "exit"}, permit : BOOLEAN]
  BY DEF SubmitAnalysis, TypeOK
<1>5. doc' \in [Tabs -> {"none", "open", "retired", "closed"}]  BY <1>1
<1>6. TypeOK'  BY <1>1, <1>2, <1>3, <1>4, <1>5 DEF TypeOK
<1>7. Typed /\ Typed'  BY <1>6, FieldTypes, PTL
<1>8. HoldStep(r, t)  BY <1>1, <1>2, <1>3, <1>4, <1>5 DEF HoldStep
<1>9. /\ RunInv' /\ StopInv' /\ RequestInv' /\ QueueInv' /\ ActiveInv' /\ SessionInv' /\ LedgerInv'
      /\ \A u \in Tabs : QueuedOf(u)' = QueuedOf(u) /\ (Working(u)' <=> Working(u))
      /\ Queued' = Queued
      /\ \A a \in ex.snaps : a \in Requests /\ a # r
      /\ run.pc # "none" => run.r \in Requests /\ run.r # r
  BY <1>7, <1>8, HoldKeeps
<1>10. FacadeInv'  BY <1>1, <1>2, <1>3, <1>4, <1>5 DEF FacadeInv
<1>11. mgr.executor \in {"none", "current"}  BY <1>1, <1>7 DEF Typed
<1>12. LifeInv'
  BY <1>1, <1>3, <1>4, <1>9, <1>11 DEF Parts, LifeInv, Idle
<1>13. mgr.executor = "none" => ex.snaps = {} /\ run.pc = "none"  BY DEF Parts, LifeInv, Idle
<1>14. TabInv'
  BY <1>1, <1>2, <1>3, <1>4, <1>9, <1>11, <1>13 DEF Parts, TabInv, Gone
<1>15. facade.pc = "free"  BY <1>1 DEF Free
<1>16. KeyInv'
  BY <1>1, <1>2, <1>3, <1>4, <1>9, <1>11, <1>13, <1>15 DEF Parts, KeyInv, SnapshotsCurrent
<1> QED  BY <1>6, <1>9, <1>10, <1>12, <1>14, <1>16 DEF Parts

(* An apply of a reviewed plan is submitted.                               *)
LEMMA SubmitApplyKeeps ==
  ASSUME MutationIInv, NEW r \in Applies, NEW a \in Analyses, NEW t \in Tabs, SubmitApply(r, a, t)
  PROVE  MutationIInv'
<1> USE NoneApart DEF MutationIInv
<1>1. /\ req \in [Requests -> RequestStates] /\ r \in Requests /\ req[r].pc = "new" /\ facade = Free
      /\ doc[t] \in {"none", "open"} /\ a \in Requests /\ req[a].pc = "settled" /\ req[a].tab = t
      /\ mgr.executor = "current"
      /\ req' = [req EXCEPT ![r].pc = "held", ![r].tab = t, ![r].plan = a]
      /\ facade' = [Free EXCEPT !.pc = "apply", !.r = r]
      /\ UNCHANGED <<ex, run, server, committed, worker, tasks, group, mgr, doc, stopped, keys, monitor>>
  BY DEF SubmitApply, MaySubmit, TypeOK, databaseVars, Requests
<1>2. /\ req' \in [Requests -> RequestStates]
      /\ \A q \in Requests :
        /\ req'[q].pc = (IF q = r THEN "held" ELSE req[q].pc)
        /\ req'[q].tab = (IF q = r THEN t ELSE req[q].tab)
        /\ req'[q].gen = req[q].gen /\ req'[q].keys = req[q].keys /\ req'[q].reply = req[q].reply
  <2>1. PICK one : one = [req[r] EXCEPT !.pc = "held", !.tab = t, !.plan = a]  OBVIOUS
  <2>2. /\ one \in RequestStates /\ one.pc = "held" /\ one.tab = t /\ one.gen = req[r].gen
        /\ one.keys = req[r].keys /\ one.reply = req[r].reply
    <3>1. req[r] \in RequestStates  BY <1>1
    <3> QED  BY ONLY <2>1, <3>1, t \in Tabs, a \in Analyses DEF RequestStates, Slots
  <2>3. req' = [req EXCEPT ![r] = one]  BY <1>1, <2>1
  <2>4. req \in [Requests -> RequestStates] /\ r \in Requests  BY <1>1
  <2> QED  BY ONLY <2>2, <2>3, <2>4
<1>3. /\ facade' \in FacadeStates /\ facade'.r = r /\ facade'.pc = "apply" /\ ~facade'.forced
  BY <1>1 DEF Free, FacadeStates
<1>4. TypeOK'  BY <1>1, <1>2, <1>3 DEF TypeOK
<1>5. Typed /\ Typed'  BY <1>4, FieldTypes, PTL
<1>6. doc[t] = "open"  BY <1>1 DEF Parts, RequestInv
<1>7. HoldStep(r, t)  BY <1>1, <1>2, <1>3, <1>6 DEF HoldStep
<1>8. /\ RunInv' /\ StopInv' /\ RequestInv' /\ QueueInv' /\ ActiveInv' /\ SessionInv' /\ LedgerInv'
      /\ \A u \in Tabs : QueuedOf(u)' = QueuedOf(u) /\ (Working(u)' <=> Working(u))
      /\ Queued' = Queued
      /\ \A s \in ex.snaps : s \in Requests /\ s # r
      /\ run.pc # "none" => run.r \in Requests /\ run.r # r
  BY <1>5, <1>7, HoldKeeps
<1>9. FacadeInv'  BY <1>1, <1>2, <1>3, <1>6 DEF FacadeInv
<1>10. LifeInv'  BY <1>1, <1>3, <1>8 DEF Parts, LifeInv, Idle
<1>11. TabInv'  BY <1>1, <1>2, <1>3, <1>8 DEF Parts, TabInv, Gone
<1>12. facade.pc = "free"  BY <1>1 DEF Free
<1>13. KeyInv'
  BY <1>1, <1>2, <1>3, <1>8, <1>12 DEF Parts, KeyInv, SnapshotsCurrent
<1> QED  BY <1>4, <1>8, <1>9, <1>10, <1>11, <1>13 DEF Parts

(* The fields an invalidation changes.                                     *)
LEMMA InvalidatedFields ==
  ASSUME NEW x \in ExecutorStates
  PROVE  /\ Invalidated(x) \in ExecutorStates
         /\ Invalidated(x).gen = x.gen + 1 /\ Invalidated(x).snaps = {}
         /\ Invalidated(x).closed = x.closed /\ Invalidated(x).conn = x.conn
         /\ Invalidated(x).queued = x.queued /\ Invalidated(x).latest = x.latest
         /\ Invalidated(x).active = x.active /\ Invalidated(x).admitted = x.admitted
         /\ Invalidated(x).interrupt = x.interrupt /\ Invalidated(x).pending = x.pending
<1>1. x.gen \in Nat  BY DEF ExecutorStates
<1>2. PICK n \in Nat : n = x.gen + 1  BY <1>1
<1>3. Invalidated(x) = [x EXCEPT !.gen = n, !.snaps = {}]  BY <1>2 DEF Invalidated, ExecutorStates
<1> QED  BY <1>2, <1>3 DEF ExecutorStates

(* The executor as it is, or invalidated. *)
SameOrInvalidated ==
    /\ ex' \in ExecutorStates
    /\ ex'.closed = ex.closed /\ ex'.conn = ex.conn
    /\ ex'.active = ex.active /\ ex'.admitted = ex.admitted
    /\ \/ ex'.gen = ex.gen /\ ex'.snaps = ex.snaps
       \/ ex'.gen = ex.gen + 1 /\ ex'.snaps = {}

(* The held request is answered at once. *)
AnswerHeld(r) ==
    /\ facade.r = r /\ facade.pc \in {"analyze", "apply"} /\ facade' = Free
    /\ UNCHANGED <<run, server, committed, tasks, group, mgr, doc, keys, monitor, stopped>>
    /\ SameOrInvalidated
    /\ ex'.interrupt = ex.interrupt /\ ex'.pending = ex.pending /\ ex'.queued = ex.queued
    /\ req' \in [Requests -> RequestStates]
    /\ req'[r].pc \in {"waiting", "settled"} /\ req'[r].reply = "refused"
    /\ req'[r].gen <= ex'.gen /\ req'[r].tab = req[r].tab
    /\ \A q \in Requests \ {r} : req'[q] = req[q]
    /\ worker' \in [pc : {"none", "next", "shut", "park", "busy", "exit"}, permit : BOOLEAN]

(* A request that is answered at once was never seen.                      *)
LEMMA AnswerHeldKeeps ==
  ASSUME MutationIInv, NEW r, AnswerHeld(r)
  PROVE  MutationIInv'
<1> USE NoneApart DEF MutationIInv, AnswerHeld, SameOrInvalidated
<1>1. r \in Requests /\ req[r].pc = "held" /\ req[r].tab \in Tabs
  BY DEF Parts, FacadeInv, RequestInv
<1>2. Unborn(r)  BY <1>1 DEF Parts, RequestInv
<1>3. Free \in FacadeStates /\ Free.pc = "free" /\ ~Free.forced  BY DEF Free, FacadeStates
<1>4. TypeOK'  BY <1>3 DEF TypeOK
<1>5. Typed /\ Typed'  BY <1>4, FieldTypes, PTL
<1>6. \A u \in Tabs : QueuedOf(u)' = QueuedOf(u)  BY DEF QueuedOf
<1>7. Queued' = Queued  BY <1>6 DEF Queued
<1>8. \A a \in ex.snaps : a \in Requests /\ a # r  BY <1>2, <1>5 DEF Unborn, Typed, Requests
<1>9. run.pc # "none" => run.r \in Requests /\ run.r # r  BY <1>2 DEF Unborn, Parts, RunInv
<1>10. tasks.cancel # "none" => ex.pending \in Requests /\ ex.pending # r
  BY <1>2 DEF Unborn, Parts, StopInv
<1>11. \A u \in Tabs : Working(u)' <=> Working(u)  BY <1>9, <1>10 DEF Working
<1>12. RunInv' /\ StopInv'  BY DEF Parts, RunInv, StopInv, Interrupted
<1>13. ex'.gen >= ex.gen  BY <1>5 DEF Typed
<1>14. RequestInv'
  <2> SUFFICES ASSUME NEW q \in Requests
               PROVE  /\ req'[q].gen <= ex'.gen
                      /\ req'[q].pc # "new" => req'[q].tab \in Tabs /\ doc'[req'[q].tab] # "none"
                      /\ req'[q].pc \in {"new", "held"} => Unborn(q)'
                      /\ req'[q].pc = "held" => facade'.r = q /\ facade'.pc \in {"analyze", "apply"}
                      /\ req'[q].pc = "waiting" /\ req'[q].reply = "none" =>
                           q \in Queued' \/ (run'.pc # "none" /\ run'.r = q)
    BY DEF RequestInv
  <2>1. doc[req[r].tab] # "none"  BY <1>1 DEF Parts, RequestInv
  <2>2. CASE q = r  BY <1>1, <2>1, <2>2
  <2>3. CASE q # r
    <3>1. req'[q] = req[q] /\ req[q].pc # "held"  BY <2>3 DEF Parts, RequestInv
    <3>2. req[q].gen <= ex.gen /\ req[q].gen \in Nat /\ ex.gen \in Nat /\ ex'.gen \in Nat
      BY <1>5 DEF Parts, RequestInv, Typed
    <3>3. req[q].gen <= ex'.gen  BY <1>13, <3>2
    <3>4. Unborn(q) => Unborn(q)'  BY <3>1 DEF Unborn
    <3> QED  BY <1>7, <3>1, <3>3, <3>4 DEF Parts, RequestInv
  <2> QED  BY <2>2, <2>3
<1>15. QueueInv'
  <2>1. \A u \in Tabs : \A q \in QueuedOf(u) : q \in Requests /\ q # r
    BY <1>1 DEF Parts, QueueInv, Requests
  <2> QED  BY <1>6, <2>1 DEF Parts, QueueInv
<1>16. ActiveInv'
  <2>1. ex.active # None => ex.active \in Requests /\ ex.active # r
    BY <1>2, <1>5 DEF Typed, Unborn
  <2> QED  BY <1>9, <2>1 DEF Parts, ActiveInv
<1>17. FacadeInv'  BY <1>3 DEF FacadeInv
<1>18. LifeInv'  BY <1>3, <1>7 DEF Parts, LifeInv, Idle
<1>19. TabInv'  BY <1>3, <1>6, <1>8, <1>11 DEF Parts, TabInv, Gone
<1>20. KeyInv'
  <2>1. run.pc # "none" => req[run.r].gen <= ex.gen /\ req[run.r].gen \in Nat /\ ex.gen \in Nat
    BY <1>5, <1>9 DEF Parts, RequestInv, Typed
  <2>2. run.pc # "none" /\ ex'.gen = ex.gen + 1 => req[run.r].gen # ex'.gen  BY <2>1
  <2> QED  BY <1>3, <1>8, <1>9, <2>2 DEF Parts, KeyInv, SnapshotsCurrent
<1>21. SessionInv'  BY DEF Parts, SessionInv, Running, Clean
<1>22. LedgerInv'
  <2>1. r \notin committed  BY <1>2 DEF Unborn
  <2>2. Applies \subseteq Requests /\ committed \subseteq Requests  BY <1>5 DEF Typed, Requests
  <2> QED  BY <2>1, <2>2 DEF Parts, LedgerInv
<1> QED
  BY <1>4, <1>12, <1>14, <1>15, <1>16, <1>17, <1>18, <1>19, <1>20, <1>21, <1>22 DEF Parts

(* start_analyze and enqueue_analysis.                                     *)
LEMMA EnqueueAnalysisKeeps ==
  ASSUME MutationIInv, NEW refresh \in BOOLEAN, EnqueueAnalysis(refresh)  PROVE MutationIInv'
<1> USE NoneApart DEF MutationIInv
<1> SUFFICES ASSUME NEW r, r = facade.r, NEW t, t = req[r].tab,
                    NEW x, x = IF refresh THEN Invalidated(ex) ELSE ex
             PROVE  MutationIInv'
  OBVIOUS
<1> DEFINE y == [x EXCEPT !.queued[t] = r, !.latest[t] = r]
           active == ex.active \in Analyses /\ req[ex.active].tab = t
           waits == [req EXCEPT ![r].pc = "waiting", ![r].gen = x.gen]
<1>1. /\ ex \in ExecutorStates /\ tasks \in TaskStates /\ req \in [Requests -> RequestStates]
      /\ facade.pc = "analyze" /\ facade' = Free /\ stopped \subseteq Requests
      /\ UNCHANGED <<run, server, committed, group, mgr, doc, keys, monitor>>
  BY DEF EnqueueAnalysis, TypeOK, databaseVars
<1>2. r \in Analyses /\ r \in Requests /\ r \in Nat /\ req[r].pc = "held" /\ t \in Tabs /\ doc[t] = "open"
      /\ mgr.executor # "none"
  BY <1>1, MutationAssumption DEF Parts, FacadeInv, RequestInv, Requests
<1>3. Unborn(r)  BY <1>2 DEF Parts, RequestInv
<1>4. worker' \in [pc : {"none", "next", "shut", "park", "busy", "exit"}, permit : BOOLEAN]
  BY DEF EnqueueAnalysis, NotifyOne, TypeOK
<1>5. /\ x \in ExecutorStates /\ x.closed = ex.closed /\ x.conn = ex.conn
      /\ x.queued = ex.queued /\ x.latest = ex.latest
      /\ x.active = ex.active /\ x.admitted = ex.admitted
      /\ x.interrupt = ex.interrupt /\ x.pending = ex.pending
      /\ \/ x.gen = ex.gen /\ x.snaps = ex.snaps
         \/ x.gen = ex.gen + 1 /\ x.snaps = {}
  <2>1. CASE refresh  BY <1>1, <2>1, InvalidatedFields
  <2>2. CASE ~refresh  BY <1>1, <2>2
  <2> QED  BY <2>1, <2>2
<1>6. /\ waits \in [Requests -> RequestStates]
      /\ waits[r].pc = "waiting" /\ waits[r].gen = x.gen /\ waits[r].tab = t
      /\ waits[r].reply = req[r].reply /\ waits[r].keys = req[r].keys
      /\ \A q \in Requests \ {r} : waits[q] = req[q]
  <2>1. x.gen \in Nat  BY <1>5 DEF ExecutorStates
  <2>2. PICK one : one = [req[r] EXCEPT !.pc = "waiting", !.gen = x.gen]  OBVIOUS
  <2>3. /\ one \in RequestStates /\ one.pc = "waiting" /\ one.gen = x.gen /\ one.tab = t
        /\ one.reply = req[r].reply /\ one.keys = req[r].keys
    <3>1. req[r] \in RequestStates  BY <1>1, <1>2
    <3>2. PICK g \in Nat : g = x.gen  BY <2>1
    <3>3. one = [req[r] EXCEPT !.pc = "waiting", !.gen = g]  BY <2>2, <3>2
    <3>4. /\ one \in RequestStates /\ one.pc = "waiting" /\ one.gen = g /\ one.tab = req[r].tab
          /\ one.reply = req[r].reply /\ one.keys = req[r].keys
      BY ONLY <3>1, <3>3, g \in Nat DEF RequestStates
    <3> QED  BY <3>2, <3>4
  <2>4. waits = [req EXCEPT ![r] = one]  BY <1>1, <1>2, <2>2
  <2> QED  BY <1>1, <1>2, <2>3, <2>4
<1>7. CASE /\ ex.closed \/ t \in ex.closingTabs
           /\ req' = Refused(req, r)
           /\ UNCHANGED <<ex, tasks, worker, stopped>>
  <2>1. PICK one : one = [req[r] EXCEPT !.pc = "settled", !.reply = "refused"]  OBVIOUS
  <2>2. /\ one \in RequestStates /\ one.pc = "settled" /\ one.reply = "refused" /\ one.gen = req[r].gen
        /\ one.tab = t
    <3>1. req[r] \in RequestStates  BY <1>1, <1>2
    <3> QED  BY ONLY <2>1, <3>1, t = req[r].tab DEF RequestStates, Answers
  <2>3. req' = [req EXCEPT ![r] = one]  BY <1>1, <1>2, <1>7, <2>1 DEF Refused
  <2>4. req[r].gen <= ex.gen  BY <1>2 DEF Parts, RequestInv
  <2>5. AnswerHeld(r)
    BY <1>1, <1>2, <1>4, <1>7, <2>2, <2>3, <2>4 DEF AnswerHeld, SameOrInvalidated
  <2> QED  BY <2>5, AnswerHeldKeeps
<1>8. CASE /\ ex' = x /\ req' = Reply(waits, {r}, "refused")
           /\ UNCHANGED <<tasks, stopped>>
  <2> HIDE DEF waits
  <2>1. /\ req' \in [Requests -> RequestStates]
        /\ \A q \in Requests :
             /\ req'[q].pc = waits[q].pc /\ req'[q].tab = waits[q].tab /\ req'[q].gen = waits[q].gen
             /\ req'[q].reply = IF q \in {r} /\ waits[q].reply = "none" THEN "refused" ELSE waits[q].reply
    BY <1>6, <1>8, ReplyFields DEF Answers
  <2>2. \A q \in Requests \ {r} : req'[q] = req[q]  BY <1>6, <1>8 DEF Reply
  <2>3. req'[r].reply = "refused"  BY <1>2, <1>3, <1>6, <2>1 DEF Unborn
  <2>4. req'[r].gen <= ex'.gen
    <3>1. ex'.gen \in Nat  BY <1>5, <1>8 DEF ExecutorStates
    <3>2. req'[r].gen = ex'.gen  BY <1>2, <1>6, <1>8, <2>1
    <3> QED  BY <3>1, <3>2
  <2>5. AnswerHeld(r)
    BY <1>1, <1>2, <1>4, <1>5, <1>6, <1>8, <2>1, <2>2, <2>3, <2>4 DEF AnswerHeld, SameOrInvalidated
  <2> QED  BY <2>5, AnswerHeldKeeps
<1>9. CASE /\ ~ex.closed
           /\ IF active THEN Interrupts(y, "supersede", "task") ELSE ex' = y /\ UNCHANGED tasks
           /\ req' = Reply(waits, QueuedOf(t), "refused")
           /\ stopped' = stopped \cup QueuedOf(t) \cup (IF active THEN {ex.active} ELSE {})
  <2>1. /\ y \in ExecutorStates /\ y.closed = ex.closed /\ y.conn = ex.conn
        /\ y.queued = [ex.queued EXCEPT ![t] = r]
        /\ y.active = ex.active /\ y.admitted = ex.admitted
        /\ y.interrupt = ex.interrupt /\ y.pending = ex.pending /\ y.gen = x.gen /\ y.snaps = x.snaps
    <3>1. x.queued \in [Tabs -> Slots] /\ x.latest \in [Tabs -> Nat] /\ r \in Slots
      BY <1>2, <1>5 DEF ExecutorStates, Slots
    <3>2. PICK f \in [Tabs -> Slots] : f = [x.queued EXCEPT ![t] = r]  BY <3>1
    <3>3. PICK g \in [Tabs -> Nat] : g = [x.latest EXCEPT ![t] = r]  BY <1>2, <3>1
    <3>4. y = [x EXCEPT !.queued = f, !.latest = g]  BY <1>5, <3>2, <3>3 DEF ExecutorStates
    <3> HIDE DEF y
    <3>5. /\ y \in ExecutorStates /\ y.closed = x.closed /\ y.conn = x.conn /\ y.queued = f
          /\ y.active = x.active /\ y.admitted = x.admitted
          /\ y.interrupt = x.interrupt /\ y.pending = x.pending /\ y.gen = x.gen /\ y.snaps = x.snaps
      <4>1. x \in ExecutorStates  BY <1>5
      <4> QED  BY <3>4, <4>1 DEF ExecutorStates
    <3> QED  BY <1>5, <3>2, <3>5
  <2> HIDE DEF y, waits
  <2>2. /\ ex' \in ExecutorStates /\ tasks' \in TaskStates
        /\ ex'.interrupt = (IF active THEN "supersede" ELSE ex.interrupt)
        /\ ex'.pending = (IF active /\ ex.pending = None /\ ex.conn # "none" THEN ex.active ELSE ex.pending)
        /\ ex'.closed = ex.closed /\ ex'.conn = ex.conn
        /\ ex'.gen = x.gen /\ ex'.snaps = x.snaps
        /\ ex'.queued = [ex.queued EXCEPT ![t] = r]
        /\ ex'.active = ex.active /\ ex'.admitted = ex.admitted
        /\ tasks'.close = tasks.close /\ tasks'.tabs = tasks.tabs
        /\ tasks'.cancel = (IF active /\ ex.pending = None /\ ex.conn # "none" THEN "task" ELSE tasks.cancel)
    BY <1>1, <1>9, <2>1, InterruptsFields
  <2>3. /\ req' \in [Requests -> RequestStates]
        /\ \A q \in Requests :
             /\ req'[q].pc = waits[q].pc /\ req'[q].tab = waits[q].tab
             /\ req'[q].gen = waits[q].gen /\ req'[q].keys = waits[q].keys
             /\ req'[q].reply = IF q \in QueuedOf(t) /\ waits[q].reply = "none" THEN "refused" ELSE waits[q].reply
    BY <1>6, <1>9, ReplyFields DEF Answers
  <2>4. \A u \in Tabs : \A q \in QueuedOf(u) :
          /\ q \in Analyses /\ q \in Requests /\ q # r /\ req[q].tab = u /\ req[q].pc = "waiting"
          /\ req[q].reply = "none" /\ q \notin stopped /\ q # ex.active /\ q \notin ex.snaps
    BY <1>2 DEF Parts, QueueInv, Requests
  <2>5. r # ex.active /\ r \notin stopped /\ r \notin committed /\ r \notin ex.snaps /\ req[r].reply = "none"
    BY <1>3 DEF Unborn
  <2>6. /\ req'[r].pc = "waiting" /\ req'[r].tab = t /\ req'[r].gen = x.gen /\ req'[r].reply = "none"
        /\ \A q \in Requests \ {r} :
             /\ req'[q].pc = req[q].pc /\ req'[q].tab = req[q].tab
             /\ req'[q].gen = req[q].gen /\ req'[q].keys = req[q].keys
             /\ req'[q].reply = IF q \in QueuedOf(t) THEN "refused" ELSE req[q].reply
    BY <1>2, <1>6, <2>3, <2>4, <2>5
  <2>7. /\ QueuedOf(t)' = {r}
        /\ \A u \in Tabs : u # t => QueuedOf(u)' = QueuedOf(u)
    BY <1>1, <1>2, <2>2 DEF QueuedOf, ExecutorStates
  <2>8. Free \in FacadeStates /\ Free.pc = "free" /\ ~Free.forced  BY DEF Free, FacadeStates
  <2>9. active => ex.active \in Requests /\ ex.active \notin Applies /\ ex.active # None
    BY MutationAssumption DEF Requests
  <2>10. stopped' \subseteq Requests  BY <1>1, <1>2, <1>9, <2>4, <2>9
  <2>11. TypeOK'  BY <1>1, <1>4, <2>2, <2>3, <2>8, <2>10 DEF TypeOK
  <2>12. Typed /\ Typed'  BY <2>11, FieldTypes, PTL
  <2>13. active => ~ex.admitted  BY <2>9 DEF Parts, StopInv
  <2> HIDE DEF active
  <2>14. RunInv'  BY <1>1, <2>2 DEF Parts, RunInv
  <2>15. StopInv'
    <3>1. ex'.active \in stopped' => Interrupted' /\ ~ex'.admitted
      BY <1>2, <1>9, <2>2, <2>4, <2>13 DEF Parts, StopInv, Interrupted
    <3>2. ex'.pending # None => ex'.pending \in stopped' /\ ex'.active \in {None, ex'.pending}
                                /\ ex'.pending \in Requests
      BY <1>9, <2>2, <2>9 DEF Parts, StopInv
    <3>3. tasks'.cancel # "none" => ex'.pending # None
      BY <2>2, <2>9 DEF Parts, StopInv
    <3>4. ex'.admitted =>
            /\ ex'.interrupt = "none" /\ ex'.active \in Applies
            /\ run'.pc # "none" => run'.pc \in {"commit", "healthy", "unhealthy", "finish"}
      BY <1>1, <2>2, <2>13 DEF Parts, StopInv
    <3>5. tasks'.close # "cancel"  BY <1>9, <2>2 DEF Parts, StopInv
    <3> QED  BY ONLY <3>1, <3>2, <3>3, <3>4, <3>5 DEF StopInv
  <2>16. ex'.gen >= ex.gen  BY <1>1, <1>5, <2>2 DEF ExecutorStates
  <2>17. \A q \in Requests \ {r} : Unborn(q) /\ req[q].pc = "new" => Unborn(q)'
    <3> SUFFICES ASSUME NEW q \in Requests \ {r}, Unborn(q), req[q].pc = "new"  PROVE Unborn(q)'
      OBVIOUS
    <3>1. q \notin QueuedOf(t)  BY <1>2, <2>4
    <3>2. active => ex.active # q  BY DEF Unborn
    <3>3. q \notin stopped'  BY <1>9, <3>1, <3>2 DEF Unborn
    <3>4. q \notin ex'.snaps /\ q # ex'.active  BY <1>5, <2>2 DEF Unborn
    <3> QED  BY <1>1, <2>6, <3>1, <3>3, <3>4 DEF Unborn
  <2>18. RequestInv'
    <3> SUFFICES ASSUME NEW q \in Requests
                 PROVE  /\ req'[q].gen <= ex'.gen
                        /\ req'[q].pc # "new" => req'[q].tab \in Tabs /\ doc'[req'[q].tab] # "none"
                        /\ req'[q].pc \in {"new", "held"} => Unborn(q)'
                        /\ req'[q].pc # "held"
                        /\ req'[q].pc = "waiting" /\ req'[q].reply = "none" =>
                             q \in Queued' \/ (run'.pc # "none" /\ run'.r = q)
      BY DEF RequestInv
    <3>1. r \in Queued'  BY <1>2, <2>7 DEF Queued
    <3>2. CASE q = r  BY <1>1, <1>2, <2>2, <2>6, <2>12, <3>1, <3>2 DEF Typed
    <3>3. CASE q # r
      <4>1. req[q].pc # "held"  BY <3>3 DEF Parts, RequestInv
      <4>2. req[q].gen <= ex.gen /\ req[q].gen \in Nat /\ ex.gen \in Nat /\ ex'.gen \in Nat
        BY <2>12 DEF Parts, RequestInv, Typed
      <4>3. req[q].gen <= ex'.gen  BY <2>16, <4>2
      <4>4. req[q].pc = "new" => Unborn(q)'  BY <2>17, <3>3 DEF Parts, RequestInv
      <4>5. q \in Queued /\ q \notin QueuedOf(t) => q \in Queued'
        BY <2>7 DEF Queued
      <4> QED  BY <1>1, <2>6, <3>3, <4>1, <4>3, <4>4, <4>5 DEF Parts, RequestInv
    <3> QED  BY <3>2, <3>3
  <2>19. QueueInv'
    <3> SUFFICES ASSUME NEW u \in Tabs, NEW q \in QueuedOf(u)'
                 PROVE  /\ q \in Analyses /\ req'[q].tab = u
                        /\ req'[q].pc = "waiting" /\ req'[q].reply = "none"
                        /\ q \notin stopped' /\ q # ex'.active /\ q \notin ex'.snaps
      BY DEF QueueInv
    <3>1. CASE u = t
      <4>1. q = r /\ r \notin QueuedOf(t)  BY <1>2, <2>4, <2>7, <3>1
      <4>2. r \notin stopped'  BY <1>9, <2>5, <4>1
      <4>3. r # ex'.active /\ r \notin ex'.snaps  BY <1>5, <2>2, <2>5
      <4> QED  BY <1>2, <2>6, <3>1, <4>1, <4>2, <4>3
    <3>2. CASE u # t
      <4>1. q \in QueuedOf(u) /\ q \notin QueuedOf(t)  BY <1>2, <2>4, <2>7, <3>2
      <4>2. /\ q \in Analyses /\ q \in Requests /\ q # r /\ req[q].tab = u /\ req[q].pc = "waiting"
            /\ req[q].reply = "none" /\ q \notin stopped /\ q # ex.active /\ q \notin ex.snaps
        BY <2>4, <4>1
      <4>3. q \notin stopped'  BY <1>9, <4>1, <4>2
      <4>4. q # ex'.active /\ q \notin ex'.snaps  BY <1>5, <2>2, <4>2
      <4> QED  BY <2>6, <4>1, <4>2, <4>3, <4>4
    <3> QED  BY <3>1, <3>2
  <2>20. ActiveInv'
    <3>1. run.pc # "none" => run.r \in Requests /\ run.r = ex.active  BY DEF Parts, RunInv
    <3>2. ex.active # None => ex.active \in Requests \ {r} /\ ex.active \notin QueuedOf(t)
      BY <1>2, <2>4, <2>5, <2>12 DEF Typed
    <3> QED  BY <1>1, <2>2, <2>6, <3>1, <3>2 DEF Parts, ActiveInv
  <2>21. FacadeInv'  BY <1>1, <2>8 DEF FacadeInv
  <2>22. ~group.aborted => mgr.executor = "current"
    BY <1>1, <1>2, <1>9, <2>12 DEF Parts, LifeInv, Typed
  <2>23. LifeInv'
    BY <1>1, <1>2, <1>9, <2>2, <2>8, <2>22 DEF Parts, LifeInv, Idle
  <2>24. TabInv'
    <3>1. run.pc # "none" => run.r \in Requests /\ run.r # r  BY <2>5 DEF Parts, RunInv
    <3>2. tasks.cancel # "none" => ex.pending \in Requests /\ ex.pending # r
      BY <2>5 DEF Parts, StopInv
    <3>3. active => ex.active \in Requests \ {r} /\ req[ex.active].tab = t
      BY <2>5, <2>9 DEF active
    <3>4. \A u \in Tabs : u # t /\ Working(u)' => Working(u)
      BY <1>1, <2>2, <2>6, <3>1, <3>2, <3>3 DEF Working
    <3>5. \A a \in ex'.snaps : a \in ex.snaps /\ a \in Requests \ {r}
      BY <1>5, <2>2, <2>5, <2>12 DEF Typed, Requests
    <3>6. \A u \in Tabs : u # t /\ Gone(u) => Gone(u)'
      BY <1>1, <2>6, <2>7, <3>4, <3>5 DEF Gone
    <3> QED  BY <1>1, <1>2, <2>8, <3>6 DEF Parts, TabInv
  <2>25. KeyInv'
    <3>1. run.pc # "none" => run.r \in Requests \ {r}  BY <2>5 DEF Parts, RunInv
    <3>2. run.pc # "none" => req[run.r].gen <= ex.gen /\ req[run.r].gen \in Nat /\ ex.gen \in Nat
      BY <2>12, <3>1 DEF Parts, RequestInv, Typed
    <3>3. run.pc # "none" /\ ex'.gen = ex.gen + 1 => req[run.r].gen # ex'.gen  BY <3>2
    <3>4. \A a \in ex.snaps : a \in Requests \ {r}  BY <2>5, <2>12 DEF Typed, Requests
    <3> QED
      BY <1>1, <1>5, <2>2, <2>6, <2>8, <3>1, <3>3, <3>4 DEF Parts, KeyInv, SnapshotsCurrent
  <2>26. SessionInv'  BY <1>1, <2>2 DEF Parts, SessionInv, Running, Clean
  <2>27. LedgerInv'
    <3>1. Applies \subseteq Requests /\ committed \subseteq Applies  BY <2>12 DEF Typed, Requests
    <3>2. \A q \in Applies : q \notin QueuedOf(t) /\ q # r
      BY <1>2, <2>4, MutationAssumption
    <3>3. committed \cap stopped' = {}  BY <1>9, <2>9, <3>1, <3>2 DEF Parts, LedgerInv
    <3>4. \A q \in Applies : req'[q].reply = req[q].reply  BY <2>6, <3>1, <3>2
    <3> QED  BY <1>1, <2>2, <3>1, <3>3, <3>4 DEF Parts, LedgerInv
  <2> QED
    BY <2>11, <2>14, <2>15, <2>18, <2>19, <2>20, <2>21, <2>23, <2>24, <2>25, <2>26, <2>27 DEF Parts
<1> QED  BY <1>7, <1>8, <1>9 DEF EnqueueAnalysis

----------------------------------------------------------------------------
(* A request starts, and waits that end.                                   *)

(* Request `r` becomes the active one; `E` leave the queue unanswered.     *)
BeginsStep(r, E) ==
    /\ TurnFree /\ mgr.executor # "none"
    /\ r \in Requests /\ r \notin stopped /\ r \notin committed /\ r \notin ex.snaps /\ r \notin E
    /\ req[r].pc \in {"held", "waiting"} /\ req[r].reply = "none"
    /\ E \subseteq Queued
    /\ \/ r \in QueuedOf(req[r].tab) /\ facade' = facade /\ req[r].pc = "waiting"
       \/ facade.r = r /\ facade.pc = "apply" /\ doc[req[r].tab] = "open" /\ facade' = Free
          /\ req[r].pc = "held"
    /\ run'.pc = "check" /\ run'.r = r /\ run'.left <= Statements
    /\ (r \in Applies => run'.left = Statements)
    /\ UNCHANGED <<server, committed, tasks, group, mgr, doc, keys, monitor, stopped>>
    /\ ex'.active = r /\ ex'.interrupt = "none" /\ ~ex'.admitted
    /\ ex'.closed = ex.closed /\ ex'.conn = ex.conn /\ ex'.gen = ex.gen /\ ex'.snaps = ex.snaps
    /\ ex'.pending = ex.pending
    /\ \A u \in Tabs : QueuedOf(u)' = QueuedOf(u) \ (E \cup {r})
    /\ \A q \in Requests :
        /\ req'[q].pc = (IF q = r THEN "waiting" ELSE req[q].pc)
        /\ req'[q].tab = req[q].tab /\ req'[q].gen = req[q].gen /\ req'[q].keys = req[q].keys
        /\ req'[q].reply = IF q \in E THEN "refused" ELSE req[q].reply

(* The start of a request keeps the invariant.                             *)
LEMMA BeginsKeeps ==
  ASSUME Typed, Typed', Parts, NEW r, NEW E, BeginsStep(r, E)
  PROVE  Parts'
<1> USE NoneApart DEF BeginsStep
<1>1. ex.active = None /\ ex.pending = None /\ ~ex.closed  BY DEF TurnFree
<1>2. run.pc = "none"  BY <1>1 DEF Parts, RunInv
<1>3. \A u \in Tabs : \A q \in QueuedOf(u) :
        /\ q \in Analyses /\ q \in Requests /\ req[q].tab = u /\ req[q].pc = "waiting"
        /\ req[q].reply = "none" /\ q \notin stopped /\ q \notin ex.snaps
  BY DEF Parts, QueueInv, Requests
<1>4. E \subseteq Analyses /\ E \subseteq Requests /\ \A q \in E : req[q].pc = "waiting"
  BY <1>3 DEF Queued
<1>5. Queued' = Queued \ (E \cup {r})  BY DEF Queued
<1>6. RunInv'
  BY MutationAssumption DEF RunInv, AnalysisSteps, ApplySteps, TransactionSteps
<1>7. StopInv'
  BY <1>1, <1>2 DEF Parts, StopInv
<1>8. \A q \in Requests : req[q].pc = "new" => q # r /\ q \notin E /\ Unborn(q)'
  <2> SUFFICES ASSUME NEW q \in Requests, req[q].pc = "new"
               PROVE  q # r /\ q \notin E /\ Unborn(q)'
    OBVIOUS
  <2>1. Unborn(q)  BY DEF Parts, RequestInv
  <2>2. q # r /\ q \notin E  BY <1>4
  <2> QED  BY <2>1, <2>2 DEF Unborn
<1>9. RequestInv'
  <2> SUFFICES ASSUME NEW q \in Requests
               PROVE  /\ req'[q].gen <= ex'.gen
                      /\ req'[q].pc # "new" => req'[q].tab \in Tabs /\ doc'[req'[q].tab] # "none"
                      /\ req'[q].pc \in {"new", "held"} => Unborn(q)'
                      /\ req'[q].pc = "held" => facade'.r = q /\ facade'.pc \in {"analyze", "apply"}
                      /\ req'[q].pc = "waiting" /\ req'[q].reply = "none" =>
                           q \in Queued' \/ (run'.pc # "none" /\ run'.r = q)
    BY DEF RequestInv
  <2>1. CASE q = r
    BY <2>1 DEF Parts, RequestInv
  <2>2. CASE q # r
    <3>1. req[q].pc = "held" => facade' = facade /\ Unborn(q)
      BY <2>2 DEF Parts, RequestInv
    <3>2. req[q].pc = "held" => Unborn(q)'
      BY <1>4, <2>2, <3>1 DEF Unborn
    <3>3. req'[q].reply = "none" => q \notin E  OBVIOUS
    <3> QED  BY <1>2, <1>5, <1>8, <2>2, <3>1, <3>2, <3>3 DEF Parts, RequestInv
  <2> QED  BY <2>1, <2>2
<1>10. QueueInv'
  <2> SUFFICES ASSUME NEW u \in Tabs, NEW q \in QueuedOf(u)'
               PROVE  /\ q \in Analyses /\ req'[q].tab = u
                      /\ req'[q].pc = "waiting" /\ req'[q].reply = "none"
                      /\ q \notin stopped' /\ q # ex'.active /\ q \notin ex'.snaps
    BY DEF QueueInv
  <2>1. q \in QueuedOf(u) /\ q \notin E /\ q # r  OBVIOUS
  <2>2. /\ q \in Analyses /\ q \in Requests /\ req[q].tab = u /\ req[q].pc = "waiting"
        /\ req[q].reply = "none" /\ q \notin stopped /\ q \notin ex.snaps
    BY <1>3, <2>1
  <2> QED  BY <2>1, <2>2
<1>11. ActiveInv'  BY DEF ActiveInv
<1>12. Free.pc = "free" /\ ~Free.forced  BY DEF Free
<1>13. FacadeInv'
  <2>1. CASE facade' = Free  BY <1>12, <2>1 DEF FacadeInv
  <2>2. CASE facade' = facade /\ req[r].pc = "waiting"
    <3>1. facade.pc \in {"analyze", "apply"} => facade.r \in Requests /\ facade.r # r
      BY <2>2 DEF Parts, FacadeInv
    <3> QED  BY <2>2, <3>1 DEF Parts, FacadeInv
  <2> QED  BY <2>1, <2>2
<1>17. ~group.aborted => group.registered /\ (mgr.executor = "gone" => facade' = facade /\ facade.pc = "join")
  <2> SUFFICES ASSUME ~group.aborted
               PROVE  group.registered /\ (mgr.executor = "gone" => facade' = facade /\ facade.pc = "join")
    OBVIOUS
  <2>1. mgr.executor = "gone" => tasks.close = "mark" /\ facade.pc = "join"
    BY <1>1 DEF Parts, LifeInv
  <2>2. mgr.executor = "gone" => group.registered  BY <2>1 DEF Parts, LifeInv, Idle
  <2>3. mgr.executor \in {"gone", "current"}  BY DEF Typed
  <2> QED  BY <2>1, <2>2, <2>3 DEF Parts, LifeInv
<1>18. LifeInv'
  BY <1>1, <1>5, <1>12, <1>17 DEF Parts, LifeInv, Idle
<1>19. TabInv'
  <2> SUFFICES ASSUME ~group.aborted  PROVE TabInv'
    BY DEF TabInv
  <2>1. tasks.cancel = "none"  BY <1>1 DEF Parts, StopInv
  <2>2. ex.snaps \subseteq Requests  BY DEF Typed, Requests
  <2>3. \A u \in Tabs : Gone(u) /\ u # req[r].tab => Gone(u)'
    BY <2>1, <2>2 DEF Gone, Working
  <2>4. \A u \in Tabs : Gone(u) => r \notin QueuedOf(u)  BY DEF Gone
  <2>5. CASE facade' = Free /\ doc[req[r].tab] = "open"
    BY <1>12, <2>3, <2>5 DEF Parts, TabInv
  <2>6. CASE facade' = facade /\ r \in QueuedOf(req[r].tab)
    <3>1. \A u \in Tabs : Gone(u) => Gone(u)'  BY <2>3, <2>4, <2>6
    <3> QED  BY <2>6, <3>1 DEF Parts, TabInv, FacadeInv
  <2> QED  BY <2>5, <2>6
<1>20. KeyInv'
  <2>1. ex.snaps \subseteq Requests  BY DEF Typed, Requests
  <2>2. facade'.pc = "save" <=> facade.pc = "save"  BY <1>12
  <2> QED  BY <2>1, <2>2 DEF Parts, KeyInv, SnapshotsCurrent
<1>21. SessionInv'
  BY <1>1 DEF Parts, SessionInv, Running, Clean, StatementSteps, TransactionSteps
<1>22. LedgerInv'
  <2>1. Applies \subseteq Requests /\ committed \subseteq Applies  BY DEF Typed, Requests
  <2>2. \A q \in Applies : req'[q].reply = req[q].reply  BY <1>4, <2>1, MutationAssumption
  <2>3. server.stmt = "none"  BY <1>1 DEF Parts, SessionInv
  <2>4. \A q \in committed : req[q].reply # "none"  BY <1>1, <2>1 DEF Parts, LedgerInv
  <2> QED  BY <2>1, <2>2, <2>3, <2>4 DEF Parts, LedgerInv
<1> QED
  BY <1>6, <1>7, <1>9, <1>10, <1>11, <1>13, <1>18, <1>19, <1>20, <1>21, <1>22 DEF Parts

(* Requests `E` leave the queue refused, and waiters may go. *)
DropStep(E) ==
    /\ E \subseteq Queued
    /\ UNCHANGED <<run, server, committed, group, mgr, doc, facade, keys, monitor, stopped>>
    /\ tasks'.close = tasks.close /\ tasks'.cancel = tasks.cancel
    /\ ex'.active = ex.active /\ ex'.interrupt = ex.interrupt /\ ex'.admitted = ex.admitted
    /\ ex'.closed = ex.closed /\ ex'.conn = ex.conn /\ ex'.gen = ex.gen
    /\ ex'.snaps \subseteq ex.snaps
    /\ ex'.pending = ex.pending
    /\ \A u \in Tabs : QueuedOf(u)' = QueuedOf(u) \ E
    /\ \A q \in Requests :
        /\ \/ req'[q].pc = req[q].pc
           \/ /\ req[q].pc = "waiting" /\ req'[q].pc = "settled"
              /\ q \in E \/ req[q].reply # "none" \/ q \in Applies
        /\ req'[q].tab = req[q].tab /\ req'[q].gen = req[q].gen /\ req'[q].keys = req[q].keys
        /\ (q \in E => req'[q].reply \in {"refused", "lost"})
        /\ (q \notin E => req'[q].reply = req[q].reply)

(* What such a step keeps.                                                 *)
LEMMA DropCore ==
  ASSUME Typed, Typed', Parts, NEW E, DropStep(E)
  PROVE  /\ RunInv' /\ StopInv' /\ RequestInv' /\ QueueInv' /\ ActiveInv' /\ FacadeInv'
         /\ KeyInv' /\ SessionInv' /\ LedgerInv'
         /\ \A u \in Tabs : Gone(u) => Gone(u)'
         /\ Queued' \subseteq Queued
<1> USE NoneApart DEF DropStep
<1>1. \A u \in Tabs : \A q \in QueuedOf(u) :
        /\ q \in Analyses /\ q \in Requests /\ req[q].tab = u /\ req[q].pc = "waiting"
        /\ req[q].reply = "none" /\ q \notin stopped /\ q # ex.active /\ q \notin ex.snaps
  BY DEF Parts, QueueInv, Requests
<1>2. \A q \in E : q \in Analyses /\ q \in Requests /\ q # ex.active /\ req[q].pc = "waiting"
  BY <1>1 DEF Queued
<1>3. Queued' = Queued \ E  BY DEF Queued
<1>4. run.pc # "none" => run.r \in Requests /\ run.r = ex.active  BY DEF Parts, RunInv
<1>5. RunInv' /\ StopInv'  BY DEF Parts, RunInv, StopInv, Interrupted
<1>6. RequestInv'
  <2> SUFFICES ASSUME NEW q \in Requests
               PROVE  /\ req'[q].gen <= ex'.gen
                      /\ req'[q].pc # "new" => req'[q].tab \in Tabs /\ doc'[req'[q].tab] # "none"
                      /\ req'[q].pc \in {"new", "held"} => Unborn(q)'
                      /\ req'[q].pc = "held" => facade'.r = q /\ facade'.pc \in {"analyze", "apply"}
                      /\ req'[q].pc = "waiting" /\ req'[q].reply = "none" =>
                           q \in Queued' \/ (run'.pc # "none" /\ run'.r = q)
    BY DEF RequestInv
  <2>1. req'[q].pc \in {"new", "held"} => Unborn(q) /\ q \notin E /\ req[q].pc = req'[q].pc
    BY <1>2 DEF Parts, RequestInv
  <2>2. req'[q].pc \in {"new", "held"} => Unborn(q)'  BY <2>1 DEF Unborn
  <2> QED  BY <1>3, <2>1, <2>2 DEF Parts, RequestInv
<1>7. QueueInv'
  <2> SUFFICES ASSUME NEW u \in Tabs, NEW q \in QueuedOf(u)'
               PROVE  /\ q \in Analyses /\ req'[q].tab = u
                      /\ req'[q].pc = "waiting" /\ req'[q].reply = "none"
                      /\ q \notin stopped' /\ q # ex'.active /\ q \notin ex'.snaps
    BY DEF QueueInv
  <2>1. q \in QueuedOf(u) /\ q \notin E  OBVIOUS
  <2>2. /\ q \in Analyses /\ q \in Requests /\ req[q].tab = u /\ req[q].pc = "waiting"
        /\ req[q].reply = "none" /\ q \notin stopped /\ q # ex.active /\ q \notin ex.snaps
    BY <1>1, <2>1
  <2>3. q \notin Applies  BY <2>2, MutationAssumption
  <2> QED  BY <2>1, <2>2, <2>3
<1>8. ActiveInv'
  <2>1. run.pc # "none" => run.r \notin E  BY <1>2, <1>4
  <2>2. ex.active # None => ex.active \in Requests /\ ex.active \notin E
    BY <1>2 DEF Typed
  <2> QED  BY <1>4, <2>1, <2>2 DEF Parts, ActiveInv
<1>9. FacadeInv'
  <2>1. facade.pc \in {"analyze", "apply"} => facade.r \in Requests /\ req[facade.r].pc = "held"
    BY DEF Parts, FacadeInv
  <2> QED  BY <2>1 DEF Parts, FacadeInv
<1>10. \A u \in Tabs : Gone(u) => Gone(u)'
  <2>1. tasks.cancel # "none" => ex.pending \in Requests  BY DEF Parts, StopInv
  <2>2. \A u \in Tabs : Working(u)' <=> Working(u)  BY <1>4, <2>1 DEF Working
  <2>3. ex.snaps \subseteq Requests  BY DEF Typed, Requests
  <2> QED  BY <2>2, <2>3 DEF Gone
<1>11. Queued' \subseteq Queued  BY <1>3
<1>12. KeyInv'
  <2>1. ex.snaps \subseteq Requests  BY DEF Typed, Requests
  <2> QED  BY <1>4, <2>1 DEF Parts, KeyInv, SnapshotsCurrent
<1>13. SessionInv'  BY DEF Parts, SessionInv, Running, Clean
<1>14. LedgerInv'
  <2>1. Applies \subseteq Requests /\ committed \subseteq Applies  BY DEF Typed, Requests
  <2>2. \A q \in Applies : req'[q].reply = req[q].reply  BY <1>2, <2>1, MutationAssumption
  <2> QED  BY <2>1, <2>2 DEF Parts, LedgerInv
<1> QED
  BY <1>5, <1>6, <1>7, <1>8, <1>9, <1>10, <1>11, <1>12, <1>13, <1>14

(* Without a change of the tasks it keeps the invariant.                   *)
LEMMA DropKeeps ==
  ASSUME Typed, Typed', Parts, NEW E, DropStep(E), tasks' = tasks
  PROVE  Parts'
<1>1. /\ RunInv' /\ StopInv' /\ RequestInv' /\ QueueInv' /\ ActiveInv' /\ FacadeInv'
      /\ KeyInv' /\ SessionInv' /\ LedgerInv'
      /\ \A u \in Tabs : Gone(u) => Gone(u)'
      /\ Queued' \subseteq Queued
  BY DropCore
<1>2. LifeInv'  BY <1>1 DEF Parts, LifeInv, Idle, DropStep
<1>3. TabInv'  BY <1>1 DEF Parts, TabInv, FacadeInv, DropStep
<1> QED  BY <1>1, <1>2, <1>3 DEF Parts

(* The waiter has its reply.                                               *)
LEMMA ReceiveKeeps ==
  ASSUME MutationIInv, NEW r \in Requests, Receive(r)  PROVE MutationIInv'
<1> USE DEF MutationIInv
<1>1. /\ req \in [Requests -> RequestStates] /\ req[r].pc = "waiting" /\ req[r].reply # "none"
      /\ UNCHANGED <<ex, run, server, committed, worker, tasks, group, mgr, doc, facade, monitor, keys, stopped>>
      /\ req' = [req EXCEPT ![r].pc = "settled"]
  BY DEF Receive, TypeOK, databaseVars, lifecycleVars
<1>2. PICK one : one = [req[r] EXCEPT !.pc = "settled"]  OBVIOUS
<1>3. /\ one \in RequestStates /\ one.pc = "settled" /\ one.tab = req[r].tab /\ one.gen = req[r].gen
      /\ one.keys = req[r].keys /\ one.reply = req[r].reply
  BY <1>1, <1>2 DEF RequestStates
<1>4. req' = [req EXCEPT ![r] = one]  BY <1>1, <1>2
<1>5. TypeOK'  BY <1>1, <1>3, <1>4 DEF TypeOK
<1>6. Typed /\ Typed'  BY <1>5, FieldTypes, PTL
<1>7. \A u \in Tabs : QueuedOf(u)' = QueuedOf(u)  BY <1>1 DEF QueuedOf
<1>8. DropStep({})  BY <1>1, <1>3, <1>4, <1>7 DEF DropStep
<1> QED  BY <1>1, <1>5, <1>6, <1>8, DropKeeps

(* The caller of an apply is gone.                                         *)
LEMMA CallerDroppedKeeps ==
  ASSUME MutationIInv, NEW r \in Requests, CallerDropped(r)  PROVE MutationIInv'
<1> USE DEF MutationIInv
<1>1. /\ req \in [Requests -> RequestStates] /\ req[r].pc = "waiting" /\ r \in Applies
      /\ UNCHANGED <<ex, run, server, committed, worker, tasks, group, mgr, doc, facade, monitor, keys, stopped>>
      /\ req' = [req EXCEPT ![r].pc = "settled"]
  BY DEF CallerDropped, TypeOK, databaseVars, lifecycleVars
<1>2. PICK one : one = [req[r] EXCEPT !.pc = "settled"]  OBVIOUS
<1>3. /\ one \in RequestStates /\ one.pc = "settled" /\ one.tab = req[r].tab /\ one.gen = req[r].gen
      /\ one.keys = req[r].keys /\ one.reply = req[r].reply
  BY <1>1, <1>2 DEF RequestStates
<1>4. req' = [req EXCEPT ![r] = one]  BY <1>1, <1>2
<1>5. TypeOK'  BY <1>1, <1>3, <1>4 DEF TypeOK
<1>6. Typed /\ Typed'  BY <1>5, FieldTypes, PTL
<1>7. \A u \in Tabs : QueuedOf(u)' = QueuedOf(u)  BY <1>1 DEF QueuedOf
<1>8. DropStep({})  BY <1>1, <1>3, <1>4, <1>7 DEF DropStep
<1> QED  BY <1>1, <1>5, <1>6, <1>8, DropKeeps

(* An analysis leaves the queue at its deadline.                           *)
LEMMA QueueDeadlineKeeps ==
  ASSUME MutationIInv, NEW r \in Requests, QueueDeadline(r)  PROVE MutationIInv'
<1> USE NoneApart DEF MutationIInv
<1>1. /\ req \in [Requests -> RequestStates] /\ req[r].pc = "waiting" /\ r \in Queued
      /\ ex \in ExecutorStates
      /\ UNCHANGED <<run, server, committed, worker, tasks, group, mgr, doc, facade, monitor, keys, stopped>>
      /\ req' = [req EXCEPT ![r].pc = "settled", ![r].reply = "refused"]
      /\ ex' = [ex EXCEPT !.queued = Without(@, {r})]
  BY DEF QueueDeadline, Refused, TypeOK, databaseVars, lifecycleVars
<1>2. PICK one : one = [req[r] EXCEPT !.pc = "settled", !.reply = "refused"]  OBVIOUS
<1>3. /\ one \in RequestStates /\ one.pc = "settled" /\ one.tab = req[r].tab /\ one.gen = req[r].gen
      /\ one.keys = req[r].keys /\ one.reply = "refused"
  BY <1>1, <1>2 DEF RequestStates, Answers
<1>4. req' = [req EXCEPT ![r] = one]  BY <1>1, <1>2
<1>5. /\ ex' \in ExecutorStates /\ ex'.queued = Without(ex.queued, {r})
      /\ ex'.active = ex.active /\ ex'.interrupt = ex.interrupt /\ ex'.admitted = ex.admitted
      /\ ex'.closed = ex.closed /\ ex'.conn = ex.conn /\ ex'.gen = ex.gen /\ ex'.snaps = ex.snaps
      /\ ex'.pending = ex.pending
  <2>1. ex.queued \in [Tabs -> Slots]  BY <1>1 DEF ExecutorStates
  <2>2. PICK f \in [Tabs -> Slots] : f = Without(ex.queued, {r})  BY <2>1, WithoutSlots
  <2>3. ex' = [ex EXCEPT !.queued = f]  BY <1>1, <2>2 DEF ExecutorStates
  <2> QED  BY <1>1, <2>2, <2>3 DEF ExecutorStates
<1>6. TypeOK'
  <2>1. req' \in [Requests -> RequestStates]  BY <1>1, <1>3, <1>4
  <2>2. UNCHANGED <<run, server, committed, worker, tasks, group, mgr, doc, facade, monitor, keys, stopped>>
    BY <1>1
  <2>3. ex' \in ExecutorStates  BY <1>5
  <2> QED  BY <2>1, <2>2, <2>3 DEF TypeOK
<1>7. Typed /\ Typed'  BY <1>6, FieldTypes, PTL
<1>8. \A u \in Tabs : QueuedOf(u)' = QueuedOf(u) \ {r}
  BY <1>1, <1>5, <1>7, WithoutSlots DEF QueuedOf, Typed
<1>9. DropStep({r})  BY <1>1, <1>3, <1>4, <1>5, <1>8 DEF DropStep
<1> QED  BY <1>1, <1>6, <1>7, <1>9, DropKeeps

(* begin_apply: the apply starts, or is refused.                           *)
LEMMA BeginApplyKeeps ==
  ASSUME MutationIInv, BeginApply  PROVE MutationIInv'
<1> USE NoneApart DEF MutationIInv
<1> SUFFICES ASSUME NEW r, r = facade.r  PROVE MutationIInv'
  OBVIOUS
<1>1. /\ req \in [Requests -> RequestStates] /\ ex \in ExecutorStates
      /\ facade.pc = "apply" /\ facade' = Free
      /\ UNCHANGED <<server, committed, worker, tasks, group, mgr, doc, keys, monitor, stopped>>
      /\ worker \in [pc : {"none", "next", "shut", "park", "busy", "exit"}, permit : BOOLEAN]
  BY DEF BeginApply, TypeOK, databaseVars
<1>2. r \in Applies /\ r \in Requests /\ req[r].pc = "held" /\ req[r].tab \in Tabs
      /\ doc[req[r].tab] = "open" /\ mgr.executor # "none" /\ Unborn(r)
  BY <1>1 DEF Parts, FacadeInv, RequestInv
<1>3. CASE req' = Refused(req, r) /\ UNCHANGED <<ex, run>>
  <2>1. PICK one : one = [req[r] EXCEPT !.pc = "settled", !.reply = "refused"]  OBVIOUS
  <2>2. /\ one \in RequestStates /\ one.pc = "settled" /\ one.reply = "refused" /\ one.gen = req[r].gen
        /\ one.tab = req[r].tab
    <3>1. req[r] \in RequestStates  BY <1>1, <1>2
    <3> QED  BY ONLY <2>1, <3>1 DEF RequestStates, Answers
  <2>3. req' = [req EXCEPT ![r] = one]  BY <1>1, <1>2, <1>3, <2>1 DEF Refused
  <2>4. req[r].gen <= ex.gen  BY <1>2 DEF Parts, RequestInv
  <2>5. AnswerHeld(r)
    BY <1>1, <1>2, <1>3, <2>2, <2>3, <2>4 DEF AnswerHeld, SameOrInvalidated
  <2> QED  BY <2>5, AnswerHeldKeeps
<1>4. CASE MayBegin(r) /\ Begins(r) /\ req' = [req EXCEPT ![r].pc = "waiting"]
  <2>1. PICK one : one = [req[r] EXCEPT !.pc = "waiting"]  OBVIOUS
  <2>2. /\ one \in RequestStates /\ one.pc = "waiting" /\ one.tab = req[r].tab /\ one.gen = req[r].gen
        /\ one.keys = req[r].keys /\ one.reply = req[r].reply
    BY <1>1, <1>2, <2>1 DEF RequestStates
  <2>3. req' = [req EXCEPT ![r] = one]  BY <1>1, <1>4, <2>1
  <2>4. /\ ex' \in ExecutorStates /\ ex'.active = r /\ ex'.interrupt = "none" /\ ~ex'.admitted
        /\ ex'.closed = ex.closed /\ ex'.conn = ex.conn /\ ex'.gen = ex.gen /\ ex'.snaps = ex.snaps
        /\ ex'.pending = ex.pending /\ ex'.queued = ex.queued
    BY <1>1, <1>2, <1>4 DEF Begins, ExecutorStates
  <2>5. run' \in RunStates /\ run'.pc = "check" /\ run'.r = r /\ run'.left = Statements
    BY <1>2, <1>4, MutationAssumption DEF Begins, Resting, RunStates, Results
  <2>6. Free \in FacadeStates  BY DEF Free, FacadeStates
  <2>7. req' \in [Requests -> RequestStates]  BY <1>1, <2>2, <2>3
  <2>8. TypeOK'  BY <1>1, <2>4, <2>5, <2>6, <2>7 DEF TypeOK
  <2>9. Typed /\ Typed'  BY <2>8, FieldTypes, PTL
  <2>10. \A u \in Tabs : QueuedOf(u)' = QueuedOf(u) \ {r}
    <3>1. \A u \in Tabs : QueuedOf(u)' = QueuedOf(u)  BY <2>4 DEF QueuedOf
    <3>2. \A u \in Tabs : r \notin QueuedOf(u)  BY <1>2, MutationAssumption DEF Parts, QueueInv
    <3> QED  BY <3>1, <3>2
  <2>11. \A q \in Requests :
           /\ req'[q].pc = (IF q = r THEN "waiting" ELSE req[q].pc)
           /\ req'[q].tab = req[q].tab /\ req'[q].gen = req[q].gen /\ req'[q].keys = req[q].keys
           /\ req'[q].reply = req[q].reply
    BY <1>1, <2>2, <2>3
  <2>12. TurnFree  BY <1>4 DEF MayBegin
  <2>13. BeginsStep(r, {})
    BY <1>1, <1>2, <2>4, <2>5, <2>10, <2>11, <2>12, MutationAssumption DEF BeginsStep, Unborn
  <2> QED  BY <2>8, <2>9, <2>13, BeginsKeeps
<1> QED  BY <1>3, <1>4 DEF BeginApply

(* next_analysis: jobs past their deadline are answered, and another one   *)
(* starts.                                                                 *)
LEMMA NextAnalysisKeeps ==
  ASSUME MutationIInv, NEW expired, NextAnalysis(expired)  PROVE MutationIInv'
<1> USE NoneApart DEF MutationIInv
<1>1. /\ req \in [Requests -> RequestStates] /\ ex \in ExecutorStates /\ ex.queued \in [Tabs -> Slots]
      /\ TurnFree /\ expired \subseteq Queued
      /\ UNCHANGED <<server, committed, tasks, group, mgr, doc, facade, monitor, keys, stopped>>
      /\ req' = Reply(req, expired, "refused")
  BY DEF NextAnalysis, TypeOK, ExecutorStates, databaseVars, lifecycleVars
<1>2. \A u \in Tabs : \A q \in QueuedOf(u) :
        /\ q \in Analyses /\ q \in Requests /\ req[q].tab = u /\ req[q].pc = "waiting"
        /\ req[q].reply = "none" /\ q \notin stopped /\ q \notin ex.snaps
  BY DEF Parts, QueueInv, Requests
<1>3. \A q \in Queued : /\ q \in Analyses /\ q \in Requests /\ q \in QueuedOf(req[q].tab) /\ req[q].tab \in Tabs
                        /\ req[q].pc = "waiting" /\ req[q].reply = "none"
                        /\ q \notin stopped /\ q \notin ex.snaps
  BY <1>2 DEF Queued
<1>4. /\ req' \in [Requests -> RequestStates]
      /\ \A q \in Requests :
           /\ req'[q].pc = req[q].pc /\ req'[q].tab = req[q].tab
           /\ req'[q].gen = req[q].gen /\ req'[q].keys = req[q].keys
           /\ req'[q].reply = IF q \in expired THEN "refused" ELSE req[q].reply
  <2>1. /\ req' \in [Requests -> RequestStates]
        /\ \A q \in Requests :
             /\ req'[q].pc = req[q].pc /\ req'[q].tab = req[q].tab
             /\ req'[q].gen = req[q].gen /\ req'[q].keys = req[q].keys
             /\ req'[q].reply = IF q \in expired /\ req[q].reply = "none" THEN "refused" ELSE req[q].reply
    BY <1>1, ReplyFields DEF Answers
  <2>2. \A q \in expired : req[q].reply = "none"  BY <1>1, <1>3
  <2> QED  BY <2>1, <2>2
<1>5. worker' \in [pc : {"none", "next", "shut", "park", "busy", "exit"}, permit : BOOLEAN]
  <2>1. worker' = [worker EXCEPT !.pc = "shut"] \/ worker' = [pc |-> "busy", permit |-> FALSE]
    BY DEF NextAnalysis
  <2>2. worker \in [pc : {"none", "next", "shut", "park", "busy", "exit"}, permit : BOOLEAN]
    BY DEF TypeOK
  <2>3. CASE worker' = [worker EXCEPT !.pc = "shut"]  BY ONLY <2>2, <2>3
  <2>4. CASE worker' = [pc |-> "busy", permit |-> FALSE]  BY ONLY <2>4
  <2> QED  BY <2>1, <2>3, <2>4
<1>6. ASSUME NEW E, ex'.queued = Without(ex.queued, E)
      PROVE  \A u \in Tabs : QueuedOf(u)' = QueuedOf(u) \ E
  BY <1>1, <1>6, WithoutSlots DEF QueuedOf
<1>7. CASE ex' = [ex EXCEPT !.queued = Without(@, expired)] /\ UNCHANGED run
  <2>1. PICK f \in [Tabs -> Slots] : f = Without(ex.queued, expired)  BY <1>1, WithoutSlots
  <2>2. ex' = [ex EXCEPT !.queued = f]  BY <1>1, <1>7, <2>1 DEF ExecutorStates
  <2>3. /\ ex' \in ExecutorStates /\ ex'.queued = f
        /\ ex'.active = ex.active /\ ex'.interrupt = ex.interrupt /\ ex'.admitted = ex.admitted
        /\ ex'.closed = ex.closed /\ ex'.conn = ex.conn /\ ex'.gen = ex.gen /\ ex'.snaps = ex.snaps
        /\ ex'.pending = ex.pending
    BY <1>1, <2>2 DEF ExecutorStates
  <2>4. TypeOK'  BY <1>1, <1>4, <1>5, <1>7, <2>3 DEF TypeOK
  <2>5. Typed /\ Typed'  BY <2>4, FieldTypes, PTL
  <2>6. \A u \in Tabs : QueuedOf(u)' = QueuedOf(u) \ expired  BY <1>6, <2>1, <2>3
  <2>7. DropStep(expired)  BY <1>1, <1>4, <1>7, <2>3, <2>6 DEF DropStep
  <2> QED  BY <1>1, <2>4, <2>5, <2>7, DropKeeps
<1>8. ASSUME NEW r \in Queued \ expired,
             ex' = [ex EXCEPT !.queued = Without(@, expired \cup {r}), !.active = r,
                              !.interrupt = "none", !.admitted = FALSE],
             run' = [Resting EXCEPT !.pc = "check", !.r = r]
      PROVE  MutationIInv'
  <2>1. PICK f \in [Tabs -> Slots] : f = Without(ex.queued, expired \cup {r})  BY <1>1, WithoutSlots
  <2>2. ex' = [ex EXCEPT !.queued = f, !.active = r, !.interrupt = "none", !.admitted = FALSE]
    BY <1>1, <1>8, <2>1 DEF ExecutorStates
  <2>3. r \in Requests /\ r \in Analyses  BY <1>3
  <2>4. /\ ex' \in ExecutorStates /\ ex'.queued = f
        /\ ex'.active = r /\ ex'.interrupt = "none" /\ ~ex'.admitted
        /\ ex'.closed = ex.closed /\ ex'.conn = ex.conn /\ ex'.gen = ex.gen /\ ex'.snaps = ex.snaps
        /\ ex'.pending = ex.pending
    BY <1>1, <2>2, <2>3 DEF ExecutorStates
  <2>5. run' \in RunStates /\ run'.pc = "check" /\ run'.r = r /\ run'.left = 0
    BY <1>8, <2>3 DEF Resting, RunStates, Results
  <2>6. TypeOK'  BY <1>1, <1>4, <1>5, <2>4, <2>5 DEF TypeOK
  <2>7. Typed /\ Typed'  BY <2>6, FieldTypes, PTL
  <2>8. \A u \in Tabs : QueuedOf(u)' = QueuedOf(u) \ (expired \cup {r})  BY <1>6, <2>1, <2>4
  <2>9. r \notin Applies /\ r \notin committed
    BY <2>3, <2>7, MutationAssumption DEF Typed
  <2>10. mgr.executor # "none"  BY <1>8 DEF Parts, LifeInv
  <2>11. BeginsStep(r, expired)
    BY <1>1, <1>3, <1>4, <2>3, <2>4, <2>5, <2>8, <2>9, <2>10, MutationAssumption DEF BeginsStep
  <2> QED  BY <2>6, <2>7, <2>11, BeginsKeeps
<1> QED  BY <1>7, <1>8 DEF NextAnalysis

----------------------------------------------------------------------------
(* The gate and its fences: steps that leave the requests alone.           *)

(* The lifecycle moves; the executor may at most be closed, a task only    *)
(* ends or is about to start.                                              *)
GateStep ==
    /\ UNCHANGED <<run, server, committed, req, stopped>>
    /\ ex'.active = ex.active /\ ex'.interrupt = ex.interrupt /\ ex'.admitted = ex.admitted
    /\ ex'.conn = ex.conn /\ ex'.gen = ex.gen /\ ex'.snaps = ex.snaps
    /\ ex'.pending = ex.pending /\ ex'.queued = ex.queued /\ (ex.closed => ex'.closed)
    /\ tasks'.cancel \in {tasks.cancel, "none"}
    /\ (tasks'.close = "cancel" => tasks.close = "cancel")
    /\ (group.aborted => group'.aborted)
    /\ (facade.pc \in {"analyze", "apply"} => facade' = facade)
    /\ \A u \in Tabs : doc[u] # "none" => doc'[u] # "none"

(* What such a step keeps.                                                 *)
LEMMA GateKeeps ==
  ASSUME Typed, Typed', Parts, GateStep
  PROVE  /\ RunInv' /\ StopInv' /\ RequestInv' /\ QueueInv' /\ ActiveInv' /\ SessionInv' /\ LedgerInv'
         /\ Queued' = Queued
         /\ \A u \in Tabs : QueuedOf(u)' = QueuedOf(u) /\ (Working(u)' => Working(u))
<1> USE NoneApart DEF GateStep
<1>1. \A u \in Tabs : QueuedOf(u)' = QueuedOf(u)  BY DEF QueuedOf
<1>2. Queued' = Queued  BY <1>1 DEF Queued
<1>3. \A u \in Tabs : Working(u)' => Working(u)  BY DEF Working
<1>4. RunInv'  BY DEF Parts, RunInv
<1>5. StopInv'  BY DEF Parts, StopInv, Interrupted
<1>6. \A q \in Requests : Unborn(q)' <=> Unborn(q)  BY DEF Unborn
<1>7. RequestInv'  BY <1>2, <1>6 DEF Parts, RequestInv
<1>8. QueueInv' /\ ActiveInv'  BY <1>1 DEF Parts, QueueInv, ActiveInv
<1>9. SessionInv' /\ LedgerInv'  BY DEF Parts, SessionInv, LedgerInv, Running, Clean
<1> QED  BY <1>1, <1>2, <1>3, <1>4, <1>5, <1>7, <1>8, <1>9

(* The cancel's caller has its answer.                                     *)
LEMMA CancelDoneKeeps ==
  ASSUME MutationIInv, CancelDone  PROVE MutationIInv'
<1> USE NoneApart DEF MutationIInv
<1>1. /\ facade.pc = "cancel" /\ facade' = Free
      /\ UNCHANGED <<ex, run, server, committed, worker, tasks, group, mgr, doc, req, keys, monitor, stopped>>
  BY DEF CancelDone, databaseVars
<1>2. Free \in FacadeStates /\ Free.pc = "free" /\ ~Free.forced  BY DEF Free, FacadeStates
<1>3. TypeOK'  BY <1>1, <1>2 DEF TypeOK
<1>4. Typed /\ Typed'  BY <1>3, FieldTypes, PTL
<1>5. GateStep  BY <1>1 DEF GateStep
<1>6. /\ RunInv' /\ StopInv' /\ RequestInv' /\ QueueInv' /\ ActiveInv' /\ SessionInv' /\ LedgerInv'
      /\ Queued' = Queued
      /\ \A u \in Tabs : QueuedOf(u)' = QueuedOf(u) /\ (Working(u)' => Working(u))
  BY <1>4, <1>5, GateKeeps
<1>7. FacadeInv'  BY <1>1, <1>2 DEF FacadeInv
<1>8. LifeInv'  BY <1>1, <1>2, <1>6 DEF Parts, LifeInv, Idle
<1>9. TabInv'  BY <1>1, <1>2, <1>6 DEF Parts, TabInv, Gone
<1>10. KeyInv'  BY <1>1, <1>2 DEF Parts, KeyInv, SnapshotsCurrent
<1> QED  BY <1>3, <1>6, <1>7, <1>8, <1>9, <1>10 DEF Parts

(* A virtual key is stored; the invalidation is still to come.             *)
LEMMA KeyStoredKeeps ==
  ASSUME MutationIInv, NEW t \in Tabs, KeyStored(t)  PROVE MutationIInv'
<1> USE NoneApart DEF MutationIInv
<1>1. /\ facade = Free /\ facade' = [Free EXCEPT !.pc = "save"] /\ keys \in Nat /\ keys' = keys + 1
      /\ UNCHANGED <<ex, run, server, committed, worker, tasks, group, mgr, doc, req, monitor, stopped>>
  BY DEF KeyStored, TypeOK, databaseVars
<1>2. /\ facade' \in FacadeStates /\ facade'.pc = "save" /\ ~facade'.forced /\ facade.pc = "free"
  BY <1>1 DEF Free, FacadeStates
<1>3. keys' \in Nat  BY <1>1
<1>4. TypeOK'  BY <1>1, <1>2, <1>3 DEF TypeOK
<1>5. Typed /\ Typed'  BY <1>4, FieldTypes, PTL
<1>6. GateStep  BY <1>1, <1>2 DEF GateStep
<1>7. /\ RunInv' /\ StopInv' /\ RequestInv' /\ QueueInv' /\ ActiveInv' /\ SessionInv' /\ LedgerInv'
      /\ Queued' = Queued
      /\ \A u \in Tabs : QueuedOf(u)' = QueuedOf(u) /\ (Working(u)' => Working(u))
  BY <1>5, <1>6, GateKeeps
<1>8. FacadeInv'  BY <1>2 DEF FacadeInv
<1>9. LifeInv'  BY <1>1, <1>2, <1>7 DEF Parts, LifeInv, Idle
<1>10. TabInv'  BY <1>1, <1>2, <1>7 DEF Parts, TabInv, Gone
<1>11. KeyInv'  BY <1>1, <1>2 DEF Parts, KeyInv, SnapshotsCurrent
<1> QED  BY <1>4, <1>7, <1>8, <1>9, <1>10, <1>11 DEF Parts

(* The invalidation behind a stored key.                                   *)
LEMMA KeyInvalidatedKeeps ==
  ASSUME MutationIInv, KeyInvalidated  PROVE MutationIInv'
<1> USE NoneApart DEF MutationIInv
<1>1. /\ ex \in ExecutorStates /\ facade.pc = "save" /\ facade' = Free
      /\ UNCHANGED <<run, server, committed, worker, tasks, group, mgr, doc, req, keys, monitor, stopped>>
  BY DEF KeyInvalidated, TypeOK, databaseVars
<1>2. Free \in FacadeStates /\ Free.pc = "free" /\ ~Free.forced  BY DEF Free, FacadeStates
<1>3. /\ ex' \in ExecutorStates
      /\ ex'.active = ex.active /\ ex'.interrupt = ex.interrupt /\ ex'.admitted = ex.admitted
      /\ ex'.conn = ex.conn /\ ex'.pending = ex.pending /\ ex'.queued = ex.queued
      /\ ex'.closed = ex.closed
      /\ IF mgr.executor = "current" THEN ex'.gen = ex.gen + 1 /\ ex'.snaps = {}
                                     ELSE ex'.gen = ex.gen /\ ex'.snaps = ex.snaps
  BY <1>1, InvalidatedFields DEF KeyInvalidated
<1>4. TypeOK'  BY <1>1, <1>2, <1>3 DEF TypeOK
<1>5. Typed /\ Typed'  BY <1>4, FieldTypes, PTL
<1>6. ex'.gen >= ex.gen /\ ex.gen \in Nat /\ ex'.gen \in Nat  BY <1>3, <1>5 DEF Typed
<1>7. \A u \in Tabs : QueuedOf(u)' = QueuedOf(u) /\ (Working(u)' <=> Working(u))
  BY <1>1, <1>3 DEF QueuedOf, Working
<1>8. Queued' = Queued  BY <1>7 DEF Queued
<1>9. ex'.snaps \subseteq ex.snaps  BY <1>3
<1>10. RunInv' /\ StopInv'  BY <1>1, <1>3 DEF Parts, RunInv, StopInv, Interrupted
<1>11. RequestInv'
  <2>1. \A q \in Requests : Unborn(q) => Unborn(q)'  BY <1>1, <1>3, <1>9 DEF Unborn
  <2>2. \A q \in Requests : req[q].gen <= ex.gen /\ req[q].gen \in Nat
    BY <1>5 DEF Parts, RequestInv, Typed
  <2>3. \A q \in Requests : req[q].gen <= ex'.gen  BY <1>6, <2>2
  <2>4. \A q \in Requests : req[q].pc # "held"  BY <1>1 DEF Parts, RequestInv
  <2> QED  BY <1>1, <1>8, <2>1, <2>3, <2>4 DEF Parts, RequestInv
<1>12. QueueInv' /\ ActiveInv'  BY <1>1, <1>3, <1>7, <1>9 DEF Parts, QueueInv, ActiveInv
<1>13. FacadeInv'  BY <1>1, <1>2 DEF FacadeInv
<1>14. LifeInv'  BY <1>1, <1>2, <1>3, <1>8 DEF Parts, LifeInv, Idle
<1>15. TabInv'  BY <1>1, <1>2, <1>7, <1>9 DEF Parts, TabInv, Gone
<1>16. KeyInv'
  <2>1. run.pc # "none" => req[run.r].gen <= ex.gen /\ req[run.r].gen \in Nat
    BY <1>5 DEF Parts, RequestInv, RunInv, Typed
  <2>2. run.pc # "none" /\ ex'.gen = ex.gen + 1 => req[run.r].gen # ex'.gen  BY <1>6, <2>1
  <2> QED  BY <1>1, <1>2, <1>3, <2>2 DEF Parts, KeyInv, SnapshotsCurrent
<1>17. SessionInv' /\ LedgerInv'  BY <1>1, <1>3 DEF Parts, SessionInv, LedgerInv, Running, Clean
<1> QED
  BY <1>4, <1>10, <1>11, <1>12, <1>13, <1>14, <1>15, <1>16, <1>17 DEF Parts

(* The facade's own step: what it never touches, and the types.            *)
GateTypes ==
    /\ UNCHANGED <<run, server, committed, req, keys, stopped>>
    /\ facade' \in FacadeStates
    /\ worker' \in [pc : {"none", "next", "shut", "park", "busy", "exit"}, permit : BOOLEAN]
    /\ group' \in [registered : BOOLEAN, aborted : BOOLEAN]
    /\ mgr' \in [executor : {"none", "current", "gone"}, closing : BOOLEAN, idleClosing : BOOLEAN]
    /\ doc' \in [Tabs -> {"none", "open", "retired", "closed"}]
    /\ tasks' \in TaskStates /\ ex' \in ExecutorStates /\ monitor' \in BOOLEAN

(* What such a step keeps, the types included.                             *)
LEMMA GateTypesKeep ==
  ASSUME MutationIInv, GateTypes, GateStep
  PROVE  /\ TypeOK' /\ Typed /\ Typed'
         /\ RunInv' /\ StopInv' /\ RequestInv' /\ QueueInv' /\ ActiveInv' /\ SessionInv' /\ LedgerInv'
         /\ Queued' = Queued
         /\ \A u \in Tabs : QueuedOf(u)' = QueuedOf(u) /\ (Working(u)' => Working(u))
<1>1. TypeOK'  BY DEF TypeOK, MutationIInv, GateTypes
<1>2. Typed /\ Typed'  BY <1>1, FieldTypes, PTL DEF MutationIInv
<1> QED  BY <1>1, <1>2, GateKeeps DEF MutationIInv

(* A document is closed: its lease goes first.                             *)
LEMMA CloseDocumentKeeps ==
  ASSUME MutationIInv, NEW t \in Tabs, CloseDocument(t)  PROVE MutationIInv'
<1> USE NoneApart DEF MutationIInv
<1>1. /\ facade = Free /\ doc[t] = "open" /\ doc \in [Tabs -> {"none", "open", "retired", "closed"}]
      /\ doc' = [doc EXCEPT ![t] = "retired"]
      /\ facade' = [Free EXCEPT !.tab = t, !.pc = IF mgr.executor = "current" THEN "tabHeld" ELSE "tabFinish"]
      /\ UNCHANGED <<ex, run, server, committed, worker, tasks, group, mgr, req, keys, monitor, stopped>>
  BY DEF CloseDocument, TypeOK, databaseVars, FacadeOnly
<1>2. /\ facade' \in FacadeStates /\ facade'.tab = t /\ ~facade'.forced /\ facade.pc = "free"
      /\ facade'.pc = IF mgr.executor = "current" THEN "tabHeld" ELSE "tabFinish"
  BY <1>1 DEF Free, FacadeStates
<1>3. /\ doc' \in [Tabs -> {"none", "open", "retired", "closed"}] /\ doc'[t] = "retired"
      /\ \A u \in Tabs : u # t => doc'[u] = doc[u]
  BY <1>1
<1>4. GateTypes /\ GateStep  BY <1>1, <1>2, <1>3 DEF GateTypes, GateStep, TypeOK
<1>5. /\ TypeOK' /\ Typed /\ Typed'
      /\ RunInv' /\ StopInv' /\ RequestInv' /\ QueueInv' /\ ActiveInv' /\ SessionInv' /\ LedgerInv'
      /\ Queued' = Queued
      /\ \A u \in Tabs : QueuedOf(u)' = QueuedOf(u) /\ (Working(u)' => Working(u))
  BY <1>4, GateTypesKeep
<1>6. FacadeInv'  BY <1>2, <1>3, <1>1 DEF FacadeInv
<1>7. LifeInv'  BY <1>1, <1>2, <1>5 DEF Parts, LifeInv, Idle
<1>8. mgr.executor # "current" /\ ~group.aborted => Gone(t)'
  <2> SUFFICES ASSUME mgr.executor # "current", ~group.aborted  PROVE Gone(t)'
    OBVIOUS
  <2>1. Queued = {} /\ run.pc = "none" /\ tasks.cancel = "none"
    BY <1>1, <1>2, <1>5 DEF Parts, LifeInv, Idle, Typed
  <2> QED  BY <1>1, <1>5, <2>1 DEF Gone, Working, Queued
<1>9. TabInv'  BY <1>1, <1>2, <1>3, <1>5, <1>8 DEF Parts, TabInv, Gone
<1>10. KeyInv'  BY <1>1, <1>2 DEF Parts, KeyInv, SnapshotsCurrent
<1> QED  BY <1>5, <1>6, <1>7, <1>9, <1>10 DEF Parts

(* The tab's task has ended.                                               *)
LEMMA TabClosedKeeps ==
  ASSUME MutationIInv, TabClosed  PROVE MutationIInv'
<1> USE NoneApart DEF MutationIInv
<1>1. /\ facade \in FacadeStates /\ facade.pc = "tab" /\ facade.tab \notin tasks.tabs
      /\ facade' = [facade EXCEPT !.pc = "tabFinish"]
      /\ UNCHANGED <<ex, run, server, committed, worker, tasks, group, mgr, doc, req, keys, monitor, stopped>>
  BY DEF TabClosed, TypeOK, databaseVars, FacadeOnly
<1>2. /\ facade' \in FacadeStates /\ facade'.tab = facade.tab /\ facade'.forced = facade.forced
      /\ facade'.pc = "tabFinish"
  BY <1>1 DEF FacadeStates
<1>3. GateTypes /\ GateStep  BY <1>1, <1>2 DEF GateTypes, GateStep, TypeOK
<1>4. /\ TypeOK' /\ Typed /\ Typed'
      /\ RunInv' /\ StopInv' /\ RequestInv' /\ QueueInv' /\ ActiveInv' /\ SessionInv' /\ LedgerInv'
      /\ Queued' = Queued
      /\ \A u \in Tabs : QueuedOf(u)' = QueuedOf(u) /\ (Working(u)' => Working(u))
  BY <1>3, GateTypesKeep
<1>5. FacadeInv'  BY <1>1, <1>2 DEF Parts, FacadeInv
<1>6. LifeInv'  BY <1>1, <1>2, <1>4 DEF Parts, LifeInv, Idle
<1>7. facade.tab \in Tabs  BY <1>1 DEF Parts, FacadeInv
<1>8. TabInv'  BY <1>1, <1>2, <1>4, <1>7 DEF Parts, TabInv, Gone
<1>9. KeyInv'  BY <1>1, <1>2 DEF Parts, KeyInv, SnapshotsCurrent
<1> QED  BY <1>4, <1>5, <1>6, <1>8, <1>9 DEF Parts

(* The document is gone.                                                   *)
LEMMA DocumentFinishedKeeps ==
  ASSUME MutationIInv, DocumentFinished  PROVE MutationIInv'
<1> USE NoneApart DEF MutationIInv
<1> SUFFICES ASSUME NEW t, t = facade.tab  PROVE MutationIInv'
  OBVIOUS
<1>1. /\ facade.pc = "tabFinish" /\ doc \in [Tabs -> {"none", "open", "retired", "closed"}]
      /\ doc' = [doc EXCEPT ![t] = "closed"] /\ facade' = Free
      /\ UNCHANGED <<ex, run, server, committed, worker, tasks, group, mgr, req, keys, monitor, stopped>>
  BY DEF DocumentFinished, TypeOK, databaseVars, FacadeOnly
<1>2. Free \in FacadeStates /\ Free.pc = "free" /\ ~Free.forced  BY DEF Free, FacadeStates
<1>3. t \in Tabs /\ doc[t] = "retired"  BY <1>1 DEF Parts, FacadeInv
<1>4. /\ doc' \in [Tabs -> {"none", "open", "retired", "closed"}] /\ doc'[t] = "closed"
      /\ \A u \in Tabs : u # t => doc'[u] = doc[u]
  BY <1>1, <1>3
<1>5. GateTypes /\ GateStep  BY <1>1, <1>2, <1>4 DEF GateTypes, GateStep, TypeOK
<1>6. /\ TypeOK' /\ Typed /\ Typed'
      /\ RunInv' /\ StopInv' /\ RequestInv' /\ QueueInv' /\ ActiveInv' /\ SessionInv' /\ LedgerInv'
      /\ Queued' = Queued
      /\ \A u \in Tabs : QueuedOf(u)' = QueuedOf(u) /\ (Working(u)' => Working(u))
  BY <1>5, GateTypesKeep
<1>7. FacadeInv'  BY <1>1, <1>2 DEF FacadeInv
<1>8. LifeInv'  BY <1>1, <1>2, <1>6 DEF Parts, LifeInv, Idle
<1>9. TabInv'  BY <1>1, <1>2, <1>4, <1>6 DEF Parts, TabInv, Gone
<1>10. KeyInv'  BY <1>1, <1>2 DEF Parts, KeyInv, SnapshotsCurrent
<1> QED  BY <1>6, <1>7, <1>8, <1>9, <1>10 DEF Parts

(* A connection's teardown begins.                                         *)
LEMMA RetireDataKeeps ==
  ASSUME MutationIInv, RetireData  PROVE MutationIInv'
<1> USE NoneApart DEF MutationIInv
<1>1. /\ facade = Free /\ doc' = RetiredDocs /\ tasks \in TaskStates
      /\ doc \in [Tabs -> {"none", "open", "retired", "closed"}]
      /\ mgr' = [executor |-> Removed, closing |-> TRUE, idleClosing |-> FALSE]
      /\ tasks' = StartClose(TRUE) /\ facade' = [Free EXCEPT !.pc = "join"]
      /\ UNCHANGED <<ex, run, server, committed, worker, group, req, keys, monitor, stopped>>
  BY DEF RetireData, TypeOK, databaseVars, FacadeOnly
<1>2. facade' \in FacadeStates /\ facade'.pc = "join" /\ ~facade'.forced /\ facade.pc = "free"
  BY <1>1 DEF Free, FacadeStates
<1>3. /\ doc' \in [Tabs -> {"none", "open", "retired", "closed"}]
      /\ \A u \in Tabs : doc[u] # "none" => doc'[u] # "none"
      /\ \A u \in Tabs : doc'[u] = "closed" => doc[u] = "closed"
  BY <1>1 DEF RetiredDocs
<1>4. /\ tasks' \in TaskStates /\ tasks'.cancel = tasks.cancel /\ tasks'.tabs = tasks.tabs
      /\ tasks'.close = IF mgr.executor = "current" THEN "mark" ELSE tasks.close
  BY <1>1 DEF StartClose, TaskStates
<1>5. /\ mgr' \in [executor : {"none", "current", "gone"}, closing : BOOLEAN, idleClosing : BOOLEAN]
      /\ mgr'.executor = IF mgr.executor = "current" THEN "gone" ELSE mgr.executor
  BY <1>1 DEF Removed, TypeOK
<1>6. GateTypes /\ GateStep
  BY <1>1, <1>2, <1>3, <1>4, <1>5 DEF GateTypes, GateStep, TypeOK
<1>7. /\ TypeOK' /\ Typed /\ Typed'
      /\ RunInv' /\ StopInv' /\ RequestInv' /\ QueueInv' /\ ActiveInv' /\ SessionInv' /\ LedgerInv'
      /\ Queued' = Queued
      /\ \A u \in Tabs : QueuedOf(u)' = QueuedOf(u) /\ (Working(u)' => Working(u))
  BY <1>6, GateTypesKeep
<1>8. FacadeInv'  BY <1>2 DEF FacadeInv
<1>9. LifeInv'  BY <1>1, <1>2, <1>4, <1>5, <1>7 DEF Parts, LifeInv, Idle
<1>10. TabInv'  BY <1>1, <1>2, <1>3, <1>5, <1>7 DEF Parts, TabInv, Gone
<1>11. KeyInv'  BY <1>1, <1>2, <1>5 DEF Parts, KeyInv, SnapshotsCurrent
<1> QED  BY <1>7, <1>8, <1>9, <1>10, <1>11 DEF Parts

(* The graceful deadline passes: every task is aborted.                    *)
LEMMA GracefulDeadlineKeeps ==
  ASSUME MutationIInv, GracefulDeadline  PROVE MutationIInv'
<1> USE NoneApart DEF MutationIInv
<1>1. /\ facade.pc \in {"tab", "tabFinish", "join"} /\ doc' = RetiredDocs /\ tasks.close # "mark"
      /\ doc \in [Tabs -> {"none", "open", "retired", "closed"}]
      /\ group \in [registered : BOOLEAN, aborted : BOOLEAN]
      /\ mgr' = [executor |-> Removed, closing |-> TRUE, idleClosing |-> FALSE]
      /\ group' = [group EXCEPT !.aborted = @ \/ group.registered]
      /\ facade' = [Free EXCEPT !.pc = "join", !.forced = TRUE]
      /\ UNCHANGED <<ex, run, server, committed, worker, tasks, req, keys, monitor, stopped>>
  BY DEF GracefulDeadline, TypeOK, databaseVars, FacadeOnly
<1>2. facade' \in FacadeStates /\ facade'.pc = "join" /\ facade'.forced
  BY <1>1 DEF Free, FacadeStates
<1>3. /\ doc' \in [Tabs -> {"none", "open", "retired", "closed"}]
      /\ \A u \in Tabs : doc[u] # "none" => doc'[u] # "none"
      /\ \A u \in Tabs : doc'[u] = "closed" => doc[u] = "closed"
  BY <1>1 DEF RetiredDocs
<1>4. /\ group' \in [registered : BOOLEAN, aborted : BOOLEAN] /\ group'.registered = group.registered
      /\ group'.aborted = (group.aborted \/ group.registered)
  BY <1>1
<1>5. /\ mgr' \in [executor : {"none", "current", "gone"}, closing : BOOLEAN, idleClosing : BOOLEAN]
      /\ mgr'.executor = IF mgr.executor = "current" THEN "gone" ELSE mgr.executor
  BY <1>1 DEF Removed, TypeOK
<1>6. GateTypes /\ GateStep
  BY <1>1, <1>2, <1>3, <1>4, <1>5 DEF GateTypes, GateStep, TypeOK
<1>7. /\ TypeOK' /\ Typed /\ Typed'
      /\ RunInv' /\ StopInv' /\ RequestInv' /\ QueueInv' /\ ActiveInv' /\ SessionInv' /\ LedgerInv'
      /\ Queued' = Queued
      /\ \A u \in Tabs : QueuedOf(u)' = QueuedOf(u) /\ (Working(u)' => Working(u))
  BY <1>6, GateTypesKeep
<1>8. FacadeInv'  BY <1>2 DEF FacadeInv
<1>9. LifeInv'  BY <1>1, <1>2, <1>4, <1>5, <1>7 DEF Parts, LifeInv, Idle
<1>10. TabInv'  BY <1>1, <1>2, <1>3, <1>4, <1>5, <1>7 DEF Parts, TabInv, Gone
<1>11. KeyInv'
  <2>1. facade.pc # "save"  BY <1>1
  <2> QED  BY <1>1, <1>2, <1>5, <2>1 DEF Parts, KeyInv, SnapshotsCurrent
<1> QED  BY <1>7, <1>8, <1>9, <1>10, <1>11 DEF Parts

(* Every task of the group has ended.                                      *)
LEMMA GroupJoinedKeeps ==
  ASSUME MutationIInv, GroupJoined  PROVE MutationIInv'
<1> USE NoneApart DEF MutationIInv
<1>1. /\ facade \in FacadeStates /\ facade.pc = "join" /\ Joined
      /\ group \in [registered : BOOLEAN, aborted : BOOLEAN]
      /\ group' = [group EXCEPT !.registered = FALSE]
      /\ facade' = [facade EXCEPT !.pc = "finish"]
      /\ UNCHANGED <<ex, run, server, committed, worker, tasks, mgr, doc, req, keys, monitor, stopped>>
  BY DEF GroupJoined, TypeOK, databaseVars, FacadeOnly
<1>2. /\ facade' \in FacadeStates /\ facade'.tab = facade.tab /\ facade'.forced = facade.forced
      /\ facade'.pc = "finish"
  BY <1>1 DEF FacadeStates
<1>3. /\ group' \in [registered : BOOLEAN, aborted : BOOLEAN] /\ group'.registered = FALSE
      /\ group'.aborted = group.aborted
  BY <1>1
<1>4. GateTypes /\ GateStep  BY <1>1, <1>2, <1>3 DEF GateTypes, GateStep, TypeOK
<1>5. /\ TypeOK' /\ Typed /\ Typed'
      /\ RunInv' /\ StopInv' /\ RequestInv' /\ QueueInv' /\ ActiveInv' /\ SessionInv' /\ LedgerInv'
      /\ Queued' = Queued
      /\ \A u \in Tabs : QueuedOf(u)' = QueuedOf(u) /\ (Working(u)' => Working(u))
  BY <1>4, GateTypesKeep
<1>6. FacadeInv'  BY <1>1, <1>2 DEF FacadeInv
<1>7. ~group.aborted => Idle  BY <1>1 DEF Joined, Idle, Parts, LifeInv
<1>8. LifeInv'
  <2>1. Idle' <=> Idle  BY <1>1 DEF Idle
  <2>2. tasks.close # "none" => group.aborted  BY <1>7 DEF Idle
  <2> QED  BY <1>1, <1>2, <1>3, <1>5, <1>7, <2>1, <2>2 DEF Parts, LifeInv, Idle
<1>9. TabInv'  BY <1>1, <1>2, <1>3, <1>5 DEF Parts, TabInv, Gone
<1>10. KeyInv'  BY <1>1, <1>2 DEF Parts, KeyInv, SnapshotsCurrent
<1> QED  BY <1>5, <1>6, <1>8, <1>9, <1>10 DEF Parts

(* The connection's data is gone: so is whatever its documents had.        *)
LEMMA DataRetiredKeeps ==
  ASSUME MutationIInv, DataRetired  PROVE MutationIInv'
<1> USE NoneApart DEF MutationIInv
<1>1. /\ facade.pc = "finish" /\ facade' = Free
      /\ doc \in [Tabs -> {"none", "open", "retired", "closed"}]
      /\ doc' = [t \in Tabs |-> IF doc[t] = "retired" THEN "closed" ELSE doc[t]]
      /\ mgr \in [executor : {"none", "current", "gone"}, closing : BOOLEAN, idleClosing : BOOLEAN]
      /\ mgr' = [mgr EXCEPT !.closing = FALSE]
      /\ UNCHANGED <<ex, run, server, committed, worker, tasks, group, req, keys, monitor, stopped>>
  BY DEF DataRetired, TypeOK, databaseVars, FacadeOnly
<1>2. Free \in FacadeStates /\ Free.pc = "free" /\ ~Free.forced  BY DEF Free, FacadeStates
<1>3. /\ doc' \in [Tabs -> {"none", "open", "retired", "closed"}]
      /\ \A u \in Tabs : doc[u] # "none" => doc'[u] # "none"
  BY <1>1
<1>4. /\ mgr' \in [executor : {"none", "current", "gone"}, closing : BOOLEAN, idleClosing : BOOLEAN]
      /\ mgr'.executor = mgr.executor
  BY <1>1
<1>5. GateTypes /\ GateStep  BY <1>1, <1>2, <1>3, <1>4 DEF GateTypes, GateStep, TypeOK
<1>6. /\ TypeOK' /\ Typed /\ Typed'
      /\ RunInv' /\ StopInv' /\ RequestInv' /\ QueueInv' /\ ActiveInv' /\ SessionInv' /\ LedgerInv'
      /\ Queued' = Queued
      /\ \A u \in Tabs : QueuedOf(u)' = QueuedOf(u) /\ (Working(u)' => Working(u))
  BY <1>5, GateTypesKeep
<1>7. FacadeInv'  BY <1>1, <1>2 DEF FacadeInv
<1>8. ~group.registered /\ mgr.executor # "current"  BY <1>1 DEF Parts, LifeInv
<1>9. ~group.aborted => Idle /\ Queued = {}
  BY <1>1, <1>8, <1>6 DEF Parts, LifeInv, Typed
<1>10. LifeInv'  BY <1>1, <1>2, <1>4, <1>6, <1>8, <1>9 DEF Parts, LifeInv, Idle
<1>11. ~group.aborted => \A u \in Tabs : Gone(u)'
  <2>1. ~group.aborted => \A u \in Tabs : ~Working(u) /\ QueuedOf(u) = {}
    BY <1>9 DEF Idle, Working, Queued
  <2> QED  BY <1>4, <1>6, <1>8, <2>1 DEF Gone
<1>12. TabInv'  BY <1>1, <1>2, <1>11 DEF TabInv
<1>13. KeyInv'  BY <1>1, <1>2, <1>4 DEF Parts, KeyInv, SnapshotsCurrent
<1> QED  BY <1>6, <1>7, <1>10, <1>12, <1>13 DEF Parts

(* The final deadline passes: the gate is free, the fence stays.           *)
LEMMA FinalDeadlineKeeps ==
  ASSUME MutationIInv, FinalDeadline  PROVE MutationIInv'
<1> USE NoneApart DEF MutationIInv
<1>1. /\ (facade.pc = "join" /\ facade.forced) \/ facade.pc = "finish"
      /\ facade' = Free
      /\ UNCHANGED <<ex, run, server, committed, worker, tasks, group, mgr, doc, req, keys, monitor, stopped>>
  BY DEF FinalDeadline, databaseVars, FacadeOnly
<1>2. Free \in FacadeStates /\ Free.pc = "free" /\ ~Free.forced  BY DEF Free, FacadeStates
<1>3. GateTypes /\ GateStep  BY <1>1, <1>2 DEF GateTypes, GateStep, TypeOK
<1>4. /\ TypeOK' /\ Typed /\ Typed'
      /\ RunInv' /\ StopInv' /\ RequestInv' /\ QueueInv' /\ ActiveInv' /\ SessionInv' /\ LedgerInv'
      /\ Queued' = Queued
      /\ \A u \in Tabs : QueuedOf(u)' = QueuedOf(u) /\ (Working(u)' => Working(u))
  BY <1>3, GateTypesKeep
<1>5. FacadeInv'  BY <1>1, <1>2 DEF FacadeInv
<1>6. LifeInv'
  <2>1. ~group.aborted => ~group.registered  BY <1>1 DEF Parts, LifeInv
  <2>2. ~group.aborted => Idle  BY <2>1 DEF Parts, LifeInv
  <2> QED  BY <1>1, <1>2, <1>4, <2>1, <2>2 DEF Parts, LifeInv, Idle
<1>7. TabInv'  BY <1>1, <1>2, <1>4 DEF Parts, TabInv, Gone
<1>8. KeyInv'  BY <1>1, <1>2 DEF Parts, KeyInv, SnapshotsCurrent
<1> QED  BY <1>4, <1>5, <1>6, <1>7, <1>8 DEF Parts

(* The idle monitor closes an executor that nobody uses.                   *)
LEMMA IdleCloseKeeps ==
  ASSUME MutationIInv, IdleClose  PROVE MutationIInv'
<1> USE NoneApart DEF MutationIInv
<1>1. /\ mgr.executor = "current" /\ ex \in ExecutorStates /\ tasks \in TaskStates
      /\ ex.active = None /\ Queued = {} /\ ex.pending = None
      /\ ex' = [ex EXCEPT !.closed = TRUE]
      /\ mgr' = [executor |-> "gone", closing |-> TRUE, idleClosing |-> TRUE]
      /\ tasks' = [tasks EXCEPT !.close = "mark", !.fence = FALSE]
      /\ monitor' = TRUE
      /\ UNCHANGED <<run, server, committed, worker, group, doc, req, keys, facade, stopped>>
  BY DEF IdleClose, TypeOK, databaseVars, StartClose
<1>2. /\ ex' \in ExecutorStates /\ ex'.closed
      /\ ex'.active = ex.active /\ ex'.interrupt = ex.interrupt /\ ex'.admitted = ex.admitted
      /\ ex'.conn = ex.conn /\ ex'.gen = ex.gen /\ ex'.snaps = ex.snaps
      /\ ex'.pending = ex.pending /\ ex'.queued = ex.queued
  BY <1>1 DEF ExecutorStates
<1>3. /\ tasks' \in TaskStates /\ tasks'.cancel = tasks.cancel /\ tasks'.tabs = tasks.tabs
      /\ tasks'.close = "mark"
  BY <1>1 DEF TaskStates
<1>4. GateTypes /\ GateStep  BY <1>1, <1>2, <1>3 DEF GateTypes, GateStep, TypeOK
<1>5. /\ TypeOK' /\ Typed /\ Typed'
      /\ RunInv' /\ StopInv' /\ RequestInv' /\ QueueInv' /\ ActiveInv' /\ SessionInv' /\ LedgerInv'
      /\ Queued' = Queued
      /\ \A u \in Tabs : QueuedOf(u)' = QueuedOf(u) /\ (Working(u)' => Working(u))
  BY <1>4, GateTypesKeep
<1>6. FacadeInv'  BY <1>1 DEF Parts, FacadeInv
<1>7. run.pc = "none" /\ tasks.cancel = "none"
  <2>1. run.pc # "none" => run.r \in Requests /\ ex.active = run.r  BY DEF Parts, RunInv
  <2>2. tasks.cancel # "none" => ex.pending # None  BY DEF Parts, StopInv
  <2> QED  BY <1>1, <2>1, <2>2
<1>8. LifeInv'  BY <1>1, <1>2, <1>3, <1>5, <1>7 DEF Parts, LifeInv, Idle
<1>9. TabInv'
  <2>1. facade.pc \in {"tab", "tabFinish"} => facade.tab \in Tabs  BY DEF Parts, FacadeInv
  <2>2. \A u \in Tabs : Gone(u) => Gone(u)'  BY <1>1, <1>2, <1>5 DEF Gone
  <2> QED  BY <1>1, <1>3, <2>1, <2>2 DEF Parts, TabInv
<1>10. KeyInv'  BY <1>1, <1>2 DEF Parts, KeyInv, SnapshotsCurrent
<1> QED  BY <1>5, <1>6, <1>8, <1>9, <1>10 DEF Parts

(* The idle close has joined.                                              *)
LEMMA IdleClosedKeeps ==
  ASSUME MutationIInv, IdleClosed  PROVE MutationIInv'
<1> USE NoneApart DEF MutationIInv
<1>1. /\ monitor /\ Joined /\ monitor' = FALSE
      /\ group \in [registered : BOOLEAN, aborted : BOOLEAN]
      /\ mgr \in [executor : {"none", "current", "gone"}, closing : BOOLEAN, idleClosing : BOOLEAN]
      /\ group' = [group EXCEPT !.registered = FALSE]
      /\ mgr' = [mgr EXCEPT !.idleClosing = FALSE, !.closing = @ /\ ~mgr.idleClosing]
      /\ UNCHANGED <<ex, run, server, committed, worker, tasks, doc, req, keys, facade, stopped>>
  BY DEF IdleClosed, TypeOK, databaseVars
<1>2. /\ group' \in [registered : BOOLEAN, aborted : BOOLEAN] /\ group'.registered = FALSE
      /\ group'.aborted = group.aborted
      /\ mgr' \in [executor : {"none", "current", "gone"}, closing : BOOLEAN, idleClosing : BOOLEAN]
      /\ mgr'.executor = mgr.executor
  BY <1>1
<1>3. GateTypes /\ GateStep  BY <1>1, <1>2 DEF GateTypes, GateStep, TypeOK
<1>4. /\ TypeOK' /\ Typed /\ Typed'
      /\ RunInv' /\ StopInv' /\ RequestInv' /\ QueueInv' /\ ActiveInv' /\ SessionInv' /\ LedgerInv'
      /\ Queued' = Queued
      /\ \A u \in Tabs : QueuedOf(u)' = QueuedOf(u) /\ (Working(u)' => Working(u))
  BY <1>3, GateTypesKeep
<1>5. FacadeInv'  BY <1>1, <1>2 DEF Parts, FacadeInv
<1>6. ~group.aborted => Idle  BY <1>1 DEF Joined, Idle, Parts, LifeInv
<1>7. mgr.executor = "gone"  BY <1>1 DEF Parts, LifeInv
<1>8. LifeInv'
  <2>1. Idle' <=> Idle  BY <1>1 DEF Idle
  <2>2. tasks.close # "none" => group.aborted  BY <1>6 DEF Idle
  <2> QED  BY <1>1, <1>2, <1>4, <1>6, <1>7, <2>1, <2>2 DEF Parts, LifeInv
<1>9. TabInv'
  <2>1. facade.pc \in {"tab", "tabFinish"} => facade.tab \in Tabs  BY DEF Parts, FacadeInv
  <2>2. \A u \in Tabs : Gone(u) => Gone(u)'  BY <1>1, <1>2, <1>4 DEF Gone
  <2> QED  BY <1>1, <1>2, <2>1, <2>2 DEF Parts, TabInv
<1>10. KeyInv'  BY <1>1, <1>2 DEF Parts, KeyInv, SnapshotsCurrent
<1> QED  BY <1>4, <1>5, <1>8, <1>9, <1>10 DEF Parts

(* The aborts end the cleanup tasks.                                       *)
LEMMA TasksAbortedKeeps ==
  ASSUME MutationIInv, TasksAborted  PROVE MutationIInv'
<1> USE NoneApart DEF MutationIInv
<1>1. /\ group.aborted /\ tasks \in TaskStates
      /\ tasks' = [tasks EXCEPT !.close = "none", !.tabs = {},
                                !.cancel = IF tasks.cancel = "task" THEN "none" ELSE tasks.cancel]
      /\ UNCHANGED <<ex, run, server, committed, worker, group, mgr, doc, facade, monitor, req, keys, stopped>>
  BY DEF TasksAborted, TypeOK, databaseVars, lifecycleVars
<1>2. /\ tasks' \in TaskStates /\ tasks'.cancel \in {tasks.cancel, "none"} /\ tasks'.tabs = {}
      /\ tasks'.close = "none"
  BY <1>1 DEF TaskStates
<1>3. GateTypes /\ GateStep  BY <1>1, <1>2 DEF GateTypes, GateStep, TypeOK
<1>4. /\ TypeOK' /\ Typed /\ Typed'
      /\ RunInv' /\ StopInv' /\ RequestInv' /\ QueueInv' /\ ActiveInv' /\ SessionInv' /\ LedgerInv'
      /\ Queued' = Queued
      /\ \A u \in Tabs : QueuedOf(u)' = QueuedOf(u) /\ (Working(u)' => Working(u))
  BY <1>3, GateTypesKeep
<1>5. FacadeInv'  BY <1>1 DEF Parts, FacadeInv
<1>6. LifeInv'  BY <1>1, <1>2, <1>4 DEF Parts, LifeInv, Idle
<1>7. TabInv'  BY <1>1 DEF TabInv
<1>8. KeyInv'  BY <1>1 DEF Parts, KeyInv, SnapshotsCurrent
<1> QED  BY <1>4, <1>5, <1>6, <1>7, <1>8 DEF Parts

----------------------------------------------------------------------------
(* The worker between two analyses.                                        *)

(* A step of the worker alone: the invariant does not read it.             *)
LEMMA WorkerOnlyKeeps ==
  ASSUME MutationIInv,
         worker' \in [pc : {"none", "next", "shut", "park", "busy", "exit"}, permit : BOOLEAN],
         UNCHANGED <<ex, run, databaseVars, tasks, lifecycleVars, req, keys, stopped>>
  PROVE  MutationIInv'
<1> USE NoneApart DEF MutationIInv, databaseVars, lifecycleVars
<1>1. TypeOK'  BY DEF TypeOK
<1>2. Typed /\ Typed'  BY <1>1, FieldTypes, PTL
<1>3. GateStep  BY DEF GateStep
<1>4. /\ RunInv' /\ StopInv' /\ RequestInv' /\ QueueInv' /\ ActiveInv' /\ SessionInv' /\ LedgerInv'
      /\ Queued' = Queued
      /\ \A u \in Tabs : QueuedOf(u)' = QueuedOf(u) /\ (Working(u)' => Working(u))
  BY <1>2, <1>3, GateKeeps
<1>5. FacadeInv'  BY DEF Parts, FacadeInv
<1>6. LifeInv'  BY <1>4 DEF Parts, LifeInv, Idle
<1>7. \A u \in Tabs : Gone(u)' <=> Gone(u)  BY DEF Gone, QueuedOf, Working
<1>8. TabInv'  BY <1>7 DEF Parts, TabInv, FacadeInv
<1>9. KeyInv'  BY DEF Parts, KeyInv, SnapshotsCurrent
<1> QED  BY <1>1, <1>4, <1>5, <1>6, <1>8, <1>9 DEF Parts

(* The worker finds no job, closes or parks, wakes, or is aborted.         *)
LEMMA WorkerStepsKeep ==
  ASSUME MutationIInv, NoAnalysis \/ WorkerClosed \/ WorkerWoken \/ WorkerAborted
  PROVE  MutationIInv'
<1>1. worker \in [pc : {"none", "next", "shut", "park", "busy", "exit"}, permit : BOOLEAN]
  BY DEF MutationIInv, TypeOK
<1>2. UNCHANGED <<ex, run, databaseVars, tasks, lifecycleVars, req, keys, stopped>>
  BY DEF NoAnalysis, WorkerClosed, WorkerWoken, WorkerAborted
<1>3. \/ \E pc \in {"shut", "park"} : worker' = [worker EXCEPT !.pc = pc]
      \/ worker' = [pc |-> "next", permit |-> FALSE]
      \/ worker' = [pc |-> "exit", permit |-> FALSE]
  BY DEF NoAnalysis, WorkerClosed, WorkerWoken, WorkerAborted, Exited
<1>4. worker' \in [pc : {"none", "next", "shut", "park", "busy", "exit"}, permit : BOOLEAN]
  <2>1. ASSUME NEW pc \in {"shut", "park"}, worker' = [worker EXCEPT !.pc = pc]
        PROVE  worker' \in [pc : {"none", "next", "shut", "park", "busy", "exit"}, permit : BOOLEAN]
    BY ONLY <1>1, <2>1
  <2>2. CASE worker' = [pc |-> "next", permit |-> FALSE]  BY ONLY <2>2
  <2>3. CASE worker' = [pc |-> "exit", permit |-> FALSE]  BY ONLY <2>3
  <2> QED  BY <1>3, <2>1, <2>2, <2>3
<1> QED  BY <1>2, <1>4, WorkerOnlyKeeps

(* The aborts of a forced join end the task of the active request; its     *)
(* waiter learns that it is gone, and the slot stays taken.                *)
LEMMA RunAbortedKeeps ==
  ASSUME MutationIInv, RunAborted  PROVE MutationIInv'
<1> USE NoneApart DEF MutationIInv
<1> SUFFICES ASSUME NEW r, r = run.r  PROVE MutationIInv'
  OBVIOUS
<1>1. /\ group.aborted /\ run.pc # "none" /\ req \in [Requests -> RequestStates] /\ tasks \in TaskStates
      /\ worker \in [pc : {"none", "next", "shut", "park", "busy", "exit"}, permit : BOOLEAN]
      /\ req' = Reply(req, {r}, "lost") /\ run' = Resting
      /\ tasks' = [tasks EXCEPT !.cancel = IF tasks.cancel = "run" THEN "none" ELSE tasks.cancel]
      /\ worker' = IF worker.pc = "busy" THEN Exited ELSE worker
      /\ UNCHANGED <<ex, server, committed, group, mgr, doc, facade, monitor, keys, stopped>>
  BY DEF RunAborted, TypeOK, databaseVars, lifecycleVars
<1>2. r \in Requests /\ ex.active = r /\ req[r].reply = "none"
      /\ req[r].pc \in {"waiting", "settled"}
  BY <1>1 DEF Parts, RunInv, ActiveInv
<1>3. /\ tasks' \in TaskStates /\ tasks'.close = tasks.close /\ tasks'.tabs = tasks.tabs
      /\ tasks'.cancel \in {tasks.cancel, "none"}
  BY <1>1 DEF TaskStates
<1>4. run' \in RunStates /\ run'.pc = "none" /\ run'.result = "ok"
  BY <1>1 DEF Resting, RunStates, Results
<1>5. /\ req' \in [Requests -> RequestStates]
      /\ \A q \in Requests :
           /\ req'[q].pc = req[q].pc /\ req'[q].tab = req[q].tab
           /\ req'[q].gen = req[q].gen /\ req'[q].keys = req[q].keys
           /\ req'[q].reply = IF q = r THEN "lost" ELSE req[q].reply
  <2>1. /\ req' \in [Requests -> RequestStates]
        /\ \A q \in Requests :
             /\ req'[q].pc = req[q].pc /\ req'[q].tab = req[q].tab
             /\ req'[q].gen = req[q].gen /\ req'[q].keys = req[q].keys
             /\ req'[q].reply = IF q \in {r} /\ req[q].reply = "none" THEN "lost" ELSE req[q].reply
    BY <1>1, ReplyFields DEF Answers
  <2> QED  BY <1>2, <2>1
<1>6. worker' \in [pc : {"none", "next", "shut", "park", "busy", "exit"}, permit : BOOLEAN]
  BY <1>1 DEF Exited
<1>7. TypeOK'  BY <1>1, <1>3, <1>4, <1>5, <1>6 DEF TypeOK
<1>8. Typed /\ Typed'  BY <1>7, FieldTypes, PTL
<1>9. \A u \in Tabs : QueuedOf(u)' = QueuedOf(u)  BY <1>1 DEF QueuedOf
<1>10. Queued' = Queued  BY <1>9 DEF Queued
<1>22. UNCHANGED <<ex, server, committed, group, mgr, doc, facade, monitor, keys, stopped>>
  BY <1>1
<1>23. group.aborted /\ Resting' = Resting /\ run' = Resting  BY <1>1 DEF Resting
<1>11. RunInv'
  <2>1. ex.active = None => ~ex.admitted  BY DEF Parts, RunInv
  <2> QED
    BY <1>4, <1>22, <1>23, <2>1 DEF RunInv, AnalysisSteps, ApplySteps, TransactionSteps
<1>12. StopInv'  BY <1>1, <1>3, <1>4 DEF Parts, StopInv, Interrupted
<1>13. RequestInv'
  <2>1. \A q \in Requests : Unborn(q) => q # r  BY <1>2 DEF Unborn
  <2>2. \A q \in Requests : Unborn(q) => Unborn(q)'  BY <1>1, <1>5, <2>1 DEF Unborn
  <2> SUFFICES ASSUME NEW q \in Requests
               PROVE  /\ req'[q].gen <= ex'.gen
                      /\ req'[q].pc # "new" => req'[q].tab \in Tabs /\ doc'[req'[q].tab] # "none"
                      /\ req'[q].pc \in {"new", "held"} => Unborn(q)'
                      /\ req'[q].pc = "held" => facade'.r = q /\ facade'.pc \in {"analyze", "apply"}
                      /\ req'[q].pc = "waiting" /\ req'[q].reply = "none" => q \in Queued'
    BY DEF RequestInv
  <2>3. /\ req[q].gen <= ex.gen
        /\ req[q].pc # "new" => req[q].tab \in Tabs /\ doc[req[q].tab] # "none"
        /\ req[q].pc \in {"new", "held"} => Unborn(q)
        /\ req[q].pc = "held" => facade.r = q /\ facade.pc \in {"analyze", "apply"}
        /\ req[q].pc = "waiting" /\ req[q].reply = "none" => q \in Queued \/ q = r
    BY DEF Parts, RequestInv
  <2> QED  BY <1>1, <1>5, <1>10, <2>2, <2>3
<1>14. QueueInv'
  <2> SUFFICES ASSUME NEW u \in Tabs, NEW q \in QueuedOf(u)'
               PROVE  /\ q \in Analyses /\ req'[q].tab = u
                      /\ req'[q].pc = "waiting" /\ req'[q].reply = "none"
                      /\ q \notin stopped' /\ q # ex'.active /\ q \notin ex'.snaps
    BY DEF QueueInv
  <2>1. q \in QueuedOf(u)  BY <1>9
  <2>2. /\ q \in Analyses /\ q \in Requests /\ req[q].tab = u /\ req[q].pc = "waiting"
        /\ req[q].reply = "none" /\ q \notin stopped /\ q # ex.active /\ q \notin ex.snaps
    BY <2>1 DEF Parts, QueueInv, Requests
  <2> QED  BY <1>1, <1>2, <1>5, <2>2
<1>15. ActiveInv'
  <2>1. req'[r].reply = "lost" /\ ex'.active = r  BY <1>2, <1>5, <1>22
  <2> QED  BY <1>4, <2>1 DEF ActiveInv
<1>16. FacadeInv'
  <2>1. facade.pc \in {"analyze", "apply"} => facade.r \in Requests  BY DEF Parts, FacadeInv
  <2> QED  BY <1>1, <1>5, <2>1 DEF Parts, FacadeInv
<1>17. LifeInv'
  <2>1. mgr.executor # "none" /\ mgr.executor # "current"  BY <1>1 DEF Parts, LifeInv
  <2> QED  BY <1>1, <1>3, <1>10, <2>1 DEF Parts, LifeInv
<1>18. TabInv'  BY <1>1 DEF TabInv
<1>19. KeyInv'
  <2>1. ex.snaps \subseteq Requests  BY <1>8 DEF Typed, Requests
  <2>2. SnapshotsCurrent  BY DEF Parts, KeyInv
  <2>3. SnapshotsCurrent'  BY <1>22, <1>5, <2>1, <2>2 DEF SnapshotsCurrent
  <2> QED  BY <1>4, <2>3 DEF KeyInv
<1>20. SessionInv'  BY <1>1, <1>4 DEF Parts, SessionInv, Running, Clean
<1>21. LedgerInv'
  <2>1. Applies \subseteq Requests /\ committed \subseteq Applies  BY <1>8 DEF Typed, Requests
  <2>2. /\ committed \cap stopped = {}
        /\ \A q \in committed : /\ q # ex.active => req[q].reply # "none"
                               /\ req[q].reply \in {"none", "ok", "lost"}
        /\ \A q \in Applies : req[q].reply = "ok" => q \in committed
        /\ ex.active \in committed => ex.admitted
        /\ server.stmt = "commit" =>
             /\ server.answer = "ok" => ex.active \in committed
             /\ server.answer \notin {"ok", "lost"} => ex.active \notin committed
    BY DEF Parts, LedgerInv
  <2> QED  BY <1>2, <1>4, <1>5, <1>22, <2>1, <2>2 DEF LedgerInv
<1> QED
  BY <1>7, <1>11, <1>12, <1>13, <1>14, <1>15, <1>16, <1>17, <1>18, <1>19, <1>20, <1>21 DEF Parts

----------------------------------------------------------------------------
(* The database, its socket and the cancels.                               *)

(* The session moves; a cancel or a close may go on with it. *)
ServerStep ==
    /\ UNCHANGED <<run, group, mgr, doc, facade, monitor, req, keys, stopped>>
    /\ ex'.active = ex.active /\ ex'.interrupt = ex.interrupt /\ ex'.admitted = ex.admitted
    /\ ex'.gen = ex.gen /\ ex'.snaps \subseteq ex.snaps /\ ex'.queued = ex.queued
    /\ ex'.closed = ex.closed
    /\ \/ ex'.pending = ex.pending /\ tasks'.cancel = tasks.cancel
       \/ ex'.pending = None /\ tasks'.cancel = "none"
    /\ tasks'.tabs = tasks.tabs
    /\ tasks'.close = tasks.close \/ (tasks.close \in {"cancel", "wait"} /\ tasks'.close \in {"wait", "none"})
    /\ committed \subseteq committed' /\ committed' \subseteq committed \cup {ex.active}

(* What such a step keeps, whatever the session does.                      *)
LEMMA ServerKeeps ==
  ASSUME Typed, Typed', Parts, ServerStep
  PROVE  /\ RunInv' /\ StopInv' /\ RequestInv' /\ QueueInv' /\ ActiveInv' /\ FacadeInv'
         /\ LifeInv' /\ TabInv' /\ KeyInv'
<1> USE NoneApart DEF ServerStep
<1>1. \A u \in Tabs : QueuedOf(u)' = QueuedOf(u)  BY DEF QueuedOf
<1>2. Queued' = Queued  BY <1>1 DEF Queued
<1>3. \A u \in Tabs : Working(u)' => Working(u)  BY DEF Working
<1>4. \A u \in Tabs : Gone(u) => Gone(u)'  BY <1>1, <1>3 DEF Gone
<1>5. RunInv'  BY DEF Parts, RunInv
<1>6. StopInv'  BY DEF Parts, StopInv, Interrupted
<1>7. \A q \in Requests : Unborn(q) => Unborn(q)'  BY DEF Unborn
<1>8. RequestInv'  BY <1>2, <1>7 DEF Parts, RequestInv
<1>9. QueueInv' /\ ActiveInv'  BY <1>1 DEF Parts, QueueInv, ActiveInv
<1>10. FacadeInv'  BY DEF Parts, FacadeInv
<1>11. LifeInv'  BY <1>2 DEF Parts, LifeInv, Idle
<1>12. TabInv'
  <2>1. facade.pc \in {"tab", "tabFinish"} => facade.tab \in Tabs  BY DEF Parts, FacadeInv
  <2> QED  BY <1>4, <2>1 DEF Parts, TabInv
<1>13. KeyInv'  BY DEF Parts, KeyInv, SnapshotsCurrent
<1> QED  BY <1>5, <1>6, <1>8, <1>9, <1>10, <1>11, <1>12, <1>13

(* A statement that failed leaves the changes of nobody behind, and a      *)
(* COMMIT that failed none at all.                                         *)
LEMMA ServerFailsKeeps ==
  ASSUME MutationIInv, ServerFails  PROVE MutationIInv'
<1> USE NoneApart DEF MutationIInv
<1>1. PICK answer \in {"refused", "undefined"} :
        /\ server \in SessionStates /\ Running /\ UNCHANGED <<ex, committed>>
        /\ server' = [server EXCEPT !.answer = answer,
              !.txn = IF server.txn = "none" \/ server.stmt = "commit" THEN "none" ELSE "aborted",
              !.work = IF server.stmt = "commit" THEN {} ELSE server.work]
        /\ answer = "undefined" => server.stmt = "change"
  BY DEF ServerFails, TypeOK
<1>2. UNCHANGED <<ex, run, worker, tasks, group, mgr, doc, facade, monitor, req, keys, stopped>>
  BY DEF ServerFails, ServerOnly, lifecycleVars
<1>3. /\ server' \in SessionStates /\ server'.stmt = server.stmt /\ server'.answer = answer
      /\ server'.txn = (IF server.txn = "none" \/ server.stmt = "commit" THEN "none" ELSE "aborted")
      /\ server'.work = (IF server.stmt = "commit" THEN {} ELSE server.work)
  BY <1>1 DEF SessionStates, Results
<1>4. server.stmt # "none" /\ server.answer = "none" /\ ~Running'
  BY <1>1, <1>3 DEF Running
<1>5. TypeOK'  BY <1>1, <1>2, <1>3 DEF TypeOK
<1>6. Typed /\ Typed'  BY <1>5, FieldTypes, PTL
<1>7. ServerStep  BY <1>1, <1>2 DEF ServerStep
<1>8. SessionInv'
  <2>1. Clean /\ server.stmt # "commit" => Clean'  BY <1>3 DEF Clean
  <2>2. server.stmt = "commit" => Clean'  BY <1>3 DEF Clean
  <2> QED
    BY <1>1, <1>2, <1>3, <1>4, <2>1, <2>2 DEF Parts, SessionInv, StatementSteps, TransactionSteps
<1>9. LedgerInv'
  <2>1. server.stmt = "commit" => ex.active \notin committed
    BY <1>4 DEF Parts, LedgerInv
  <2> QED  BY <1>1, <1>2, <1>3, <1>4, <2>1 DEF Parts, LedgerInv
<1> QED  BY <1>5, <1>6, <1>7, <1>8, <1>9, ServerKeeps DEF Parts

(* A statement succeeds.                                                   *)
LEMMA ExecutesKeeps ==
  ASSUME MutationIInv, Executes  PROVE MutationIInv'
<1> USE NoneApart DEF MutationIInv
<1> DEFINE txn == CASE server.stmt = "begin" -> "open"
                    [] server.stmt \in {"commit", "rollback"} -> "none"
                    [] OTHER -> server.txn
           work == CASE server.stmt = "change" /\ server.txn = "open" -> server.work \cup {ex.active}
                     [] server.stmt \in {"commit", "rollback"} -> {}
                     [] OTHER -> server.work
<1>1. /\ server \in SessionStates /\ server' = [server EXCEPT !.answer = "ok", !.txn = txn, !.work = work]
      /\ Running /\ (server.txn = "aborted" => server.stmt \in {"commit", "rollback"})
      /\ committed' = CASE server.stmt = "commit" /\ server.txn = "open" -> committed \cup server.work
                        [] server.stmt = "change" /\ server.txn = "none" -> committed \cup {ex.active}
                        [] OTHER -> committed
      /\ UNCHANGED <<ex, run, worker, tasks, group, mgr, doc, facade, monitor, req, keys, stopped>>
  BY DEF Executes, ServerOnly, lifecycleVars, TypeOK
<1>2. server.stmt # "none" /\ server.answer = "none" /\ ex.active # None /\ ex.conn = "up"
  BY <1>1 DEF Running, Parts, SessionInv
<1>3. Typed  BY FieldTypes
<1>4. ex.active \in Requests /\ (server.stmt = "change" => ex.active \in Applies)
  BY <1>2, <1>3 DEF Typed, Parts, SessionInv, StatementSteps
<1>5. server.stmt \in {"change", "commit"} => server.txn = "open"
  BY <1>1 DEF Parts, SessionInv
<1>6. /\ txn \in {"none", "open", "aborted"} /\ work \subseteq Applies
      /\ work \subseteq {ex.active}
  BY <1>3, <1>4 DEF Typed, Parts, SessionInv
<1>7. /\ server' \in SessionStates /\ server'.stmt = server.stmt /\ server'.answer = "ok"
      /\ server'.txn = txn /\ server'.work = work
  <2> HIDE DEF txn, work
  <2> QED  BY <1>1, <1>6 DEF SessionStates, Results
<1>8. committed' = IF server.stmt = "commit" THEN committed \cup server.work ELSE committed
  BY <1>1, <1>5
<1>9. server.work \subseteq {ex.active} /\ server.work \subseteq Applies
  BY <1>3 DEF Typed, Parts, SessionInv
<1>10. committed' \in SUBSET Applies  BY <1>3, <1>8, <1>9 DEF Typed
<1>11. TypeOK'  BY <1>1, <1>7, <1>10 DEF TypeOK
<1>12. Typed'  BY <1>11, FieldTypes, PTL
<1>13. ServerStep  BY <1>1, <1>8, <1>9 DEF ServerStep
<1>14. ~Running'  BY <1>7 DEF Running
<1>15. SessionInv'
  <2>1. server.stmt \in {"query", "verify"} => Clean /\ Clean'
    BY <1>7 DEF Parts, SessionInv, Clean
  <2>2. server.stmt \in {"commit", "rollback"} => Clean'  BY <1>7 DEF Clean
  <2>3. server.stmt = "begin" => server'.txn = "open" /\ server'.work = {}
    BY <1>7 DEF Parts, SessionInv
  <2>4. server.stmt = "change" => server'.txn = "open" /\ ex.active \in server'.work
    BY <1>5, <1>7
  <2>5. server.stmt \in StatementSteps  BY <1>2, <1>3 DEF Typed
  <2>6. run.pc # "none" => run.pc = server.stmt
    BY <1>2 DEF Parts, SessionInv
  <2>7. server.stmt \in StatementSteps \ {"query"} => ex.active \in Applies
    BY DEF Parts, SessionInv
  <2>8. server.stmt = "commit" => ex.admitted  BY DEF Parts, SessionInv
  <2> HIDE DEF txn, work
  <2> QED
    BY <1>1, <1>2, <1>6, <1>7, <1>14, <2>1, <2>2, <2>3, <2>4, <2>5, <2>6, <2>7, <2>8
    DEF SessionInv, StatementSteps, TransactionSteps
<1>16. LedgerInv'
  <2>1. run.pc # "none" => run.pc = server.stmt  BY <1>2 DEF Parts, SessionInv
  <2>2. server.stmt = "commit" => ex.active \notin stopped /\ ex.admitted /\ ex.active \in server.work
    BY <1>1 DEF Parts, SessionInv, StopInv
  <2>3. req[ex.active].reply \in {"none", "lost"}  BY <1>2 DEF Parts, ActiveInv
  <2>4. \A q \in committed' : q \in committed \/ (q = ex.active /\ server.stmt = "commit")
    BY <1>8, <1>9
  <2>5. committed \subseteq committed'  BY <1>8
  <2>6. server.stmt \in StatementSteps  BY <1>2, <1>3 DEF Typed
  <2>7. /\ committed \cap stopped = {}
        /\ \A q \in committed : /\ q # ex.active => req[q].reply # "none"
                               /\ req[q].reply \in {"none", "ok", "lost"}
        /\ \A q \in Applies : req[q].reply = "ok" => q \in committed
        /\ ex.active \in committed => ex.admitted
        /\ run.pc \in {"rollback", "verify"} => run.result # "ok"
    BY DEF Parts, LedgerInv
  <2>8. UNCHANGED <<ex, run, req, stopped>>  BY <1>1
  <2>9. server.stmt = "commit" => ex.active \in committed'  BY <1>8, <2>2
  <2> QED
    BY <1>7, <2>1, <2>2, <2>3, <2>4, <2>5, <2>6, <2>7, <2>8, <2>9 DEF LedgerInv, StatementSteps
<1> QED  BY <1>3, <1>11, <1>12, <1>13, <1>15, <1>16, ServerKeeps DEF Parts

(* The socket dies; a COMMIT that was sent may have happened.              *)
LEMMA SocketDiesKeeps ==
  ASSUME MutationIInv, SocketDies  PROVE MutationIInv'
<1> USE NoneApart DEF MutationIInv
<1>1. /\ ex \in ExecutorStates /\ server \in SessionStates /\ ex.conn = "up"
      /\ ex' = [ex EXCEPT !.conn = "dead"]
      /\ server' = [server EXCEPT !.answer = IF Running THEN "lost" ELSE server.answer,
                                  !.txn = "none", !.work = {}]
      /\ \/ committed' = committed
         \/ Running /\ server.stmt = "commit" /\ committed' = committed \cup server.work
      /\ UNCHANGED <<run, worker, tasks, group, mgr, doc, facade, monitor, req, keys, stopped>>
  BY DEF SocketDies, ServerOnly, lifecycleVars, TypeOK
<1>2. /\ ex' \in ExecutorStates /\ ex'.conn = "dead"
      /\ ex'.active = ex.active /\ ex'.interrupt = ex.interrupt /\ ex'.admitted = ex.admitted
      /\ ex'.gen = ex.gen /\ ex'.snaps = ex.snaps /\ ex'.queued = ex.queued
      /\ ex'.closed = ex.closed /\ ex'.pending = ex.pending
  BY <1>1 DEF ExecutorStates
<1>3. /\ server' \in SessionStates /\ server'.stmt = server.stmt
      /\ server'.answer = (IF Running THEN "lost" ELSE server.answer)
      /\ server'.txn = "none" /\ server'.work = {}
  BY <1>1 DEF SessionStates, Results
<1>4. Typed  BY FieldTypes
<1>5. server.work \subseteq {ex.active} /\ server.work \subseteq Applies
  BY <1>4 DEF Typed, Parts, SessionInv
<1>6. committed' \in SUBSET Applies  BY <1>1, <1>4, <1>5 DEF Typed
<1>7. TypeOK'  BY <1>1, <1>2, <1>3, <1>6 DEF TypeOK
<1>8. Typed'  BY <1>7, FieldTypes, PTL
<1>9. ServerStep  BY <1>1, <1>2, <1>5 DEF ServerStep
<1>10. Clean' /\ ~Running'  BY <1>3 DEF Clean, Running
<1>11. SessionInv'
  BY <1>1, <1>2, <1>3, <1>10 DEF Parts, SessionInv, Running
<1>12. LedgerInv'
  <2>1. Running => server.stmt # "none" /\ server.answer = "none" /\ ex.active # None
    BY DEF Running, Parts, SessionInv
  <2>2. run.pc # "none" /\ Running => run.pc = server.stmt
    BY <2>1 DEF Parts, SessionInv
  <2>3. server.stmt = "commit" => ex.active \notin stopped /\ ex.admitted
    BY DEF Parts, SessionInv, StopInv
  <2>4. ex.active # None => req[ex.active].reply \in {"none", "lost"}  BY DEF Parts, ActiveInv
  <2>5. \A q \in committed' : q \in committed \/ (q = ex.active /\ server.stmt = "commit" /\ Running)
    BY <1>1, <1>5
  <2>6. committed \subseteq committed'  BY <1>1
  <2>7. /\ committed \cap stopped = {}
        /\ \A q \in committed : /\ q # ex.active => req[q].reply # "none"
                               /\ req[q].reply \in {"none", "ok", "lost"}
        /\ \A q \in Applies : req[q].reply = "ok" => q \in committed
        /\ ex.active \in committed => ex.admitted
        /\ server.stmt = "commit" =>
             /\ server.answer = "ok" => ex.active \in committed
             /\ server.answer \notin {"ok", "lost"} => ex.active \notin committed
        /\ run.pc \in {"healthy", "unhealthy", "finish"} /\ run.r \in Applies =>
             /\ run.result = "ok" => run.r \in committed
             /\ run.r \in committed => run.result \in {"ok", "lost"}
        /\ run.pc \in {"rollback", "verify"} => run.result # "ok"
    BY DEF Parts, LedgerInv
  <2>8. UNCHANGED <<run, req, stopped>>  BY <1>1
  <2>9. ~Running => committed' = committed  BY <1>1
  <2>10. run.pc # "none" /\ Running /\ server.stmt = "commit" => run.pc = "commit"  BY <2>2
  <2>11. run.pc \in {"healthy", "unhealthy", "finish"} => committed' = committed
    BY <1>1, <2>10
  <2> QED
    BY <1>2, <1>3, <2>1, <2>3, <2>4, <2>5, <2>6, <2>7, <2>8, <2>9, <2>11 DEF LedgerInv
<1> QED  BY <1>4, <1>7, <1>8, <1>9, <1>11, <1>12, ServerKeeps DEF Parts

(* A task that touches neither the database nor what it runs for.          *)
LEMMA DatabaseUntouched ==
  ASSUME Parts, UNCHANGED databaseVars, UNCHANGED <<run, req, stopped>>,
         ex'.active = ex.active, ex'.admitted = ex.admitted, ex'.conn = ex.conn
  PROVE  SessionInv' /\ LedgerInv'
BY DEF databaseVars, Parts, SessionInv, LedgerInv, Running, Clean

(* perform_cancel ends, and the next request may take the socket.          *)
LEMMA PerformCancelKeeps ==
  ASSUME MutationIInv, PerformCancel  PROVE MutationIInv'
<1> USE NoneApart DEF MutationIInv
<1>1. /\ ex \in ExecutorStates /\ tasks \in TaskStates /\ UNCHANGED databaseVars
      /\ ex' = [ex EXCEPT !.pending = None] /\ tasks' = [tasks EXCEPT !.cancel = "none"]
      /\ UNCHANGED <<run, group, mgr, doc, facade, monitor, req, keys, stopped>>
  BY DEF PerformCancel, lifecycleVars, TypeOK
<1>2. worker' \in [pc : {"none", "next", "shut", "park", "busy", "exit"}, permit : BOOLEAN]
  <2>1. worker \in [pc : {"none", "next", "shut", "park", "busy", "exit"}, permit : BOOLEAN]
    BY DEF TypeOK
  <2>2. PICK p \in BOOLEAN : worker' = [worker EXCEPT !.permit = p]
    BY <2>1 DEF PerformCancel, NotifyWaiters
  <2> QED  BY ONLY <2>1, <2>2
<1>3. /\ ex' \in ExecutorStates /\ ex'.pending = None
      /\ ex'.active = ex.active /\ ex'.interrupt = ex.interrupt /\ ex'.admitted = ex.admitted
      /\ ex'.gen = ex.gen /\ ex'.snaps = ex.snaps /\ ex'.queued = ex.queued
      /\ ex'.closed = ex.closed /\ ex'.conn = ex.conn
  BY <1>1 DEF ExecutorStates
<1>4. /\ tasks' \in TaskStates /\ tasks'.cancel = "none" /\ tasks'.tabs = tasks.tabs
      /\ tasks'.close = tasks.close
  BY <1>1 DEF TaskStates
<1>5. server' \in SessionStates /\ committed' = committed /\ committed \in SUBSET Applies
  BY <1>1 DEF databaseVars, TypeOK
<1>6. TypeOK'  BY <1>1, <1>2, <1>3, <1>4, <1>5 DEF TypeOK
<1>7. Typed /\ Typed'  BY <1>6, FieldTypes, PTL
<1>8. ServerStep  BY <1>1, <1>3, <1>4, <1>5 DEF ServerStep
<1>9. SessionInv' /\ LedgerInv'  BY <1>1, <1>3, DatabaseUntouched
<1> QED  BY <1>6, <1>7, <1>8, <1>9, ServerKeeps DEF Parts

(* The close's own protocol cancel.                                        *)
LEMMA CloseCancelsKeeps ==
  ASSUME MutationIInv, CloseCancels  PROVE MutationIInv'
<1> USE NoneApart DEF MutationIInv
<1>1. /\ tasks.close = "cancel" /\ tasks \in TaskStates /\ UNCHANGED databaseVars
      /\ tasks' = [tasks EXCEPT !.close = "wait"]
      /\ UNCHANGED <<ex, run, group, mgr, doc, facade, monitor, req, keys, stopped>>
  BY DEF CloseCancels, lifecycleVars, TypeOK
<1>2. worker' \in [pc : {"none", "next", "shut", "park", "busy", "exit"}, permit : BOOLEAN]
  <2>1. worker \in [pc : {"none", "next", "shut", "park", "busy", "exit"}, permit : BOOLEAN]
    BY DEF TypeOK
  <2>2. PICK p \in BOOLEAN : worker' = [worker EXCEPT !.permit = p]
    BY <2>1 DEF CloseCancels, NotifyWaiters
  <2> QED  BY ONLY <2>1, <2>2
<1>3. /\ tasks' \in TaskStates /\ tasks'.cancel = tasks.cancel /\ tasks'.tabs = tasks.tabs
      /\ tasks'.close = "wait"
  BY <1>1 DEF TaskStates
<1>4. server' \in SessionStates /\ committed' = committed /\ committed \in SUBSET Applies
  BY <1>1 DEF databaseVars, TypeOK
<1>5. TypeOK'  BY <1>1, <1>2, <1>3, <1>4 DEF TypeOK
<1>6. Typed /\ Typed'  BY <1>5, FieldTypes, PTL
<1>7. ServerStep  BY <1>1, <1>3, <1>4 DEF ServerStep
<1>8. SessionInv' /\ LedgerInv'  BY <1>1, DatabaseUntouched
<1> QED  BY <1>5, <1>6, <1>7, <1>8, ServerKeeps DEF Parts

(* The close ends: the socket is dropped with its session.                 *)
LEMMA CloseFinishesKeeps ==
  ASSUME MutationIInv, CloseFinishes  PROVE MutationIInv'
<1> USE NoneApart DEF MutationIInv
<1>1. /\ tasks.close = "wait" /\ tasks \in TaskStates /\ ex.active = None /\ ex \in ExecutorStates
      /\ ex' = [ex EXCEPT !.conn = "none", !.snaps = {}] /\ server' = FreshSession
      /\ tasks' = [tasks EXCEPT !.close = "none"]
      /\ UNCHANGED <<run, committed, group, mgr, doc, facade, monitor, req, keys, stopped>>
  BY DEF CloseFinishes, Disconnected, lifecycleVars, TypeOK
<1>2. worker' \in [pc : {"none", "next", "shut", "park", "busy", "exit"}, permit : BOOLEAN]
  BY DEF CloseFinishes, NotifyOne, TypeOK
<1>3. /\ ex' \in ExecutorStates /\ ex'.pending = ex.pending
      /\ ex'.active = ex.active /\ ex'.interrupt = ex.interrupt /\ ex'.admitted = ex.admitted
      /\ ex'.gen = ex.gen /\ ex'.snaps = {} /\ ex'.queued = ex.queued
      /\ ex'.closed = ex.closed /\ ex'.conn = "none"
  BY <1>1 DEF ExecutorStates
<1>4. /\ tasks' \in TaskStates /\ tasks'.cancel = tasks.cancel /\ tasks'.tabs = tasks.tabs
      /\ tasks'.close = "none"
  BY <1>1 DEF TaskStates
<1>5. /\ server' \in SessionStates /\ server'.stmt = "none" /\ server'.answer = "none"
      /\ server'.txn = "none" /\ server'.work = {}
  BY <1>1 DEF FreshSession, SessionStates
<1>6. TypeOK'  BY <1>1, <1>2, <1>3, <1>4, <1>5 DEF TypeOK
<1>7. Typed /\ Typed'  BY <1>6, FieldTypes, PTL
<1>8. ServerStep  BY <1>1, <1>3, <1>4 DEF ServerStep
<1>9. run.pc = "none"  BY <1>1 DEF Parts, RunInv
<1>10. SessionInv' /\ LedgerInv'
  BY <1>1, <1>3, <1>5, <1>9 DEF Parts, SessionInv, LedgerInv, Running, Clean, StatementSteps
<1> QED  BY <1>6, <1>7, <1>8, <1>10, ServerKeeps DEF Parts

(* The tab's work is over: its slot and its snapshots go.                  *)
LEMMA CloseTabKeeps ==
  ASSUME MutationIInv, NEW t \in Tabs, CloseTab(t)  PROVE MutationIInv'
<1> USE NoneApart DEF MutationIInv
<1>1. /\ ~Working(t) /\ t \in tasks.tabs /\ ex \in ExecutorStates /\ tasks \in TaskStates
      /\ req \in [Requests -> RequestStates]
      /\ ex' = [ex EXCEPT !.queued[t] = None, !.latest[t] = 0, !.closingTabs = ex.closingTabs \ {t},
                          !.snaps = {a \in ex.snaps : req[a].tab # t}]
      /\ tasks' = [tasks EXCEPT !.tabs = tasks.tabs \ {t}]
      /\ req' = Reply(req, QueuedOf(t), "lost")
      /\ UNCHANGED <<run, server, committed, worker, group, mgr, doc, facade, monitor, keys, stopped>>
  BY DEF CloseTab, TabRemoved, databaseVars, lifecycleVars, TypeOK
<1>2. \A q \in QueuedOf(t) : q \in Analyses /\ q \in Requests /\ req[q].reply = "none"
  BY DEF Parts, QueueInv, Requests
<1>3. /\ req' \in [Requests -> RequestStates]
      /\ \A q \in Requests :
           /\ req'[q].pc = req[q].pc /\ req'[q].tab = req[q].tab
           /\ req'[q].gen = req[q].gen /\ req'[q].keys = req[q].keys
           /\ req'[q].reply = IF q \in QueuedOf(t) THEN "lost" ELSE req[q].reply
  <2>1. /\ req' \in [Requests -> RequestStates]
        /\ \A q \in Requests :
             /\ req'[q].pc = req[q].pc /\ req'[q].tab = req[q].tab
             /\ req'[q].gen = req[q].gen /\ req'[q].keys = req[q].keys
             /\ req'[q].reply = IF q \in QueuedOf(t) /\ req[q].reply = "none" THEN "lost" ELSE req[q].reply
    BY <1>1, ReplyFields DEF Answers
  <2> QED  BY <1>2, <2>1
<1>4. /\ ex' \in ExecutorStates /\ ex'.queued = [ex.queued EXCEPT ![t] = None]
      /\ ex'.active = ex.active /\ ex'.interrupt = ex.interrupt /\ ex'.admitted = ex.admitted
      /\ ex'.closed = ex.closed /\ ex'.conn = ex.conn /\ ex'.gen = ex.gen
      /\ ex'.pending = ex.pending /\ ex'.snaps = {a \in ex.snaps : req[a].tab # t}
  <2>1. ex.queued \in [Tabs -> Slots] /\ ex.latest \in [Tabs -> Nat] /\ ex.snaps \subseteq Analyses
        /\ ex.closingTabs \subseteq Tabs
    BY <1>1 DEF ExecutorStates
  <2>2. PICK f \in [Tabs -> Slots] : f = [ex.queued EXCEPT ![t] = None]  BY <2>1 DEF Slots
  <2>3. PICK g \in [Tabs -> Nat] : g = [ex.latest EXCEPT ![t] = 0]  BY <2>1
  <2>4. PICK S \in SUBSET Analyses : S = {a \in ex.snaps : req[a].tab # t}  BY <2>1
  <2>5. PICK C \in SUBSET Tabs : C = ex.closingTabs \ {t}  BY <2>1
  <2>6. ex' = [ex EXCEPT !.queued = f, !.latest = g, !.closingTabs = C, !.snaps = S]
    BY <1>1, <2>2, <2>3, <2>4, <2>5 DEF ExecutorStates
  <2>7. /\ ex' \in ExecutorStates /\ ex'.queued = f /\ ex'.snaps = S
        /\ ex'.active = ex.active /\ ex'.interrupt = ex.interrupt /\ ex'.admitted = ex.admitted
        /\ ex'.closed = ex.closed /\ ex'.conn = ex.conn /\ ex'.gen = ex.gen
        /\ ex'.pending = ex.pending
    <3>1. ex \in ExecutorStates  BY <1>1
    <3> QED  BY ONLY <3>1, <2>6, f \in [Tabs -> Slots], g \in [Tabs -> Nat], S \in SUBSET Analyses, C \in SUBSET Tabs DEF ExecutorStates
  <2> QED  BY <2>2, <2>4, <2>7
<1>5. /\ tasks' \in TaskStates /\ tasks'.cancel = tasks.cancel /\ tasks'.close = tasks.close
      /\ tasks'.tabs = tasks.tabs \ {t}
  BY <1>1 DEF TaskStates
<1>6. TypeOK'
  <2>1. UNCHANGED <<run, server, committed, worker, group, mgr, doc, facade, monitor, keys, stopped>>
    BY <1>1
  <2> QED  BY <1>3, <1>4, <1>5, <2>1 DEF TypeOK
<1>7. Typed /\ Typed'  BY <1>6, FieldTypes, PTL
<1>8. QueuedOf(t)' = {} /\ \A u \in Tabs : u # t => QueuedOf(u)' = QueuedOf(u)
  BY <1>4, <1>7 DEF QueuedOf, Typed
<1>9. \A u \in Tabs : QueuedOf(u)' = QueuedOf(u) \ QueuedOf(t)
  <2>1. \A u \in Tabs : u # t => QueuedOf(u) \cap QueuedOf(t) = {}
    BY DEF Parts, QueueInv
  <2> QED  BY <1>8, <2>1
<1>10. DropStep(QueuedOf(t))
  <2>1. QueuedOf(t) \subseteq Queued  BY DEF Queued
  <2> QED  BY <1>1, <1>3, <1>4, <1>5, <1>9, <2>1 DEF DropStep
<1>11. /\ RunInv' /\ StopInv' /\ RequestInv' /\ QueueInv' /\ ActiveInv' /\ FacadeInv'
       /\ KeyInv' /\ SessionInv' /\ LedgerInv'
       /\ \A u \in Tabs : Gone(u) => Gone(u)'
       /\ Queued' \subseteq Queued
  BY <1>7, <1>10, DropCore
<1>12. LifeInv'
  <2>1. ~Idle  BY <1>1 DEF Idle
  <2>2. UNCHANGED <<run, group, mgr, facade, monitor>>  BY <1>1
  <2> QED  BY <1>4, <1>5, <1>11, <2>1, <2>2 DEF Parts, LifeInv
<1>13. Gone(t)'
  <2>1. ~Working(t)'
    <3>1. run.pc # "none" => run.r \in Requests  BY DEF Parts, RunInv
    <3>2. tasks.cancel # "none" => ex.pending \in Requests  BY DEF Parts, StopInv
    <3> QED  BY <1>1, <1>3, <1>4, <1>5, <3>1, <3>2 DEF Working
  <2>2. \A a \in ex'.snaps : a \in Requests /\ req[a].tab # t  BY <1>4, <1>7 DEF Typed, Requests
  <2> QED  BY <1>3, <1>8, <2>1, <2>2 DEF Gone
<1>14. TabInv'
  <2>1. facade.pc \in {"tab", "tabFinish"} => facade.tab \in Tabs  BY DEF Parts, FacadeInv
  <2>2. UNCHANGED <<group, doc, facade>>  BY <1>1
  <2> QED  BY <1>5, <1>11, <1>13, <2>1, <2>2 DEF Parts, TabInv
<1> QED  BY <1>6, <1>11, <1>12, <1>14 DEF Parts

----------------------------------------------------------------------------
(* The theorems.                                                           *)

(* Nothing has happened yet.                                               *)
LEMMA InitHolds == Init => MutationIInv
<1> SUFFICES ASSUME Init  PROVE MutationIInv
  OBVIOUS
<1> USE NoneApart, MutationAssumption DEF Init
<1>1. TypeOK
  <2>1. /\ ex \in ExecutorStates /\ run \in RunStates /\ server \in SessionStates
        /\ tasks \in TaskStates /\ facade \in FacadeStates
    BY DEF ExecutorStates, RunStates, SessionStates, TaskStates, FacadeStates, Resting,
           FreshSession, Free, Results, Slots
  <2>2. req \in [Requests -> RequestStates]  BY DEF RequestStates, Slots, Answers
  <2> QED  BY <2>1, <2>2 DEF TypeOK
<1>2. \A u \in Tabs : QueuedOf(u) = {}  BY DEF QueuedOf
<1>3. Queued = {}  BY <1>2 DEF Queued
<1>4. run.pc = "none" /\ run.r = None /\ run.result = "ok" /\ facade.pc = "free" /\ ~facade.forced
  BY DEF Resting, Free
<1>5. server.stmt = "none" /\ server.answer = "none" /\ Clean /\ server.work = {}
  BY DEF FreshSession, Clean
<1>6. \A r \in Requests : Unborn(r)  BY DEF Unborn
<1>7. RunInv /\ StopInv
  BY <1>4 DEF RunInv, StopInv, AnalysisSteps, ApplySteps, TransactionSteps
<1>8. RequestInv /\ QueueInv /\ ActiveInv
  BY <1>2, <1>4, <1>6 DEF RequestInv, QueueInv, ActiveInv
<1>9. FacadeInv /\ LifeInv  BY <1>3, <1>4 DEF FacadeInv, LifeInv, Idle
<1>10. TabInv  BY <1>4 DEF TabInv
<1>11. KeyInv  BY <1>4 DEF KeyInv, SnapshotsCurrent
<1>12. SessionInv
  BY <1>4, <1>5 DEF SessionInv, Running, StatementSteps
<1>13. LedgerInv
  <2>1. \A r \in Applies : req[r].reply = "none"  BY DEF Requests
  <2>2. committed = {} /\ stopped = {}  OBVIOUS
  <2> QED  BY <1>4, <1>5, <2>1, <2>2 DEF LedgerInv
<1> QED  BY <1>1, <1>7, <1>8, <1>9, <1>10, <1>11, <1>12, <1>13 DEF MutationIInv, Parts

(* No variable changes.                                                    *)
LEMMA StutterKeeps == ASSUME MutationIInv, UNCHANGED vars  PROVE MutationIInv'
<1>1. worker' \in [pc : {"none", "next", "shut", "park", "busy", "exit"}, permit : BOOLEAN]
  BY DEF vars, MutationIInv, TypeOK
<1> QED  BY <1>1, WorkerOnlyKeeps DEF vars, databaseVars, lifecycleVars

(* Every step keeps the invariant.                                         *)
LEMMA NextKeeps == ASSUME MutationIInv, [Next]_vars  PROVE MutationIInv'
<1>1. CASE Users
  BY <1>1, RetireDataKeeps, CancelTabKeeps, KeyStoredKeeps, CloseDocumentKeeps,
     SubmitAnalysisKeeps, SubmitApplyKeeps DEF Users
<1>2. CASE Facade
  BY <1>2, EnqueueAnalysisKeeps, BeginApplyKeeps, CancelDoneKeeps, KeyInvalidatedKeeps,
     FenceTabKeeps, TabClosedKeeps, DocumentFinishedKeeps, GroupJoinedKeeps, DataRetiredKeeps
  DEF Facade
<1>3. CASE Deadlines  BY <1>3, GracefulDeadlineKeeps, FinalDeadlineKeeps DEF Deadlines
<1>4. CASE Worker
  BY <1>4, NextAnalysisKeeps, WorkerStepsKeep DEF Worker
<1>5. CASE Runner
  <2>1. CASE Analysis  BY <2>1, QueryAnsweredKeeps, ReadKeysKeeps, CacheAnalysisKeeps DEF Analysis
  <2>2. CASE Apply
    BY <2>2, TakeSnapshotKeeps, BeginAnsweredKeeps, GuardKeeps, ChangeAnsweredKeeps,
       AdmitCommitKeeps, CommitAnsweredKeeps, RollbackAnsweredKeeps, VerifyAnsweredKeeps,
       ApplyExecutedKeeps DEF Apply
  <2> QED
    BY <1>5, <2>1, <2>2, CheckInterruptedKeeps, EnsureConnectionKeeps, ConnectedKeeps,
       ConnectFailedKeeps, RecheckKeeps, FinishActiveKeeps DEF Runner
<1>6. CASE Database  BY <1>6, ExecutesKeeps, ServerFailsKeeps DEF Database
<1>7. CASE Cleanup
  BY <1>7, PerformCancelKeeps, CloseExecutorKeeps, CloseCancelsKeeps, CloseFinishesKeeps,
     CloseTabKeeps DEF Cleanup
<1>8. CASE Aborts  BY <1>8, RunAbortedKeeps, WorkerStepsKeep, TasksAbortedKeeps DEF Aborts
<1>9. CASE DropNoticed \/ SocketDies \/ IdleClose \/ IdleClosed
  BY <1>9, DropNoticedKeeps, SocketDiesKeeps, IdleCloseKeeps, IdleClosedKeeps
<1>10. ASSUME NEW r \in Requests, Waiter(r) \/ CallerDropped(r)  PROVE MutationIInv'
  BY <1>10, ReceiveKeeps, QueueDeadlineKeeps, CallerDroppedKeeps DEF Waiter
<1>11. CASE UNCHANGED vars  BY <1>11, StutterKeeps
<1> QED
  BY <1>1, <1>2, <1>3, <1>4, <1>5, <1>6, <1>7, <1>8, <1>9, <1>10, <1>11 DEF Next

(* The inductive invariant holds in every reachable state.                 *)
THEOREM MutationIInvHolds == Spec => []MutationIInv
  BY InitHolds, NextKeeps, PTL DEF Spec

(* A cached snapshot is behind the last change of the structure and has    *)
(* the stored virtual keys; a closed document has left the executor; and a *)
(* teardown that joined left no request without its reply.                 *)
THEOREM MutationSafe == Spec => []MutationInv
<1>1. ASSUME MutationIInv  PROVE MutationInv
  <2> USE <1>1 DEF MutationIInv
  <2>1. SnapshotsCurrent  BY DEF Parts, KeyInv
  <2>2. ClosedTabGone  BY DEF Parts, TabInv, Gone, ClosedTabGone
  <2>3. JoinSettlesRequests
    <3> SUFFICES ASSUME facade.pc = "finish", ~group.aborted  PROVE
                   \A r \in Requests : req[r].pc = "waiting" => req[r].reply # "none"
      BY DEF JoinSettlesRequests
    <3>1. Typed  BY FieldTypes
    <3>2. Idle /\ Queued = {}  BY <3>1 DEF Parts, LifeInv, Idle, Typed
    <3> QED  BY <3>2 DEF Parts, RequestInv, Idle
  <2> QED  BY <2>1, <2>2, <2>3 DEF MutationInv
<1> QED  BY <1>1, MutationIInvHolds, PTL

(* What is open on the shared socket belongs to the apply that runs, up to *)
(* its verified ROLLBACK: the next request inherits nothing.               *)
THEOREM CleanHandOver == Spec => []SocketHandedOnClean
<1>1. ASSUME MutationIInv  PROVE SocketHandedOnClean
  <2>1. server.work \subseteq {ex.active}  BY <1>1 DEF MutationIInv, Parts, SessionInv
  <2>2. ASSUME run.pc \notin TransactionSteps, ~group.aborted  PROVE server.txn = "none"
    <3>1. run.pc # "none" => Clean  BY <1>1, <2>2 DEF MutationIInv, Parts, SessionInv
    <3>2. run.pc = "none" => Clean  BY <1>1, <2>2 DEF MutationIInv, Parts, SessionInv, RunInv
    <3> QED  BY <3>1, <3>2 DEF Clean
  <2> QED  BY <2>1, <2>2 DEF SocketHandedOnClean
<1> QED  BY <1>1, MutationIInvHolds, PTL

(* A protocol cancel is pending or being sent only while the request that  *)
(* holds the socket, if any, was stopped before its COMMIT was admitted:   *)
(* queue_protocol_cancel, wait_for_turn and the close leave none to be     *)
(* sent under the next request or under an admitted apply.                 *)
THEOREM CancelsOnlyForStopped == Spec => []CancelsForStopped
<1>1. ASSUME MutationIInv  PROVE CancelsForStopped
  <2> SUFFICES ASSUME ex.pending # None \/ tasks.close = "cancel"
               PROVE  ex.active \in stopped \cup {None} /\ ~ex.admitted
    BY DEF CancelsForStopped
  <2>1. ex.active \in stopped \cup {None}  BY <1>1 DEF MutationIInv, Parts, StopInv
  <2>2. ~ex.admitted  BY <1>1, <2>1 DEF MutationIInv, Parts, StopInv, RunInv
  <2> QED  BY <2>1, <2>2
<1> QED  BY <1>1, MutationIInvHolds, PTL

----------------------------------------------------------------------------
(* What the users are told, step by step.                                  *)

(* A step that stops, commits or answers one apply at most. *)
RepliesKept == \A q \in Applies : req'[q].reply = req[q].reply
StopsOne(r) ==
    /\ committed' = committed /\ RepliesKept
    /\ stopped \subseteq stopped' /\ stopped' \cap Applies \subseteq stopped \cup {r}
CommitsOne(r) ==
    /\ stopped' = stopped /\ RepliesKept
    /\ committed \subseteq committed' /\ committed' \subseteq committed \cup {r}
TellsOne(r) ==
    /\ committed' = committed /\ stopped' = stopped
    /\ \A q \in Applies : q # r \/ req[q].reply # "none" => req'[q].reply = req[q].reply

(* Such a step is one of the ledger, or none.                              *)
LEMMA LedgerStep ==
  ASSUME Typed, Typed', LedgerInv, LedgerInv', NEW r,
         StopsOne(r) \/ CommitsOne(r) \/ TellsOne(r)
  PROVE  [Ledger!LedgerNext]_(Ledger!ledgerVars)
<1> DEFINE told == [q \in Applies |-> ToldOf(q)]
           halted == stopped \cap Applies
<1>1. Applies \subseteq Requests  BY DEF Requests
<1>2. \A q \in Applies : /\ told[q] = (IF req[q].reply = "none" THEN "nothing" ELSE req[q].reply)
                         /\ told'[q] = (IF req'[q].reply = "none" THEN "nothing" ELSE req'[q].reply)
                         /\ req[q].reply \in Answers \cup {"none"}
                         /\ req'[q].reply \in Answers \cup {"none"}
  BY <1>1 DEF ToldOf, Typed
<1>3. RepliesKept => told' = told  BY DEF RepliesKept, ToldOf
<1>4. committed \subseteq Applies /\ committed' \subseteq Applies  BY DEF Typed
<1>5. CASE committed' = committed /\ halted' = halted /\ told' = told
  BY <1>5 DEF Ledger!ledgerVars
<1>6. CASE StopsOne(r) /\ halted' # halted
  <2>1. r \in Applies /\ halted' = halted \cup {r} /\ r \in stopped'  BY <1>6 DEF StopsOne
  <2>2. r \notin committed  BY <1>6, <2>1 DEF StopsOne, LedgerInv
  <2>3. Ledger!Stop(r)  BY <1>3, <1>6, <2>1, <2>2 DEF Ledger!Stop, StopsOne
  <2> QED  BY <2>1, <2>3 DEF Ledger!LedgerNext
<1>7. CASE CommitsOne(r) /\ committed' # committed
  <2>1. r \in Applies /\ committed' = committed \cup {r} /\ r \notin committed
    BY <1>4, <1>7 DEF CommitsOne
  <2>2. r \notin stopped /\ req[r].reply \in {"none", "ok", "lost"} /\ req[r].reply # "ok"
    BY <1>7, <2>1 DEF CommitsOne, RepliesKept, LedgerInv
  <2>3. told[r] \in {"nothing", "lost"}  BY <1>2, <2>1, <2>2
  <2>4. Ledger!Commit(r)  BY <1>3, <1>7, <2>1, <2>2, <2>3 DEF Ledger!Commit, CommitsOne
  <2> QED  BY <2>1, <2>4 DEF Ledger!LedgerNext
<1>8. CASE TellsOne(r) /\ told' # told
  <2>1. PICK q \in Applies : told'[q] # told[q]
    <3>1. told = [q \in Applies |-> told[q]] /\ told' = [q \in Applies |-> told'[q]]
      OBVIOUS
    <3> QED  BY <1>8, <3>1
  <2>2. q = r /\ req[r].reply = "none" /\ req'[r].reply # "none"
    BY <1>2, <1>8, <2>1 DEF TellsOne
  <2>3. r \in Applies /\ told[r] = "nothing" /\ told'[r] = req'[r].reply /\ req'[r].reply \in Answers
    BY <1>2, <2>1, <2>2
  <2>4. \A p \in Applies : p # r => told'[p] = told[p]
    BY <1>2, <1>8 DEF TellsOne
  <2>5. told' = [told EXCEPT ![r] = req'[r].reply]
    BY <2>3, <2>4
  <2>6. committed' = committed /\ stopped' = stopped  BY <1>8 DEF TellsOne
  <2>7. req'[r].reply = "ok" => r \in committed  BY <2>3, <2>6 DEF LedgerInv
  <2>8. req'[r].reply = "refused" => r \notin committed  BY <2>6 DEF LedgerInv
  <2>9. Ledger!Tell(r, req'[r].reply)
    BY <2>3, <2>5, <2>6, <2>7, <2>8 DEF Ledger!Tell
  <2>10. req'[r].reply \in Ledger!Told \ {"nothing"}  BY <2>3 DEF Ledger!Told, Answers
  <2> QED  BY <2>3, <2>9, <2>10 DEF Ledger!LedgerNext
<1>9. StopsOne(r) \/ TellsOne(r) => committed' = committed  BY DEF StopsOne, TellsOne
<1>10. StopsOne(r) \/ CommitsOne(r) => told' = told  BY <1>3 DEF StopsOne, CommitsOne
<1>11. CommitsOne(r) \/ TellsOne(r) => halted' = halted  BY DEF CommitsOne, TellsOne
<1> QED  BY <1>5, <1>6, <1>7, <1>8, <1>9, <1>10, <1>11

(* The replies to analyses are none of the ledger's business.              *)
LEMMA RepliesToAnalyses ==
  ASSUME NEW q \in [Requests -> RequestStates], NEW S, S \cap Applies = {}, NEW a \in Answers,
         \A r \in Applies : q[r].reply = req[r].reply,
         req' = Reply(q, S, a)
  PROVE  RepliesKept
<1>1. Applies \subseteq Requests  BY DEF Requests
<1>2. \A r \in Requests : req'[r].reply = IF r \in S /\ q[r].reply = "none" THEN a ELSE q[r].reply
  BY ReplyFields
<1> QED  BY <1>1, <1>2 DEF RepliesKept

(* A request's record changes, but not its reply.                          *)
LEMMA ReplyStays ==
  ASSUME NEW r \in Requests, NEW one, one.reply = req[r].reply, req \in [Requests -> RequestStates],
         req' = [req EXCEPT ![r] = one]
  PROVE  RepliesKept
  BY DEF RepliesKept, Requests

(* The record of an analysis changes.                                      *)
LEMMA AnalysisOnly ==
  ASSUME NEW r \in Analyses, NEW one, req \in [Requests -> RequestStates],
         req' = [req EXCEPT ![r] = one]
  PROVE  RepliesKept
  BY MutationAssumption DEF RepliesKept, Requests

(* The users' steps tell nobody anything; a cancel stops the active one.   *)
LEMMA UsersMove ==
  ASSUME MutationIInv, Users  PROVE \E r : StopsOne(r)
<1> USE DEF MutationIInv
<1>1. req \in [Requests -> RequestStates]  BY DEF TypeOK
<1>2. Queued \subseteq Analyses /\ \A t \in Tabs : QueuedOf(t) \subseteq Queued  BY QueuedAnalyses
<1>3. CASE RetireData \/ \E t \in Tabs : KeyStored(t) \/ CloseDocument(t)
  BY <1>3 DEF RetireData, KeyStored, CloseDocument, FacadeOnly, databaseVars, StopsOne, RepliesKept
<1>4. ASSUME NEW t \in Tabs, CancelTab(t)  PROVE \E r : StopsOne(r)
  <2>1. /\ req' = Reply(req, QueuedOf(t), "refused") /\ committed' = committed
        /\ stopped' = stopped \cup QueuedOf(t) \cup (IF Stoppable(t) THEN {ex.active} ELSE {})
    BY <1>4 DEF CancelTab, CancelTabState, databaseVars
  <2>2. QueuedOf(t) \cap Applies = {}  BY <1>2, MutationAssumption
  <2>3. RepliesKept  BY <1>1, <2>1, <2>2, RepliesToAnalyses DEF Answers
  <2> QED  BY <2>1, <2>2, <2>3 DEF StopsOne
<1>5. ASSUME NEW t \in Tabs, NEW r \in Analyses, SubmitAnalysis(r, t)  PROVE \E q : StopsOne(q)
  <2>1. r \in Requests /\ req' = [req EXCEPT ![r].pc = "held", ![r].tab = t]
        /\ committed' = committed /\ stopped' = stopped
    BY <1>5 DEF SubmitAnalysis, databaseVars, Requests
  <2>2. PICK one : one = [req[r] EXCEPT !.pc = "held", !.tab = t]  OBVIOUS
  <2>3. req' = [req EXCEPT ![r] = one]  BY <1>1, <2>1, <2>2
  <2> QED  BY <1>1, <2>1, <2>3, AnalysisOnly DEF StopsOne
<1>6. ASSUME NEW t \in Tabs, NEW r \in Applies, NEW a \in Analyses, SubmitApply(r, a, t)
      PROVE  \E q : StopsOne(q)
  <2>1. r \in Requests /\ req' = [req EXCEPT ![r].pc = "held", ![r].tab = t, ![r].plan = a]
        /\ committed' = committed /\ stopped' = stopped
    BY <1>6 DEF SubmitApply, databaseVars, Requests
  <2>2. PICK one : one = [req[r] EXCEPT !.pc = "held", !.tab = t, !.plan = a]  OBVIOUS
  <2>3. req' = [req EXCEPT ![r] = one]  BY <1>1, <2>1, <2>2
  <2>4. one.reply = req[r].reply  BY <1>1, <2>1, <2>2 DEF RequestStates
  <2> QED  BY <1>1, <2>1, <2>3, <2>4, ReplyStays DEF StopsOne
<1> QED  BY <1>3, <1>4, <1>5, <1>6 DEF Users

(* The facade's steps: a queued analysis may supersede another one, an     *)
(* apply may be refused, and a closed tab stops the active request.        *)
LEMMA FacadeMoves ==
  ASSUME MutationIInv, Facade \/ Deadlines  PROVE \E r : StopsOne(r) \/ TellsOne(r)
<1> USE DEF MutationIInv, databaseVars, FacadeOnly
<1>1. req \in [Requests -> RequestStates]  BY DEF TypeOK
<1>2. Queued \subseteq Analyses /\ \A t \in Tabs : QueuedOf(t) \subseteq Queued  BY QueuedAnalyses
<1>3. CASE CancelDone \/ KeyInvalidated \/ TabClosed \/ DocumentFinished \/ GroupJoined \/ DataRetired
  BY <1>3 DEF CancelDone, KeyInvalidated, TabClosed, DocumentFinished, GroupJoined, DataRetired,
              StopsOne, RepliesKept
<1>4. CASE Deadlines
  BY <1>4 DEF Deadlines, GracefulDeadline, FinalDeadline, StopsOne, RepliesKept
<1>5. CASE FenceTab
  <2> SUFFICES ASSUME NEW t, t = facade.tab  PROVE \E r : StopsOne(r)
    OBVIOUS
  <2>1. /\ req' = Reply(req, QueuedOf(t), "refused") /\ committed' = committed
        /\ stopped' = stopped \cup QueuedOf(t) \cup (IF Stoppable(t) THEN {ex.active} ELSE {})
        /\ facade.pc = "tabHeld"
    BY <1>5 DEF FenceTab
  <2>2. t \in Tabs  BY <2>1 DEF Parts, FacadeInv
  <2>3. QueuedOf(t) \cap Applies = {}  BY <1>2, <2>2, MutationAssumption
  <2>4. RepliesKept  BY <1>1, <2>1, <2>3, RepliesToAnalyses DEF Answers
  <2> QED  BY <2>1, <2>3, <2>4 DEF StopsOne
<1>6. CASE BeginApply
  <2> SUFFICES ASSUME NEW r, r = facade.r  PROVE \E q : StopsOne(q) \/ TellsOne(q)
    OBVIOUS
  <2>1. /\ committed' = committed /\ stopped' = stopped /\ facade.pc = "apply"
        /\ \/ req' = [req EXCEPT ![r].pc = "waiting"]
           \/ req' = [req EXCEPT ![r].pc = "settled", ![r].reply = "refused"]
    BY <1>6 DEF BeginApply, Refused
  <2>2. r \in Requests /\ req[r].pc = "held"  BY <2>1 DEF Parts, FacadeInv
  <2>3. req[r].reply = "none"  BY <2>2 DEF Parts, RequestInv, Unborn
  <2>4. CASE req' = [req EXCEPT ![r].pc = "waiting"]
    <3>1. PICK one : one = [req[r] EXCEPT !.pc = "waiting"]  OBVIOUS
    <3>2. req' = [req EXCEPT ![r] = one]  BY <1>1, <2>2, <2>4, <3>1
    <3>3. one.reply = req[r].reply  BY <1>1, <2>2, <3>1 DEF RequestStates
    <3> QED  BY <1>1, <2>1, <2>2, <3>2, <3>3, ReplyStays DEF StopsOne
  <2>5. CASE req' = [req EXCEPT ![r].pc = "settled", ![r].reply = "refused"]
    <3>1. \A q \in Requests : q # r => req'[q] = req[q]  BY <1>1, <2>5
    <3> QED  BY <2>1, <2>3, <3>1 DEF TellsOne, Requests
  <2> QED  BY <2>1, <2>4, <2>5
<1>7. ASSUME NEW refresh \in BOOLEAN, EnqueueAnalysis(refresh)  PROVE \E r : StopsOne(r)
  <2> SUFFICES ASSUME NEW r, r = facade.r, NEW t, t = req[r].tab  PROVE \E q : StopsOne(q)
    OBVIOUS
  <2>1. facade.pc = "analyze" /\ committed' = committed  BY <1>7 DEF EnqueueAnalysis
  <2>2. r \in Analyses /\ r \in Requests /\ t \in Tabs
    BY <2>1 DEF Parts, FacadeInv, RequestInv
  <2>3. QueuedOf(t) \cap Applies = {} /\ {r} \cap Applies = {}
    BY <1>2, <2>2, MutationAssumption
  <2>4. CASE req' = Refused(req, r) /\ UNCHANGED stopped
    <3>1. PICK one : one = [req[r] EXCEPT !.pc = "settled", !.reply = "refused"]  OBVIOUS
    <3>2. req' = [req EXCEPT ![r] = one]  BY <1>1, <2>2, <2>4, <3>1 DEF Refused
    <3> QED  BY <1>1, <2>1, <2>2, <2>4, <3>2, AnalysisOnly DEF StopsOne
  <2>5. ASSUME NEW g \in Nat, NEW S, S \cap Applies = {},
               req' = Reply([req EXCEPT ![r].pc = "waiting", ![r].gen = g], S, "refused")
        PROVE  RepliesKept
    <3>1. PICK one : one = [req[r] EXCEPT !.pc = "waiting", !.gen = g]  OBVIOUS
    <3>2. one \in RequestStates  BY <1>1, <2>2, <3>1 DEF RequestStates
    <3>3. PICK q : q = [req EXCEPT ![r] = one]  OBVIOUS
    <3>4. q \in [Requests -> RequestStates] /\ \A p \in Applies : q[p].reply = req[p].reply
      BY <1>1, <2>2, <3>2, <3>3, MutationAssumption DEF Requests
    <3>5. req' = Reply(q, S, "refused")  BY <1>1, <2>2, <2>5, <3>1, <3>3
    <3> QED  BY <2>5, <3>4, <3>5, RepliesToAnalyses DEF Answers
  <2>6. PICK g \in Nat :
          \/ req' = Refused(req, r) /\ UNCHANGED stopped
          \/ /\ req' = Reply([req EXCEPT ![r].pc = "waiting", ![r].gen = g], {r}, "refused")
             /\ UNCHANGED stopped
          \/ /\ req' = Reply([req EXCEPT ![r].pc = "waiting", ![r].gen = g], QueuedOf(t), "refused")
             /\ \/ stopped' = stopped \cup QueuedOf(t) \cup {ex.active}
                \/ stopped' = stopped \cup QueuedOf(t)
    <3>1. ex \in ExecutorStates  BY DEF TypeOK
    <3>2. PICK x : x = IF refresh THEN Invalidated(ex) ELSE ex  OBVIOUS
    <3>3. x.gen \in Nat
      BY <3>1, <3>2, InvalidatedFields DEF ExecutorStates
    <3> QED  BY <1>7, <3>2, <3>3 DEF EnqueueAnalysis
  <2>7. CASE /\ req' = Reply([req EXCEPT ![r].pc = "waiting", ![r].gen = g], {r}, "refused")
             /\ UNCHANGED stopped
    BY <2>1, <2>3, <2>5, <2>7 DEF StopsOne
  <2>8. CASE /\ req' = Reply([req EXCEPT ![r].pc = "waiting", ![r].gen = g], QueuedOf(t), "refused")
             /\ \/ stopped' = stopped \cup QueuedOf(t) \cup {ex.active}
                \/ stopped' = stopped \cup QueuedOf(t)
    <3>1. RepliesKept  BY <2>3, <2>5, <2>8
    <3>2. StopsOne(ex.active)  BY <2>1, <2>3, <2>8, <3>1 DEF StopsOne
    <3> QED  BY <3>2
  <2> QED  BY <2>4, <2>6, <2>7, <2>8
<1> QED  BY <1>3, <1>4, <1>5, <1>6, <1>7 DEF Facade

(* The worker and the waiters answer analyses; an apply's waiter only      *)
(* takes what it was told.                                                 *)
LEMMA WaitersMove ==
  ASSUME MutationIInv, Worker \/ (\E r \in Requests : Waiter(r) \/ CallerDropped(r))
  PROVE  \E r : StopsOne(r)
<1> USE DEF MutationIInv, databaseVars
<1>1. req \in [Requests -> RequestStates]  BY DEF TypeOK
<1>2. Queued \subseteq Analyses /\ \A t \in Tabs : QueuedOf(t) \subseteq Queued  BY QueuedAnalyses
<1>3. CASE NoAnalysis \/ WorkerClosed \/ WorkerWoken
  BY <1>3 DEF NoAnalysis, WorkerClosed, WorkerWoken, StopsOne, RepliesKept
<1>4. ASSUME NEW expired, NextAnalysis(expired)  PROVE \E r : StopsOne(r)
  <2>1. /\ req' = Reply(req, expired, "refused") /\ expired \subseteq Queued
        /\ committed' = committed /\ stopped' = stopped
    BY <1>4 DEF NextAnalysis
  <2>2. expired \cap Applies = {}  BY <1>2, <2>1, MutationAssumption
  <2>3. RepliesKept  BY <1>1, <2>1, <2>2, RepliesToAnalyses DEF Answers
  <2> QED  BY <2>1, <2>3 DEF StopsOne
<1>5. ASSUME NEW r \in Requests, Receive(r) \/ CallerDropped(r)  PROVE \E q : StopsOne(q)
  <2>1. req' = [req EXCEPT ![r].pc = "settled"] /\ committed' = committed /\ stopped' = stopped
    BY <1>5 DEF Receive, CallerDropped
  <2>2. PICK one : one = [req[r] EXCEPT !.pc = "settled"]  OBVIOUS
  <2>3. req' = [req EXCEPT ![r] = one]  BY <1>1, <2>1, <2>2
  <2>4. one.reply = req[r].reply  BY <1>1, <2>2 DEF RequestStates
  <2> QED  BY <1>1, <2>1, <2>3, <2>4, ReplyStays DEF StopsOne
<1>6. ASSUME NEW r \in Requests, QueueDeadline(r)  PROVE \E q : StopsOne(q)
  <2>1. /\ req' = [req EXCEPT ![r].pc = "settled", ![r].reply = "refused"] /\ r \in Queued
        /\ committed' = committed /\ stopped' = stopped
    BY <1>6 DEF QueueDeadline, Refused
  <2>2. PICK one : one = [req[r] EXCEPT !.pc = "settled", !.reply = "refused"]  OBVIOUS
  <2>3. req' = [req EXCEPT ![r] = one] /\ r \in Analyses  BY <1>1, <1>2, <2>1, <2>2
  <2> QED  BY <1>1, <2>1, <2>3, AnalysisOnly DEF StopsOne
<1> QED  BY <1>3, <1>4, <1>5, <1>6 DEF Worker, Waiter

(* The task of the active request tells its waiter, at its end or at its   *)
(* abort.                                                                  *)
LEMMA RunnerMoves ==
  ASSUME MutationIInv, Runner \/ DropNoticed \/ Aborts
  PROVE  \E r : StopsOne(r) \/ TellsOne(r)
<1> USE DEF MutationIInv, databaseVars, lifecycleVars, RunOnly
<1>1. req \in [Requests -> RequestStates]  BY DEF TypeOK
<1>2. ASSUME UNCHANGED <<committed, req, stopped>>  PROVE StopsOne(run.r)
  BY <1>2 DEF StopsOne, RepliesKept
<1>3. ASSUME NEW s, NEW p, Sends(s, p)  PROVE UNCHANGED committed  BY <1>3 DEF Sends
<1>4. ASSUME NEW p, Undoes(p)  PROVE UNCHANGED committed  BY <1>4 DEF Undoes, Sends
<1>5. Taken => UNCHANGED committed  BY DEF Taken
<1>6. CASE QueryAnswered \/ ReadKeys \/ TakeSnapshot
  BY <1>2, <1>3, <1>5, <1>6 DEF QueryAnswered, ReadKeys, TakeSnapshot
<1>7. CASE BeginAnswered \/ Guard \/ ChangeAnswered
  BY <1>2, <1>3, <1>4, <1>5, <1>7 DEF BeginAnswered, Guard, ChangeAnswered
<1>8. CASE AdmitCommit \/ CommitAnswered \/ RollbackAnswered
  BY <1>2, <1>3, <1>4, <1>5, <1>8 DEF AdmitCommit, CommitAnswered, RollbackAnswered
<1>9. CASE VerifyAnswered \/ ApplyExecuted \/ CheckInterrupted
  BY <1>2, <1>5, <1>9 DEF VerifyAnswered, ApplyExecuted, CheckInterrupted
<1>10. CASE EnsureConnection \/ Connected \/ ConnectFailed \/ Recheck
  BY <1>2, <1>3, <1>10 DEF EnsureConnection, Connected, ConnectFailed, Recheck
<1>11. CASE CacheAnalysis
  <2>1. /\ run.pc = "cache" /\ req' = [req EXCEPT ![run.r].keys = run.keys]
        /\ committed' = committed /\ stopped' = stopped
    BY <1>11 DEF CacheAnalysis, At
  <2>2. run.r \in Analyses  BY <2>1 DEF Parts, RunInv, AnalysisSteps
  <2>3. PICK one : one = [req[run.r] EXCEPT !.keys = run.keys]  OBVIOUS
  <2>4. req' = [req EXCEPT ![run.r] = one]  BY <1>1, <2>1, <2>3
  <2> QED  BY <1>1, <2>1, <2>2, <2>4, AnalysisOnly DEF StopsOne
<1>12. ASSUME NEW a \in Answers, req' = Reply(req, {run.r}, a),
              UNCHANGED <<committed, stopped>>
       PROVE  TellsOne(run.r)
  <2>1. \A q \in Requests : req'[q].reply = IF q \in {run.r} /\ req[q].reply = "none" THEN a
                                            ELSE req[q].reply
    BY <1>1, <1>12, ReplyFields
  <2> QED  BY <1>12, <2>1 DEF TellsOne, Requests
<1>13. CASE FinishActive
  <2>1. Terminal \in Answers
    <3>1. run.pc = "finish" /\ run \in RunStates  BY <1>13 DEF FinishActive, At, TypeOK
    <3>2. run.result \in Answers
      BY <3>1 DEF Parts, RunInv, RunStates, Results, Answers
    <3> QED  BY <3>2 DEF Terminal, Answers
  <2>2. req' = Reply(req, {run.r}, Terminal) /\ UNCHANGED <<committed, stopped>>
    BY <1>13 DEF FinishActive
  <2> QED  BY <1>12, <2>1, <2>2
<1>14. CASE DropNoticed
  BY <1>14 DEF DropNoticed, StopsOne, RepliesKept
<1>15. CASE RunAborted
  <2>1. req' = Reply(req, {run.r}, "lost") /\ UNCHANGED <<committed, stopped>>
    BY <1>15 DEF RunAborted
  <2> QED  BY <1>12, <2>1 DEF Answers
<1>16. CASE WorkerAborted \/ TasksAborted
  BY <1>2, <1>16 DEF WorkerAborted, TasksAborted
<1> QED
  BY <1>6, <1>7, <1>8, <1>9, <1>10, <1>11, <1>13, <1>14, <1>15, <1>16
  DEF Runner, Analysis, Apply, Aborts

(* The database commits the active apply; the cleanup stops it or answers  *)
(* what is queued.                                                         *)
LEMMA CleanupMoves ==
  ASSUME MutationIInv, Database \/ SocketDies \/ Cleanup \/ IdleClose \/ IdleClosed
  PROVE  \E r : StopsOne(r) \/ CommitsOne(r)
<1> USE DEF MutationIInv, databaseVars, lifecycleVars, ServerOnly
<1>1. req \in [Requests -> RequestStates]  BY DEF TypeOK
<1>2. Queued \subseteq Analyses /\ \A t \in Tabs : QueuedOf(t) \subseteq Queued  BY QueuedAnalyses
<1>3. ASSUME UNCHANGED <<committed, req, stopped>>  PROVE StopsOne(ex.active)
  BY <1>3 DEF StopsOne, RepliesKept
<1>5. server.work \subseteq {ex.active}  BY DEF Parts, SessionInv
<1>6. CASE Executes \/ SocketDies
  <2>1. /\ committed' \in {committed, committed \cup server.work, committed \cup {ex.active}}
        /\ stopped' = stopped /\ req' = req
    BY <1>6 DEF Executes, SocketDies
  <2>2. CommitsOne(ex.active)  BY <1>5, <2>1 DEF CommitsOne, RepliesKept
  <2> QED  BY <2>2
<1>7. CASE ServerFails \/ PerformCancel \/ CloseCancels \/ CloseFinishes
  BY <1>3, <1>7 DEF ServerFails, PerformCancel, CloseCancels, CloseFinishes
<1>8. CASE CloseExecutor
  <2>1. /\ req' = Reply(req, Queued, "refused") /\ committed' = committed
        /\ stopped' = stopped \cup Queued \cup (IF CloseInterrupts THEN {ex.active} ELSE {})
    BY <1>8 DEF CloseExecutor
  <2>2. Queued \cap Applies = {}  BY <1>2, MutationAssumption
  <2>3. RepliesKept  BY <1>1, <2>1, <2>2, RepliesToAnalyses DEF Answers
  <2> QED  BY <2>1, <2>2, <2>3 DEF StopsOne
<1>9. ASSUME NEW t \in Tabs, CloseTab(t)  PROVE \E r : StopsOne(r)
  <2>1. req' = Reply(req, QueuedOf(t), "lost") /\ committed' = committed /\ stopped' = stopped
    BY <1>9 DEF CloseTab, TabRemoved
  <2>2. QueuedOf(t) \cap Applies = {}  BY <1>2, MutationAssumption
  <2>3. RepliesKept  BY <1>1, <2>1, <2>2, RepliesToAnalyses DEF Answers
  <2> QED  BY <2>1, <2>3 DEF StopsOne
<1>10. CASE IdleClose \/ IdleClosed  BY <1>3, <1>10 DEF IdleClose, IdleClosed
<1> QED  BY <1>6, <1>7, <1>8, <1>9, <1>10 DEF Database, Cleanup

(* The grid keeps the ledger: each apply takes effect at most once and as  *)
(* a whole, what the user is told of it is true, and one that was stopped  *)
(* in time never takes effect.                                             *)
THEOREM TruthTold == Spec => LedgerKept
<1>1. Init => Ledger!LedgerInit
  BY DEF Init, Ledger!LedgerInit, ToldOf, Requests
<1>2. ASSUME MutationIInv, [Next]_vars, MutationIInv'
      PROVE  [Ledger!LedgerNext]_(Ledger!ledgerVars)
  <2>1. Typed /\ Typed'  BY <1>2, FieldTypes, PTL DEF MutationIInv
  <2>2. LedgerInv /\ LedgerInv'  BY <1>2 DEF MutationIInv, Parts
  <2>3. \E r : StopsOne(r) \/ CommitsOne(r) \/ TellsOne(r)
    <3>1. UNCHANGED vars => StopsOne(None)  BY DEF vars, StopsOne, RepliesKept
    <3> QED
      BY <1>2, <3>1, UsersMove, FacadeMoves, WaitersMove, RunnerMoves, CleanupMoves DEF Next
  <2> QED  BY <2>1, <2>2, <2>3, LedgerStep
<1> QED  BY <1>1, <1>2, MutationIInvHolds, PTL DEF Spec, LedgerKept, Ledger!LedgerSpec
=============================================================================
