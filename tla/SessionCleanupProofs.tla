------------------------ MODULE SessionCleanupProofs ------------------------
(***************************************************************************)
(* What an execution's own cleanup does to the session's transaction: it    *)
(* ends only what the execution began, leaves neither a wrapper nor a       *)
(* cursor behind, honours an accepted Stop, and its outcome tells what      *)
(* became of the wrapper.  CleanupInv, which extends IdleInv of             *)
(* SessionTransactionProofs, is inductive.                                  *)
(***************************************************************************)
EXTENDS SessionTransactionProofs

Wire == 1..Len(wire)

\* While the execution can still send, and whether it opens and ends a
\* transaction of its own.
Working == pc \in {"start", "check", "send", "await", "cleanup"}
Ended == pc \in {"idle", "finish", "probe", "settle"}
Wraps == shape = "cursor" \/ (shape = "bound" /\ Pooled)

\* The statements that end a transaction, and whether one that an execution
\* sent by itself is on the wire.
Enders == {"commit", "commitCursor", "rollback"}
OwnEnder(i) == wire[i].by = "exec" /\ wire[i].sql \in Enders
OwnPending == \E i \in Wire : OwnEnder(i)
OwnCommit == \E i \in Wire : wire[i].by = "exec" /\ wire[i].sql \in {"commit", "commitCursor"}

\* The statements each shape sends, and its cleanup.
Plan(s) ==
    CASE shape = "script" -> s = "script" \/ (s = "begin" /\ entry = "begin")
      [] shape = "cursor" -> s \in {"declare", "fetch"} \/ (s = "begin" /\ entry # "inside")
      [] OTHER -> \/ s \in {"prepare", "execute"}
                  \/ s = "begin" /\ entry # "inside" /\ (Pooled \/ entry = "begin")

CleanupPlan(s) ==
    \/ shape = "cursor" /\ Wrapper /\ s \in {"commitCursor", "rollback"}
    \/ shape = "cursor" /\ ~Wrapper /\ s = "closeCursor"
    \/ shape = "bound" /\ Pooled /\ entry # "inside" /\ (s = "rollback" \/ (s = "commit" /\ Wrapper))

\* Where the execution is, and the permit it holds there.
PlanInv ==
    /\ pc \in {"idle", "start"} => stmt = "probe"
    /\ pc = "idle" => shape = "script"
    /\ pc = "check" =>
        /\ Plan(stmt) /\ shape # "script"
        /\ shape = "bound" /\ Pooled /\ entry # "inside" => stmt # "prepare"
    /\ pc \in {"send", "await"} => Plan(stmt) \/ CleanupPlan(stmt)
    /\ pc = "cleanup" => shape = "cursor" /\ Plan(stmt)
    /\ tries <= 2 /\ (stmt # "rollback" => tries = 0)
    /\ stmt = "rollback" /\ pc = "send" => tries <= 1
    /\ stmt = "rollback" /\ pc = "await" => tries >= 1

PermitInv ==
    /\ permit => pc \in {"send", "await"} /\ shape = "cursor" /\ stmt \in CleanupSql /\ ~closed
    /\ pc \in {"send", "await"} /\ shape = "cursor" /\ stmt \in CleanupSql => permit /\ cleaning

\* Whose requests are on the wire: an execution's own statements only while it
\* waits for them.
StatementsAwaited ==
    \A i \in Wire :
        /\ wire[i].sql \in UserSql => pc = "await" /\ place["exec"] = i
        /\ wire[i].by = "action" => acting = "await"
        /\ wire[i].by = "close" => closed
        /\ wire[i].by = "probe" <=> wire[i].sql = "probe"

\* Nobody acts on the transaction while an execution runs.
ActingAlone ==
    /\ pc # "idle" => acting = "none"
    /\ acting = "await" => \A i \in Wire : wire[i].by = "action" => i = place["action"]
    /\ closer \in {"none", "mark"} \/ closed

\* A transaction that the running execution may end is its own.
Mine == tx # "idle" => owner = "wrapper" \/ fresh

\* An ender on the wire ends the execution's own transaction, and no other
\* statement of an execution is sent until it is answered.
OwnInv ==
    /\ OwnPending => Mine
    /\ OwnPending /\ Working => pc \in {"send", "await"} /\ stmt \in Enders
    /\ Working /\ shape # "script" /\ entry # "inside" => Mine

\* A status that counts is read behind every ender.
SeenInv ==
    /\ pc \in {"idle", "settle"} /\ cached # "unknown" => ~OwnPending
    /\ pc = "probe" /\ probe["exec"].step # "start" /\ applied >= probe["exec"].id
         /\ cached # "unknown" => ~OwnPending
    /\ \A a \in Probers : Counts(probe[a].id) =>
         /\ probe[a].step = "apply" /\ probe[a].status # "unknown" => ~OwnPending
         /\ probe[a].step = "await" => \A i \in Wire : OwnEnder(i) => i < place[a]

\* A wrapper transaction left behind was hit twice, or once with its ROLLBACK
\* still to come.
WrapperLeft ==
    owner = "wrapper" => hits >= 2 \/ (hits >= 1 /\ \E i \in Wire : wire[i].sql = "rollback")

AwaitOf(S) == pc = "await" /\ stmt \in S
Got == place["exec"] = 0

WrapperInv ==
    /\ owner = "wrapper" => tx # "idle"
    /\ Ended \/ entry # "autocommit" => WrapperLeft
    /\ Working /\ Wrapper /\ ~Wraps => owner # "wrapper"
    /\ Working /\ Wrapper /\ Wraps /\ owner = "wrapper" =>
        /\ pc # "start"
        /\ stmt = "begin" => pc \in {"await", "cleanup"}
        /\ AwaitOf({"begin"}) => Got /\ (shape = "bound" => answer["exec"] = "ok")
        /\ pc = "send" /\ stmt = "rollback" => hits >= tries
        /\ AwaitOf({"rollback"}) =>
            /\ hits + 1 >= tries
            /\ Got => hits >= tries /\ answer["exec"] = "canceled"
        /\ AwaitOf({"commit", "commitCursor"}) /\ Got => answer["exec"] # "ok"

\* A cursor left behind has a statement that ends it on the wire.
CursorLeft == cursor => \E i \in Wire : wire[i].sql \in CleanupSql

CursorInv ==
    /\ cursor => tx = "active"
    /\ Ended \/ shape # "cursor" \/ pc = "start" => CursorLeft
    /\ Working /\ shape = "cursor" =>
        /\ stmt = "begin" /\ pc \in {"check", "send", "await"} => CursorLeft
        /\ stmt = "declare" /\ (pc \in {"check", "send"} \/ (pc = "await" /\ ~Got)) => CursorLeft
        /\ AwaitOf({"declare"}) /\ Got => answer["exec"] = "ok" \/ ~cursor
        /\ AwaitOf({"fetch"}) /\ Got => answer["exec"] \in {"ok", "driver"} \/ ~cursor
        /\ AwaitOf(CleanupSql) /\ Got => CursorLeft

\* A COMMIT of a cursor read is sent only when no Stop was accepted.
StopInv ==
    shape = "cursor"
        /\ (committed \/ OwnCommit \/ (pc \in {"send", "await"} /\ stmt = "commitCursor"))
        => cleaning /\ ~stop

\* An execution with a wrapper, and the COMMITs that end one.  A closed session
\* delivers no outcome, and its closer may overtake the COMMIT of a bound command,
\* which holds no permit.
Own == Wrapper /\ Wraps
Commits == {"commit", "commitCursor"}
Reports == ~closed \/ shape = "cursor"

\* Until the session closes, only the execution touches the wrapper of a bound
\* command: it is open from the BEGIN answered to the COMMIT.
Begun ==
    \/ pc \in {"check", "send"} /\ stmt \in {"prepare", "execute", "commit"}
    \/ AwaitOf({"prepare", "execute", "commit"}) /\ ~Got
    \/ AwaitOf({"begin", "prepare", "execute"}) /\ Got /\ answer["exec"] = "ok"

BegunInv ==
    Own /\ shape = "bound" /\ ~closed =>
        /\ AwaitOf({"begin"}) /\ ~Got => \A i \in Wire : i > place["exec"] => wire[i].sql = "probe"
        /\ Begun => /\ tx = "active"
                    /\ \A i \in Wire : wire[i].sql = "probe" \/ (pc = "await" /\ i = place["exec"])

\* The answer to the COMMIT tells whether it took effect.
CommitInv ==
    Own =>
        /\ Working /\ ~(pc \in {"send", "await"} /\ stmt \in Enders) => ~committed
        /\ pc = "send" /\ stmt \in Commits => ~committed /\ ~OwnPending
        /\ AwaitOf(Commits) =>
            /\ \A i \in Wire : OwnEnder(i) => i = place["exec"]
            /\ committed => Got /\ answer["exec"] = "ok"
            /\ Got /\ answer["exec"] = "ok" /\ Reports => committed

\* The outcome follows that answer.
OutcomeInv ==
    Own =>
        /\ pc \in {"send", "await"} /\ stmt = "rollback" => outcome # "completed"
        /\ (pc \in {"finish", "probe", "settle"} \/ (pc \in {"send", "await"} /\ stmt = "rollback"))
             /\ outcome \in {"stopped", "failed57014"} => ~committed /\ ~OwnCommit
        /\ pc \in {"finish", "probe", "settle"} /\ outcome = "completed" /\ Reports => committed

\* The status of the terminal event is named after the outcome.
StatusInv ==
    /\ status # "none" => pc \in {"probe", "settle"}
    /\ status = "completed" => outcome = "completed"
    /\ status = "cancelled" => outcome \in {"stopped", "failed57014"}

\* The inductive invariant behind the properties of the cleanup.
CleanupInv ==
    /\ IdleInv
    /\ PlanInv
    /\ PermitInv
    /\ StatementsAwaited
    /\ ActingAlone
    /\ OwnInv
    /\ SeenInv
    /\ WrapperInv
    /\ CursorInv
    /\ StopInv
    /\ BegunInv
    /\ CommitInv
    /\ OutcomeInv
    /\ StatusInv

-----------------------------------------------------------------------------
(* What the steps do to the wire and to the transaction.                    *)

\* The head of the wire is gone and the others have moved up.
Shifted ==
    /\ 1 \in Wire /\ Len(wire) \in Nat
    /\ \A i \in 1..Len(wire') : i + 1 \in Wire /\ wire'[i] = wire[i + 1]
    /\ \A i \in Wire : i = 1 \/ (i - 1 \in 1..Len(wire') /\ wire'[i - 1] = wire[i])

\* The wire has grown by a request.
Grown(by, sql) ==
    /\ Len(wire) \in Nat /\ Len(wire') = Len(wire) + 1
    /\ \A i \in Wire : wire'[i] = wire[i]
    /\ wire'[Len(wire) + 1] = [by |-> by, sql |-> sql]

\* Every request on the wire is one.
LEMMA WireTyped ==
  ASSUME TypeOK
  PROVE  /\ Len(wire) \in Nat
         /\ \A i \in Wire : wire[i] \in Requests /\ wire[i].sql \in Sql
         /\ \A a \in Actors : place[a] \in Nat
  <1>1. wire \in Seq(Requests) /\ place \in [Actors -> Nat]
    BY DEF TypeOK, WireType
  <1>2. Len(wire) \in Nat /\ \A i \in Wire : wire[i] \in Requests
    BY <1>1 DEF Wire
  <1> QED
    BY <1>1, <1>2 DEF Requests

\* A request that is sent goes behind the others.
LEMMA EnqueueGrows ==
  ASSUME TypeOK, NEW a \in Actors, NEW by, NEW sql, Enqueue(a, by, sql)
  PROVE  /\ Grown(by, sql)
         /\ place'[a] = Len(wire) + 1 /\ answer'[a] = "none"
         /\ \A b \in Actors : b # a => place'[b] = place[b] /\ answer'[b] = answer[b]
  BY DEF TypeOK, WireType, Enqueue, Grown, Wire

\* What an answer r to the request h, in a transaction that is then t, changes.
AnswerTo(h, r, t) ==
    /\ h \in Requests /\ h.sql \in Sql /\ wire[1] = h /\ Shifted
    /\ tx' = t /\ t \in TxStates
    /\ owner' = IF t = "idle" THEN "nobody"
                ELSE IF h.sql = "script" THEN "user"
                ELSE IF tx # "idle" THEN owner
                ELSE IF entry = "autocommit" THEN "wrapper" ELSE "user"
    /\ fresh' = (t # "idle" /\ (fresh \/ (h.sql = "begin" /\ tx = "idle")))
    /\ cursor' = /\ t = "active"
                 /\ \/ cursor /\ ~(h.sql = "closeCursor" /\ r = "ok")
                    \/ h.sql = "declare" /\ r = "ok"
    /\ committed' = \/ committed
                    \/ /\ h.by = "exec" /\ h.sql \in {"commit", "commitCursor"}
                       /\ r = "ok" /\ tx = "active"
    /\ \A a \in Actors : /\ place'[a] = IF place[a] = 0 THEN 0 ELSE place[a] - 1
                         /\ answer'[a] = IF place[a] = 1 THEN r ELSE answer[a]
    /\ UNCHANGED <<cached, mode, probeVars, creditVars, pc, shape, entry, stmt, outcome, tries,
                   status, acting, closed, closer>>

\* What the server can answer to a statement, and the transaction after it.
Says(s, r, t) ==
    /\ tx = "idle" /\ s \notin OpenerSql => t = "idle"
    /\ s = "begin" /\ tx = "idle" /\ shape = "bound" /\ r # "ok" => t = "idle"
    /\ s \in Enders /\ r = "ok" => t = "idle"
    /\ s = "rollback" => r \in {"ok", "canceled"}
    /\ s = "commitCursor" /\ r = "ok" => cursor
    /\ s \in CleanupSql => t # "active" \/ (s = "closeCursor" /\ r = "ok")
    /\ s = "declare" => r # "driver"
    /\ s \in {"declare", "fetch"} /\ r \notin {"ok", "driver"} => t # "active"
    /\ s = "begin" /\ r = "ok" => t = "active"
    /\ s \in {"prepare", "execute"} /\ r = "ok" => t = tx
    /\ s = "probe" /\ r # "canceled" => t = tx

\* That is what it answers.
LEMMA ServerSays ==
  ASSUME TypeOK, NEW s \in Sql, NEW o \in Succeeds(s) \cup Fails(s) \cup IsCanceled(s)
  PROVE  Says(s, o[1], o[2])
  <1> USE DEF Says, Succeeds, Fails, IsCanceled, Broken, HalfBegun, OpenerSql, Enders, CleanupSql
  <1>1. CASE s = "probe" \/ s = "script"
    BY <1>1 DEF TypeOK, ServerType, TxStates
  <1>2. CASE s = "begin"
    BY <1>2
  <1>3. CASE s = "declare"
    BY <1>3
  <1>4. CASE s = "fetch"
    BY <1>4
  <1>5. CASE s = "prepare"
    BY <1>5
  <1>6. CASE s = "execute"
    BY <1>6
  <1>7. CASE s = "closeCursor"
    BY <1>7
  <1>8. CASE s = "commitCursor"
    BY <1>8
  <1>9. CASE s = "commit"
    BY <1>9
  <1>10. CASE s = "rollback"
    BY <1>10
  <1> QED
    BY <1>1, <1>2, <1>3, <1>4, <1>5, <1>6, <1>7, <1>8, <1>9, <1>10 DEF Sql, UserSql, CleanupSql

\* What the server can say to it.
Possible(h, r, t) ==
    /\ Says(h.sql, r, t)
    /\ hits \in 0..2 /\ hits' \in 0..2 /\ hits <= hits'
    /\ h.sql = "probe" => t = tx
    /\ h.sql = "rollback" /\ r = "canceled" => hits' = 2 \/ hits' = hits + 1

\* Every answer is of that kind.
LEMMA AnswerIs ==
  ASSUME TypeOK, ServerAnswers \/ CancelLands
  PROVE  \E h, r, t : AnswerTo(h, r, t) /\ Possible(h, r, t)
  <1> DEFINE h == Head(wire)
  <1>1. wire # <<>> /\ wire \in Seq(Requests)
    BY DEF TypeOK, WireType, ServerAnswers, CancelLands
  <1>2. h \in Requests /\ h.sql \in Sql /\ wire[1] = h
    <2>1. h \in Requests /\ wire[1] = h
      BY <1>1
    <2> QED
      BY <2>1 DEF Requests
  <1>3. ASSUME NEW r, NEW t, Effect(h, r, t) PROVE Shifted
    BY <1>1, <1>3 DEF Effect, Shifted, Wire
  <1>4. hits \in 0..2
    BY DEF TypeOK, TaskType
  <1>5. ASSUME NEW o \in Succeeds(h.sql) \cup Fails(h.sql) \cup IsCanceled(h.sql)
        PROVE  o[2] \in TxStates
    BY <1>2, ServerFacts
  <1>6. ASSUME NEW r, NEW t \in TxStates, Effect(h, r, t),
               UNCHANGED <<cached, mode, probeVars, creditVars, taskVars, acting, closeVars>>
        PROVE  AnswerTo(h, r, t)
    <2>1. Shifted
      BY <1>3, <1>6
    <2>2. \A a \in Actors : /\ place'[a] = IF place[a] = 0 THEN 0 ELSE place[a] - 1
                            /\ answer'[a] = IF place[a] = 1 THEN r ELSE answer[a]
      BY <1>6 DEF Effect
    <2> QED
      BY <1>2, <1>6, <2>1, <2>2 DEF AnswerTo, Effect, taskVars, closeVars
  <1> HIDE DEF h
  <1>7. CASE ServerAnswers
    <2>1. PICK o \in Succeeds(h.sql) \cup Fails(h.sql) : Effect(h, o[1], o[2])
      BY <1>7 DEF ServerAnswers, h
    <2>2. UNCHANGED <<cached, mode, probeVars, creditVars, taskVars, hits, acting, closeVars>>
      BY <1>7 DEF ServerAnswers
    <2>3. AnswerTo(h, o[1], o[2])
      BY <1>5, <1>6, <2>1, <2>2
    <2>4. Says(h.sql, o[1], o[2])
      BY <1>2, ServerSays
    <2>5. h.sql \in {"rollback", "probe"} => o[1] = "ok"
      BY <2>1 DEF Succeeds, Fails
    <2>6. Possible(h, o[1], o[2])
      BY <1>4, <2>2, <2>4, <2>5 DEF Possible, Says
    <2> QED
      BY <2>3, <2>6
  <1>8. CASE CancelLands
    <2>1. PICK o \in IsCanceled(h.sql) : Effect(h, o[1], o[2])
      BY <1>8 DEF CancelLands, h
    <2>2. /\ UNCHANGED <<cached, mode, probeVars, creditVars, taskVars, acting, closeVars>>
          /\ h.sql # "probe"
          /\ IF h.sql \in CleanupSql THEN Hit ELSE UNCHANGED hits
      BY <1>8 DEF CancelLands, h
    <2>3. AnswerTo(h, o[1], o[2])
      BY <1>5, <1>6, <2>1, <2>2
    <2>4. Says(h.sql, o[1], o[2])
      BY <1>2, ServerSays
    <2>5. Possible(h, o[1], o[2])
      BY <1>4, <2>2, <2>4 DEF Possible, Says, Hit, CleanupSql
    <2> QED
      BY <2>3, <2>5
  <1> QED
    BY <1>7, <1>8

\* A step that sends nothing and moves neither the server nor the execution.
Quiet ==
    /\ UNCHANGED <<tx, owner, fresh, cursor, committed, wire, answer, cached, applied,
                   pc, shape, entry, stmt, outcome, tries, status, hits, cleaning, permit, closed>>
    /\ place'["exec"] = place["exec"] \/ pc = "probe"
    /\ place'["action"] = place["action"] \/ acting = "probe"
    /\ stop' = stop \/ ~cleaning
    /\ acting' = acting \/ (acting = "await" /\ acting' \in {"none", "probe"} /\ place["action"] = 0)
    /\ closer' = closer \/ closer' = "mark" \/ closer \notin {"none", "mark"}

\* A request that is not the execution's is sent.
Sends(by, sql) ==
    /\ Grown(by, sql)
    /\ UNCHANGED <<tx, owner, fresh, cursor, committed, cached, applied,
                   pc, shape, entry, stmt, outcome, tries, status, hits, stop, cleaning, permit, closed>>
    /\ (place'["exec"] = place["exec"] /\ answer'["exec"] = answer["exec"]) \/ pc = "probe"
    /\ \/ /\ by = "probe" /\ sql = "probe" /\ UNCHANGED <<acting, closer>>
          /\ (place'["action"] = place["action"] \/ acting = "probe")
       \/ /\ by = "action" /\ sql \in {"commit", "rollback"} /\ acting = "none" /\ acting' = "await"
          /\ pc = "idle" /\ place'["action"] = Len(wire) + 1 /\ UNCHANGED closer
       \/ /\ by = "close" /\ sql = "rollback" /\ closer = "rollback" /\ UNCHANGED acting
          /\ closer' = "await" /\ place'["action"] = place["action"]

AsideAction ==
    \/ CancelDiscarded \/ RequestCancel \/ SetMode \/ CloseRequest \/ CloseCancel \/ ActReceive
    \/ CloseReceive \/ (CloseRollback /\ closer' # "await") \/ UNCHANGED vars
    \/ \E r \in Refreshers : Refresh(r)
    \/ \E p \in Probers : ProbeStart(p) \/ ProbeRead(p)

SendAction ==
    \/ \E p \in Probers : ProbeSend(p)
    \/ Act("commit") \/ Act("rollback") \/ (CloseRollback /\ closer' = "await")

\* The steps beside the execution, the server's and the close of the session.
LEMMA AsideIs ==
  ASSUME IdleInv, AsideAction
  PROVE  Quiet
  <1> USE ActorFacts DEF serverVars, wireVars, probeVars, creditVars, taskVars, closeVars
  <1>0. place \in [Actors -> Nat] /\ ProbesNumbered
    BY DEF IdleInv, TypeOK, WireType
  <1>1. CASE CancelDiscarded \/ SetMode \/ CloseCancel
    BY <1>1 DEF CancelDiscarded, SetMode, CloseCancel, Quiet
  <1>2. CASE RequestCancel \/ CloseRequest \/ (CloseRollback /\ closer' # "await")
    BY <1>2 DEF RequestCancel, CloseRequest, CloseRollback, Quiet
  <1>3. CASE ActReceive
    BY <1>3 DEF ActReceive, Answered, Quiet
  <1>4. CASE CloseReceive
    BY <1>0, <1>4 DEF CloseReceive, GiveUp, Quiet, Probers
  <1>5. CASE UNCHANGED vars
    BY <1>5 DEF vars, Quiet
  <1>6. CASE \E r \in Refreshers : Refresh(r)
    BY <1>6 DEF Refresh, Quiet
  <1>7. ASSUME NEW p \in Probers, ProbeStart(p) PROVE Quiet
    BY <1>7 DEF ProbeStart, Quiet
  <1>8. ASSUME NEW p \in Probers, ProbeRead(p) PROVE Quiet
    <2>1. CASE UNCHANGED place
      BY <1>8, <2>1 DEF ProbeRead, Quiet
    <2>2. CASE GiveUp(p)
      <3>1. p # "exec" => place'["exec"] = place["exec"]
        BY <1>0, <2>2 DEF GiveUp
      <3>2. p # "action" => place'["action"] = place["action"]
        BY <1>0, <2>2 DEF GiveUp
      <3>3. (p = "action" => acting = "probe") /\ (p = "exec" => pc = "probe")
        BY <1>0, <1>8 DEF ProbeRead, ProbesNumbered
      <3> QED
        BY <1>8, <3>1, <3>2, <3>3 DEF ProbeRead, Quiet
    <2> QED
      BY <1>8, <2>1, <2>2 DEF ProbeRead
  <1> QED
    BY <1>1, <1>2, <1>3, <1>4, <1>5, <1>6, <1>7, <1>8 DEF AsideAction

\* The requests beside the execution's.
LEMMA SendIs ==
  ASSUME IdleInv, ActingAlone, SendAction
  PROVE  \E by, sql : Sends(by, sql)
  <1> USE ActorFacts DEF serverVars, wireVars, probeVars, creditVars, taskVars, closeVars
  <1>0. TypeOK /\ ProbesNumbered /\ Len(wire) \in Nat
    BY DEF IdleInv, TypeOK, WireType
  <1>1. ASSUME NEW p \in Probers, ProbeSend(p) PROVE Sends("probe", "probe")
    <2>1. /\ Grown("probe", "probe")
          /\ \A b \in Actors : b # p => place'[b] = place[b] /\ answer'[b] = answer[b]
      BY <1>0, <1>1, EnqueueGrows DEF ProbeSend
    <2>2. (p = "action" => acting = "probe") /\ (p = "exec" => pc = "probe")
      BY <1>0, <1>1 DEF ProbeSend, ProbesNumbered
    <2> QED
      BY <1>1, <2>1, <2>2 DEF ProbeSend, Sends
  <1>2. ASSUME NEW sql \in {"commit", "rollback"}, Act(sql) PROVE Sends("action", sql)
    <2>1. /\ Grown("action", sql) /\ place'["action"] = Len(wire) + 1
          /\ place'["exec"] = place["exec"] /\ answer'["exec"] = answer["exec"]
      BY <1>0, <1>2, EnqueueGrows DEF Act
    <2>2. pc = "idle"
      BY <1>2 DEF Act, IdleInv, SlotHeld
    <2> QED
      BY <1>2, <2>1, <2>2 DEF Act, Sends
  <1>3. CASE CloseRollback /\ closer' = "await"
    <2>0. Enqueue("close", "close", "rollback")
      BY <1>3 DEF CloseRollback
    <2>1. /\ Grown("close", "rollback") /\ place'["action"] = place["action"]
          /\ place'["exec"] = place["exec"] /\ answer'["exec"] = answer["exec"]
      BY <1>0, <2>0, EnqueueGrows DEF Senders
    <2> QED
      BY <1>3, <2>1 DEF CloseRollback, Sends
  <1> QED
    BY <1>1, <1>2, <1>3 DEF SendAction


\* Every step is one of these, a step of the execution, or an answer.
StepKinds ==
    \/ ServerAnswers \/ CancelLands
    \/ Quiet \/ (\E by, sql : Sends(by, sql)) \/ MarkClosed \/ (\E p \in Probers : ProbeApply(p))
    \/ Begin \/ Checkpoint \/ Send \/ Receive \/ CleanupTimeout \/ BeginCleanup
    \/ Conclude \/ Settle \/ Abandon \/ (\E sh \in Shapes : Execute(sh))
\* No step is left out.
LEMMA NextKinds ==
  ASSUME IdleInv, ActingAlone, [Next]_vars
  PROVE  StepKinds
  <1>1. AsideAction => Quiet
    BY AsideIs
  <1>2. SendAction => \E by, sql : Sends(by, sql)
    BY SendIs
  <1> QED
    BY <1>1, <1>2 DEF StepKinds, AsideAction, SendAction, Next, Probing, ExecStep, CallStep, CloseStep

-----------------------------------------------------------------------------
(* Where the execution is.                                                  *)

\* What a step that leaves the execution where it is keeps of it.
TaskStays == UNCHANGED <<pc, shape, entry, stmt, outcome, tries, status>>

\* Answers and requests of others leave the execution where it is.
LEMMA StaysPut ==
  ASSUME TypeOK,
         \/ ServerAnswers \/ CancelLands
         \/ Quiet \/ (\E by, sql : Sends(by, sql)) \/ MarkClosed
         \/ \E p \in Probers : p # "exec" /\ ProbeApply(p)
  PROVE  TaskStays
  <1>1. CASE ServerAnswers \/ CancelLands
    BY <1>1, AnswerIs DEF AnswerTo, TaskStays
  <1>2. CASE Quiet \/ (\E by, sql : Sends(by, sql))
    BY <1>2 DEF Quiet, Sends, TaskStays
  <1>3. CASE MarkClosed \/ \E p \in Probers : p # "exec" /\ ProbeApply(p)
    BY <1>3 DEF MarkClosed, ProbeApply, taskVars, TaskStays
  <1> QED
    BY <1>1, <1>2, <1>3

\* The ends of a task's own probe and of the task.
LEMMA TaskEnds ==
  ASSUME IdleInv
  PROVE  /\ ProbeApply("exec") => /\ pc = "probe" /\ pc' = "settle"
                                  /\ UNCHANGED <<shape, entry, stmt, outcome, tries, status>>
         /\ Conclude => /\ pc = "finish" /\ pc' = "probe"
                        /\ UNCHANGED <<shape, entry, stmt, outcome, tries>>
         /\ Settle => /\ pc = "settle" /\ pc' \in {"idle", "over"}
                      /\ shape' = "script" /\ entry' = "autocommit" /\ stmt' = "probe"
                      /\ outcome' = "none" /\ tries' = 0 /\ status' = "none"
         /\ Abandon => /\ pc' = "over"
                       /\ UNCHANGED <<shape, entry, stmt, outcome, tries, status>>
         /\ \A sh \in Shapes : Execute(sh) =>
                /\ pc = "idle" /\ pc' = "start" /\ shape' = sh /\ stmt' = "probe" /\ tries' = 0
                /\ outcome' = "none" /\ status' = "none"
         /\ Send => /\ pc = "send" /\ pc' = "await"
                    /\ tries' = IF stmt = "rollback" THEN tries + 1 ELSE tries
                    /\ UNCHANGED <<shape, entry, stmt, outcome, status>>
  BY ActorFacts DEF IdleInv, ProbesNumbered, SlotHeld, ProbeApply, Conclude, Settle, Abandon, Execute, Send

\* The execution follows the plan of its shape.
LEMMA PlanStep ==
  ASSUME IdleInv, ActingAlone, PlanInv, [Next]_vars
  PROVE  PlanInv'
  <1> USE DEF Plan, CleanupPlan, Wrapper
  <1>0. /\ TypeOK /\ tries \in Nat /\ shape \in {"script", "cursor", "bound"}
        /\ entry \in {"autocommit", "begin", "inside"}
    BY DEF IdleInv, TypeOK, TaskType
  <1>1. ASSUME TaskStays PROVE PlanInv'
    BY <1>1 DEF TaskStays, PlanInv
  <1>2. CASE \/ ServerAnswers \/ CancelLands
             \/ Quiet \/ (\E by, sql : Sends(by, sql)) \/ MarkClosed
             \/ \E p \in Probers : p # "exec" /\ ProbeApply(p)
    BY <1>0, <1>1, <1>2, StaysPut
  <1>3. CASE ProbeApply("exec") \/ Conclude \/ Settle \/ Abandon
    BY <1>0, <1>3, TaskEnds DEF PlanInv
  <1>4. CASE \E sh \in Shapes : Execute(sh)
    BY <1>0, <1>4, TaskEnds DEF PlanInv
  <1>5. CASE Send
    BY <1>0, <1>5, TaskEnds DEF PlanInv
  <1>6. CASE Begin
    BY <1>0, <1>6 DEF Begin, ToCheck, ToSend, PlanInv
  <1>7. CASE Checkpoint
    BY <1>0, <1>7 DEF Checkpoint, Stopped, ToSend, ToCleanup, ToRollback, Finish, PlanInv
  <1>8. CASE BeginCleanup
    BY <1>0, <1>8 DEF BeginCleanup, PlanInv
  <1>9. CASE CleanupTimeout
    BY <1>0, <1>9 DEF CleanupTimeout, AfterCleanup, ToSend, ToRollback, Finish, CleanupSql, PlanInv
  <1>10. CASE Receive
    <2> DEFINE r == answer["exec"]
    <2>0. pc = "await" /\ UNCHANGED <<shape, entry>>
      BY <1>10 DEF Receive
    <2>1. CASE stmt \in CleanupSql /\ AfterCleanup(r)
      BY <1>0, <2>0, <2>1 DEF AfterCleanup, ToSend, ToRollback, Finish, CleanupSql, PlanInv
    <2>2. CASE stmt \in UserSql /\ shape = "script" /\ AfterScript(r)
      BY <1>0, <2>0, <2>2 DEF AfterScript, ToSend, Finish, UserSql, PlanInv
    <2>3. CASE stmt \in UserSql /\ shape = "cursor" /\ AfterCursor(r)
      BY <1>0, <2>0, <2>3 DEF AfterCursor, ToCheck, ToCleanup, Finish, UserSql, PlanInv
    <2>4. CASE stmt \in UserSql /\ shape = "bound" /\ ~Pooled /\ AfterBound(r)
      BY <1>0, <2>0, <2>4 DEF AfterBound, ToCheck, Finish, UserSql, PlanInv
    <2>5. CASE stmt \in UserSql /\ shape = "bound" /\ Pooled /\ AfterPooled(r)
      BY <1>0, <2>0, <2>5 DEF AfterPooled, ToCheck, ToSend, ToRollback, Finish, UserSql, PlanInv
    <2> QED
      BY <1>10, <2>1, <2>2, <2>3, <2>4, <2>5 DEF Receive
  <1> QED
    BY <1>2, <1>3, <1>4, <1>5, <1>6, <1>7, <1>8, <1>9, <1>10, NextKinds DEF StepKinds

\* The permit is held exactly while a cursor read cleans up.
LEMMA PermitStep ==
  ASSUME IdleInv, ActingAlone, PlanInv, PermitInv, [Next]_vars
  PROVE  PermitInv'
  <1> USE DEF PermitInv
  <1>0. /\ TypeOK /\ permit \in BOOLEAN /\ cleaning \in BOOLEAN /\ closed \in BOOLEAN
        /\ shape \in {"script", "cursor", "bound"}
    BY DEF IdleInv, TypeOK, TaskType, CreditType, CallerType
  <1>1. CASE ServerAnswers \/ CancelLands
    <2>1. UNCHANGED <<permit, cleaning, closed, pc, shape, stmt>>
      BY <1>0, <1>1, AnswerIs DEF AnswerTo, creditVars
    <2> QED
      BY <2>1
  <1>2. CASE Quiet
    BY <1>2 DEF Quiet
  <1>3. CASE \E by, sql : Sends(by, sql)
    BY <1>3 DEF Sends
  <1>4. CASE MarkClosed
    BY <1>4 DEF MarkClosed, creditVars, taskVars
  <1>5. CASE \E p \in Probers : ProbeApply(p)
    <2>1. PICK p \in Probers : ProbeApply(p)
      BY <1>5
    <2>2. p = "exec" => pc = "probe"
      BY <2>1 DEF IdleInv, ProbesNumbered, ProbeApply
    <2>3. UNCHANGED <<permit, cleaning, closed, shape, stmt>> /\ (pc' = pc \/ (p = "exec" /\ pc' = "settle"))
      BY <2>1 DEF ProbeApply, creditVars, closeVars
    <2> QED
      BY <1>0, <2>2, <2>3
  <1>6. CASE Begin
    BY <1>0, <1>6 DEF Begin, ToCheck, ToSend, CleanupSql, closeVars
  <1>7. CASE Checkpoint
    BY <1>0, <1>7 DEF Checkpoint, Stopped, ToSend, ToCleanup, ToRollback, Finish, CleanupSql, closeVars,
       PlanInv, Plan
  <1>8. CASE Send \/ Conclude \/ Settle \/ Abandon
    BY <1>0, <1>8 DEF Send, Conclude, Settle, Abandon, creditVars, closeVars
  <1>9. CASE BeginCleanup
    BY <1>0, <1>9 DEF BeginCleanup, CleanupSql, closeVars, PlanInv
  <1>10. CASE CleanupTimeout
    BY <1>0, <1>10 DEF CleanupTimeout, AfterCleanup, ToSend, ToRollback, Finish, CleanupSql, closeVars
  <1>11. CASE Receive
    <2> DEFINE r == answer["exec"]
    <2>0. pc = "await" /\ UNCHANGED <<shape, cleaning, closed>>
      BY <1>11 DEF Receive, closeVars
    <2>1. CASE stmt \in CleanupSql /\ AfterCleanup(r)
      BY <1>0, <2>0, <2>1 DEF AfterCleanup, ToSend, ToRollback, Finish, CleanupSql
    <2>2. CASE stmt \in UserSql /\ shape = "script" /\ AfterScript(r)
      BY <1>0, <2>0, <2>2 DEF AfterScript, ToSend, Finish, UserSql, CleanupSql
    <2>3. CASE stmt \in UserSql /\ shape = "cursor" /\ AfterCursor(r)
      BY <1>0, <2>0, <2>3 DEF AfterCursor, ToCheck, ToCleanup, Finish, UserSql, CleanupSql
    <2>4. CASE stmt \in UserSql /\ shape = "bound" /\ ~Pooled /\ AfterBound(r)
      BY <1>0, <2>0, <2>4 DEF AfterBound, ToCheck, Finish, UserSql, CleanupSql
    <2>5. CASE stmt \in UserSql /\ shape = "bound" /\ Pooled /\ AfterPooled(r)
      BY <1>0, <2>0, <2>5 DEF AfterPooled, ToCheck, ToSend, ToRollback, Finish, UserSql, CleanupSql
    <2> QED
      BY <1>11, <2>1, <2>2, <2>3, <2>4, <2>5 DEF Receive
  <1>12. CASE \E sh \in Shapes : Execute(sh)
    <2>1. pc = "idle" /\ pc' = "start" /\ UNCHANGED <<permit, closed>>
      BY <1>12, TaskEnds DEF Execute, closeVars
    <2> QED
      BY <1>0, <2>1
  <1> QED
    BY <1>1, <1>2, <1>3, <1>4, <1>5, <1>6, <1>7, <1>8, <1>9, <1>10, <1>11, <1>12, NextKinds DEF StepKinds

-----------------------------------------------------------------------------
(* Whose requests are on the wire.                                          *)

\* The execution's own steps, but for Send, leave the wire alone.
LEMMA OwnSteps ==
  ASSUME TypeOK,
         \/ Begin \/ Checkpoint \/ Receive \/ CleanupTimeout \/ BeginCleanup
         \/ Conclude \/ Settle \/ Abandon \/ (\E sh \in Shapes : Execute(sh))
         \/ (\E p \in Probers : ProbeApply(p)) \/ MarkClosed
  PROVE  /\ UNCHANGED wire
         /\ place'["exec"] = place["exec"] \/ (CleanupTimeout /\ place'["exec"] = 0)
         /\ \A a \in Actors : a # "exec" => place'[a] = place[a]
  <1> USE ActorFacts DEF serverVars, wireVars
  <1>1. CASE Begin \/ Checkpoint \/ Receive \/ BeginCleanup
    BY <1>1 DEF Begin, Checkpoint, Receive, BeginCleanup
  <1>2. CASE Conclude \/ Settle \/ Abandon \/ MarkClosed
    BY <1>2 DEF Conclude, Settle, Abandon, MarkClosed
  <1>3. CASE (\E sh \in Shapes : Execute(sh)) \/ (\E p \in Probers : ProbeApply(p))
    BY <1>3 DEF Execute, ProbeApply
  <1>4. CASE CleanupTimeout
    BY <1>4 DEF CleanupTimeout, GiveUp, TypeOK, WireType
  <1> QED
    BY <1>1, <1>2, <1>3, <1>4

\* No statement of an execution is on the wire unless it waits for it.
LEMMA NoStatement ==
  ASSUME IdleInv, StatementsAwaited,
         pc # "await" \/ place["exec"] = 0 \/ stmt \in CleanupSql
  PROVE  \A i \in Wire : wire[i].sql \notin UserSql
  <1>1. \A i \in Wire : i # 0
    BY DEF Wire
  <1>2. stmt \in CleanupSql => stmt \notin UserSql
    BY DEF CleanupSql, UserSql
  <1> QED
    BY <1>1, <1>2 DEF StatementsAwaited, IdleInv, WaitsMatch

\* Statements, actions and the closer's ROLLBACK stay where they belong.
LEMMA StatementsStep ==
  ASSUME IdleInv, ActingAlone, PlanInv, StatementsAwaited, [Next]_vars
  PROVE  StatementsAwaited'
  <1> USE ActorFacts
  <1>0. /\ TypeOK /\ Len(wire) \in Nat /\ \A a \in Actors : place[a] \in Nat
        /\ \A i \in Wire : wire[i].sql \in Sql
    BY WireTyped DEF IdleInv
  <1>1. CASE ServerAnswers \/ CancelLands
    <2>1. PICK h, r, t : AnswerTo(h, r, t)
      BY <1>0, <1>1, AnswerIs
    <2>2. /\ \A i \in Wire' : i + 1 \in Wire /\ wire'[i] = wire[i + 1]
          /\ place'["exec"] = IF place["exec"] = 0 THEN 0 ELSE place["exec"] - 1
          /\ UNCHANGED <<pc, acting, closed>>
      BY <2>1 DEF AnswerTo, Shifted, Wire
    <2>3. \A i \in Wire' : i \in Nat /\ i + 1 # 0
      BY DEF Wire
    <2> QED
      BY <1>0, <2>2, <2>3 DEF StatementsAwaited
  <1>2. CASE Quiet
    <2>1. UNCHANGED <<wire, pc, closed>> /\ (place'["exec"] = place["exec"] \/ pc = "probe")
      BY <1>2 DEF Quiet
    <2>2. acting' # acting => acting = "await" /\ place["action"] = 0
      BY <1>2 DEF Quiet
    <2>3. \A i \in Wire : i # 0
      BY DEF Wire
    <2> QED
      BY <2>1, <2>2, <2>3 DEF StatementsAwaited, ActingAlone, Wire
  <1>3. CASE \E by, sql : Sends(by, sql)
    <2>1. PICK by, sql : Sends(by, sql)
      BY <1>3
    <2>2. /\ \A i \in Wire' : (i \in Wire /\ wire'[i] = wire[i]) \/ wire'[i] = [by |-> by, sql |-> sql]
          /\ \A i \in Wire : i \in Wire'
      BY <2>1 DEF Sends, Grown, Wire
    <2>3. /\ sql \notin UserSql /\ (by = "action" => acting' = "await") /\ (by = "close" => closed')
          /\ (by = "probe" <=> sql = "probe")
      BY <2>1 DEF Sends, UserSql, ActingAlone
    <2>4. /\ UNCHANGED <<pc, closed>> /\ (place'["exec"] = place["exec"] \/ pc = "probe")
          /\ acting = "await" => acting' = "await"
      BY <2>1 DEF Sends
    <2> QED
      BY <2>2, <2>3, <2>4 DEF StatementsAwaited
  <1>4. CASE Send
    <2>1. /\ Grown("exec", stmt) /\ place'["exec"] = Len(wire) + 1
          /\ pc = "send" /\ pc' = "await" /\ UNCHANGED <<acting, closed>>
      BY <1>0, <1>4, EnqueueGrows DEF Send, closeVars
    <2>2. stmt # "probe"
      BY <2>1 DEF PlanInv, Plan, CleanupPlan
    <2>3. \A i \in Wire' : (i \in Wire /\ wire'[i] = wire[i])
                           \/ (i = Len(wire) + 1 /\ wire'[i] = [by |-> "exec", sql |-> stmt])
      BY <2>1 DEF Grown, Wire
    <2>4. \A i \in Wire : wire[i].sql \notin UserSql
      BY <2>1, NoStatement
    <2> QED
      BY <2>1, <2>2, <2>3, <2>4 DEF StatementsAwaited
  <1>5. CASE \/ Begin \/ Checkpoint \/ Receive \/ CleanupTimeout \/ BeginCleanup
             \/ Conclude \/ Settle \/ Abandon \/ (\E sh \in Shapes : Execute(sh))
             \/ (\E p \in Probers : ProbeApply(p)) \/ MarkClosed
    <2>1. UNCHANGED wire
      BY <1>0, <1>5, OwnSteps
    <2>2. /\ closed => closed'
          /\ acting = "await" => acting' = "await"
      <3>1. ASSUME NEW p \in Probers, ProbeApply(p) PROVE acting = "await" => acting' = "await"
        BY <3>1 DEF ProbeApply, IdleInv, ProbesNumbered
      <3> QED
        BY <1>5, <3>1 DEF Begin, Checkpoint, Receive, CleanupTimeout, BeginCleanup, Conclude, Settle,
           Abandon, Execute, ProbeApply, MarkClosed, closeVars
    <2>3. CASE pc # "await" \/ place["exec"] = 0 \/ stmt \in CleanupSql
      BY <2>1, <2>2, <2>3, NoStatement DEF StatementsAwaited, Wire
    <2>4. CASE UNCHANGED <<pc, place>>
      BY <2>1, <2>2, <2>4 DEF StatementsAwaited, Wire
    <2>5. CASE MarkClosed \/ \E p \in Probers : ProbeApply(p)
      <3>1. UNCHANGED place /\ (UNCHANGED pc \/ ProbeApply("exec"))
        BY <2>5 DEF MarkClosed, ProbeApply, taskVars, wireVars
      <3>2. ProbeApply("exec") => pc = "probe"
        BY TaskEnds
      <3> QED
        BY <2>3, <2>4, <3>1, <3>2
    <2>6. CASE Begin \/ Checkpoint \/ Receive \/ CleanupTimeout \/ BeginCleanup
      <3>1. pc # "await" \/ place["exec"] = 0 \/ stmt \in CleanupSql
        BY <2>6 DEF Begin, Checkpoint, Receive, CleanupTimeout, BeginCleanup, Answered
      <3> QED
        BY <2>3, <3>1
    <2>7. CASE Conclude \/ Settle \/ Abandon \/ \E sh \in Shapes : Execute(sh)
      <3>1. pc # "await"
        BY <2>7, TaskEnds DEF Abandon
      <3> QED
        BY <2>3, <3>1
    <2> QED
      BY <1>5, <2>5, <2>6, <2>7
  <1> QED
    BY <1>1, <1>2, <1>3, <1>4, <1>5, NextKinds DEF StepKinds

\* Nobody else acts while an execution runs.
LEMMA ActingStep ==
  ASSUME IdleInv, ActingAlone, StatementsAwaited, [Next]_vars
  PROVE  ActingAlone'
  <1> USE ActorFacts
  <1>0. TypeOK /\ Len(wire) \in Nat /\ \A a \in Actors : place[a] \in Nat
    BY WireTyped DEF IdleInv
  <1>1. CASE ServerAnswers \/ CancelLands
    <2>1. PICK h, r, t : AnswerTo(h, r, t)
      BY <1>0, <1>1, AnswerIs
    <2>2. /\ \A i \in Wire' : i \in Nat /\ i + 1 \in Wire /\ wire'[i] = wire[i + 1]
          /\ place'["action"] = IF place["action"] = 0 THEN 0 ELSE place["action"] - 1
          /\ UNCHANGED <<pc, acting, closed, closer>>
      BY <2>1 DEF AnswerTo, Shifted, Wire
    <2> QED
      BY <1>0, <2>2 DEF ActingAlone
  <1>2. CASE Quiet
    <2>1. /\ UNCHANGED <<wire, pc, closed>> /\ Wire' = Wire
          /\ closer' = closer \/ closer' = "mark" \/ closer \notin {"none", "mark"}
          /\ place'["action"] = place["action"] \/ acting = "probe"
          /\ acting' = acting \/ (acting = "await" /\ acting' \in {"none", "probe"})
      BY <1>2 DEF Quiet, Wire
    <2> QED
      BY <2>1 DEF ActingAlone
  <1>3. CASE \E by, sql : Sends(by, sql)
    <2>1. PICK by, sql : Sends(by, sql)
      BY <1>3
    <2>2. \A i \in Wire' : \/ i \in Wire /\ wire'[i] = wire[i]
                           \/ i = Len(wire) + 1 /\ wire'[i] = [by |-> by, sql |-> sql]
      BY <2>1 DEF Sends, Grown, Wire
    <2>3. UNCHANGED <<pc, closed>>
      BY <2>1 DEF Sends
    <2>4. CASE by # "action"
      <3>1. /\ UNCHANGED acting /\ (place'["action"] = place["action"] \/ acting = "probe")
            /\ closer' = closer \/ closer \notin {"none", "mark"}
        BY <2>1, <2>4 DEF Sends
      <3> QED
        BY <2>2, <2>3, <2>4, <3>1 DEF ActingAlone
    <2>5. CASE by = "action"
      <3>1. acting = "none" /\ acting' = "await" /\ pc = "idle" /\ UNCHANGED closer
        BY <2>1, <2>5 DEF Sends
      <3>2. \A i \in Wire : wire[i].by # "action"
        BY <3>1 DEF StatementsAwaited
      <3>3. place'["action"] = Len(wire) + 1
        BY <2>1, <2>5 DEF Sends
      <3> QED
        BY <2>2, <2>3, <3>1, <3>2, <3>3 DEF ActingAlone
    <2> QED
      BY <2>4, <2>5
  <1>4. CASE Send
    <2>1. /\ Grown("exec", stmt) /\ place'["action"] = place["action"]
          /\ pc = "send" /\ UNCHANGED <<acting, closed, closer>>
      BY <1>0, <1>4, EnqueueGrows DEF Send, closeVars
    <2>2. \A i \in Wire' : \/ i \in Wire /\ wire'[i] = wire[i]
                           \/ wire'[i].by = "exec"
      BY <2>1 DEF Grown, Wire
    <2> QED
      BY <2>1, <2>2 DEF ActingAlone
  <1>5. CASE \/ Begin \/ Checkpoint \/ Receive \/ CleanupTimeout \/ BeginCleanup
             \/ Conclude \/ Settle \/ Abandon \/ (\E sh \in Shapes : Execute(sh))
             \/ (\E p \in Probers : ProbeApply(p)) \/ MarkClosed
    <2>1. UNCHANGED wire /\ place'["action"] = place["action"]
      BY <1>0, <1>5, OwnSteps
    <2>2. /\ closed => closed'
          /\ (closer' = closer \/ closer' = "mark" \/ closed')
          /\ acting' = acting \/ acting' = "none"
      BY <1>5 DEF Begin, Checkpoint, Receive, CleanupTimeout, BeginCleanup, Conclude, Settle,
           Abandon, Execute, ProbeApply, MarkClosed, closeVars
    <2>3. acting = "none" \/ pc' = "idle"
      <3>1. CASE \E sh \in Shapes : Execute(sh)
        BY <3>1 DEF Execute
      <3>2. CASE pc # "idle"
        BY <3>2 DEF ActingAlone
      <3>3. CASE MarkClosed
        BY <3>3 DEF MarkClosed
      <3>4. CASE \E p \in Probers : ProbeApply(p)
        <4>1. PICK p \in Probers : ProbeApply(p)
          BY <3>4
        <4>2. CASE p = "exec"
          BY <3>2, <4>1, <4>2, TaskEnds
        <4>3. CASE p # "exec"
          BY <3>2, <4>1, <4>3 DEF ProbeApply
        <4> QED
          BY <4>2, <4>3
      <3>5. CASE Begin \/ Checkpoint \/ Receive \/ CleanupTimeout \/ BeginCleanup
                 \/ Conclude \/ Settle \/ Abandon
        BY <3>2, <3>5 DEF Begin, Checkpoint, Receive, CleanupTimeout, BeginCleanup, Conclude, Settle,
           Abandon
      <3> QED
        BY <1>5, <3>1, <3>3, <3>4, <3>5
    <2> QED
      BY <2>1, <2>2, <2>3 DEF ActingAlone, Wire
  <1> QED
    BY <1>1, <1>2, <1>3, <1>4, <1>5, NextKinds DEF StepKinds

-----------------------------------------------------------------------------
(* Whose transaction the enders end.                                        *)

\* An ender goes on the wire only when the execution sends it.
LEMMA PendingFacts ==
  ASSUME TypeOK
  PROVE  /\ (\E h, r, t : AnswerTo(h, r, t)) => (OwnPending' => OwnPending)
         /\ (\E by, sql : Sends(by, sql)) => (OwnPending' => OwnPending)
         /\ UNCHANGED wire => OwnPending' = OwnPending
         /\ Send /\ stmt \notin Enders => (OwnPending' => OwnPending)
  <1>1. ASSUME NEW h, NEW r, NEW t, AnswerTo(h, r, t), OwnPending' PROVE OwnPending
    BY <1>1 DEF AnswerTo, Shifted, OwnPending, OwnEnder, Wire
  <1>2. ASSUME NEW by, NEW sql, Grown(by, sql), by # "exec" \/ sql \notin Enders, OwnPending'
        PROVE  OwnPending
    <2>1. \A i \in Wire' : (i \in Wire /\ wire'[i] = wire[i]) \/ wire'[i] = [by |-> by, sql |-> sql]
      BY <1>2 DEF Grown, Wire
    <2> QED
      BY <1>2, <2>1 DEF OwnPending, OwnEnder
  <1>3. ASSUME NEW by, NEW sql, Sends(by, sql), OwnPending' PROVE OwnPending
    BY <1>2, <1>3 DEF Sends
  <1>4. ASSUME Send, stmt \notin Enders, OwnPending' PROVE OwnPending
    <2>1. Grown("exec", stmt)
      BY <1>4, EnqueueGrows, ActorFacts DEF Send
    <2> QED
      BY <1>2, <1>4, <2>1
  <1> QED
    BY <1>1, <1>3, <1>4 DEF OwnPending, OwnEnder, Wire

\* What the cleanup ends stays the execution's own.
LEMMA OwnStep ==
  ASSUME IdleInv, ActingAlone, PlanInv, StatementsAwaited, OwnInv, SeenInv, [Next]_vars
  PROVE  OwnInv'
  <1> USE ActorFacts
  <1>0. /\ TypeOK /\ shape \in {"script", "cursor", "bound"}
        /\ entry \in {"autocommit", "begin", "inside"}
    BY DEF IdleInv, TypeOK, TaskType
  <1>1. ASSUME TaskStays, OwnPending' => OwnPending, Mine => Mine' \/ (shape = "script" /\ ~OwnPending)
        PROVE  OwnInv'
    BY <1>1 DEF TaskStays, OwnInv, Working
  <1>2. ASSUME UNCHANGED <<tx, owner, fresh>> PROVE Mine => Mine'
    BY <1>2 DEF Mine
  <1>3. CASE ServerAnswers \/ CancelLands
    <2>1. PICK h, r, t : AnswerTo(h, r, t) /\ Possible(h, r, t)
      BY <1>0, <1>3, AnswerIs
    <2>2. TaskStays /\ (OwnPending' => OwnPending)
      BY <1>0, <1>3, <2>1, StaysPut, PendingFacts
    <2>3. CASE h.sql # "script"
      <3>1. Mine => Mine'
        BY <2>1, <2>3 DEF AnswerTo, Possible, Says, OpenerSql, Mine
      <3> QED
        BY <1>1, <2>2, <3>1
    <2>4. CASE h.sql = "script"
      <3>1. pc = "await" /\ place["exec"] = 1 /\ wire[1].sql = "script"
        BY <2>1, <2>4 DEF AnswerTo, Shifted, StatementsAwaited, UserSql
      <3>2. stmt = "script"
        BY <3>1 DEF IdleInv, WaitsMatch
      <3>3. shape = "script" /\ ~OwnPending
        BY <1>0, <3>1, <3>2 DEF PlanInv, Plan, CleanupPlan, OwnInv, Working, Enders
      <3> QED
        BY <1>1, <2>2, <3>3
    <2> QED
      BY <2>3, <2>4
  <1>4. CASE Quiet
    <2>1. UNCHANGED <<tx, owner, fresh, wire>>
      BY <1>4 DEF Quiet
    <2> QED
      BY <1>0, <1>1, <1>2, <1>4, <2>1, StaysPut, PendingFacts
  <1>5. CASE \E by, sql : Sends(by, sql)
    <2>1. UNCHANGED <<tx, owner, fresh>>
      BY <1>5 DEF Sends
    <2> QED
      BY <1>0, <1>1, <1>2, <1>5, <2>1, StaysPut, PendingFacts
  <1>6. CASE MarkClosed \/ \E p \in Probers : p # "exec" /\ ProbeApply(p)
    <2>1. UNCHANGED <<tx, owner, fresh>>
      BY <1>6 DEF MarkClosed, ProbeApply, serverVars
    <2> QED
      BY <1>0, <1>1, <1>2, <1>6, <2>1, StaysPut, PendingFacts, OwnSteps
  <1>7. CASE ProbeApply("exec") \/ Conclude \/ Settle \/ Abandon
    <2>1. UNCHANGED <<tx, owner, fresh>>
      BY <1>7 DEF ProbeApply, Conclude, Settle, Abandon, serverVars
    <2>2. pc' \in {"settle", "probe", "idle", "over"}
      BY <1>7, TaskEnds
    <2>3. OwnPending' = OwnPending
      BY <1>0, <1>7, OwnSteps, PendingFacts
    <2> QED
      BY <1>2, <2>1, <2>2, <2>3 DEF OwnInv, Working
  <1>8. CASE Send
    <2>1. UNCHANGED <<tx, owner, fresh, stmt, shape, entry>> /\ pc = "send" /\ pc' = "await"
      BY <1>8 DEF Send, serverVars
    <2>2. CASE stmt \in Enders
      <3>1. Mine
        BY <1>0, <2>1, <2>2 DEF PlanInv, Plan, CleanupPlan, Wrapper, Enders, OwnInv, Working
      <3> QED
        BY <1>2, <2>1, <2>2, <3>1 DEF OwnInv, Working
    <2>3. CASE stmt \notin Enders
      <3>1. ~OwnPending'
        BY <1>0, <1>8, <2>1, <2>3, PendingFacts DEF OwnInv, Working
      <3> QED
        BY <1>2, <2>1, <3>1 DEF OwnInv, Working
    <2> QED
      BY <2>2, <2>3
  <1>9. CASE Begin \/ Checkpoint \/ Receive \/ CleanupTimeout \/ BeginCleanup
    <2>1. UNCHANGED <<tx, owner, fresh, shape, entry>> /\ Working
      BY <1>9 DEF Begin, Checkpoint, Receive, CleanupTimeout, BeginCleanup, serverVars, Working
    <2>2. OwnPending' = OwnPending
      BY <1>0, <1>9, OwnSteps, PendingFacts
    <2>3. OwnPending /\ Working' => pc' \in {"send", "await"} /\ stmt' \in Enders
      <3>1. OwnPending => pc \in {"send", "await"} /\ stmt \in Enders
        BY <2>1 DEF OwnInv
      <3>2. CASE Begin \/ Checkpoint \/ BeginCleanup
        BY <3>1, <3>2 DEF Begin, Checkpoint, BeginCleanup
      <3>3. CASE Receive \/ CleanupTimeout
        <4>1. ASSUME OwnPending PROVE \E r : AfterCleanup(r)
          BY <3>1, <3>3, <4>1 DEF Receive, CleanupTimeout, UserSql, Enders
        <4>2. ASSUME NEW r, AfterCleanup(r), stmt \in Enders
              PROVE  Working' => pc' \in {"send", "await"} /\ stmt' \in Enders
          BY <4>2 DEF AfterCleanup, ToSend, ToRollback, Finish, Working, Enders
        <4> QED
          BY <3>1, <4>1, <4>2
      <3> QED
        BY <1>9, <3>2, <3>3
    <2>4. Mine' = Mine
      BY <2>1 DEF Mine
    <2> QED
      BY <2>1, <2>2, <2>3, <2>4 DEF OwnInv
  <1>10. CASE \E sh \in Shapes : Execute(sh)
    <2>1. pc = "idle" /\ pc' = "start" /\ UNCHANGED tx /\ cached # "unknown"
          /\ entry' = EntryOf(mode, cached)
      BY <1>10, TaskEnds DEF Execute
    <2>2. ~OwnPending'
      <3>1. ~OwnPending
        BY <2>1 DEF SeenInv
      <3> QED
        BY <1>0, <1>10, <3>1, OwnSteps, PendingFacts
    <2>3. entry' # "inside" => tx = "idle"
      BY <2>1 DEF EntryOf, IdleInv, IdleIsTrue
    <2> QED
      BY <2>1, <2>2, <2>3 DEF OwnInv, Mine, Working
  <1> QED
    BY <1>3, <1>4, <1>5, <1>6, <1>7, <1>8, <1>9, <1>10, NextKinds DEF StepKinds

-----------------------------------------------------------------------------
(* What is read behind the enders.                                          *)

\* The two actions that start a probe of their own, and the others that neither
\* send nor probe.
LEMMA BesideProbes ==
  ASSUME TypeOK,
         \/ CancelDiscarded \/ RequestCancel \/ SetMode \/ CloseRequest \/ CloseCancel
         \/ CloseReceive \/ CloseRollback \/ MarkClosed \/ Act("commit") \/ Act("rollback")
         \/ UNCHANGED vars \/ ActReceive \/ \E r \in Refreshers : Refresh(r)
  PROVE  /\ UNCHANGED <<cached, applied, started, pc>>
         /\ \A a \in Probers : probe'[a] = probe[a] \/ (a # "exec" /\ probe'[a].step = "start")
         /\ \A a \in Probers : a # "action" => place'[a] = place[a]
         /\ place'["action"] = place["action"] \/ (acting = "none" /\ UNCHANGED probe)
  <1> USE ActorFacts DEF wireVars, probeVars, taskVars
  <1>0. probe \in [Probers -> [step : ProbeSteps, id : Nat, status : Statuses]]
        /\ place \in [Actors -> Nat]
    BY DEF TypeOK, BeliefType, WireType
  <1>1. CASE \/ CancelDiscarded \/ RequestCancel \/ SetMode \/ CloseRequest \/ CloseCancel
             \/ MarkClosed \/ UNCHANGED vars
    BY <1>1 DEF CancelDiscarded, RequestCancel, SetMode, CloseRequest, CloseCancel, MarkClosed, vars
  <1>2. CASE CloseReceive
    BY <1>0, <1>2 DEF CloseReceive, GiveUp
  <1>3. CASE CloseRollback
    BY <1>0, <1>3 DEF CloseRollback, Enqueue
  <1>4. CASE Act("commit") \/ Act("rollback")
    BY <1>0, <1>4 DEF Act, Enqueue
  <1>5. CASE ActReceive
    BY <1>0, <1>5 DEF ActReceive
  <1>6. CASE \E r \in Refreshers : Refresh(r)
    BY <1>0, <1>6 DEF Refresh
  <1> QED
    BY <1>1, <1>2, <1>3, <1>4, <1>5, <1>6

\* No status that counts is read before an ender is answered.
LEMMA SeenStep ==
  ASSUME IdleInv, ActingAlone, SeenInv, [Next]_vars
  PROVE  SeenInv'
  <1> USE ActorFacts
  <1>0. /\ TypeOK /\ ProbesNumbered /\ BeliefType
        /\ started \in Nat /\ applied \in Nat /\ Len(wire) \in Nat
        /\ \A a \in Probers : probe[a].id \in Nat
        /\ \A a \in Actors : place[a] \in Nat
    BY CoreTypes DEF IdleInv, TypeOK
  <1>a. \A i \in Wire : i \in Nat
    BY DEF Wire
  <1>1. CASE ServerAnswers \/ CancelLands
    <2>1. PICK h, r, t : AnswerTo(h, r, t)
      BY <1>0, <1>1, AnswerIs
    <2>2. OwnPending' => OwnPending
      BY <1>0, <2>1, PendingFacts
    <2>3. UNCHANGED <<pc, cached, applied, probe>>
      BY <2>1 DEF AnswerTo, probeVars
    <2>4. ASSUME NEW a \in Probers, \A i \in Wire : OwnEnder(i) => i < place[a]
          PROVE  \A i \in Wire' : OwnEnder(i)' => i < place'[a]
      BY <1>0, <1>a, <2>1, <2>4 DEF AnswerTo, Shifted, OwnEnder, Wire
    <2> QED
      BY <2>2, <2>3, <2>4 DEF SeenInv, Counts
  <1>2. ASSUME NEW p \in Probers, ProbeSend(p) PROVE SeenInv'
    <2>1. /\ Grown("probe", "probe") /\ place'[p] = Len(wire) + 1
          /\ \A b \in Actors : b # p => place'[b] = place[b]
      BY <1>0, <1>2, EnqueueGrows DEF ProbeSend
    <2>2. /\ UNCHANGED <<pc, cached, applied>> /\ probe[p].step = "send"
          /\ probe'[p].step = "await" /\ probe'[p].id = probe[p].id
          /\ \A a \in Probers : a # p => probe'[a] = probe[a]
      BY <1>0, <1>2 DEF ProbeSend, BeliefType, taskVars
    <2>3. \A i \in Wire' : \/ i \in Wire /\ wire'[i] = wire[i]
                           \/ wire'[i].by = "probe"
      BY <2>1 DEF Grown, Wire
    <2>4. OwnPending' => OwnPending
      BY <2>3 DEF OwnPending, OwnEnder
    <2>5. \A a \in Probers : \A i \in Wire' : OwnEnder(i)' /\ (a = p \/ i < place[a]) => i < place'[a]
      BY <1>0, <1>a, <2>1, <2>3 DEF OwnEnder, Wire
    <2>6. \A i \in Wire' : OwnEnder(i)' => i \in Wire /\ OwnEnder(i)
      BY <2>3 DEF OwnEnder
    <2>7. \A a \in Probers : Counts(probe[a].id)' => Counts(probe[a].id)
      BY <2>2 DEF Counts
    <2> QED
      BY <2>2, <2>4, <2>5, <2>6, <2>7 DEF SeenInv
  <1>3. ASSUME NEW p \in Probers, ProbeStart(p) PROVE SeenInv'
    <2>1. /\ UNCHANGED <<wire, place, pc, cached, applied>>
          /\ probe[p].step = "start" /\ probe'[p].step = "send" /\ probe'[p].id = started + 1
          /\ \A a \in Probers : a # p => probe'[a] = probe[a]
      BY <1>0, <1>3 DEF ProbeStart, BeliefType, wireVars, taskVars
    <2>2. OwnPending' = OwnPending
      BY <2>1 DEF OwnPending, OwnEnder, Wire
    <2>3. \A a \in Probers : a # p /\ Counts(probe[a].id)' => Counts(probe[a].id)
      BY <1>0, <2>1 DEF ProbesNumbered, Counts
    <2>4. applied' >= probe'["exec"].id => applied >= probe["exec"].id /\ probe'["exec"] = probe["exec"]
      BY <1>0, <2>1 DEF ProbesNumbered
    <2>5. \A a \in Probers : \A i \in Wire' : i < place'[a] <=> i < place[a]
      BY <2>1
    <2>6. \A i \in Wire' : i \in Wire /\ (OwnEnder(i)' <=> OwnEnder(i))
      BY <2>1 DEF OwnEnder, Wire
    <2> QED
      BY <2>1, <2>2, <2>3, <2>4, <2>5, <2>6 DEF SeenInv
  <1>4. ASSUME NEW p \in Probers, ProbeRead(p) PROVE SeenInv'
    <2>1. /\ UNCHANGED <<wire, pc, cached, applied>>
          /\ probe[p].step = "await" /\ probe'[p].step = "apply" /\ probe'[p].id = probe[p].id
          /\ \A a \in Probers : a # p => probe'[a] = probe[a]
          /\ \A a \in Actors : a # p => place'[a] = place[a]
          /\ probe'[p].status # "unknown" => place[p] = 0
      <3>1. UNCHANGED <<wire, pc, cached, applied>> /\ probe[p].step = "await"
        BY <1>4 DEF ProbeRead, taskVars
      <3>2. CASE Answered(p) /\ UNCHANGED place /\
                 probe' = [probe EXCEPT ![p] = [@ EXCEPT !.step = "apply", !.status = reported]]
        BY <1>0, <3>1, <3>2 DEF Answered, BeliefType
      <3>3. CASE GiveUp(p) /\
                 probe' = [probe EXCEPT ![p] = [@ EXCEPT !.step = "apply", !.status = "unknown"]]
        BY <1>0, <3>1, <3>3 DEF GiveUp, BeliefType, TypeOK, WireType
      <3> QED
        BY <1>4, <3>2, <3>3 DEF ProbeRead
    <2>2. OwnPending' = OwnPending
      BY <2>1 DEF OwnPending, OwnEnder, Wire
    <2>3. \A a \in Probers : Counts(probe[a].id)' => Counts(probe[a].id)
      BY <2>1 DEF Counts
    <2>4. place[p] = 0 /\ (\A i \in Wire : OwnEnder(i) => i < place[p]) => ~OwnPending
      BY <1>a DEF OwnPending
    <2> QED
      BY <2>1, <2>2, <2>3, <2>4 DEF SeenInv, OwnEnder, Wire
  <1>5. ASSUME NEW p \in Probers, ProbeApply(p) PROVE SeenInv'
    <2>1. /\ UNCHANGED <<wire, place>> /\ probe[p].step = "apply" /\ probe'[p] = NoProbe
          /\ \A a \in Probers : a # p => probe'[a] = probe[a]
          /\ pc' = IF p = "exec" THEN "settle" ELSE pc
      BY <1>0, <1>5 DEF ProbeApply, BeliefType, wireVars
    <2>2. \/ applied < probe[p].id /\ applied' = probe[p].id /\ cached' = probe[p].status
          \/ applied >= probe[p].id /\ UNCHANGED <<applied, cached>>
      BY <1>5 DEF ProbeApply, Admit
    <2>3. p = "exec" => pc = "probe"
      BY <1>0, <2>1 DEF ProbesNumbered
    <2>4. OwnPending' = OwnPending
      BY <2>1 DEF OwnPending, OwnEnder, Wire
    <2>5. \A a \in Probers : a # p /\ Counts(probe[a].id)' => Counts(probe[a].id)
      BY <1>0, <2>1, <2>2, <2>3 DEF Counts
    <2>6. /\ pc' \in {"idle", "settle"} /\ cached' # "unknown" => ~OwnPending
          /\ pc' = "probe" /\ probe'["exec"].step # "start" /\ applied' >= probe'["exec"].id
               /\ cached' # "unknown" => ~OwnPending
      BY SMTT(30), <1>0, <2>1, <2>2, <2>3 DEF SeenInv, Counts
    <2> QED
      BY <2>1, <2>4, <2>5, <2>6 DEF SeenInv, NoProbe, OwnEnder, Wire
  <1>6. CASE \/ CancelDiscarded \/ RequestCancel \/ SetMode \/ CloseRequest \/ CloseCancel
             \/ CloseReceive \/ CloseRollback \/ MarkClosed \/ Act("commit") \/ Act("rollback")
             \/ UNCHANGED vars \/ ActReceive \/ \E r \in Refreshers : Refresh(r)
    <2>1. /\ UNCHANGED <<cached, applied, started, pc>>
          /\ \A a \in Probers : probe'[a] = probe[a] \/ (a # "exec" /\ probe'[a].step = "start")
          /\ \A a \in Probers : a # "action" => place'[a] = place[a]
          /\ place'["action"] = place["action"] \/ (acting = "none" /\ UNCHANGED probe)
      BY <1>0, <1>6, BesideProbes
    <2>2. \A i \in Wire' : OwnEnder(i)' => i \in Wire /\ OwnEnder(i)
      <3>1. CASE UNCHANGED wire
        BY <3>1 DEF OwnEnder, Wire
      <3>2. CASE \E by, sql : Sends(by, sql)
        <4>1. PICK by, sql : Sends(by, sql)
          BY <3>2
        <4>2. by # "exec" /\ Grown(by, sql)
          BY <4>1 DEF Sends
        <4>3. \A i \in Wire' : (i \in Wire /\ wire'[i] = wire[i]) \/ wire'[i].by = by
          BY <4>2 DEF Grown, Wire
        <4> QED
          BY <4>2, <4>3 DEF OwnEnder
      <3>3. CASE AsideAction \/ MarkClosed
        BY <3>1, <3>3, AsideIs DEF Quiet, MarkClosed, wireVars
      <3> QED
        BY <1>6, <3>2, <3>3, SendIs DEF AsideAction, SendAction
    <2>3. OwnPending' => OwnPending
      BY <2>2 DEF OwnPending
    <2>4. \A a \in Probers : probe'[a] = probe[a] /\ Counts(probe[a].id)' => Counts(probe[a].id)
      BY <2>1 DEF Counts
    <2>5. acting = "none" => probe["action"].step = "none"
      BY <1>0 DEF ProbesNumbered
    <2> QED
      BY <2>1, <2>2, <2>3, <2>4, <2>5 DEF SeenInv
  <1>7. CASE \/ Begin \/ Checkpoint \/ Receive \/ BeginCleanup \/ CleanupTimeout \/ Abandon \/ Send
             \/ \E sh \in Shapes : Execute(sh)
    <2>1. pc' \in {"abandon", "check", "send", "await", "cleanup", "finish", "over", "start"}
      <3>1. CASE Begin \/ Checkpoint \/ Receive \/ BeginCleanup \/ Abandon
        BY <1>0, <3>1, LocalFacts
      <3>2. CASE CleanupTimeout
        BY <3>2 DEF CleanupTimeout, AfterCleanup, ToSend, ToRollback, Finish
      <3>3. CASE Send \/ \E sh \in Shapes : Execute(sh)
        BY <3>3, TaskEnds
      <3> QED
        BY <1>7, <3>1, <3>2, <3>3
    <2> QED
      BY <2>1 DEF SeenInv, Counts
  <1>8. CASE Conclude
    <2>1. pc' = "probe" /\ probe'["exec"].step = "start"
      BY <1>0, <1>8 DEF Conclude, BeliefType
    <2> QED
      BY <2>1 DEF SeenInv, Counts
  <1>9. CASE Settle
    <2>1. /\ UNCHANGED <<wire, place, probe, cached, applied>>
          /\ pc = "settle" /\ pc' \in {"idle", "over"}
      BY <1>9 DEF Settle, wireVars, probeVars, closeVars
    <2>2. OwnPending' = OwnPending
      BY <2>1 DEF OwnPending, OwnEnder, Wire
    <2> QED
      BY <2>1, <2>2 DEF SeenInv, Counts, OwnEnder, Wire
  <1> QED
    BY <1>1, <1>2, <1>3, <1>4, <1>5, <1>6, <1>7, <1>8, <1>9
    DEF Next, Probing, ExecStep, CallStep, CloseStep

-----------------------------------------------------------------------------
(* What is left of a wrapper.                                               *)

\* An answer that opens no transaction, a request more on the wire, a hit more:
\* a wrapper left behind stays one that will end or was hit twice.
LEMMA LeftFacts ==
  ASSUME TypeOK, WrapperLeft
  PROVE  /\ \A h, r, t : AnswerTo(h, r, t) /\ Possible(h, r, t) /\ owner = "wrapper"
                => WrapperLeft'
         /\ (\E by, sql : Grown(by, sql)) /\ UNCHANGED <<owner, hits>> => WrapperLeft'
         /\ UNCHANGED <<wire, owner>> /\ hits <= hits' /\ hits' \in 0..2 => WrapperLeft'
         /\ owner' # "wrapper" => WrapperLeft'
  <1> USE DEF WrapperLeft
  <1>0. hits \in 0..2
    BY DEF TypeOK, TaskType
  <1>1. ASSUME NEW h, NEW r, NEW t, AnswerTo(h, r, t), Possible(h, r, t), owner = "wrapper"
        PROVE  WrapperLeft'
    <2>1. CASE hits >= 2
      BY <1>0, <1>1, <2>1 DEF Possible
    <2>2. ASSUME hits >= 1, NEW i \in Wire, wire[i].sql = "rollback" PROVE WrapperLeft'
      <3>1. CASE i = 1
        <4>1. h.sql = "rollback"
          BY <1>1, <2>2, <3>1 DEF AnswerTo
        <4>2. r = "ok" => owner' # "wrapper"
          BY <1>1, <4>1 DEF AnswerTo, Possible, Says, Enders
        <4>3. r # "ok" => hits' >= 2
          BY <1>0, <1>1, <2>2, <4>1 DEF Possible, Says
        <4> QED
          BY <4>2, <4>3
      <3>2. CASE i # 1
        BY <1>0, <1>1, <2>2, <3>2 DEF AnswerTo, Shifted, Possible, Wire
      <3> QED
        BY <3>1, <3>2
    <2> QED
      BY <1>1, <2>1, <2>2
  <1>2. ASSUME NEW by, NEW sql, Grown(by, sql), UNCHANGED <<owner, hits>> PROVE WrapperLeft'
    BY <1>2 DEF Grown, Wire
  <1>3. ASSUME UNCHANGED <<wire, owner>>, hits <= hits', hits' \in 0..2 PROVE WrapperLeft'
    BY <1>0, <1>3 DEF Wire
  <1> QED
    BY <1>1, <1>2, <1>3

\* A hit more keeps what the hits so far have reached.
LEMMA MoreHits ==
  ASSUME NEW a \in Nat, NEW b \in Nat, NEW n \in Nat
  PROVE  /\ a <= b /\ a + 1 >= n => b + 1 >= n
         /\ a <= b /\ a >= n => b >= n
         /\ b >= n => b + 1 >= n
  OBVIOUS

\* A wrapper is opened only by the BEGIN the execution waits for, and no
\* answer to its cleanup leaves it open but a hit.
LEMMA WrapperAnswered ==
  ASSUME IdleInv, PlanInv, StatementsAwaited, WrapperInv, ServerAnswers \/ CancelLands
  PROVE  WrapperInv'
  <1> USE ActorFacts
  <1>0. /\ TypeOK /\ shape \in {"script", "cursor", "bound"}
        /\ entry \in {"autocommit", "begin", "inside"} /\ hits \in 0..2 /\ tries \in Nat
        /\ place["exec"] \in Nat
    BY WireTyped DEF IdleInv, TypeOK, TaskType
  <1>1. PICK h, r, t : AnswerTo(h, r, t) /\ Possible(h, r, t)
    BY <1>0, AnswerIs
  <1>2. /\ UNCHANGED <<pc, shape, entry, stmt, tries>>
        /\ hits' \in 0..2 /\ hits <= hits'
        /\ place'["exec"] = IF place["exec"] = 0 THEN 0 ELSE place["exec"] - 1
        /\ answer'["exec"] = IF place["exec"] = 1 THEN r ELSE answer["exec"]
        /\ wire[1] = h
    BY <1>1 DEF AnswerTo, Possible
  <1>3. owner' = "wrapper" => tx' # "idle"
    BY <1>1 DEF AnswerTo
  <1>4. CASE owner = "wrapper" /\ owner' = "wrapper"
    <2>1. WrapperLeft => WrapperLeft'
      BY <1>0, <1>1, <1>4, LeftFacts
    <2>2. AwaitOf({"rollback"}) /\ place["exec"] = 1 => r = "canceled" /\ (hits' = 2 \/ hits' = hits + 1)
      <3>1. AwaitOf({"rollback"}) /\ place["exec"] = 1 => h.sql = "rollback"
        BY <1>2 DEF AwaitOf, IdleInv, WaitsMatch
      <3> QED
        BY <1>1, <1>4, <3>1 DEF AnswerTo, Possible, Says, Enders
    <2>3. AwaitOf({"commit", "commitCursor"}) /\ place["exec"] = 1 => r # "ok"
      <3>1. AwaitOf({"commit", "commitCursor"}) /\ place["exec"] = 1 => h.sql \in Enders
        BY <1>2 DEF AwaitOf, IdleInv, WaitsMatch, Enders
      <3> QED
        BY <1>1, <1>4, <3>1 DEF AnswerTo, Possible, Says
    <2>4. tries <= 2
      BY DEF PlanInv
    <2>5. ASSUME Working, Wrapper, Wraps
          PROVE  /\ pc = "await" /\ stmt = "begin" =>
                        Got' /\ (shape = "bound" => answer'["exec"] = "ok")
                 /\ pc = "await" /\ stmt = "rollback" =>
                        hits' + 1 >= tries /\ (Got' => hits' >= tries /\ answer'["exec"] = "canceled")
                 /\ pc = "await" /\ stmt \in {"commit", "commitCursor"} /\ Got' => answer'["exec"] # "ok"
                 /\ pc # "start" /\ (stmt = "begin" => pc \in {"await", "cleanup"})
                 /\ pc = "send" /\ stmt = "rollback" => hits' >= tries
      <3> USE <1>4, <2>5 DEF AwaitOf, Got
      <3>1. /\ pc # "start" /\ (stmt = "begin" => pc \in {"await", "cleanup"})
            /\ pc = "await" /\ stmt = "begin" =>
                   place["exec"] = 0 /\ (shape = "bound" => answer["exec"] = "ok")
            /\ pc = "send" /\ stmt = "rollback" => hits >= tries
            /\ pc = "await" /\ stmt = "rollback" =>
                   hits + 1 >= tries /\ (place["exec"] = 0 => hits >= tries /\ answer["exec"] = "canceled")
            /\ pc = "await" /\ stmt \in {"commit", "commitCursor"} /\ place["exec"] = 0 => answer["exec"] # "ok"
        BY DEF WrapperInv
      <3>2. pc = "await" /\ stmt = "rollback" =>
                hits' + 1 >= tries /\ (Got' => hits' >= tries /\ answer'["exec"] = "canceled")
        <4>0. hits \in Nat /\ hits' \in Nat /\ hits <= hits' /\ place["exec"] \in Nat
          BY <1>0, <1>2
        <4>1. ASSUME pc = "await", stmt = "rollback", place["exec"] = 1
              PROVE  hits' >= tries /\ answer'["exec"] = "canceled"
          <5>1. r = "canceled" /\ (hits' = 2 \/ hits' = hits + 1) /\ hits + 1 >= tries
            BY <2>2, <3>1, <4>1
          <5> QED
            BY <1>0, <1>2, <2>4, <4>0, <4>1, <5>1
        <4>2. ASSUME pc = "await", stmt = "rollback", place["exec"] # 1
              PROVE  hits' + 1 >= tries /\ (Got' => hits' >= tries /\ answer'["exec"] = "canceled")
          <5>1. Got' => place["exec"] = 0 /\ answer'["exec"] = answer["exec"]
            BY <1>2, <4>0, <4>2
          <5>2. hits + 1 >= tries /\ (place["exec"] = 0 => hits >= tries /\ answer["exec"] = "canceled")
            BY <3>1, <4>2
          <5>3. hits' + 1 >= tries
            BY <1>0, <4>0, <5>2, MoreHits
          <5>4. place["exec"] = 0 => hits' >= tries
            BY <1>0, <4>0, <5>2
          <5> QED
            BY <5>1, <5>2, <5>3, <5>4
        <4>3. hits' >= tries => hits' + 1 >= tries
          BY <1>0, <4>0, MoreHits
        <4> QED
          BY <4>1, <4>2, <4>3
      <3>3. pc = "await" /\ stmt \in {"commit", "commitCursor"} /\ Got' => answer'["exec"] # "ok"
        BY <1>0, <1>2, <2>3, <3>1
      <3>4. pc = "send" /\ stmt = "rollback" => hits' >= tries
        BY <1>0, <1>2, <3>1
      <3>5. pc = "await" /\ stmt = "begin" =>
                Got' /\ (shape = "bound" => answer'["exec"] = "ok")
        BY <1>2, <3>1
      <3> QED
        BY <3>1, <3>2, <3>3, <3>4, <3>5
    <2>6. /\ Ended' \/ entry' # "autocommit" => WrapperLeft'
          /\ Working' /\ Wrapper' /\ ~Wraps' => owner' # "wrapper"
      BY <1>2, <1>4, <2>1 DEF WrapperInv, Working, Wrapper, Wraps, Ended
    <2>7. Working' /\ Wrapper' /\ Wraps' => Working /\ Wrapper /\ Wraps
      BY <1>2 DEF Working, Wrapper, Wraps
    <2> QED
      BY <1>2, <1>3, <1>4, <2>5, <2>6, <2>7 DEF WrapperInv, AwaitOf
  <1>5. CASE owner # "wrapper" /\ owner' = "wrapper"
    <2>1. entry = "autocommit" /\ h.sql = "begin" /\ tx = "idle" /\ t # "idle"
      BY <1>1, <1>5 DEF AnswerTo, Possible, Says, OpenerSql
    <2>2. pc = "await" /\ place["exec"] = 1
      BY <1>1, <2>1 DEF AnswerTo, Shifted, StatementsAwaited, UserSql
    <2>3. stmt = "begin"
      BY <1>2, <2>1, <2>2 DEF IdleInv, WaitsMatch
    <2>4. Wraps
      BY <1>0, <2>1, <2>2, <2>3 DEF PlanInv, Plan, CleanupPlan, Wraps
    <2>5. Got' /\ (shape = "bound" => answer'["exec"] = "ok")
      BY <1>1, <1>2, <2>1, <2>2 DEF Possible, Says, Got
    <2> QED
      BY <1>2, <1>3, <1>5, <2>1, <2>2, <2>3, <2>4, <2>5 DEF WrapperInv, Working, Wrapper, Wraps, Ended, AwaitOf
  <1>6. CASE owner' # "wrapper"
    BY <1>3, <1>6 DEF WrapperInv, WrapperLeft
  <1> QED
    BY <1>4, <1>5, <1>6

\* The execution's own statements and its cleanup keep it: only a cleanup that
\* was hit gives up on a wrapper.
LEMMA WrapperMoved ==
  ASSUME IdleInv, PlanInv, WrapperInv,
         Begin \/ Checkpoint \/ Receive \/ CleanupTimeout \/ BeginCleanup
  PROVE  WrapperInv'
  <1> USE ActorFacts DEF Wrapper, Wraps, AwaitOf
  <1>0. /\ TypeOK /\ shape \in {"script", "cursor", "bound"}
        /\ entry \in {"autocommit", "begin", "inside"} /\ hits \in 0..2 /\ tries \in Nat
    BY DEF IdleInv, TypeOK, TaskType
  <1>1. /\ UNCHANGED <<wire, owner, tx, shape, entry>> /\ Working
        /\ hits' \in 0..2 /\ hits <= hits' /\ (~CleanupTimeout => hits' = hits)
    <2>1. UNCHANGED wire
      BY <1>0, OwnSteps
    <2>2. UNCHANGED <<owner, tx, shape, entry>> /\ Working
      BY DEF Begin, Checkpoint, Receive, CleanupTimeout, BeginCleanup, serverVars, Working
    <2>3. CASE CleanupTimeout
      BY <1>0, <2>1, <2>2, <2>3 DEF CleanupTimeout, Hit
    <2>4. CASE ~CleanupTimeout
      <3>1. UNCHANGED hits
        BY <2>4 DEF Begin, Checkpoint, Receive, BeginCleanup
      <3> QED
        BY <1>0, <2>1, <2>2, <2>4, <3>1
    <2> QED
      BY <2>3, <2>4
  <1>2. CASE entry # "autocommit" \/ ~Wraps \/ owner # "wrapper"
    <2>1. WrapperLeft /\ (entry = "autocommit" /\ ~Wraps => owner # "wrapper")
      BY <1>1, <1>2 DEF WrapperInv, WrapperLeft
    <2>2. WrapperLeft'
      BY <1>0, <1>1, <2>1, LeftFacts
    <2> QED
      BY <1>1, <1>2, <2>1, <2>2 DEF WrapperInv
  <1>3. CASE entry = "autocommit" /\ Wraps /\ owner = "wrapper"
    <2> DEFINE Going == /\ pc' \in {"check", "send", "cleanup"}
                        /\ stmt' = "begin" => pc' = "cleanup"
                        /\ pc' = "send" /\ stmt' = "rollback" => hits' >= tries'
    <2>1. ASSUME Going PROVE WrapperInv'
      BY <1>1, <1>3, <2>1 DEF WrapperInv, Ended
    <2>2. ASSUME pc' = "finish", WrapperLeft' PROVE WrapperInv'
      BY <1>1, <1>3, <2>2 DEF WrapperInv, Working
    <2>3. ASSUME pc' = "abandon" PROVE WrapperInv'
      BY <1>1, <1>3, <2>3 DEF WrapperInv, Working, Ended
    <2>4. pc # "start" /\ (stmt = "begin" => pc \in {"await", "cleanup"})
      BY <1>1, <1>3 DEF WrapperInv
    <2>5. stmt # "rollback" => tries = 0
      BY DEF PlanInv
    <2>6. CASE Begin
      BY <2>4, <2>6 DEF Begin
    <2>7. CASE Checkpoint
      <3>1. pc = "check" /\ stmt \in {"declare", "fetch", "execute"} /\ stmt # "begin"
        BY <1>0, <1>3, <2>4, <2>7 DEF Checkpoint, PlanInv, Plan
      <3>2. pc' = "abandon" \/ Going
        BY <1>0, <1>3, <2>5, <2>7, <3>1, <1>1 DEF Checkpoint, Stopped, ToSend, ToCleanup, ToRollback, PlanInv, Plan
      <3> QED
        BY <2>1, <2>3, <3>2
    <2>8. CASE BeginCleanup
      <3>1. pc' = "abandon" \/ Going
        BY <1>0, <1>1, <1>3, <2>5, <2>8 DEF BeginCleanup, PlanInv, Plan
      <3> QED
        BY <2>1, <2>3, <3>1
    <2>9. CASE CleanupTimeout
      <3>1. pc = "await" /\ stmt \in CleanupSql /\ AfterCleanup("timeout") /\ place["exec"] # 0 /\ hits' >= 1
        BY <1>0, <2>9 DEF CleanupTimeout, GiveUp, Hit
      <3>2. CASE stmt = "rollback"
        <4>1. place["exec"] \in Wire /\ wire[place["exec"]].sql = "rollback"
          BY <1>0, <3>1, <3>2, WireTyped DEF IdleInv, WaitsMatch, Wire
        <4>2. WrapperLeft'
          BY <1>1, <3>1, <4>1 DEF WrapperLeft, Wire
        <4>3. pc' = "finish"
          BY <3>1, <3>2 DEF AfterCleanup, Finish
        <4> QED
          BY <2>2, <4>2, <4>3
      <3>3. CASE stmt # "rollback"
        <4>1. stmt \in {"commit", "commitCursor"}
          BY <1>3, <3>1, <3>3 DEF PlanInv, Plan, CleanupPlan, CleanupSql
        <4>2. Going
          BY <1>1, <2>5, <3>1, <4>1 DEF AfterCleanup, ToRollback
        <4> QED
          BY <2>1, <4>2
      <3> QED
        BY <3>2, <3>3
    <2>10. CASE Receive
      <3> DEFINE r == answer["exec"]
      <3>0. pc = "await" /\ Got
        BY <2>10 DEF Receive, Answered, Got
      <3>1. CASE stmt \in CleanupSql /\ AfterCleanup(r)
        <4>1. stmt \in {"commit", "commitCursor", "rollback"}
          BY <1>3, <3>0, <3>1 DEF PlanInv, Plan, CleanupPlan, CleanupSql
        <4>2. CASE stmt \in {"commit", "commitCursor"}
          <5>1. r # "ok"
            BY <1>1, <1>3, <3>0, <4>2 DEF WrapperInv
          <5>2. Going
            BY <1>1, <2>5, <3>1, <4>2, <5>1 DEF AfterCleanup, ToRollback
          <5> QED
            BY <2>1, <5>2
        <4>3. CASE stmt = "rollback"
          <5>1. hits >= tries /\ r = "canceled"
            BY <1>1, <1>3, <3>0, <4>3 DEF WrapperInv
          <5>2. CASE tries < 2
            <6>1. Going
              BY <1>0, <1>1, <2>10, <3>1, <4>3, <5>1, <5>2, MoreHits DEF AfterCleanup, ToSend
            <6> QED
              BY <2>1, <6>1
          <5>3. CASE tries >= 2
            <6>1. WrapperLeft'
              BY <1>0, <1>1, <5>1, <5>3 DEF WrapperLeft
            <6>2. pc' = "finish"
              BY <1>0, <3>1, <4>3, <5>3 DEF AfterCleanup, Finish
            <6> QED
              BY <2>2, <6>1, <6>2
          <5> QED
            BY <1>0, <5>2, <5>3
        <4> QED
          BY <4>1, <4>2, <4>3
      <3>2. CASE stmt \in UserSql /\ shape = "script" /\ AfterScript(r)
        BY <1>3, <3>2
      <3>3. CASE stmt \in UserSql /\ shape = "cursor" /\ AfterCursor(r)
        <4>1. Going
          BY <1>1, <1>3, <3>3 DEF AfterCursor, ToCheck, ToCleanup
        <4> QED
          BY <2>1, <4>1
      <3>4. CASE stmt \in UserSql /\ shape = "bound" /\ ~Pooled /\ AfterBound(r)
        BY <1>3, <3>4
      <3>5. CASE stmt \in UserSql /\ shape = "bound" /\ Pooled /\ AfterPooled(r)
        <4>1. stmt = "begin" => r = "ok"
          BY <1>1, <1>3, <3>0, <3>5 DEF WrapperInv
        <4>2. Going
          BY <1>0, <1>1, <1>3, <2>5, <3>5, <4>1 DEF AfterPooled, ToCheck, ToSend, ToRollback
        <4> QED
          BY <2>1, <4>2
      <3> QED
        BY <2>10, <3>1, <3>2, <3>3, <3>4, <3>5 DEF Receive
    <2> QED
      BY <2>6, <2>7, <2>8, <2>9, <2>10
  <1> QED
    BY <1>0, <1>2, <1>3

\* A wrapper outlives its execution only if its cleanup was hit twice, or once
\* with a ROLLBACK to come.
LEMMA WrapperStep ==
  ASSUME IdleInv, ActingAlone, PlanInv, StatementsAwaited, WrapperInv, [Next]_vars
  PROVE  WrapperInv'
  <1> USE ActorFacts
  <1>0. /\ TypeOK /\ shape \in {"script", "cursor", "bound"} /\ Len(wire) \in Nat
        /\ entry \in {"autocommit", "begin", "inside"} /\ hits \in 0..2 /\ tries \in Nat
    BY WireTyped DEF IdleInv, TypeOK, TaskType
  <1>1. ASSUME TaskStays, UNCHANGED <<owner, tx, hits>>, WrapperLeft => WrapperLeft',
               (place'["exec"] = place["exec"] /\ answer'["exec"] = answer["exec"]) \/ pc = "probe"
        PROVE  WrapperInv'
    BY <1>1 DEF TaskStays, WrapperInv, Working, Wraps, Wrapper, Ended, AwaitOf, Got
  <1>2. CASE Quiet \/ MarkClosed \/ \E p \in Probers : p # "exec" /\ ProbeApply(p)
    <2>1. TaskStays
      BY <1>0, <1>2, StaysPut
    <2>2. UNCHANGED <<owner, tx, hits, wire>>
      BY <1>2 DEF Quiet, MarkClosed, ProbeApply, serverVars, wireVars
    <2>3. (place'["exec"] = place["exec"] /\ answer'["exec"] = answer["exec"]) \/ pc = "probe"
      BY <1>2 DEF Quiet, MarkClosed, ProbeApply, wireVars
    <2> QED
      BY <1>0, <1>1, <2>1, <2>2, <2>3, LeftFacts
  <1>3. CASE \E by, sql : Sends(by, sql)
    <2>1. TaskStays
      BY <1>0, <1>3, StaysPut
    <2>2. UNCHANGED <<owner, tx, hits>> /\ \E by, sql : Grown(by, sql)
      BY <1>3 DEF Sends
    <2>3. (place'["exec"] = place["exec"] /\ answer'["exec"] = answer["exec"]) \/ pc = "probe"
      BY <1>3 DEF Sends
    <2> QED
      BY <1>0, <1>1, <2>1, <2>2, <2>3, LeftFacts
  <1>4. CASE ProbeApply("exec") \/ Conclude \/ Settle \/ Abandon
    <2>1. UNCHANGED <<owner, tx, hits, wire>>
      BY <1>4 DEF ProbeApply, Conclude, Settle, Abandon, serverVars, wireVars
    <2>2. WrapperLeft => WrapperLeft'
      BY <1>0, <2>1, LeftFacts
    <2>3. CASE Abandon
      BY <2>1, <2>2, <2>3, TaskEnds DEF WrapperInv, Ended, Working
    <2>4. CASE ~Abandon
      <3>1. Ended /\ pc' \in {"settle", "probe", "idle", "over"}
        BY <1>4, <2>4, TaskEnds DEF Ended
      <3> QED
        BY <2>1, <2>2, <3>1 DEF WrapperInv, Working
    <2> QED
      BY <2>3, <2>4
  <1>5. CASE Send
    <2>1. /\ Grown("exec", stmt) /\ place'["exec"] = Len(wire) + 1
          /\ UNCHANGED <<owner, tx, hits>>
      BY <1>0, <1>5, EnqueueGrows DEF Send, serverVars
    <2>2. WrapperLeft => WrapperLeft'
      BY <1>0, <2>1, LeftFacts
    <2>3. /\ pc = "send" /\ pc' = "await" /\ UNCHANGED <<shape, entry, stmt>> /\ ~Got'
          /\ tries' = IF stmt = "rollback" THEN tries + 1 ELSE tries
      BY <1>0, <1>5, <2>1, TaskEnds DEF Got
    <2>4. CASE Wrapper /\ Wraps /\ owner = "wrapper"
      <3>1. stmt # "begin" /\ (stmt = "rollback" => hits >= tries)
        BY <2>3, <2>4 DEF WrapperInv, Working
      <3>2. stmt = "rollback" => hits + 1 >= tries + 1
        BY <1>0, <3>1
      <3> QED
        BY <2>1, <2>2, <2>3, <2>4, <3>1, <3>2 DEF WrapperInv, Working, Wrapper, Wraps, Ended, AwaitOf
    <2>5. CASE ~(Wrapper /\ Wraps /\ owner = "wrapper")
      BY <2>1, <2>2, <2>3, <2>5 DEF WrapperInv, Working, Wrapper, Wraps, Ended
    <2> QED
      BY <2>4, <2>5
  <1>6. CASE \E sh \in Shapes : Execute(sh)
    <2>1. /\ pc = "idle" /\ pc' = "start" /\ UNCHANGED <<owner, tx, wire>>
          /\ entry' = EntryOf(mode, cached)
          /\ hits' = IF owner = "wrapper" THEN hits ELSE 0
      BY <1>6, TaskEnds DEF Execute, wireVars
    <2>2. WrapperLeft'
      BY <1>0, <2>1 DEF WrapperInv, Ended, WrapperLeft, Wire
    <2>3. entry' = "autocommit" => owner # "wrapper"
      BY <2>1 DEF EntryOf, IdleInv, IdleIsTrue, WrapperInv
    <2> QED
      BY <2>1, <2>2, <2>3 DEF WrapperInv, Wrapper
  <1>7. CASE Begin \/ Checkpoint \/ Receive \/ CleanupTimeout \/ BeginCleanup
    BY <1>7, WrapperMoved
  <1>8. CASE ServerAnswers \/ CancelLands
    BY <1>8, WrapperAnswered
  <1> QED
    BY <1>2, <1>3, <1>4, <1>5, <1>6, <1>7, <1>8, NextKinds DEF StepKinds


-----------------------------------------------------------------------------
(* An accepted Stop.                                                        *)

\* A COMMIT goes on the wire only when the execution sends it.
LEMMA CommitFacts ==
  ASSUME TypeOK
  PROVE  /\ \A h, r, t : AnswerTo(h, r, t) =>
                /\ OwnCommit' => OwnCommit
                /\ committed' => committed \/ OwnCommit
         /\ (\E by, sql : Sends(by, sql)) => (OwnCommit' => OwnCommit)
         /\ UNCHANGED wire => OwnCommit' = OwnCommit
         /\ Send /\ OwnCommit' => OwnCommit \/ stmt \in {"commit", "commitCursor"}
  <1>1. ASSUME NEW h, NEW r, NEW t, AnswerTo(h, r, t)
        PROVE  /\ OwnCommit' => OwnCommit
               /\ committed' => committed \/ OwnCommit
    <2>1. OwnCommit' => OwnCommit
      BY <1>1 DEF AnswerTo, Shifted, OwnCommit, Wire
    <2>2. h.by = "exec" /\ h.sql \in {"commit", "commitCursor"} => OwnCommit
      BY <1>1 DEF AnswerTo, Shifted, OwnCommit
    <2> QED
      BY <1>1, <2>1, <2>2 DEF AnswerTo
  <1>2. ASSUME NEW by, NEW sql, Grown(by, sql), OwnCommit'
        PROVE  OwnCommit \/ (by = "exec" /\ sql \in {"commit", "commitCursor"})
    <2>1. \A i \in Wire' : (i \in Wire /\ wire'[i] = wire[i]) \/ wire'[i] = [by |-> by, sql |-> sql]
      BY <1>2 DEF Grown, Wire
    <2> QED
      BY <1>2, <2>1 DEF OwnCommit
  <1>3. ASSUME NEW by, NEW sql, Sends(by, sql), OwnCommit' PROVE OwnCommit
    BY <1>2, <1>3 DEF Sends
  <1>4. ASSUME Send, OwnCommit' PROVE OwnCommit \/ stmt \in {"commit", "commitCursor"}
    <2>1. Grown("exec", stmt)
      BY <1>4, EnqueueGrows, ActorFacts DEF Send
    <2> QED
      BY <1>2, <1>4, <2>1
  <1> QED
    BY <1>1, <1>3, <1>4 DEF OwnCommit, Wire

\* Once a cursor read is to commit, no Stop is accepted.
LEMMA StopStep ==
  ASSUME IdleInv, ActingAlone, PlanInv, SeenInv, StopInv, [Next]_vars
  PROVE  StopInv'
  <1> USE ActorFacts
  <1>0. /\ TypeOK /\ shape \in {"script", "cursor", "bound"}
        /\ stop \in BOOLEAN /\ cleaning \in BOOLEAN /\ committed \in BOOLEAN
    BY DEF IdleInv, TypeOK, TaskType, CreditType, ServerType
  <1> DEFINE About == committed \/ OwnCommit \/ (pc \in {"send", "await"} /\ stmt = "commitCursor")
  <1>1. ASSUME shape' = shape, About' => About, cleaning => cleaning' /\ (stop' = stop)
        PROVE  StopInv'
    BY <1>0, <1>1 DEF StopInv
  <1>2. CASE ServerAnswers \/ CancelLands
    <2>1. PICK h, r, t : AnswerTo(h, r, t)
      BY <1>0, <1>2, AnswerIs
    <2>2. UNCHANGED <<shape, stop, cleaning, pc, stmt>>
      BY <2>1 DEF AnswerTo, creditVars
    <2> QED
      BY <1>0, <1>1, <2>1, <2>2, CommitFacts
  <1>3. CASE Quiet
    <2>1. UNCHANGED <<shape, cleaning, pc, stmt, wire, committed>> /\ (stop' = stop \/ ~cleaning)
      BY <1>3 DEF Quiet
    <2> QED
      BY <1>0, <1>1, <2>1, CommitFacts
  <1>4. CASE \E by, sql : Sends(by, sql)
    <2>1. UNCHANGED <<shape, cleaning, stop, pc, stmt, committed>>
      BY <1>4 DEF Sends
    <2> QED
      BY <1>0, <1>1, <1>4, <2>1, CommitFacts
  <1>5. CASE \/ Begin \/ Checkpoint \/ Receive \/ CleanupTimeout \/ Conclude \/ Abandon \/ MarkClosed
             \/ \E p \in Probers : ProbeApply(p)
    <2>1. UNCHANGED wire
      BY <1>0, <1>5, OwnSteps
    <2>2. UNCHANGED <<shape, cleaning, stop, committed>>
      BY <1>5 DEF Begin, Checkpoint, Receive, CleanupTimeout, Conclude, Abandon, MarkClosed, ProbeApply,
         serverVars, creditVars, taskVars
    <2>3. pc' \in {"send", "await"} /\ stmt' = "commitCursor" => pc \in {"send", "await"} /\ stmt = "commitCursor"
      <3>1. CASE Begin
        BY <3>1 DEF Begin, ToCheck, ToSend
      <3>2. CASE Checkpoint
        BY <1>0, <3>2 DEF Checkpoint, Stopped, ToSend, ToCleanup, ToRollback, Finish, PlanInv, Plan
      <3>3. CASE Receive
        BY <3>3 DEF Receive, AfterScript, AfterCursor, AfterBound, AfterPooled, AfterCleanup,
           ToCheck, ToSend, ToCleanup, ToRollback, Finish
      <3>4. CASE CleanupTimeout
        BY <3>4 DEF CleanupTimeout, AfterCleanup, ToSend, ToRollback, Finish
      <3>5. CASE Conclude \/ Abandon \/ MarkClosed \/ \E p \in Probers : ProbeApply(p)
        BY <3>5 DEF Conclude, Abandon, MarkClosed, ProbeApply, taskVars
      <3> QED
        BY <1>5, <3>1, <3>2, <3>3, <3>4, <3>5
    <2> QED
      BY <1>0, <1>1, <2>1, <2>2, <2>3, CommitFacts
  <1>6. CASE BeginCleanup
    <2>1. UNCHANGED <<wire, committed, shape, stop>> /\ pc = "cleanup"
      BY <1>0, <1>6, OwnSteps DEF BeginCleanup, serverVars
    <2>2. OwnCommit' = OwnCommit
      BY <1>0, <2>1, CommitFacts
    <2>3. CASE pc' = "abandon" /\ UNCHANGED cleaning
      BY <1>0, <1>1, <2>1, <2>2, <2>3
    <2>4. CASE pc' = "send" /\ cleaning' /\ (stmt' = "commitCursor" => ~stop)
      BY <2>1, <2>2, <2>4 DEF StopInv
    <2> QED
      BY <1>6, <2>3, <2>4 DEF BeginCleanup
  <1>7. CASE Settle
    BY <1>7, TaskEnds DEF StopInv
  <1>8. CASE Send
    <2>1. /\ pc = "send" /\ pc' = "await" /\ UNCHANGED <<shape, stmt, committed, stop, cleaning>>
      BY <1>8, TaskEnds DEF Send, serverVars, creditVars
    <2>2. OwnCommit' => OwnCommit \/ stmt \in {"commit", "commitCursor"}
      BY <1>0, <1>8, CommitFacts
    <2>3. shape = "cursor" => stmt # "commit"
      BY <2>1 DEF PlanInv, Plan, CleanupPlan
    <2> QED
      BY <2>1, <2>2, <2>3 DEF StopInv
  <1>9. CASE \E sh \in Shapes : Execute(sh)
    <2>0. PICK sh \in Shapes : Execute(sh)
      BY <1>9
    <2>1. pc = "idle" /\ cached # "unknown" /\ UNCHANGED wire /\ ~committed' /\ pc' = "start"
      <3>1. pc = "idle" /\ pc' = "start"
        BY <2>0, TaskEnds
      <3> QED
        BY <2>0, <3>1 DEF Execute, wireVars
    <2>2. ~OwnCommit
      BY <2>1 DEF SeenInv, OwnPending, OwnEnder, OwnCommit, Enders
    <2>3. ~OwnCommit'
      BY <1>0, <2>1, <2>2, CommitFacts
    <2> QED
      BY <2>1, <2>3 DEF StopInv
  <1> QED
    BY <1>2, <1>3, <1>4, <1>5, <1>6, <1>7, <1>8, <1>9, NextKinds DEF StepKinds

-----------------------------------------------------------------------------
(* What is left of a cursor.                                                *)

\* Only a DECLARE brings a cursor about, and no answer to a cleanup leaves one.
LEMMA CursorFacts ==
  ASSUME TypeOK
  PROVE  /\ \A h, r, t : AnswerTo(h, r, t) /\ Possible(h, r, t) =>
                /\ h.sql # "declare" /\ CursorLeft => CursorLeft'
                /\ h.sql # "declare" => (cursor' => cursor)
                /\ h.sql \in CleanupSql => ~cursor'
                /\ cursor' => tx' = "active"
         /\ (\E by, sql : Grown(by, sql)) /\ UNCHANGED cursor /\ CursorLeft => CursorLeft'
         /\ UNCHANGED <<wire, cursor>> => CursorLeft' = CursorLeft
  <1>1. ASSUME NEW h, NEW r, NEW t, AnswerTo(h, r, t), Possible(h, r, t)
        PROVE  /\ h.sql # "declare" /\ CursorLeft => CursorLeft'
               /\ h.sql # "declare" => (cursor' => cursor)
               /\ h.sql \in CleanupSql => ~cursor'
               /\ cursor' => tx' = "active"
    <2>1. /\ h.sql # "declare" => (cursor' => cursor)
          /\ cursor' => tx' = "active"
      BY <1>1 DEF AnswerTo
    <2>2. h.sql \in CleanupSql => ~cursor'
      BY <1>1 DEF AnswerTo, Possible, Says, CleanupSql
    <2>3. ASSUME h.sql # "declare", CursorLeft, cursor' PROVE CursorLeft'
      <3>1. PICK i \in Wire : wire[i].sql \in CleanupSql
        BY <2>1, <2>3 DEF CursorLeft
      <3>2. i # 1
        BY <1>1, <2>2, <2>3, <3>1 DEF AnswerTo
      <3>3. i - 1 \in 1..Len(wire') /\ wire'[i - 1] = wire[i]
        BY <1>1, <3>1, <3>2 DEF AnswerTo, Shifted
      <3> QED
        BY <3>1, <3>3 DEF CursorLeft, Wire
    <2> QED
      BY <2>1, <2>2, <2>3 DEF CursorLeft
  <1>2. ASSUME NEW by, NEW sql, Grown(by, sql), UNCHANGED cursor, CursorLeft PROVE CursorLeft'
    BY <1>2 DEF Grown, CursorLeft, Wire
  <1> QED
    BY <1>1, <1>2 DEF CursorLeft, Wire

\* An answer leaves a cursor to the execution, or to a statement that ends it.
LEMMA CursorAnswered ==
  ASSUME IdleInv, PlanInv, StatementsAwaited, CursorInv, ServerAnswers \/ CancelLands
  PROVE  CursorInv'
  <1> USE ActorFacts
  <1>0. TypeOK /\ place["exec"] \in Nat
    BY WireTyped DEF IdleInv
  <1>1. PICK h, r, t : AnswerTo(h, r, t) /\ Possible(h, r, t)
    BY <1>0, AnswerIs
  <1>2. /\ UNCHANGED <<pc, shape, entry, stmt>>
        /\ place'["exec"] = IF place["exec"] = 0 THEN 0 ELSE place["exec"] - 1
        /\ answer'["exec"] = IF place["exec"] = 1 THEN r ELSE answer["exec"]
        /\ wire[1] = h /\ 1 \in Wire /\ tx' = t
    BY <1>1 DEF AnswerTo, Shifted
  <1>3. pc = "await" /\ place["exec"] = 1 => h.sql = stmt
    BY <1>2 DEF IdleInv, WaitsMatch
  <1>4. /\ h.sql # "declare" /\ CursorLeft => CursorLeft'
        /\ h.sql # "declare" => (cursor' => cursor)
        /\ h.sql \in CleanupSql => ~cursor'
        /\ cursor' => tx' = "active"
    BY <1>0, <1>1, CursorFacts
  <1>5. /\ h.sql = "declare" => r = "ok" \/ ~cursor'
        /\ h.sql = "fetch" => r \in {"ok", "driver"} \/ ~cursor'
    BY <1>1, <1>4 DEF Possible, Says, AnswerTo
  <1>6. Got' => Got \/ place["exec"] = 1
    BY <1>0, <1>2 DEF Got
  <1>7. CASE h.sql = "declare"
    <2>1. pc = "await" /\ place["exec"] = 1 /\ stmt = "declare"
      BY <1>2, <1>3, <1>7 DEF StatementsAwaited, UserSql
    <2>2. shape = "cursor"
      BY <1>0, <2>1 DEF PlanInv, Plan, CleanupPlan, TypeOK, TaskType
    <2> QED
      BY <1>2, <1>4, <1>5, <1>7, <2>1, <2>2 DEF CursorInv, Ended, Working, AwaitOf, Got, CleanupSql
  <1>8. CASE h.sql # "declare"
    <2>1. Got => Got' /\ answer'["exec"] = answer["exec"]
      BY <1>2 DEF Got
    <2>2. Ended' \/ shape' # "cursor" \/ pc' = "start" => CursorLeft'
      BY <1>2, <1>4, <1>8 DEF CursorInv, Ended
    <2>3. ASSUME Working, shape = "cursor"
          PROVE  /\ stmt = "begin" /\ pc \in {"check", "send", "await"} => CursorLeft'
                 /\ stmt = "declare" /\ (pc \in {"check", "send"} \/ (pc = "await" /\ ~Got')) => CursorLeft'
                 /\ AwaitOf({"declare"}) /\ Got' => answer'["exec"] = "ok" \/ ~cursor'
                 /\ AwaitOf({"fetch"}) /\ Got' => answer'["exec"] \in {"ok", "driver"} \/ ~cursor'
                 /\ AwaitOf(CleanupSql) /\ Got' => CursorLeft'
      <3>1. stmt = "begin" /\ pc \in {"check", "send", "await"} => CursorLeft'
        BY <1>4, <1>8, <2>3 DEF CursorInv
      <3>2. stmt = "declare" /\ (pc \in {"check", "send"} \/ (pc = "await" /\ ~Got')) => CursorLeft'
        BY <1>4, <1>8, <2>1, <2>3 DEF CursorInv
      <3>3. AwaitOf({"declare"}) /\ Got' => answer'["exec"] = "ok" \/ ~cursor'
        BY <1>3, <1>4, <1>6, <1>8, <2>1, <2>3 DEF CursorInv, AwaitOf
      <3>4. AwaitOf({"fetch"}) /\ Got' => answer'["exec"] \in {"ok", "driver"} \/ ~cursor'
        BY <1>2, <1>3, <1>4, <1>5, <1>6, <1>8, <2>1, <2>3 DEF CursorInv, AwaitOf
      <3>5. AwaitOf(CleanupSql) /\ Got' => CursorLeft'
        BY <1>3, <1>4, <1>6, <1>8, <2>1, <2>3 DEF CursorInv, AwaitOf, CursorLeft
      <3> QED
        BY <3>1, <3>2, <3>3, <3>4, <3>5
    <2> QED
      BY <1>2, <1>4, <2>2, <2>3 DEF CursorInv, Working, AwaitOf
  <1> QED
    BY <1>7, <1>8

\* A step of the execution leaves a cursor only where the cleanup is to come.
LEMMA CursorMoved ==
  ASSUME IdleInv, PlanInv, CursorInv,
         Begin \/ Checkpoint \/ Receive \/ CleanupTimeout \/ BeginCleanup
  PROVE  CursorInv'
  <1> USE ActorFacts DEF Wrapper
  <1>0. TypeOK /\ shape \in {"script", "cursor", "bound"}
    BY DEF IdleInv, TypeOK, TaskType
  <1>1. UNCHANGED <<wire, cursor, tx, shape>>
    <2>1. UNCHANGED wire
      BY <1>0, OwnSteps
    <2> QED
      BY <2>1 DEF Begin, Checkpoint, Receive, CleanupTimeout, BeginCleanup, serverVars
  <1>2. CursorLeft' = CursorLeft /\ (cursor' => tx' = "active")
    BY <1>0, <1>1, CursorFacts DEF CursorInv
  <1>3. pc \in {"start", "check", "await", "cleanup"} /\ pc' # "await" /\ pc' # "start"
    <2>1. pc \in {"start", "check", "await", "cleanup"}
      BY DEF Begin, Checkpoint, Receive, CleanupTimeout, BeginCleanup
    <2>2. CASE Begin \/ Checkpoint \/ Receive \/ BeginCleanup
      BY <1>0, <2>1, <2>2, LocalFacts
    <2>3. CASE CleanupTimeout
      BY <2>1, <2>3 DEF CleanupTimeout, AfterCleanup, ToSend, ToRollback, Finish
    <2> QED
      BY <2>2, <2>3
  <1>4. ASSUME CursorLeft PROVE CursorInv'
    BY <1>2, <1>3, <1>4 DEF CursorInv, AwaitOf
  <1>5. CASE shape # "cursor" \/ pc = "start"
    BY <1>4, <1>5 DEF CursorInv
  <1>6. CASE shape = "cursor" /\ pc # "start"
    <2>1. Working
      BY <1>3, <1>6 DEF Working
    <2>2. ASSUME pc' \in {"cleanup", "abandon"} \/ (pc' \in {"check", "send"} /\ stmt' \notin {"begin", "declare"})
          PROVE  CursorInv'
      BY <1>1, <1>2, <1>6, <2>2 DEF CursorInv, Ended, AwaitOf
    <2>3. CASE Checkpoint
      <3>1. pc = "check" /\ stmt \in {"begin", "declare", "fetch"}
        BY <1>6, <2>3 DEF Checkpoint, PlanInv, Plan
      <3>2. CASE stmt = "fetch"
        BY <1>6, <2>2, <2>3, <3>2 DEF Checkpoint, Stopped, ToSend, ToCleanup
      <3>3. CASE stmt \in {"begin", "declare"}
        BY <1>4, <1>6, <2>1, <3>1, <3>3 DEF CursorInv
      <3> QED
        BY <3>1, <3>2, <3>3
    <2>4. CASE BeginCleanup
      <3>1. (stmt' \notin {"begin", "declare"} /\ pc' = "send") \/ pc' = "abandon"
        BY <2>4 DEF BeginCleanup
      <3> QED
        BY <2>2, <3>1
    <2>5. CASE CleanupTimeout
      <3>1. place["exec"] \in Wire /\ wire[place["exec"]].sql \in CleanupSql
        BY <1>0, <2>5, WireTyped DEF CleanupTimeout, GiveUp, IdleInv, WaitsMatch, Wire
      <3> QED
        BY <1>4, <3>1 DEF CursorLeft
    <2>6. CASE Receive
      <3> DEFINE r == answer["exec"]
      <3>0. pc = "await" /\ Got
        BY <2>6 DEF Receive, Answered, Got
      <3>1. CASE stmt \in CleanupSql
        BY <1>4, <1>6, <2>1, <3>0, <3>1 DEF CursorInv, AwaitOf
      <3>2. CASE stmt \notin CleanupSql
        <4>1. stmt \in {"begin", "declare", "fetch"}
          BY <1>6, <3>0, <3>2 DEF PlanInv, Plan, CleanupPlan, CleanupSql
        <4>2. AfterCursor(r)
          BY <1>6, <2>6, <3>2 DEF Receive
        <4>3. CASE stmt = "begin"
          BY <1>4, <1>6, <2>1, <3>0, <4>3 DEF CursorInv
        <4>4. CASE stmt = "declare"
          <5>1. CASE r = "ok"
            BY <2>2, <4>2, <4>4, <5>1 DEF AfterCursor, ToCheck
          <5>2. CASE r # "ok"
            BY <1>4, <1>6, <2>1, <3>0, <4>4, <5>2 DEF CursorInv, AwaitOf, CursorLeft
          <5> QED
            BY <5>1, <5>2
        <4>5. CASE stmt = "fetch"
          <5>1. CASE r \in {"ok", "driver"}
            BY <2>2, <4>2, <4>5, <5>1 DEF AfterCursor, ToCleanup
          <5>2. CASE r \notin {"ok", "driver"}
            BY <1>4, <1>6, <2>1, <3>0, <4>5, <5>2 DEF CursorInv, AwaitOf, CursorLeft
          <5> QED
            BY <5>1, <5>2
        <4> QED
          BY <4>1, <4>3, <4>4, <4>5
      <3> QED
        BY <3>1, <3>2
    <2> QED
      BY <1>6, <2>3, <2>4, <2>5, <2>6 DEF Begin
  <1> QED
    BY <1>5, <1>6

\* A cursor outlives its execution only with a statement to come that ends it.
LEMMA CursorStep ==
  ASSUME IdleInv, ActingAlone, PlanInv, StatementsAwaited, CursorInv, [Next]_vars
  PROVE  CursorInv'
  <1> USE ActorFacts
  <1>0. TypeOK /\ Len(wire) \in Nat
    BY WireTyped DEF IdleInv
  <1>1. ASSUME TaskStays, UNCHANGED <<cursor, tx>>, CursorLeft => CursorLeft',
               (place'["exec"] = place["exec"] /\ answer'["exec"] = answer["exec"]) \/ pc = "probe"
        PROVE  CursorInv'
    BY <1>1 DEF TaskStays, CursorInv, Working, Ended, AwaitOf, Got
  <1>2. CASE Quiet \/ MarkClosed \/ \E p \in Probers : p # "exec" /\ ProbeApply(p)
    <2>1. TaskStays
      BY <1>0, <1>2, StaysPut
    <2>2. UNCHANGED <<cursor, tx, wire>>
      BY <1>2 DEF Quiet, MarkClosed, ProbeApply, serverVars, wireVars
    <2>3. (place'["exec"] = place["exec"] /\ answer'["exec"] = answer["exec"]) \/ pc = "probe"
      BY <1>2 DEF Quiet, MarkClosed, ProbeApply, wireVars
    <2> QED
      BY <1>0, <1>1, <2>1, <2>2, <2>3, CursorFacts
  <1>3. CASE \E by, sql : Sends(by, sql)
    <2>1. TaskStays
      BY <1>0, <1>3, StaysPut
    <2>2. UNCHANGED <<cursor, tx>> /\ \E by, sql : Grown(by, sql)
      BY <1>3 DEF Sends
    <2>3. (place'["exec"] = place["exec"] /\ answer'["exec"] = answer["exec"]) \/ pc = "probe"
      BY <1>3 DEF Sends
    <2> QED
      BY <1>0, <1>1, <2>1, <2>2, <2>3, CursorFacts
  <1>4. CASE ProbeApply("exec") \/ Conclude \/ Settle \/ Abandon \/ \E sh \in Shapes : Execute(sh)
    <2>1. UNCHANGED <<cursor, tx, wire>>
      BY <1>4 DEF ProbeApply, Conclude, Settle, Abandon, Execute, serverVars, wireVars
    <2>2. CursorLeft' = CursorLeft
      BY <1>0, <2>1, CursorFacts
    <2>3. CASE Abandon
      BY <2>1, <2>2, <2>3, TaskEnds DEF CursorInv, Ended, Working
    <2>4. CASE ~Abandon
      <3>1. Ended /\ pc' \in {"settle", "probe", "idle", "over", "start"}
        BY <1>4, <2>4, TaskEnds DEF Ended
      <3>2. pc' = "start" => stmt' = "probe"
        BY <1>4, <2>4, <3>1, TaskEnds
      <3> QED
        BY <2>1, <2>2, <3>1 DEF CursorInv, AwaitOf
    <2> QED
      BY <2>3, <2>4
  <1>5. CASE Send
    <2>1. /\ Grown("exec", stmt) /\ place'["exec"] = Len(wire) + 1
          /\ UNCHANGED <<cursor, tx>>
      BY <1>0, <1>5, EnqueueGrows DEF Send, serverVars
    <2>2. CursorLeft => CursorLeft'
      BY <1>0, <2>1, CursorFacts
    <2>3. pc = "send" /\ pc' = "await" /\ UNCHANGED <<shape, stmt>> /\ ~Got'
      BY <1>0, <1>5, <2>1, TaskEnds DEF Got
    <2> QED
      BY <2>1, <2>2, <2>3 DEF CursorInv, Working, Ended
  <1>6. CASE Begin \/ Checkpoint \/ Receive \/ CleanupTimeout \/ BeginCleanup
    BY <1>6, CursorMoved
  <1>7. CASE ServerAnswers \/ CancelLands
    BY <1>7, CursorAnswered
  <1> QED
    BY <1>2, <1>3, <1>4, <1>5, <1>6, <1>7, NextKinds DEF StepKinds

-----------------------------------------------------------------------------
(* What became of the wrapper.                                              *)

\* Answers come in the order of the requests: a wrapper just begun has nothing
\* but probes behind it, and stays open until its COMMIT is answered.
LEMMA BegunAnswered ==
  ASSUME IdleInv, BegunInv, ServerAnswers \/ CancelLands
  PROVE  BegunInv'
  <1> USE ActorFacts
  <1>0. TypeOK /\ place["exec"] \in Nat /\ Len(wire) \in Nat
    BY WireTyped DEF IdleInv
  <1>1. PICK h, r, t : AnswerTo(h, r, t) /\ Possible(h, r, t)
    BY <1>0, AnswerIs
  <1>2. /\ UNCHANGED <<pc, shape, entry, stmt, closed>>
        /\ place'["exec"] = IF place["exec"] = 0 THEN 0 ELSE place["exec"] - 1
        /\ answer'["exec"] = IF place["exec"] = 1 THEN r ELSE answer["exec"]
        /\ wire[1] = h /\ 1 \in Wire /\ tx' = t
        /\ \A i \in Wire' : i \in Nat /\ i # 0 /\ i + 1 \in Wire /\ wire'[i] = wire[i + 1]
    BY <1>1 DEF AnswerTo, Shifted, Wire
  <1>3. pc = "await" /\ place["exec"] = 1 => h.sql = stmt
    BY <1>2 DEF IdleInv, WaitsMatch
  <1>4. CASE ~(Own /\ shape = "bound" /\ ~closed)
    BY <1>2, <1>4 DEF BegunInv, Own, Wrapper, Wraps
  <1>5. CASE Own /\ shape = "bound" /\ ~closed
    <2>1. AwaitOf({"begin"})' /\ ~Got' => \A i \in Wire' : i > place'["exec"] => wire'[i].sql = "probe"
      <3>1. ASSUME AwaitOf({"begin"})', ~Got', NEW i \in Wire', i > place'["exec"]
            PROVE  wire'[i].sql = "probe"
        <4>1. AwaitOf({"begin"}) /\ ~Got /\ place'["exec"] = place["exec"] - 1
          BY <1>2, <3>1 DEF AwaitOf, Got
        <4>2. i \in Nat /\ i + 1 \in Wire /\ wire'[i] = wire[i + 1] /\ i + 1 > place["exec"]
          BY <1>0, <1>2, <3>1, <4>1
        <4> QED
          BY <1>5, <4>1, <4>2 DEF BegunInv
      <3> QED
        BY <3>1
    <2>2. ASSUME Begun'
          PROVE  /\ tx' = "active"
                 /\ \A i \in Wire' : wire'[i].sql = "probe" \/ (pc' = "await" /\ i = place'["exec"])
      <3>1. CASE pc = "await" /\ place["exec"] = 1
        <4>1. Got' /\ answer'["exec"] = r /\ h.sql = stmt
          BY <1>2, <1>3, <3>1 DEF Got
        <4>2. r = "ok" /\ stmt \in {"begin", "prepare", "execute"}
          BY <1>2, <2>2, <3>1, <4>1 DEF Begun, AwaitOf
        <4>3. CASE stmt = "begin"
          <5>1. AwaitOf({"begin"}) /\ ~Got
            BY <3>1, <4>3 DEF AwaitOf, Got
          <5>2. \A i \in Wire : i > 1 => wire[i].sql = "probe"
            BY <1>5, <3>1, <5>1 DEF BegunInv
          <5>3. \A i \in Wire' : wire'[i].sql = "probe"
            BY <1>2, <5>2
          <5> QED
            BY <1>1, <1>2, <4>1, <4>2, <4>3, <5>3 DEF Possible, Says
        <4>4. CASE stmt \in {"prepare", "execute"}
          <5>1. Begun
            BY <3>1, <4>4 DEF Begun, AwaitOf, Got
          <5>2. tx = "active" /\ \A i \in Wire : wire[i].sql = "probe" \/ i = 1
            BY <1>5, <3>1, <5>1 DEF BegunInv
          <5>3. \A i \in Wire' : wire'[i].sql = "probe"
            BY <1>2, <5>2
          <5> QED
            BY <1>1, <1>2, <4>1, <4>2, <4>4, <5>2, <5>3 DEF Possible, Says
        <4> QED
          BY <4>2, <4>3, <4>4
      <3>2. CASE ~(pc = "await" /\ place["exec"] = 1)
        <4>1. pc = "await" => (Got' <=> Got) /\ answer'["exec"] = answer["exec"]
          BY <1>0, <1>2, <3>2 DEF Got
        <4>2. Begun
          BY <1>2, <2>2, <4>1 DEF Begun, AwaitOf
        <4>3. tx = "active" /\ \A i \in Wire : wire[i].sql = "probe" \/ (pc = "await" /\ i = place["exec"])
          BY <1>5, <4>2 DEF BegunInv
        <4>4. h.sql = "probe"
          BY <1>2, <3>2, <4>3
        <4>5. tx' = "active"
          BY <1>1, <1>2, <4>3, <4>4 DEF Possible
        <4>6. \A i \in Wire' : wire'[i].sql = "probe" \/ (pc' = "await" /\ i = place'["exec"])
          <5>1. ASSUME NEW i \in Wire', pc = "await", i + 1 = place["exec"] PROVE i = place'["exec"]
            BY <1>2, <5>1
          <5> QED
            BY <1>2, <4>3, <5>1
        <4> QED
          BY <4>5, <4>6
      <3> QED
        BY <3>1, <3>2
    <2> QED
      BY <2>1, <2>2 DEF BegunInv
  <1> QED
    BY <1>4, <1>5

\* Nobody else's request comes between.
LEMMA BegunStep ==
  ASSUME IdleInv, ActingAlone, PlanInv, BegunInv, [Next]_vars
  PROVE  BegunInv'
  <1> USE ActorFacts DEF Own, Wrapper, Wraps
  <1>0. /\ TypeOK /\ Len(wire) \in Nat /\ place["exec"] \in Nat
        /\ shape \in {"script", "cursor", "bound"} /\ entry \in {"autocommit", "begin", "inside"}
        /\ closed \in BOOLEAN
    BY WireTyped DEF IdleInv, TypeOK, TaskType, CallerType
  <1>1. CASE ServerAnswers \/ CancelLands
    BY <1>1, BegunAnswered
  <1>2. CASE Quiet \/ \E p \in Probers : p # "exec" /\ ProbeApply(p)
    <2>1. TaskStays
      BY <1>0, <1>2, StaysPut
    <2>2. UNCHANGED <<tx, wire, closed>> /\ answer'["exec"] = answer["exec"]
      BY <1>2 DEF Quiet, ProbeApply, serverVars, wireVars, closeVars
    <2>3. pc = "await" => place'["exec"] = place["exec"]
      BY <1>2 DEF Quiet, ProbeApply, wireVars
    <2> QED
      BY <2>1, <2>2, <2>3 DEF TaskStays, BegunInv, Begun, AwaitOf, Got, Wire
  <1>3. CASE \E by, sql : Sends(by, sql)
    <2>1. TaskStays
      BY <1>0, <1>3, StaysPut
    <2>2. PICK by, sql : Sends(by, sql)
      BY <1>3
    <2>3. /\ UNCHANGED <<tx, closed>>
          /\ pc = "await" => place'["exec"] = place["exec"] /\ answer'["exec"] = answer["exec"]
          /\ sql = "probe" \/ pc = "idle" \/ closed
      BY <2>2 DEF Sends, ActingAlone
    <2>4. \A i \in Wire' : (i \in Wire /\ wire'[i] = wire[i]) \/ wire'[i].sql = sql
      BY <2>2 DEF Sends, Grown, Wire
    <2>5. CASE pc # "idle" /\ ~closed
      <3>1. Begun' = Begun /\ (AwaitOf({"begin"})' /\ ~Got' => AwaitOf({"begin"}) /\ ~Got)
        BY <2>1, <2>3 DEF TaskStays, Begun, AwaitOf, Got
      <3>2. \A i \in Wire' : (i \in Wire /\ wire'[i] = wire[i]) \/ wire'[i].sql = "probe"
        BY <2>3, <2>4, <2>5
      <3> QED
        BY <2>1, <2>3, <3>1, <3>2 DEF TaskStays, BegunInv, AwaitOf
    <2>6. CASE pc = "idle" \/ closed
      BY <2>1, <2>3, <2>6 DEF TaskStays, BegunInv, Begun, AwaitOf
    <2> QED
      BY <2>5, <2>6
  <1>4. CASE \/ MarkClosed \/ ProbeApply("exec") \/ Conclude \/ Settle \/ Abandon
             \/ \E sh \in Shapes : Execute(sh)
    <2>1. CASE MarkClosed
      BY <2>1 DEF MarkClosed, BegunInv
    <2>2. CASE ~MarkClosed
      <3>1. pc' \notin {"check", "send", "await"}
        <4>1. CASE ProbeApply("exec") \/ Conclude \/ Settle \/ Abandon
          BY <4>1, TaskEnds
        <4>2. ASSUME NEW sh \in Shapes, Execute(sh) PROVE pc' = "start"
          BY <4>2, TaskEnds
        <4> QED
          BY <1>4, <2>2, <4>1, <4>2
      <3> QED
        BY <3>1 DEF BegunInv, Begun, AwaitOf
    <2> QED
      BY <2>1, <2>2
  <1>5. CASE Send
    <2>1. /\ Grown("exec", stmt) /\ place'["exec"] = Len(wire) + 1 /\ UNCHANGED <<tx, closed>>
      BY <1>0, <1>5, EnqueueGrows DEF Send, serverVars, closeVars
    <2>2. pc = "send" /\ pc' = "await" /\ UNCHANGED <<shape, entry, stmt>> /\ ~Got'
      BY <1>0, <1>5, <2>1, TaskEnds DEF Got
    <2>3. \A i \in Wire' : (i \in Wire /\ wire'[i] = wire[i]) \/ i = Len(wire) + 1
      BY <2>1 DEF Grown, Wire
    <2>4. Wire' = 1..(Len(wire) + 1)
      BY <2>1 DEF Grown, Wire
    <2>5. Begun' => Begun
      BY <2>2 DEF Begun, AwaitOf
    <2>6. \A i \in Wire' : ~(i > place'["exec"])
      BY <1>0, <2>1, <2>4
    <2> QED
      BY <2>1, <2>2, <2>3, <2>5, <2>6 DEF BegunInv, AwaitOf
  <1>6. CASE Begin \/ Checkpoint \/ Receive \/ CleanupTimeout \/ BeginCleanup
    <2>1. UNCHANGED <<wire, tx, shape, entry, closed>>
      <3>1. UNCHANGED wire
        BY <1>0, <1>6, OwnSteps
      <3> QED
        BY <1>6, <3>1 DEF Begin, Checkpoint, Receive, CleanupTimeout, BeginCleanup, serverVars, closeVars
    <2>2. pc' # "await"
      <3>1. CASE CleanupTimeout
        BY <3>1 DEF CleanupTimeout, AfterCleanup, ToSend, ToRollback, Finish
      <3> QED
        BY <1>0, <1>6, <3>1, LocalFacts
    <2>3. ASSUME Own, shape = "bound", ~closed, Begun'
          PROVE  Begun /\ (pc = "await" => Got)
      <3>1. pc' \in {"check", "send"} /\ stmt' \in {"prepare", "execute", "commit"}
        BY <2>2, <2>3 DEF Begun, AwaitOf
      <3>2. Pooled /\ entry = "autocommit"
        BY <2>3
      <3>3. CASE Begin
        BY <2>3, <3>1, <3>2, <3>3 DEF Begin, ToCheck, ToSend
      <3>4. CASE Checkpoint
        BY <1>0, <2>3, <3>1, <3>4 DEF Checkpoint, Stopped, ToSend, ToRollback, Finish, Begun
      <3>5. CASE BeginCleanup
        BY <3>1, <3>2, <3>5 DEF BeginCleanup
      <3>6. CASE CleanupTimeout
        BY <3>1, <3>6 DEF CleanupTimeout, AfterCleanup, ToSend, ToRollback, Finish
      <3>7. CASE Receive
        <4>1. pc = "await" /\ Got
          BY <3>7 DEF Receive, Answered, Got
        <4>2. ~(stmt \in CleanupSql /\ AfterCleanup(answer["exec"]))
          BY <3>1 DEF AfterCleanup, ToSend, ToRollback, Finish
        <4>3. stmt \in UserSql /\ AfterPooled(answer["exec"])
          BY <2>3, <3>2, <3>7, <4>2 DEF Receive
        <4>4. stmt \in {"begin", "prepare", "execute"} /\ answer["exec"] = "ok"
          BY <3>1, <4>3 DEF AfterPooled, ToCheck, ToSend, ToRollback, Finish
        <4> QED
          BY <4>1, <4>4 DEF Begun, AwaitOf
      <3> QED
        BY <1>6, <3>3, <3>4, <3>5, <3>6, <3>7
    <2>4. \A i \in Wire : i # 0
      BY DEF Wire
    <2> QED
      BY <2>1, <2>2, <2>3, <2>4 DEF BegunInv, AwaitOf, Got, Wire
  <1> QED
    BY <1>1, <1>2, <1>3, <1>4, <1>5, <1>6, NextKinds DEF StepKinds

\* The answer to the COMMIT is the server's, and the transaction it ends is open.
LEMMA CommitAnswered ==
  ASSUME IdleInv, ActingAlone, PlanInv, PermitInv, StatementsAwaited, OwnInv, CursorInv, BegunInv, CommitInv,
         ServerAnswers \/ CancelLands
  PROVE  CommitInv'
  <1> USE ActorFacts
  <1>0. /\ TypeOK /\ place["exec"] \in Nat /\ shape \in {"script", "cursor", "bound"}
        /\ committed \in BOOLEAN
    BY WireTyped DEF IdleInv, TypeOK, TaskType, ServerType
  <1>1. PICK h, r, t : AnswerTo(h, r, t) /\ Possible(h, r, t)
    BY <1>0, AnswerIs
  <1>2. /\ UNCHANGED <<pc, shape, entry, stmt, closed>>
        /\ place'["exec"] = IF place["exec"] = 0 THEN 0 ELSE place["exec"] - 1
        /\ answer'["exec"] = IF place["exec"] = 1 THEN r ELSE answer["exec"]
        /\ wire[1] = h /\ 1 \in Wire
        /\ \A i \in Wire' : i \in Nat /\ i # 0 /\ i + 1 \in Wire /\ wire'[i] = wire[i + 1]
        /\ committed' = \/ committed
                        \/ h.by = "exec" /\ h.sql \in Commits /\ r = "ok" /\ tx = "active"
        /\ h.by \in {"exec", "action", "close", "probe"}
    BY <1>1 DEF AnswerTo, Shifted, Wire, Commits, Requests, Senders
  <1>3. pc = "await" /\ place["exec"] = 1 => h.sql = stmt
    BY <1>2 DEF IdleInv, WaitsMatch
  <1>4. OwnPending' => OwnPending
    BY <1>0, <1>1, PendingFacts
  <1>5. committed' => committed \/ OwnEnder(1)
    BY <1>2 DEF OwnEnder, Commits, Enders
  <1>6. OwnEnder(1) => OwnPending
    BY <1>2 DEF OwnPending
  <1>7. CASE ~Own
    BY <1>2, <1>7 DEF CommitInv, Own, Wrapper, Wraps
  <1>8. CASE Own
    <2>1. Working /\ ~(pc \in {"send", "await"} /\ stmt \in Enders) => ~committed'
      BY <1>5, <1>6, <1>8 DEF CommitInv, OwnInv
    <2>2. pc = "send" /\ stmt \in Commits => ~committed' /\ ~OwnPending'
      BY <1>4, <1>5, <1>6, <1>8 DEF CommitInv
    <2>3. ASSUME pc = "await", stmt \in Commits
          PROVE  /\ \A i \in Wire' : OwnEnder(i)' => i = place'["exec"]
                 /\ committed' => Got' /\ answer'["exec"] = "ok"
                 /\ Got' /\ answer'["exec"] = "ok" /\ Reports => committed'
      <3>1. /\ \A i \in Wire : OwnEnder(i) => i = place["exec"]
            /\ committed => place["exec"] = 0 /\ answer["exec"] = "ok"
            /\ place["exec"] = 0 /\ answer["exec"] = "ok" /\ Reports => committed
        BY <1>8, <2>3 DEF CommitInv, AwaitOf, Got
      <3>2. ASSUME NEW i \in Wire', OwnEnder(i)' PROVE i = place'["exec"]
        <4>1. OwnEnder(i + 1)
          BY <1>2, <3>2 DEF OwnEnder
        <4>2. i + 1 = place["exec"] /\ i \in Nat
          BY <1>2, <3>1, <4>1
        <4> QED
          BY <1>0, <1>2, <4>2
      <3>3. ASSUME committed' PROVE Got' /\ answer'["exec"] = "ok"
        <4>1. CASE committed
          BY <1>2, <3>1, <4>1 DEF Got
        <4>2. CASE ~committed
          <5>1. OwnEnder(1) /\ r = "ok"
            BY <1>2, <4>2, <3>3 DEF OwnEnder, Commits, Enders
          <5>2. place["exec"] = 1
            BY <1>2, <3>1, <5>1
          <5> QED
            BY <1>2, <5>1, <5>2 DEF Got
        <4> QED
          BY <4>1, <4>2
      <3>4. ASSUME Got', answer'["exec"] = "ok", Reports PROVE committed'
        <4>1. CASE place["exec"] = 0
          BY <1>2, <3>1, <3>4, <4>1
        <4>2. CASE place["exec"] # 0
          <5>1. place["exec"] = 1
            BY <1>0, <1>2, <3>4, <4>2 DEF Got
          <5>2. h.sql = stmt /\ r = "ok"
            BY <1>2, <1>3, <2>3, <3>4, <5>1
          <5>3. h.by # "action"
            BY <1>2, <2>3 DEF StatementsAwaited, ActingAlone
          <5>4. h.by # "probe"
            BY <1>2, <2>3, <5>2 DEF StatementsAwaited, Commits
          <5>5. shape = "cursor" => ~closed
            BY <2>3 DEF PermitInv, Commits, CleanupSql
          <5>6. h.by # "close"
            BY <1>2, <3>4, <5>5 DEF StatementsAwaited, Reports
          <5>7. tx = "active"
            <6>1. CASE shape = "cursor"
              <7>1. stmt = "commitCursor"
                BY <2>3, <6>1 DEF PlanInv, Plan, CleanupPlan, Commits
              <7>2. cursor
                BY <1>1, <5>2, <7>1 DEF Possible, Says
              <7> QED
                BY <7>2 DEF CursorInv
            <6>2. CASE shape = "bound"
              <7>1. stmt = "commit"
                BY <2>3, <6>2 DEF PlanInv, Plan, CleanupPlan, Commits
              <7>2. Begun
                BY <2>3, <5>1, <7>1 DEF Begun, AwaitOf, Got
              <7> QED
                BY <1>8, <3>4, <6>2, <7>2 DEF BegunInv, Reports
            <6> QED
              BY <1>8, <6>1, <6>2 DEF Own, Wraps
          <5> QED
            BY <1>2, <2>3, <5>2, <5>3, <5>4, <5>6, <5>7
        <4> QED
          BY <4>1, <4>2
      <3> QED
        BY <3>2, <3>3, <3>4
    <2> QED
      BY <1>2, <2>1, <2>2, <2>3 DEF CommitInv, Working, AwaitOf, Reports
  <1> QED
    BY <1>7, <1>8

\* A wrapper is committed only by the COMMIT its execution waits for, or waited
\* for last.
LEMMA CommitStep ==
  ASSUME IdleInv, ActingAlone, PlanInv, PermitInv, StatementsAwaited, OwnInv, SeenInv, CursorInv, BegunInv,
         CommitInv, [Next]_vars
  PROVE  CommitInv'
  <1> USE ActorFacts DEF Own, Wrapper, Wraps
  <1>0. /\ TypeOK /\ Len(wire) \in Nat /\ place["exec"] \in Nat /\ closed \in BOOLEAN
        /\ shape \in {"script", "cursor", "bound"} /\ entry \in {"autocommit", "begin", "inside"}
    BY WireTyped DEF IdleInv, TypeOK, TaskType, CallerType
  <1>1. CASE ServerAnswers \/ CancelLands
    BY <1>1, CommitAnswered
  <1>2. CASE Quiet \/ MarkClosed \/ \E p \in Probers : p # "exec" /\ ProbeApply(p)
    <2>1. TaskStays
      BY <1>0, <1>2, StaysPut
    <2>2. UNCHANGED <<wire, committed>> /\ answer'["exec"] = answer["exec"] /\ (closed => closed')
      BY <1>2 DEF Quiet, MarkClosed, ProbeApply, serverVars, wireVars, closeVars
    <2>3. pc = "await" => place'["exec"] = place["exec"]
      BY <1>2 DEF Quiet, MarkClosed, ProbeApply, wireVars
    <2> QED
      BY <2>1, <2>2, <2>3 DEF TaskStays, CommitInv, Working, AwaitOf, Got, Reports, OwnPending, OwnEnder, Wire
  <1>3. CASE \E by, sql : Sends(by, sql)
    <2>1. TaskStays
      BY <1>0, <1>3, StaysPut
    <2>2. PICK by, sql : Sends(by, sql)
      BY <1>3
    <2>3. /\ UNCHANGED <<committed, closed>> /\ by # "exec"
          /\ pc = "await" => place'["exec"] = place["exec"] /\ answer'["exec"] = answer["exec"]
      BY <2>2 DEF Sends
    <2>4. \A i \in Wire' : (i \in Wire /\ wire'[i] = wire[i]) \/ wire'[i].by = by
      BY <2>2 DEF Sends, Grown, Wire
    <2>5. \A i \in Wire' : OwnEnder(i)' => i \in Wire /\ OwnEnder(i)
      BY <2>3, <2>4 DEF OwnEnder
    <2>6. OwnPending' => OwnPending
      BY <2>5 DEF OwnPending
    <2> QED
      BY <2>1, <2>3, <2>5, <2>6 DEF TaskStays, CommitInv, Working, AwaitOf, Got, Reports
  <1>4. CASE ProbeApply("exec") \/ Conclude \/ Settle \/ Abandon
    <2>1. pc' \notin {"start", "check", "send", "await", "cleanup"}
      BY <1>4, TaskEnds
    <2> QED
      BY <2>1 DEF CommitInv, Working, AwaitOf
  <1>5. CASE \E sh \in Shapes : Execute(sh)
    <2>1. PICK sh \in Shapes : Execute(sh)
      BY <1>5
    <2>2. pc' = "start" /\ ~committed'
      <3>1. pc' = "start"
        BY <2>1, TaskEnds
      <3> QED
        BY <2>1, <3>1 DEF Execute
    <2> QED
      BY <2>2 DEF CommitInv, AwaitOf
  <1>6. CASE Send
    <2>1. /\ Grown("exec", stmt) /\ place'["exec"] = Len(wire) + 1 /\ UNCHANGED <<committed, closed>>
      BY <1>0, <1>6, EnqueueGrows DEF Send, serverVars, closeVars
    <2>2. pc = "send" /\ pc' = "await" /\ UNCHANGED <<shape, entry, stmt>> /\ ~Got'
      BY <1>0, <1>6, <2>1, TaskEnds DEF Got
    <2>3. \A i \in Wire' : (i \in Wire /\ wire'[i] = wire[i]) \/ i = Len(wire) + 1
      BY <2>1 DEF Grown, Wire
    <2>4. ~OwnPending => \A i \in Wire' : OwnEnder(i)' => i = place'["exec"]
      BY <2>1, <2>3 DEF OwnPending, OwnEnder
    <2> QED
      BY <2>1, <2>2, <2>4 DEF CommitInv, Working, AwaitOf
  <1>7. CASE Begin \/ Checkpoint \/ Receive \/ CleanupTimeout \/ BeginCleanup
    <2>1. UNCHANGED <<wire, committed, shape, entry, closed>>
      <3>1. UNCHANGED wire
        BY <1>0, <1>7, OwnSteps
      <3> QED
        BY <1>7, <3>1 DEF Begin, Checkpoint, Receive, CleanupTimeout, BeginCleanup, serverVars, closeVars
    <2>2. pc' # "await" /\ Working
      <3>1. CASE CleanupTimeout
        BY <3>1 DEF CleanupTimeout, AfterCleanup, ToSend, ToRollback, Finish, Working
      <3>2. pc' # "await"
        BY <1>0, <1>7, <3>1, LocalFacts
      <3> QED
        BY <1>7, <3>2 DEF Begin, Checkpoint, Receive, CleanupTimeout, BeginCleanup, Working
    <2>3. OwnPending' = OwnPending
      BY <1>0, <2>1, PendingFacts
    <2>4. ASSUME Own, ~(pc \in {"send", "await"} /\ stmt \in Enders) PROVE ~committed /\ ~OwnPending
      BY <2>2, <2>4 DEF CommitInv, OwnInv
    <2>5. ASSUME Own, pc \in {"send", "await"} /\ stmt \in Enders, Working'
          PROVE  pc' = "send" /\ stmt' = "rollback"
      <3>1. CASE Receive
        <4>1. stmt \in CleanupSql /\ AfterCleanup(answer["exec"])
          BY <2>5, <3>1 DEF Receive, Enders, UserSql, CleanupSql
        <4> QED
          BY <2>5, <4>1 DEF AfterCleanup, ToSend, ToRollback, Finish, Working, Enders
      <3>2. CASE CleanupTimeout
        BY <2>5, <3>2 DEF CleanupTimeout, AfterCleanup, ToSend, ToRollback, Finish, Working, Enders
      <3> QED
        BY <1>7, <2>5, <3>1, <3>2 DEF Begin, Checkpoint, BeginCleanup
    <2>6. CASE Own
      <3>1. Working' /\ ~(pc' \in {"send", "await"} /\ stmt' \in Enders) => ~committed'
        BY <2>1, <2>4, <2>5, <2>6 DEF Enders
      <3>2. pc' = "send" /\ stmt' \in Commits => ~committed' /\ ~OwnPending'
        BY <2>1, <2>3, <2>4, <2>5, <2>6 DEF Working, Commits
      <3> QED
        BY <2>2, <3>1, <3>2 DEF CommitInv, AwaitOf
    <2>7. CASE ~Own
      BY <2>1, <2>7 DEF CommitInv
    <2> QED
      BY <2>6, <2>7
  <1> QED
    BY <1>1, <1>2, <1>3, <1>4, <1>5, <1>6, <1>7, NextKinds DEF StepKinds

\* The outcome is completed only by a COMMIT that took effect, and stopped only
\* before one was sent or when the server undid it.
LEMMA OutcomeStep ==
  ASSUME IdleInv, ActingAlone, PlanInv, OwnInv, CommitInv, OutcomeInv, [Next]_vars
  PROVE  OutcomeInv'
  <1> USE ActorFacts DEF Own, Wrapper, Wraps
  <1> DEFINE Over == \/ pc \in {"finish", "probe", "settle"}
                     \/ pc \in {"send", "await"} /\ stmt = "rollback"
  <1>0. /\ TypeOK /\ closed \in BOOLEAN /\ committed \in BOOLEAN
        /\ shape \in {"script", "cursor", "bound"} /\ entry \in {"autocommit", "begin", "inside"}
    BY DEF IdleInv, TypeOK, TaskType, CallerType, ServerType
  <1>1. ASSUME UNCHANGED <<shape, entry, stmt, outcome>>,
               pc' = pc \/ (pc = "finish" /\ pc' = "probe") \/ (pc = "probe" /\ pc' = "settle")
                 \/ (pc = "send" /\ pc' = "await"),
               committed => committed', committed' => committed \/ OwnCommit,
               OwnCommit' => OwnCommit \/ (pc = "send" /\ stmt \in Commits),
               closed => closed'
        PROVE  OutcomeInv'
    <2>1. Over' => Over
      BY <1>1
    <2>2. Over' => stmt \notin Commits \/ pc # "send"
      BY <1>1 DEF Commits
    <2>3. Reports' => Reports
      BY <1>1 DEF Reports
    <2>4. pc' \in {"finish", "probe", "settle"} => pc \in {"finish", "probe", "settle"}
      BY <1>1
    <2>5. pc' \in {"send", "await"} => pc \in {"send", "await"}
      BY <1>1
    <2> QED
      BY <1>0, <1>1, <2>1, <2>2, <2>3, <2>4, <2>5 DEF OutcomeInv
  <1>2. CASE ServerAnswers \/ CancelLands
    <2>1. PICK h, r, t : AnswerTo(h, r, t)
      BY <1>0, <1>2, AnswerIs
    <2>2. /\ UNCHANGED <<pc, shape, entry, stmt, outcome, closed>>
          /\ committed => committed'
      BY <2>1 DEF AnswerTo
    <2> QED
      BY <1>0, <1>1, <2>1, <2>2, CommitFacts
  <1>3. CASE Quiet \/ MarkClosed \/ (\E by, sql : Sends(by, sql)) \/ \E p \in Probers : ProbeApply(p)
    <2>1. UNCHANGED <<shape, entry, stmt, outcome, committed>> /\ (closed => closed')
      BY <1>3 DEF Quiet, MarkClosed, Sends, ProbeApply, serverVars, taskVars, closeVars
    <2>2. pc' = pc \/ (pc = "probe" /\ pc' = "settle")
      <3>1. CASE Quiet \/ MarkClosed \/ \E by, sql : Sends(by, sql)
        BY <3>1 DEF Quiet, MarkClosed, Sends, taskVars
      <3>2. ASSUME NEW p \in Probers, ProbeApply(p) PROVE pc' = pc \/ (pc = "probe" /\ pc' = "settle")
        BY <3>2, TaskEnds DEF ProbeApply
      <3> QED
        BY <1>3, <3>1, <3>2
    <2>3. OwnCommit' => OwnCommit
      <3>1. CASE \E by, sql : Sends(by, sql)
        BY <1>0, <3>1, CommitFacts
      <3>2. CASE Quiet \/ MarkClosed \/ \E p \in Probers : ProbeApply(p)
        <4>1. UNCHANGED wire
          BY <3>2 DEF Quiet, MarkClosed, ProbeApply, wireVars
        <4> QED
          BY <1>0, <4>1, CommitFacts
      <3> QED
        BY <1>3, <3>1, <3>2
    <2> QED
      BY <1>1, <2>1, <2>2, <2>3
  <1>4. CASE Conclude
    <2>1. UNCHANGED <<shape, entry, stmt, outcome, committed, closed, wire>> /\ pc = "finish" /\ pc' = "probe"
      BY <1>4, TaskEnds DEF Conclude, serverVars, wireVars, closeVars
    <2> QED
      BY <1>0, <1>1, <2>1, CommitFacts
  <1>5. CASE Send
    <2>1. UNCHANGED <<shape, entry, stmt, outcome, committed, closed>> /\ pc = "send" /\ pc' = "await"
      BY <1>5, TaskEnds DEF Send, serverVars, closeVars
    <2> QED
      BY <1>0, <1>1, <1>5, <2>1, CommitFacts DEF Commits
  <1>6. CASE Settle \/ Abandon \/ \E sh \in Shapes : Execute(sh)
    <2>1. pc' \notin {"finish", "probe", "settle", "send", "await"}
      <3>1. CASE Settle \/ Abandon
        BY <3>1, TaskEnds
      <3>2. ASSUME NEW sh \in Shapes, Execute(sh) PROVE pc' = "start"
        BY <3>2, TaskEnds
      <3> QED
        BY <1>6, <3>1, <3>2
    <2> QED
      BY <2>1 DEF OutcomeInv
  <1>7. CASE Begin \/ Checkpoint \/ Receive \/ CleanupTimeout \/ BeginCleanup
    <2>1. UNCHANGED <<wire, committed, shape, entry, closed>>
      <3>1. UNCHANGED wire
        BY <1>0, <1>7, OwnSteps
      <3> QED
        BY <1>7, <3>1 DEF Begin, Checkpoint, Receive, CleanupTimeout, BeginCleanup, serverVars, closeVars
    <2>2. OwnCommit' = OwnCommit /\ Reports' = Reports
      BY <1>0, <2>1, CommitFacts DEF Reports
    <2>3. pc \in {"start", "check", "await", "cleanup"} /\ pc' \notin {"await", "probe", "settle"}
      <3>1. CASE CleanupTimeout
        BY <3>1 DEF CleanupTimeout, AfterCleanup, ToSend, ToRollback, Finish
      <3>2. pc' \notin {"await", "probe", "settle"}
        BY <1>0, <1>7, <3>1, LocalFacts
      <3> QED
        BY <1>7, <3>2 DEF Begin, Checkpoint, Receive, CleanupTimeout, BeginCleanup
    <2>4. CASE ~Own
      BY <2>1, <2>4 DEF OutcomeInv
    <2> DEFINE Undone == outcome' \in {"stopped", "failed57014"} => ~committed /\ ~OwnCommit
               Right == \/ pc' \notin {"finish", "send"}
                        \/ pc' = "send" /\ stmt' # "rollback"
                        \/ pc' = "send" /\ outcome' # "completed" /\ Undone
                        \/ pc' = "finish" /\ Undone /\ (outcome' = "completed" /\ Reports => committed)
    <2>5. ASSUME Right PROVE OutcomeInv'
      BY <2>1, <2>2, <2>3, <2>5 DEF OutcomeInv
    <2>6. ASSUME Own PROVE Right
      <3>1. entry = "autocommit" /\ (shape = "cursor" \/ (shape = "bound" /\ Pooled))
        BY <2>6
      <3>2. ASSUME pc \in {"start", "check", "cleanup"} \/ (pc = "await" /\ stmt \in UserSql)
            PROVE  ~committed /\ ~OwnCommit
        <4>1. Working /\ ~(pc \in {"send", "await"} /\ stmt \in Enders)
          BY <3>2 DEF Working, Enders, UserSql
        <4>2. ~committed /\ ~OwnPending
          BY <2>6, <4>1 DEF CommitInv, OwnInv
        <4> QED
          BY <4>2 DEF OwnCommit, OwnPending, OwnEnder, Enders
      <3>3. CASE Begin
        BY <3>1, <3>3 DEF Begin, ToCheck, ToSend
      <3>4. CASE Checkpoint
        <4>1. pc = "check"
          BY <3>4 DEF Checkpoint
        <4>2. stmt # "rollback"
          BY <3>1, <4>1 DEF PlanInv, Plan
        <4> QED
          BY <3>1, <3>2, <3>4, <4>1, <4>2 DEF Checkpoint, Stopped, ToSend, ToCleanup, ToRollback, Finish
      <3>5. CASE BeginCleanup
        <4>1. pc = "cleanup"
          BY <3>5 DEF BeginCleanup
        <4> QED
          BY <3>1, <3>2, <3>5, <4>1 DEF BeginCleanup
      <3>6. CASE (stmt \in CleanupSql /\ pc = "await" /\ AfterCleanup("timeout")) \/ CleanupTimeout
        <4>0. pc = "await" /\ AfterCleanup("timeout") /\ stmt \in CleanupSql
          BY <3>6 DEF CleanupTimeout
        <4>1. CASE stmt \in Commits
          BY <4>0, <4>1 DEF AfterCleanup, ToRollback, Failure, Commits
        <4>2. CASE stmt = "rollback"
          <5>1. pc' = "finish" /\ outcome' = outcome
            BY <4>0, <4>2 DEF AfterCleanup, Finish
          <5> QED
            BY <2>6, <4>0, <4>2, <5>1 DEF OutcomeInv
        <4>3. stmt \in Commits \cup {"rollback"}
          BY <3>1, <4>0 DEF PlanInv, Plan, CleanupPlan, CleanupSql, Commits
        <4> QED
          BY <4>1, <4>2, <4>3
      <3>7. CASE Receive
        <4> DEFINE r == answer["exec"]
        <4>0. pc = "await" /\ Got
          BY <3>7 DEF Receive, Answered, Got
        <4>1. CASE stmt \in CleanupSql /\ AfterCleanup(r)
          <5>1. CASE stmt \in Commits
            <6>1. /\ \A i \in Wire : OwnEnder(i) => i = 0
                  /\ committed => r = "ok"
                  /\ r = "ok" /\ Reports => committed
              BY <2>6, <4>0, <5>1 DEF CommitInv, AwaitOf, Got
            <6>2. ~OwnCommit
              BY <6>1 DEF OwnCommit, OwnEnder, Enders, Wire
            <6>3. CASE r = "ok"
              <7>1. pc' = "finish" /\ outcome' = "completed"
                BY <4>1, <5>1, <6>3 DEF AfterCleanup, Finish, Commits
              <7> QED
                BY <6>1, <6>3, <7>1
            <6>4. CASE r # "ok"
              <7>1. pc' = "send" /\ outcome' # "completed"
                BY <4>1, <5>1, <6>4 DEF AfterCleanup, ToRollback, Failure, Commits
              <7> QED
                BY <6>1, <6>2, <6>4, <7>1
            <6> QED
              BY <6>3, <6>4
          <5>2. CASE stmt = "rollback"
            <6>1. outcome # "completed" /\ (outcome \in {"stopped", "failed57014"} => ~committed /\ ~OwnCommit)
              BY <2>6, <4>0, <5>2 DEF OutcomeInv
            <6>2. pc' \in {"finish", "send"} /\ outcome' = outcome
              BY <4>1, <5>2 DEF AfterCleanup, ToSend, Finish
            <6> QED
              BY <6>1, <6>2
          <5>3. stmt \in Commits \cup {"rollback"}
            BY <3>1, <4>0, <4>1 DEF PlanInv, Plan, CleanupPlan, CleanupSql, Commits
          <5> QED
            BY <5>1, <5>2, <5>3
        <4>2. CASE stmt \in UserSql /\ shape = "cursor" /\ AfterCursor(r)
          BY <3>1, <4>2 DEF AfterCursor, ToCheck, ToCleanup
        <4>3. CASE stmt \in UserSql /\ shape = "bound" /\ Pooled /\ AfterPooled(r)
          <5>1. ~committed /\ ~OwnCommit
            BY <3>2, <4>0, <4>3
          <5>2. \/ pc' \notin {"finish", "send"} \/ (pc' = "send" /\ stmt' # "rollback")
                \/ outcome' # "completed"
            BY <3>1, <4>3 DEF AfterPooled, ToCheck, ToSend, ToRollback, Finish, Failure
          <5>3. pc' \in {"check", "send", "finish"}
            BY <4>3 DEF AfterPooled, ToCheck, ToSend, ToRollback, Finish
          <5> QED
            BY <5>1, <5>2, <5>3
        <4> QED
          BY <3>1, <3>7, <4>1, <4>2, <4>3 DEF Receive
      <3> QED
        BY <1>7, <3>3, <3>4, <3>5, <3>6, <3>7
    <2> QED
      BY <2>4, <2>5, <2>6
  <1> QED
    BY <1>2, <1>3, <1>4, <1>5, <1>6, <1>7, NextKinds DEF StepKinds

\* The status is named when the outcome is final.
LEMMA StatusStep ==
  ASSUME IdleInv, ActingAlone, StatusInv, [Next]_vars
  PROVE  StatusInv'
  <1> USE ActorFacts
  <1>0. TypeOK
    BY DEF IdleInv
  <1>1. CASE \/ ServerAnswers \/ CancelLands
             \/ Quiet \/ (\E by, sql : Sends(by, sql)) \/ MarkClosed
             \/ \E p \in Probers : p # "exec" /\ ProbeApply(p)
    BY <1>0, <1>1, StaysPut DEF TaskStays, StatusInv
  <1>2. CASE ProbeApply("exec") \/ Settle \/ Send \/ \E sh \in Shapes : Execute(sh)
    BY <1>2, TaskEnds DEF StatusInv
  <1>3. CASE Abandon
    BY <1>3 DEF Abandon, StatusInv
  <1>4. CASE Conclude
    BY <1>4 DEF Conclude, StatusInv
  <1>5. CASE Begin \/ Checkpoint \/ Receive \/ CleanupTimeout \/ BeginCleanup
    <2>1. pc \in {"start", "check", "await", "cleanup"} /\ UNCHANGED status
      BY <1>5 DEF Begin, Checkpoint, Receive, CleanupTimeout, BeginCleanup
    <2> QED
      BY <2>1 DEF StatusInv
  <1> QED
    BY <1>1, <1>2, <1>3, <1>4, <1>5, NextKinds DEF StepKinds

-----------------------------------------------------------------------------
(* What holds for ever.                                                     *)

\* A session just opened satisfies the invariant.
LEMMA InitCleanup == Init => CleanupInv
  <1> SUFFICES ASSUME Init PROVE CleanupInv
    OBVIOUS
  <1> USE ActorFacts DEF Init
  <1>1. Wire = {}
    BY DEF Wire
  <1>2. /\ pc = "idle" /\ shape = "script" /\ stmt = "probe" /\ tries = 0 /\ permit = FALSE
        /\ acting = "none" /\ closer = "none" /\ tx = "idle" /\ owner = "nobody" /\ cursor = FALSE
        /\ status = "none" /\ \A a \in Probers : probe[a].step = "none"
    BY DEF NoProbe
  <1>3. PlanInv /\ PermitInv /\ StatementsAwaited /\ ActingAlone
    BY <1>1, <1>2 DEF PlanInv, PermitInv, StatementsAwaited, ActingAlone
  <1>4. OwnInv /\ SeenInv
    BY <1>1, <1>2 DEF OwnInv, SeenInv, OwnPending, Working
  <1>5. WrapperInv /\ CursorInv /\ StopInv
    BY <1>2 DEF WrapperInv, WrapperLeft, CursorInv, CursorLeft, StopInv, Working
  <1>6. BegunInv /\ CommitInv /\ OutcomeInv /\ StatusInv
    BY <1>2 DEF BegunInv, CommitInv, OutcomeInv, StatusInv, Own, Wraps
  <1> QED
    BY InitIdle, <1>3, <1>4, <1>5, <1>6 DEF CleanupInv

\* The statements on the wire, whose they are, what they end and what the
\* execution makes of their answers, at every moment.
THEOREM CleanupCorrect == Spec => []CleanupInv
  <1>1. CleanupInv /\ IdleInv' /\ [Next]_vars => CleanupInv'
    <2> SUFFICES ASSUME CleanupInv, IdleInv', [Next]_vars PROVE CleanupInv'
      OBVIOUS
    <2> USE DEF CleanupInv
    <2>1. PlanInv' /\ PermitInv' /\ StatementsAwaited' /\ ActingAlone'
      BY PlanStep, PermitStep, StatementsStep, ActingStep
    <2>2. OwnInv' /\ SeenInv'
      BY OwnStep, SeenStep
    <2>3. WrapperInv' /\ CursorInv' /\ StopInv'
      BY WrapperStep, CursorStep, StopStep
    <2>4. BegunInv' /\ CommitInv' /\ OutcomeInv' /\ StatusInv'
      BY BegunStep, CommitStep, OutcomeStep, StatusStep
    <2> QED
      BY <2>1, <2>2, <2>3, <2>4
  <1> QED
    BY <1>1, InitCleanup, IdleCorrect, PTL DEF Spec

\* The COMMITs and ROLLBACKs of an execution end its own transaction or nothing,
\* also those the server reaches long after they were given up.
THEOREM CleanupSpared == Spec => CleanupSparesUser
  <1>1. CleanupInv /\ [Next]_vars =>
          [wire # <<>> /\ wire' = Tail(wire) /\ Head(wire).by = "exec"
             /\ Head(wire).sql \in {"commit", "commitCursor", "rollback"} /\ tx # "idle"
             => owner = "wrapper" \/ fresh]_vars
    <2> SUFFICES ASSUME CleanupInv, wire # <<>>, Head(wire).by = "exec",
                        Head(wire).sql \in {"commit", "commitCursor", "rollback"}, tx # "idle"
                 PROVE  owner = "wrapper" \/ fresh
      OBVIOUS
    <2>1. wire \in Seq(Requests)
      BY DEF CleanupInv, IdleInv, TypeOK, WireType
    <2>2. 1 \in Wire /\ wire[1] = Head(wire)
      BY <2>1 DEF Wire
    <2>3. OwnPending
      BY <2>2 DEF OwnPending, OwnEnder, Enders
    <2> QED
      BY <2>3 DEF CleanupInv, OwnInv, Mine
  <1> QED
    BY <1>1, CleanupCorrect, PTL DEF Spec, CleanupSparesUser

\* A wrapper outlives its execution only when its cleanup was hit twice or its
\* ROLLBACK is still to come.
THEOREM WrapperAlwaysEnds == Spec => []WrapperEnds
  <1>1. CleanupInv => WrapperEnds
    <2> SUFFICES ASSUME CleanupInv, pc \in {"settle", "idle"}, owner = "wrapper"
                 PROVE  hits >= 2 \/ \E i \in DOMAIN wire : wire[i].sql = "rollback"
      BY DEF WrapperEnds
    <2>1. DOMAIN wire = Wire
      BY DEF CleanupInv, IdleInv, TypeOK, WireType, Wire
    <2>2. WrapperLeft
      BY DEF CleanupInv, WrapperInv, Ended
    <2> QED
      BY <2>1, <2>2 DEF WrapperLeft
  <1> QED
    BY <1>1, CleanupCorrect, PTL

\* A cursor outlives the read that declared it only with a statement to come that
\* ends it.
THEOREM CursorNeverLeft == Spec => []NoCursorLeft
  <1>1. CleanupInv => NoCursorLeft
    <2> SUFFICES ASSUME CleanupInv, pc \in {"settle", "idle"}, cursor
                 PROVE  \E i \in DOMAIN wire : wire[i].sql \in CleanupSql
      BY DEF NoCursorLeft
    <2>1. DOMAIN wire = Wire
      BY DEF CleanupInv, IdleInv, TypeOK, WireType, Wire
    <2>2. CursorLeft
      BY DEF CleanupInv, CursorInv, Ended
    <2> QED
      BY <2>1, <2>2 DEF CursorLeft
  <1> QED
    BY <1>1, CleanupCorrect, PTL

\* An execution leaves neither a wrapper nor a cursor to the next one
\* (cleanup, cursor_read), but for a statement on the wire that ends it.
THEOREM NothingIsLeft == Spec => []NothingLeft
  <1>1. WrapperEnds /\ NoCursorLeft => NothingLeft
    BY DEF NothingLeft
  <1> QED
    BY <1>1, WrapperAlwaysEnds, CursorNeverLeft, PTL

\* A Stop that was accepted keeps a cursor read from committing.
THEOREM StopAlwaysUndoes == Spec => []AcceptedStopUndoes
  <1>1. CleanupInv => AcceptedStopUndoes
    BY DEF CleanupInv, StopInv, AcceptedStopUndoes
  <1> QED
    BY <1>1, CleanupCorrect, PTL

\* What an execution reports of its wrapper is what the server made of it, for
\* cursor reads and for commands behind a pooler alike.
THEOREM StatusAlwaysTells == Spec => []StatusTellsCommit
  <1>1. CleanupInv => StatusTellsCommit
    BY DEF CleanupInv, StatusInv, OutcomeInv, StatusTellsCommit, Own, Wraps, Reports
  <1> QED
    BY <1>1, CleanupCorrect, PTL

\* The permit keeps every cleanup before the close, but for the COMMIT and the
\* ROLLBACK of a command behind a pooler, which take none.
THEOREM CleanupBeforeClose == ~Pooled /\ Spec => NoCleanupAfterClose
  <1>1. CleanupInv /\ TypeOK' /\ ~Pooled /\ [Next]_vars =>
          [closed /\ Len(wire') > Len(wire)
             => ~(wire'[Len(wire')].by = "exec" /\ wire'[Len(wire')].sql \in CleanupSql)]_vars
    <2> SUFFICES ASSUME CleanupInv, TypeOK', ~Pooled, [Next]_vars, closed, Len(wire') > Len(wire),
                        wire'[Len(wire')].by = "exec", wire'[Len(wire')].sql \in CleanupSql
                 PROVE  FALSE
      OBVIOUS
    <2>0. /\ TypeOK /\ IdleInv /\ ActingAlone /\ Len(wire) \in Nat /\ Len(wire') \in Nat
          /\ shape \in {"script", "cursor", "bound"}
      BY WireTyped DEF CleanupInv, IdleInv, TypeOK, TaskType, WireType
    <2>1. CASE ServerAnswers \/ CancelLands
      <3>1. Shifted
        BY <2>0, <2>1, AnswerIs DEF AnswerTo
      <3> QED
        BY <2>0, <3>1 DEF Shifted, Wire
    <2>2. CASE Quiet
      BY <2>0, <2>2 DEF Quiet
    <2>3. CASE \E by, sql : Sends(by, sql)
      <3>1. PICK by, sql : Sends(by, sql)
        BY <2>3
      <3>2. by # "exec" /\ wire'[Len(wire')].by = by
        BY <3>1 DEF Sends, Grown
      <3> QED
        BY <3>2
    <2>4. CASE Send
      <3>1. Grown("exec", stmt) /\ pc = "send"
        BY <2>0, <2>4, EnqueueGrows, ActorFacts DEF Send
      <3>2. stmt \in CleanupSql
        BY <3>1 DEF Grown
      <3>3. shape = "cursor"
        BY <2>0, <3>1, <3>2 DEF CleanupInv, PlanInv, Plan, CleanupPlan, CleanupSql
      <3> QED
        BY <3>1, <3>2, <3>3 DEF CleanupInv, PermitInv
    <2>5. CASE \/ Begin \/ Checkpoint \/ Receive \/ CleanupTimeout \/ BeginCleanup
               \/ Conclude \/ Settle \/ Abandon \/ (\E sh \in Shapes : Execute(sh))
               \/ (\E p \in Probers : ProbeApply(p)) \/ MarkClosed
      <3>1. UNCHANGED wire
        BY <2>0, <2>5, OwnSteps
      <3> QED
        BY <2>0, <3>1
    <2> QED
      BY <2>0, <2>1, <2>2, <2>3, <2>4, <2>5, NextKinds DEF StepKinds
  <1> SUFFICES ASSUME ~Pooled PROVE Spec => NoCleanupAfterClose
    OBVIOUS
  <1>2. CleanupInv /\ TypeOK' /\ [Next]_vars =>
          [closed /\ Len(wire') > Len(wire)
             => ~(wire'[Len(wire')].by = "exec" /\ wire'[Len(wire')].sql \in CleanupSql)]_vars
    BY <1>1
  <1>3. CleanupInv => TypeOK
    BY DEF CleanupInv, IdleInv
  <1> QED
    BY <1>2, <1>3, CleanupCorrect, PTL DEF Spec, NoCleanupAfterClose
=============================================================================
