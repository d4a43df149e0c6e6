---------------------- MODULE SessionTransactionProofs ----------------------
(***************************************************************************)
(* The cached Idle of a query session is true whenever an execution can be  *)
(* admitted on it: IdleInv of SessionTransaction is inductive, for any      *)
(* number of concurrent refreshes, executions, actions, Stops and timeouts. *)
(***************************************************************************)
EXTENDS SessionTransaction, TLAPS

\* The provers see the actor names as distinct once the refreshers are known
\* to be none of them.
LEMMA ActorFacts ==
    /\ "exec" \in Probers /\ "action" \in Probers /\ Probers \subseteq Actors
    /\ "exec" \in Actors /\ "action" \in Actors /\ "close" \in Actors
    /\ "close" \notin Probers
    /\ \A r \in Refreshers : r \in Probers /\ r # "exec" /\ r # "action"
  BY SessionAssumption DEF Probers, Actors, Senders

\* The initial state satisfies the invariant.
LEMMA InitIdle == Init => IdleInv
  <1> SUFFICES ASSUME Init PROVE IdleInv
    OBVIOUS
  <1> USE ActorFacts DEF Init
  <1>1. TypeOK
    <2>1. wire \in Seq(Requests)
      OBVIOUS
    <2>2. place \in [Actors -> Nat] /\ answer \in [Actors -> Answers]
      BY DEF Answers
    <2>3. probe \in [Probers -> [step : ProbeSteps, id : Nat, status : Statuses]]
      BY DEF NoProbe, ProbeSteps, Statuses
    <2>4. calls \in [Calls -> Nat]
      OBVIOUS
    <2>5. /\ fresh \in BOOLEAN /\ cursor \in BOOLEAN /\ committed \in BOOLEAN
          /\ running \in BOOLEAN /\ stop \in BOOLEAN /\ cleaning \in BOOLEAN
          /\ permit \in BOOLEAN /\ closed \in BOOLEAN
      OBVIOUS
    <2> QED
      BY <2>1, <2>2, <2>3, <2>4, <2>5
      DEF TypeOK, ServerType, WireType, BeliefType, CreditType, TaskType, CallerType,
          TxStates, Statuses, Steps, Sql, UserSql, CleanupSql, Outcomes, CloseSteps
  <1>2. IdleIsTrue /\ SlotHeld /\ ProbesNumbered /\ WaitsMatch /\ OpenersAwaited /\ IdleReads
    BY DEF IdleIsTrue, SlotHeld, ProbesNumbered, WaitsMatch, OpenersAwaited, IdleReads, NoProbe
  <1> QED
    BY <1>1, <1>2 DEF IdleInv

\* What the server can answer, and that only an opener takes it out of Idle.
LEMMA ServerFacts ==
  ASSUME TypeOK, NEW sql \in Sql,
         NEW o \in Succeeds(sql) \cup Fails(sql) \cup IsCanceled(sql)
  PROVE  /\ o[1] \in Answers /\ o[2] \in TxStates
         /\ tx = "idle" /\ sql \notin OpenerSql => o[2] = "idle"
         /\ sql = "probe" /\ o \in Succeeds(sql) \cup Fails(sql) => o[1] = "ok"
  BY DEF TypeOK, ServerType, Sql, UserSql, CleanupSql, Succeeds, Fails, IsCanceled, Broken, HalfBegun,
         OpenerSql, Answers, TxStates

\* The request at the head of the wire is one.
LEMMA HeadRequest ==
  ASSUME WireType, wire # <<>>
  PROVE  Head(wire).sql \in Sql
  <1>1. Head(wire) \in Requests
    BY DEF WireType
  <1> QED
    BY <1>1 DEF Requests

\* Sending a request keeps the wire's types.
LEMMA EnqueueTyped ==
  ASSUME WireType, NEW a \in Actors, NEW by \in Senders \cup {"probe"}, NEW sql \in Sql,
         Enqueue(a, by, sql), UNCHANGED <<reported, cancels>>
  PROVE  WireType'
  BY DEF WireType, Enqueue, Requests, Answers

\* So does giving one up at its timeout.
LEMMA GiveUpTyped ==
  ASSUME WireType, NEW a \in Actors, GiveUp(a) \/ UNCHANGED place,
         UNCHANGED <<wire, reported, cancels, answer>>
  PROVE  WireType'
  BY DEF WireType, GiveUp

\* The effect of a statement is well typed.
LEMMA EffectTyped ==
  ASSUME ServerType, WireType, cancels' \in Nat, wire # <<>>,
         NEW r \in Answers, NEW t \in TxStates, Effect(Head(wire), r, t)
  PROVE  ServerType' /\ WireType'
  <1>1. fresh' \in BOOLEAN /\ cursor' \in BOOLEAN
    BY DEF ServerType, Effect
  <1>2. committed' \in BOOLEAN
    BY DEF ServerType, Effect
  <1>3. tx' \in TxStates /\ owner' \in {"nobody", "user", "wrapper"} /\ reported' \in TxStates
    BY DEF ServerType, WireType, Effect
  <1>4. wire' \in Seq(Requests)
    BY DEF WireType, Effect
  <1>5. place' \in [Actors -> Nat] /\ answer' \in [Actors -> Answers]
    BY DEF WireType, Effect
  <1> QED
    BY <1>1, <1>2, <1>3, <1>4, <1>5 DEF ServerType, WireType

\* Every step keeps the types of the server and of the wire.
LEMMA WireTypeStep == TypeOK /\ [Next]_vars => ServerType' /\ WireType'
  <1> SUFFICES ASSUME TypeOK, [Next]_vars PROVE ServerType' /\ WireType'
    OBVIOUS
  <1> USE ActorFacts DEF TypeOK
  <1>1. CASE ServerAnswers
    <2>1. PICK o \in Succeeds(Head(wire).sql) \cup Fails(Head(wire).sql) :
            Effect(Head(wire), o[1], o[2])
      BY <1>1 DEF ServerAnswers
    <2>2. wire # <<>> /\ Head(wire).sql \in Sql /\ cancels' \in Nat
      BY <1>1, HeadRequest DEF ServerAnswers, WireType
    <2> QED
      BY <2>1, <2>2, ServerFacts, EffectTyped
  <1>2. CASE CancelLands
    <2>1. PICK o \in IsCanceled(Head(wire).sql) : Effect(Head(wire), o[1], o[2])
      BY <1>2 DEF CancelLands
    <2>2. wire # <<>> /\ Head(wire).sql \in Sql /\ cancels' \in Nat
      BY <1>2, HeadRequest DEF CancelLands, WireType
    <2> QED
      BY <2>1, <2>2, ServerFacts, EffectTyped
  <1>3. CASE CancelDiscarded \/ RequestCancel \/ CloseCancel
    BY <1>3 DEF CancelDiscarded, RequestCancel, CloseCancel, serverVars, ServerType, WireType
  <1>4. ASSUME NEW a \in Probers, Probing(a) PROVE ServerType' /\ WireType'
    <2>1. ServerType'
      BY <1>4 DEF Probing, ProbeStart, ProbeSend, ProbeRead, ProbeApply, serverVars, ServerType
    <2>2. CASE ProbeStart(a) \/ ProbeApply(a)
      BY <2>1, <2>2 DEF ProbeStart, ProbeApply, wireVars, WireType
    <2>3. CASE ProbeSend(a)
      BY <2>1, <2>3, EnqueueTyped DEF ProbeSend, Sql
    <2>4. CASE ProbeRead(a)
      BY <2>1, <2>4, GiveUpTyped DEF ProbeRead
    <2> QED
      BY <1>4, <2>2, <2>3, <2>4 DEF Probing
  <1>5. CASE Send
    BY <1>5, EnqueueTyped DEF Send, TaskType, Senders, serverVars, ServerType
  <1>6. CASE Act("commit") \/ Act("rollback")
    BY <1>6, EnqueueTyped DEF Act, Senders, Sql, CleanupSql, serverVars, ServerType
  <1>7. CASE CloseRollback
    <2>1. ServerType'
      BY <1>7 DEF CloseRollback, serverVars, ServerType
    <2>2. CASE Enqueue("close", "close", "rollback")
      BY <1>7, <2>1, <2>2, EnqueueTyped DEF CloseRollback, Senders, Sql, CleanupSql
    <2>3. CASE UNCHANGED <<wire, place, answer>>
      BY <1>7, <2>1, <2>3 DEF CloseRollback, WireType
    <2> QED
      BY <1>7, <2>2, <2>3 DEF CloseRollback
  <1>8. CASE CleanupTimeout
    BY <1>8, GiveUpTyped DEF CleanupTimeout, serverVars, ServerType
  <1>9. CASE CloseReceive
    BY <1>9, GiveUpTyped DEF CloseReceive, serverVars, ServerType
  <1>10. CASE \E sh \in Shapes : Execute(sh)
    BY <1>10 DEF Execute, wireVars, ServerType, WireType
  <1>11. CASE Settle
    BY <1>11 DEF Settle, wireVars, ServerType, WireType
  <1>12. CASE Begin \/ Checkpoint \/ Receive \/ BeginCleanup \/ Conclude \/ Abandon
    BY <1>12 DEF Begin, Checkpoint, Receive, BeginCleanup, Conclude, Abandon,
       serverVars, wireVars, ServerType, WireType
  <1>13. CASE SetMode \/ ActReceive \/ CloseRequest \/ MarkClosed \/ \E r \in Refreshers : Refresh(r)
    BY <1>13 DEF SetMode, ActReceive, CloseRequest, MarkClosed, Refresh,
       serverVars, wireVars, ServerType, WireType
  <1>14. CASE UNCHANGED vars
    BY <1>14 DEF vars, serverVars, wireVars, ServerType, WireType
  <1> QED
    BY <1>1, <1>2, <1>3, <1>4, <1>5, <1>6, <1>7, <1>8, <1>9, <1>10, <1>11, <1>12, <1>13, <1>14
    DEF Next, ExecStep, CallStep, CloseStep

\* Every step keeps the types of what the session believes.
LEMMA BeliefTypeStep == TypeOK /\ [Next]_vars => BeliefType'
  <1> SUFFICES ASSUME TypeOK, [Next]_vars PROVE BeliefType'
    OBVIOUS
  <1> DEFINE Probes == [step : ProbeSteps, id : Nat, status : Statuses]
  <1> USE ActorFacts DEF TypeOK
  <1>0. \A a \in Probers : probe[a] \in Probes
    BY DEF BeliefType
  <1>1. ASSUME NEW a \in Probers, Probing(a) PROVE BeliefType'
    <2>1. probe[a] \in Probes /\ reported \in Statuses
      BY <1>0 DEF WireType, Statuses
    <2>2. CASE ProbeStart(a)
      <3>0. started + 1 \in Nat
        BY DEF BeliefType
      <3>1. \A n \in Nat : [probe[a] EXCEPT !.step = "send", !.id = n] \in Probes
        BY <2>1 DEF ProbeSteps
      <3> QED
        BY <2>2, <3>0, <3>1 DEF ProbeStart, BeliefType
    <2>3. CASE ProbeSend(a)
      <3>1. [probe[a] EXCEPT !.step = "await"] \in Probes
        BY <2>1 DEF ProbeSteps
      <3> QED
        BY <2>3, <3>1 DEF ProbeSend, BeliefType
    <2>4. CASE ProbeRead(a)
      <3>1. \A st \in Statuses : [probe[a] EXCEPT !.step = "apply", !.status = st] \in Probes
        BY <2>1 DEF ProbeSteps
      <3>2. PICK st \in Statuses :
              probe' = [probe EXCEPT ![a] = [probe[a] EXCEPT !.step = "apply", !.status = st]]
        BY <2>1, <2>4 DEF ProbeRead, Statuses
      <3> QED
        BY <2>4, <3>1, <3>2 DEF ProbeRead, BeliefType
    <2>5. CASE ProbeApply(a)
      <3>1. probe[a].id \in Nat /\ probe[a].status \in Statuses
        BY <2>1
      <3>2. applied' \in Nat /\ cached' \in Statuses
        BY <2>5, <3>1 DEF ProbeApply, Admit, BeliefType
      <3>3. NoProbe \in Probes
        BY DEF NoProbe, ProbeSteps, Statuses
      <3> QED
        BY <2>5, <3>2, <3>3 DEF ProbeApply, BeliefType
    <2> QED
      BY <1>1, <2>2, <2>3, <2>4, <2>5 DEF Probing
  <1>2. \A a \in Probers : [probe[a] EXCEPT !.step = "start"] \in Probes
    BY <1>0 DEF ProbeSteps
  <1>3. CASE Conclude \/ ActReceive
    BY <1>2, <1>3 DEF Conclude, ActReceive, BeliefType
  <1>4. CASE \E r \in Refreshers : Refresh(r)
    BY <1>2, <1>4 DEF Refresh, BeliefType
  <1>5. CASE SetMode
    BY <1>5 DEF SetMode, BeliefType, probeVars
  <1>6. CASE \/ ServerAnswers \/ CancelLands \/ CancelDiscarded
             \/ \E sh \in Shapes : Execute(sh)
    BY <1>6 DEF ServerAnswers, CancelLands, CancelDiscarded, Execute, BeliefType, probeVars
  <1>7. CASE Begin \/ Checkpoint \/ Send \/ Receive \/ CleanupTimeout \/ BeginCleanup \/ Settle \/ Abandon
    BY <1>7 DEF Begin, Checkpoint, Send, Receive, CleanupTimeout, BeginCleanup, Settle, Abandon,
       BeliefType, probeVars
  <1>8. CASE RequestCancel \/ Act("commit") \/ Act("rollback") \/ CloseRequest \/ CloseStep
    BY <1>8 DEF RequestCancel, Act, CloseRequest, CloseStep, MarkClosed, CloseCancel, CloseRollback,
       CloseReceive, BeliefType, probeVars
  <1>9. CASE UNCHANGED vars
    BY <1>9 DEF vars, BeliefType, probeVars
  <1> QED
    BY <1>1, <1>3, <1>4, <1>5, <1>6, <1>7, <1>8, <1>9 DEF Next, ExecStep, CallStep

\* Every step keeps the types of the credit flags and of the callers.
LEMMA CallerTypeStep == TypeOK /\ [Next]_vars => CreditType' /\ CallerType'
  <1> SUFFICES ASSUME TypeOK, [Next]_vars PROVE CreditType' /\ CallerType'
    OBVIOUS
  <1> USE DEF TypeOK, CreditType, CallerType, creditVars, closeVars, CloseSteps
  <1>0. ASSUME NEW kind \in Calls, NEW bound, Call(kind, bound) PROVE calls' \in [Calls -> Nat]
    BY <1>0 DEF Call
  <1>1. CASE \E sh \in Shapes : Execute(sh)
    <2>1. CreditType'
      BY <1>1 DEF Execute
    <2>2. CallerType'
      BY <1>0, <1>1 DEF Execute, Calls
    <2> QED
      BY <2>1, <2>2
  <1>2. CASE RequestCancel
    BY <1>0, <1>2 DEF RequestCancel, Calls
  <1>3. CASE \E r \in Refreshers : Refresh(r)
    BY <1>0, <1>3 DEF Refresh, Calls
  <1>4. CASE Act("commit") \/ Act("rollback")
    BY <1>0, <1>4 DEF Act, Calls
  <1>5. CASE CloseRequest
    BY <1>0, <1>5 DEF CloseRequest, Calls
  <1>6. CASE ServerAnswers \/ CancelLands \/ CancelDiscarded \/ SetMode
    BY <1>6 DEF ServerAnswers, CancelLands, CancelDiscarded, SetMode
  <1>7. CASE \E a \in Probers : Probing(a)
    BY <1>7 DEF Probing, ProbeStart, ProbeSend, ProbeRead, ProbeApply
  <1>8. CASE Begin \/ Checkpoint
    BY ZenonT(30), <1>8 DEF Begin, Checkpoint, Stopped, ToCheck, ToSend, ToCleanup, ToRollback, Finish
  <1>9. CASE Receive
    BY ZenonT(30), <1>9 DEF Receive, AfterScript, AfterCursor, AfterBound, AfterPooled, AfterCleanup,
       ToCheck, ToSend, ToCleanup, ToRollback, Finish
  <1>10. CASE CleanupTimeout
    BY <1>10 DEF CleanupTimeout, AfterCleanup, ToSend, ToRollback, Finish
  <1>11. CASE Send \/ Conclude \/ Abandon \/ ActReceive
    BY <1>11 DEF Send, Conclude, Abandon, ActReceive
  <1>12. CASE BeginCleanup
    BY <1>12 DEF BeginCleanup
  <1>13. CASE Settle
    BY <1>13 DEF Settle
  <1>14. CASE CloseStep
    BY <1>14 DEF CloseStep, MarkClosed, CloseCancel, CloseRollback, CloseReceive
  <1>15. CASE UNCHANGED vars
    BY <1>15 DEF vars
  <1> QED
    BY <1>1, <1>2, <1>3, <1>4, <1>5, <1>6, <1>7, <1>8, <1>9, <1>10, <1>11, <1>12, <1>13, <1>14,
       <1>15 DEF Next, ExecStep, CallStep

\* Every step keeps the types of the execution's task.
LEMMA TaskTypeStep == TypeOK /\ [Next]_vars => TaskType'
  <1> SUFFICES ASSUME TypeOK, [Next]_vars PROVE TaskType'
    OBVIOUS
  <1> USE DEF TypeOK, TaskType, taskVars, Steps, Sql, UserSql, CleanupSql, Outcomes
  <1>1. CASE \E sh \in Shapes : Execute(sh)
    BY <1>1, SessionAssumption DEF Execute, EntryOf
  <1>2. CASE ServerAnswers \/ CancelDiscarded \/ SetMode \/ RequestCancel
    BY <1>2 DEF ServerAnswers, CancelDiscarded, SetMode, RequestCancel
  <1>3. CASE CancelLands
    BY <1>3 DEF CancelLands, Hit
  <1>4. CASE \E a \in Probers : Probing(a)
    BY <1>4 DEF Probing, ProbeStart, ProbeSend, ProbeRead, ProbeApply
  <1>5. CASE Begin
    BY <1>5 DEF Begin, ToCheck, ToSend
  <1>6. CASE Checkpoint
    BY <1>6 DEF Checkpoint, Stopped, ToCheck, ToSend, ToCleanup, ToRollback, Finish
  <1>7. CASE Send
    BY <1>7 DEF Send
  <1>8. CASE Receive
    <2> DEFINE r == answer["exec"]
    <2>0. UNCHANGED <<shape, entry, status, hits>>
      BY <1>8 DEF Receive
    <2>1. CASE AfterCleanup(r)
      BY <2>0, <2>1 DEF AfterCleanup, Failure, ToSend, ToRollback, Finish
    <2>2. CASE AfterScript(r)
      BY <2>0, <2>2 DEF AfterScript, Failure, ToSend, Finish
    <2>3. CASE AfterCursor(r)
      BY <2>0, <2>3 DEF AfterCursor, Failure, ToCheck, ToCleanup, Finish
    <2>4. CASE AfterBound(r)
      BY <2>0, <2>4 DEF AfterBound, Failure, ToCheck, Finish
    <2>5. CASE AfterPooled(r)
      BY <2>0, <2>5 DEF AfterPooled, Failure, ToCheck, ToSend, ToRollback, Finish
    <2> QED
      BY <1>8, <2>1, <2>2, <2>3, <2>4, <2>5 DEF Receive
  <1>9. CASE CleanupTimeout
    BY <1>9 DEF CleanupTimeout, AfterCleanup, Failure, Hit, ToSend, ToRollback, Finish
  <1>10. CASE BeginCleanup
    BY <1>10 DEF BeginCleanup
  <1>11. CASE Conclude
    BY <1>11 DEF Conclude
  <1>12. CASE Settle \/ Abandon
    BY <1>12 DEF Settle, Abandon
  <1>13. CASE \/ ActReceive \/ CloseRequest \/ Act("commit") \/ Act("rollback")
              \/ \E r \in Refreshers : Refresh(r)
    BY <1>13 DEF ActReceive, CloseRequest, Act, Refresh
  <1>14. CASE CloseStep
    BY <1>14 DEF CloseStep, MarkClosed, CloseCancel, CloseRollback, CloseReceive
  <1>15. CASE UNCHANGED vars
    BY <1>15 DEF vars
  <1> QED
    BY <1>1, <1>2, <1>3, <1>4, <1>5, <1>6, <1>7, <1>8, <1>9, <1>10, <1>11, <1>12, <1>13, <1>14,
       <1>15 DEF Next, ExecStep, CallStep

\* Every step keeps the types.
LEMMA TypeStep == TypeOK /\ [Next]_vars => TypeOK'
  BY WireTypeStep, BeliefTypeStep, CallerTypeStep, TaskTypeStep DEF TypeOK

-----------------------------------------------------------------------------
(* What the steps do to the part of the state IdleInv is about.             *)

\* The execution's local steps leave the server, the wire and the probes alone.
LEMMA LocalFacts ==
  ASSUME TypeOK, Begin \/ Checkpoint \/ Receive \/ BeginCleanup \/ Abandon
  PROVE  /\ UNCHANGED <<tx, reported, wire, place, cached, started, applied, probe, acting>>
         /\ pc \in {"start", "check", "await", "cleanup", "abandon"}
         /\ pc' \in {"abandon", "check", "send", "cleanup", "finish", "over"}
         /\ pc = "await" => place["exec"] = 0
  <1>1. CASE Begin
    BY <1>1 DEF Begin, ToCheck, ToSend, serverVars, wireVars, probeVars
  <1>2. CASE Checkpoint
    BY <1>2 DEF Checkpoint, Stopped, ToSend, ToCleanup, ToRollback, Finish,
       serverVars, wireVars, probeVars
  <1>3. CASE Receive
    <2>1. /\ UNCHANGED <<tx, reported, wire, place, cached, started, applied, probe, acting>>
          /\ pc = "await" /\ place["exec"] = 0
      BY <1>3 DEF Receive, Answered, serverVars, wireVars, probeVars
    <2>2. pc' \in {"check", "send", "cleanup", "finish"}
      BY <1>3 DEF Receive, AfterScript, AfterCursor, AfterBound, AfterPooled, AfterCleanup,
         ToCheck, ToSend, ToCleanup, ToRollback, Finish
    <2> QED
      BY <2>1, <2>2
  <1>4. CASE BeginCleanup \/ Abandon
    BY <1>4 DEF BeginCleanup, Abandon, serverVars, wireVars, probeVars
  <1> QED
    BY <1>1, <1>2, <1>3, <1>4

\* Flags, bounds and cancel requests are not part of it either.
LEMMA AsideFacts ==
  ASSUME \/ CancelDiscarded \/ RequestCancel \/ SetMode \/ CloseRequest
         \/ MarkClosed \/ CloseCancel \/ UNCHANGED vars
  PROVE  UNCHANGED <<tx, reported, wire, place, cached, started, applied, probe, acting, pc, stmt>>
  BY DEF CancelDiscarded, RequestCancel, SetMode, CloseRequest, MarkClosed, CloseCancel,
     vars, serverVars, wireVars, probeVars, taskVars

\* A request goes to the end of the wire.
LEMMA EnqueueFacts ==
  ASSUME WireType, NEW a \in Actors, NEW by, NEW sql, Enqueue(a, by, sql)
  PROVE  /\ Len(wire) \in Nat /\ Len(wire') = Len(wire) + 1
         /\ \A i \in 1..Len(wire) : wire'[i] = wire[i]
         /\ wire'[Len(wire) + 1].sql = sql
         /\ place'[a] = Len(wire) + 1
         /\ \A b \in Actors : b # a => place'[b] = place[b]
  BY DEF WireType, Enqueue

\* An answered request leaves the head of the wire, and the others move up.
LEMMA EffectFacts ==
  ASSUME WireType, wire # <<>>, NEW r, NEW t, Effect(Head(wire), r, t)
  PROVE  /\ tx' = t
         /\ Len(wire) \in Nat \ {0} /\ Len(wire') = Len(wire) - 1
         /\ Head(wire) = wire[1]
         /\ \A i \in 1..Len(wire') : wire'[i] = wire[i + 1]
         /\ \A a \in Actors : place[a] \in Nat
                              /\ place'[a] = IF place[a] = 0 THEN 0 ELSE place[a] - 1
         /\ r = "ok" => reported' = t
         /\ reported' \in {reported, t}
  BY DEF WireType, Effect

\* The server finishes one statement; a probe always succeeds.
LEMMA AnswerFacts ==
  ASSUME TypeOK, ServerAnswers \/ CancelLands
  PROVE  \E r, t :
           /\ wire # <<>> /\ Effect(Head(wire), r, t)
           /\ tx = "idle" /\ Head(wire).sql \notin OpenerSql => t = "idle"
           /\ Head(wire).sql = "probe" => r = "ok"
           /\ UNCHANGED <<cached, started, applied, probe, acting, pc, stmt>>
  <1> USE DEF TypeOK, probeVars, taskVars
  <1>1. CASE ServerAnswers
    <2>1. PICK o \in Succeeds(Head(wire).sql) \cup Fails(Head(wire).sql) :
            Effect(Head(wire), o[1], o[2])
      BY <1>1 DEF ServerAnswers
    <2>2. wire # <<>> /\ Head(wire).sql \in Sql
      BY <1>1, HeadRequest DEF ServerAnswers
    <2> QED
      BY <1>1, <2>1, <2>2, ServerFacts DEF ServerAnswers
  <1>2. CASE CancelLands
    <2>1. PICK o \in IsCanceled(Head(wire).sql) : Effect(Head(wire), o[1], o[2])
      BY <1>2 DEF CancelLands
    <2>2. wire # <<>> /\ Head(wire).sql \in Sql /\ Head(wire).sql # "probe"
      BY <1>2, HeadRequest DEF CancelLands
    <2> QED
      BY <1>2, <2>1, <2>2, ServerFacts DEF CancelLands
  <1> QED
    BY <1>1, <1>2

-----------------------------------------------------------------------------
(* The inductive step.                                                      *)

\* Everything of IdleInv but the types and the slot.
IdleRest == IdleIsTrue /\ ProbesNumbered /\ WaitsMatch /\ OpenersAwaited /\ IdleReads

\* The types the inductive step relies on.
LEMMA CoreTypes ==
  ASSUME TypeOK
  PROVE  /\ started \in Nat /\ applied \in Nat /\ Len(wire) \in Nat
         /\ \A a \in Probers : probe[a].id \in Nat
         /\ \A a \in Actors : place[a] \in Nat
  BY DEF TypeOK, BeliefType, WireType

\* Each answer of the server keeps the invariant: only the statement the
\* execution waits for opens a transaction.
LEMMA AnswerStep ==
  ASSUME IdleInv, ServerAnswers \/ CancelLands
  PROVE  IdleRest'
  <1> USE ActorFacts
  <1>0. TypeOK /\ IdleRest /\ WireType
    BY DEF IdleInv, IdleRest, TypeOK
  <1>1. PICK r, t :
           /\ wire # <<>> /\ Effect(Head(wire), r, t)
           /\ tx = "idle" /\ Head(wire).sql \notin OpenerSql => t = "idle"
           /\ Head(wire).sql = "probe" => r = "ok"
           /\ UNCHANGED <<cached, started, applied, probe, acting, pc, stmt>>
    BY <1>0, AnswerFacts
  <1>2. /\ tx' = t
        /\ Len(wire) \in Nat \ {0} /\ Len(wire') = Len(wire) - 1
        /\ Head(wire) = wire[1]
        /\ \A i \in 1..Len(wire') : wire'[i] = wire[i + 1]
        /\ \A a \in Actors : place[a] \in Nat
                             /\ place'[a] = IF place[a] = 0 THEN 0 ELSE place[a] - 1
        /\ r = "ok" => reported' = t
        /\ reported' \in {reported, t}
    BY <1>0, <1>1, EffectFacts
  <1>3. pc # "await" /\ tx = "idle" => tx' = "idle"
    BY <1>0, <1>1, <1>2 DEF IdleRest, OpenersAwaited
  <1>4. ProbesNumbered'
    BY <1>0, <1>1 DEF IdleRest, ProbesNumbered
  <1>5. WaitsMatch'
    <2>1. \A a \in Actors : place'[a] # 0 /\ place[a] <= Len(wire)
            => /\ place[a] # 0 /\ place'[a] <= Len(wire')
               /\ wire'[place'[a]] = wire[place[a]]
      BY <1>2
    <2>2. \A a \in Actors : place'[a] # 0 => place[a] # 0
      BY <1>2
    <2> QED
      BY <1>0, <1>1, <2>1, <2>2 DEF IdleRest, WaitsMatch
  <1>6. OpenersAwaited'
    BY <1>0, <1>1, <1>2 DEF IdleRest, OpenersAwaited
  <1>7. IdleIsTrue'
    BY <1>0, <1>1, <1>3 DEF IdleRest, IdleIsTrue
  <1>8. IdleReads'
    <2>1. \A a \in Probers : Counts(probe[a].id)' => Counts(probe[a].id) /\ pc # "await"
      BY <1>1 DEF Counts
    <2>2. ASSUME NEW a \in Probers, Counts(probe[a].id),
                 probe[a].step = "await", place'[a] = 0, reported' = "idle"
          PROVE  tx' = "idle"
      <3>1. pc # "await"
        BY <2>2 DEF Counts
      <3>2. CASE place[a] = 0
        BY <1>0, <1>2, <1>3, <2>2, <3>1, <3>2 DEF IdleRest, IdleReads
      <3>3. CASE place[a] = 1
        BY <1>0, <1>1, <1>2, <2>2, <3>3 DEF IdleRest, WaitsMatch
      <3> QED
        BY <1>2, <2>2, <3>2, <3>3
    <2> QED
      BY <1>0, <1>1, <1>3, <2>1, <2>2 DEF IdleRest, IdleReads
  <1> QED
    BY <1>4, <1>5, <1>6, <1>7, <1>8 DEF IdleRest

\* Each step of a probe keeps the invariant: a probe that counts reads the
\* status only after a request of its own was answered, and one that does not
\* count any more is not applied.
LEMMA ProbeStep ==
  ASSUME IdleInv, NEW p \in Probers, Probing(p)
  PROVE  IdleRest'
  <1> USE ActorFacts
  <1>0. TypeOK /\ IdleRest /\ WireType /\ BeliefType
    BY DEF IdleInv, IdleRest, TypeOK
  <1>a. /\ started \in Nat /\ applied \in Nat /\ Len(wire) \in Nat
        /\ \A a \in Probers : probe[a].id \in Nat
        /\ \A a \in Actors : place[a] \in Nat
    BY <1>0, CoreTypes
  <1>1. CASE ProbeStart(p)
    <2>1. /\ UNCHANGED <<tx, reported, wire, place, cached, applied, acting, pc, stmt>>
          /\ started' = started + 1 /\ probe[p].step = "start"
          /\ probe'[p].step = "send" /\ probe'[p].id = started + 1
          /\ \A a \in Probers : a # p => probe'[a] = probe[a]
      BY <1>0, <1>1 DEF ProbeStart, BeliefType, serverVars, wireVars, taskVars
    <2>2. ProbesNumbered' /\ WaitsMatch' /\ OpenersAwaited' /\ IdleIsTrue'
      BY <1>0, <1>a, <2>1 DEF IdleRest, ProbesNumbered, WaitsMatch, OpenersAwaited, IdleIsTrue
    <2>3. IdleReads'
      BY SMTT(30), <1>0, <1>a, <2>1 DEF IdleRest, ProbesNumbered, IdleReads, Counts
    <2> QED
      BY <2>2, <2>3 DEF IdleRest
  <1>2. CASE ProbeSend(p)
    <2>1. /\ UNCHANGED <<tx, reported, cached, started, applied, acting, pc, stmt>>
          /\ probe[p].step = "send" /\ Enqueue(p, "probe", "probe")
          /\ probe'[p].step = "await" /\ probe'[p].id = probe[p].id
          /\ \A a \in Probers : a # p => probe'[a] = probe[a]
      BY <1>0, <1>2 DEF ProbeSend, BeliefType, serverVars, taskVars
    <2>2. /\ Len(wire') = Len(wire) + 1
          /\ \A i \in 1..Len(wire) : wire'[i] = wire[i]
          /\ wire'[Len(wire) + 1].sql = "probe"
          /\ place'[p] = Len(wire) + 1
          /\ \A b \in Actors : b # p => place'[b] = place[b]
      BY <1>0, <2>1, EnqueueFacts
    <2>3. p = "exec" => pc = "probe"
      BY <1>0, <2>1 DEF IdleRest, ProbesNumbered
    <2>4. ProbesNumbered' /\ IdleIsTrue'
      BY <1>0, <2>1 DEF IdleRest, ProbesNumbered, IdleIsTrue
    <2>5. WaitsMatch'
      <3>1. \A a \in Actors : a # p /\ place[a] # 0 /\ place[a] <= Len(wire)
              => /\ place'[a] # 0 /\ place'[a] <= Len(wire')
                 /\ wire'[place'[a]] = wire[place[a]]
        BY <1>a, <2>2
      <3>2. place'[p] <= Len(wire') /\ wire'[place'[p]].sql = "probe"
        BY <1>a, <2>2
      <3> QED
        BY <1>0, <2>1, <2>2, <2>3, <3>1, <3>2 DEF IdleRest, WaitsMatch
    <2>6. OpenersAwaited'
      BY <1>0, <1>a, <2>1, <2>2, <2>3 DEF IdleRest, OpenersAwaited, OpenerSql
    <2>7. IdleReads'
      BY SMTT(30), <1>0, <1>a, <2>1, <2>2, <2>3 DEF IdleRest, IdleReads, Counts
    <2> QED
      BY <2>4, <2>5, <2>6, <2>7 DEF IdleRest
  <1>3. CASE ProbeRead(p)
    <2>1. /\ UNCHANGED <<tx, reported, wire, cached, started, applied, acting, pc, stmt>>
          /\ probe[p].step = "await"
          /\ probe'[p].step = "apply" /\ probe'[p].id = probe[p].id
          /\ \A a \in Probers : a # p => probe'[a] = probe[a]
          /\ \A a \in Actors : a # p => place'[a] = place[a]
          /\ probe'[p].status = "idle" => place[p] = 0 /\ reported = "idle"
          /\ place'[p] = 0
      <3>1. /\ UNCHANGED <<tx, reported, wire, cached, started, applied, acting, pc, stmt>>
            /\ probe[p].step = "await"
        BY <1>3 DEF ProbeRead, serverVars, taskVars
      <3>2. CASE Answered(p) /\ UNCHANGED place /\
                 probe' = [probe EXCEPT ![p] = [@ EXCEPT !.step = "apply", !.status = reported]]
        BY <1>0, <3>1, <3>2 DEF Answered, BeliefType
      <3>3. CASE GiveUp(p) /\
                 probe' = [probe EXCEPT ![p] = [@ EXCEPT !.step = "apply", !.status = "unknown"]]
        BY <1>0, <3>1, <3>3 DEF GiveUp, BeliefType, WireType
      <3> QED
        BY <1>3, <3>2, <3>3 DEF ProbeRead
    <2>2. p = "exec" => pc = "probe"
      BY <1>0, <2>1 DEF IdleRest, ProbesNumbered
    <2>3. ProbesNumbered' /\ IdleIsTrue'
      BY <1>0, <2>1 DEF IdleRest, ProbesNumbered, IdleIsTrue
    <2>4. WaitsMatch' /\ OpenersAwaited'
      BY <1>0, <1>a, <2>1, <2>2 DEF IdleRest, WaitsMatch, OpenersAwaited
    <2>5. IdleReads'
      BY <1>0, <1>a, <2>1, <2>2 DEF IdleRest, IdleReads, Counts
    <2> QED
      BY <2>3, <2>4, <2>5 DEF IdleRest
  <1>4. CASE ProbeApply(p)
    <2>1. /\ UNCHANGED <<tx, reported, wire, place, started, stmt>>
          /\ probe[p].step = "apply"
          /\ probe'[p] = NoProbe
          /\ \A a \in Probers : a # p => probe'[a] = probe[a]
          /\ pc' = IF p = "exec" THEN "settle" ELSE pc
          /\ acting' = IF p = "action" THEN "none" ELSE acting
      BY <1>0, <1>4 DEF ProbeApply, BeliefType, serverVars, wireVars
    <2>2. \/ applied < probe[p].id /\ applied' = probe[p].id /\ cached' = probe[p].status
          \/ applied >= probe[p].id /\ UNCHANGED <<applied, cached>>
      BY <1>4 DEF ProbeApply, Admit
    <2>3. p = "exec" => pc = "probe"
      BY <1>0, <2>1 DEF IdleRest, ProbesNumbered
    <2>4. ProbesNumbered'
      BY <1>0, <1>a, <2>1, <2>2 DEF IdleRest, ProbesNumbered, NoProbe
    <2>5. WaitsMatch' /\ OpenersAwaited'
      BY <1>0, <1>a, <2>1, <2>3 DEF IdleRest, WaitsMatch, OpenersAwaited, NoProbe
    <2>6. IdleIsTrue'
      BY <1>0, <1>a, <2>1, <2>2, <2>3 DEF IdleRest, IdleIsTrue, IdleReads, Counts
    <2>7. IdleReads'
      <3>1. CASE p = "exec"
        BY <1>0, <1>a, <2>1, <2>2, <2>3, <3>1 DEF IdleRest, IdleReads, Counts, NoProbe
      <3>2. CASE p # "exec"
        BY <1>0, <1>a, <2>1, <2>2, <3>2 DEF IdleRest, IdleReads, Counts, NoProbe
      <3> QED
        BY <3>1, <3>2
    <2> QED
      BY <2>4, <2>5, <2>6, <2>7 DEF IdleRest
  <1> QED
    BY <1>1, <1>2, <1>3, <1>4 DEF Probing

\* The execution's own steps keep the invariant.
LEMMA ExecutionStep ==
  ASSUME IdleInv, ExecStep \/ \E sh \in Shapes : Execute(sh)
  PROVE  IdleRest'
  <1> USE ActorFacts DEF IdleRest
  <1>0. TypeOK /\ IdleRest /\ WireType /\ BeliefType
    BY DEF IdleInv, TypeOK
  <1>a. /\ started \in Nat /\ applied \in Nat /\ Len(wire) \in Nat
        /\ \A a \in Probers : probe[a].id \in Nat
        /\ \A a \in Actors : place[a] \in Nat
    BY <1>0, CoreTypes
  <1>1. CASE Begin \/ Checkpoint \/ Receive \/ BeginCleanup \/ Abandon
    <2>1. /\ UNCHANGED <<tx, reported, wire, place, cached, started, applied, probe, acting>>
          /\ pc \in {"start", "check", "await", "cleanup", "abandon"}
          /\ pc' \in {"abandon", "check", "send", "cleanup", "finish", "over"}
          /\ pc = "await" => place["exec"] = 0
      BY <1>0, <1>1, LocalFacts
    <2> QED
      BY <1>0, <1>a, <2>1 DEF IdleIsTrue, ProbesNumbered, WaitsMatch, OpenersAwaited, IdleReads, Counts
  <1>2. CASE Send
    <2>1. /\ UNCHANGED <<tx, reported, cached, started, applied, probe, acting, stmt>>
          /\ pc = "send" /\ pc' = "await" /\ Enqueue("exec", "exec", stmt)
      BY <1>2 DEF Send, serverVars, probeVars
    <2>2. /\ Len(wire') = Len(wire) + 1
          /\ \A i \in 1..Len(wire) : wire'[i] = wire[i]
          /\ wire'[Len(wire) + 1].sql = stmt
          /\ place'["exec"] = Len(wire) + 1
          /\ \A b \in Actors : b # "exec" => place'[b] = place[b]
      BY <1>0, <2>1, EnqueueFacts
    <2>3. probe["exec"].step = "none"
      BY <1>0, <2>1 DEF ProbesNumbered
    <2>4. WaitsMatch'
      <3>1. \A a \in Actors : a # "exec" /\ place[a] # 0 /\ place[a] <= Len(wire)
              => /\ place'[a] # 0 /\ place'[a] <= Len(wire')
                 /\ wire'[place'[a]] = wire[place[a]]
        BY <1>a, <2>2
      <3>2. place'["exec"] <= Len(wire') /\ wire'[place'["exec"]].sql = stmt
        BY <1>a, <2>2
      <3> QED
        BY <1>0, <2>1, <2>2, <2>3, <3>1, <3>2 DEF WaitsMatch
    <2>5. OpenersAwaited'
      BY <1>0, <1>a, <2>1, <2>2 DEF OpenersAwaited
    <2> QED
      BY <1>0, <2>1, <2>4, <2>5 DEF IdleIsTrue, ProbesNumbered, IdleReads, Counts
  <1>3. CASE CleanupTimeout
    <2>1. /\ UNCHANGED <<tx, reported, wire, cached, started, applied, probe, acting>>
          /\ pc = "await" /\ stmt \in CleanupSql /\ place["exec"] # 0
          /\ \A a \in Actors : a # "exec" => place'[a] = place[a]
      BY <1>0, <1>3 DEF CleanupTimeout, GiveUp, WireType, serverVars, probeVars
    <2>2. pc' \in {"send", "finish"}
      BY <1>3 DEF CleanupTimeout, AfterCleanup, ToSend, ToRollback, Finish
    <2>3. \A i \in 1..Len(wire) : wire[i].sql \notin OpenerSql
      BY <1>0, <1>a, <2>1 DEF OpenersAwaited, WaitsMatch, OpenerSql, CleanupSql
    <2>4. probe["exec"].step = "none"
      BY <1>0, <2>1 DEF ProbesNumbered
    <2>5. WaitsMatch'
      BY <1>0, <2>1, <2>2, <2>4 DEF WaitsMatch
    <2>6. OpenersAwaited'
      BY <2>1, <2>3 DEF OpenersAwaited
    <2> QED
      BY <1>0, <2>1, <2>2, <2>5, <2>6 DEF IdleIsTrue, ProbesNumbered, IdleReads, Counts
  <1>4. CASE Conclude
    <2>1. /\ UNCHANGED <<tx, reported, wire, place, cached, started, applied, acting, stmt>>
          /\ pc = "finish" /\ pc' = "probe"
          /\ probe'["exec"].step = "start" /\ probe'["exec"].id = probe["exec"].id
          /\ \A a \in Probers : a # "exec" => probe'[a] = probe[a]
      BY <1>0, <1>4 DEF Conclude, BeliefType, serverVars, wireVars
    <2> QED
      BY <1>0, <2>1 DEF IdleIsTrue, ProbesNumbered, WaitsMatch, OpenersAwaited, IdleReads, Counts
  <1>5. CASE Settle
    <2>1. /\ UNCHANGED <<tx, reported, wire, place, cached, started, applied, probe, acting>>
          /\ pc = "settle" /\ pc' \in {"idle", "over"}
      BY <1>5 DEF Settle, wireVars, probeVars, closeVars
    <2> QED
      BY <1>0, <1>a, <2>1 DEF IdleIsTrue, ProbesNumbered, WaitsMatch, OpenersAwaited, IdleReads, Counts
  <1>6. CASE \E sh \in Shapes : Execute(sh)
    <2>1. /\ UNCHANGED <<tx, reported, wire, place, cached, started, applied, probe, acting>>
          /\ pc' = "start"
      BY <1>6 DEF Execute, wireVars, probeVars
    <2>2. pc = "idle"
      BY <1>6 DEF Execute, IdleInv, SlotHeld
    <2> QED
      BY <1>0, <2>1, <2>2
      DEF IdleIsTrue, ProbesNumbered, WaitsMatch, OpenersAwaited, IdleReads, Counts
  <1> QED
    BY <1>1, <1>2, <1>3, <1>4, <1>5, <1>6 DEF ExecStep

\* The other callers keep the invariant.
LEMMA CallerStep ==
  ASSUME IdleInv,
         \/ CancelDiscarded \/ RequestCancel \/ SetMode \/ CloseRequest \/ UNCHANGED vars
         \/ CloseStep \/ ActReceive \/ Act("commit") \/ Act("rollback")
         \/ \E r \in Refreshers : Refresh(r)
  PROVE  IdleRest'
  <1> USE ActorFacts DEF IdleRest
  <1>0. TypeOK /\ IdleRest /\ WireType /\ BeliefType
    BY DEF IdleInv, TypeOK
  <1>a. /\ started \in Nat /\ applied \in Nat /\ Len(wire) \in Nat
        /\ \A a \in Probers : probe[a].id \in Nat
        /\ \A a \in Actors : place[a] \in Nat
    BY <1>0, CoreTypes
  <1>1. CASE \/ CancelDiscarded \/ RequestCancel \/ SetMode \/ CloseRequest
             \/ MarkClosed \/ CloseCancel \/ UNCHANGED vars
    <2>1. UNCHANGED <<tx, reported, wire, place, cached, started, applied, probe, acting, pc, stmt>>
      BY <1>1, AsideFacts
    <2> QED
      BY <1>0, <2>1 DEF IdleIsTrue, ProbesNumbered, WaitsMatch, OpenersAwaited, IdleReads, Counts
  <1>2. ASSUME NEW a \in {"action", "close"}, NEW sql \in {"commit", "rollback"}, Enqueue(a, a, sql),
               UNCHANGED <<tx, reported, cached, started, applied, probe, pc, stmt>>,
               a = "action" => probe["action"].step = "none"
        PROVE  IdleIsTrue' /\ WaitsMatch' /\ OpenersAwaited' /\ IdleReads'
    <2>1. /\ Len(wire') = Len(wire) + 1
          /\ \A i \in 1..Len(wire) : wire'[i] = wire[i]
          /\ wire'[Len(wire) + 1].sql = sql
          /\ \A b \in Actors : b # a => place'[b] = place[b]
      BY <1>0, <1>2, EnqueueFacts
    <2>2. \A b \in Actors : b # a /\ place[b] # 0 /\ place[b] <= Len(wire)
              => /\ place'[b] # 0 /\ place'[b] <= Len(wire')
                 /\ wire'[place'[b]] = wire[place[b]]
      BY <1>a, <2>1
    <2>3. a # "exec" /\ \A b \in Probers : b = a => probe[b].step = "none"
      BY <1>2
    <2>4. WaitsMatch'
      BY <1>0, <1>2, <2>1, <2>2, <2>3 DEF WaitsMatch
    <2>5. OpenersAwaited'
      BY <1>0, <1>2, <1>a, <2>1, <2>3 DEF OpenersAwaited, OpenerSql
    <2>6. IdleIsTrue' /\ IdleReads'
      BY <1>0, <1>2, <2>1, <2>3 DEF IdleIsTrue, IdleReads, Counts
    <2> QED
      BY <2>4, <2>5, <2>6
  <1>3. CASE Act("commit") \/ Act("rollback")
    <2>1. PICK sql \in {"commit", "rollback"} : Act(sql)
      BY <1>3
    <2>2. /\ Enqueue("action", "action", sql) /\ acting = "none" /\ acting' = "await"
          /\ UNCHANGED <<tx, reported, cached, started, applied, probe, pc, stmt>>
      BY <2>1 DEF Act, serverVars, probeVars, taskVars
    <2>3. probe["action"].step = "none"
      BY <1>0, <2>2 DEF ProbesNumbered
    <2>4. ProbesNumbered'
      BY <1>0, <2>2, <2>3 DEF ProbesNumbered
    <2> QED
      BY <1>2, <2>2, <2>3, <2>4
  <1>4. CASE CloseRollback
    <2>1. /\ UNCHANGED <<tx, reported, cached, started, applied, probe, pc, stmt, acting>>
          /\ Enqueue("close", "close", "rollback") \/ UNCHANGED <<wire, place>>
      BY <1>4 DEF CloseRollback, serverVars, probeVars, taskVars
    <2>2. ProbesNumbered'
      BY <1>0, <2>1 DEF ProbesNumbered
    <2>3. CASE Enqueue("close", "close", "rollback")
      BY <1>2, <2>1, <2>2, <2>3
    <2>4. CASE UNCHANGED <<wire, place>>
      BY <1>0, <2>1, <2>2, <2>4 DEF IdleIsTrue, WaitsMatch, OpenersAwaited, IdleReads, Counts
    <2> QED
      BY <2>1, <2>3, <2>4
  <1>5. CASE CloseReceive
    <2>1. /\ UNCHANGED <<tx, reported, wire, cached, started, applied, probe, pc, stmt, acting>>
          /\ \A a \in Actors : a # "close" => place'[a] = place[a]
      BY <1>0, <1>5 DEF CloseReceive, GiveUp, WireType, serverVars, probeVars, taskVars
    <2> QED
      BY <1>0, <2>1 DEF IdleIsTrue, ProbesNumbered, WaitsMatch, OpenersAwaited, IdleReads, Counts
  <1>6. ASSUME NEW a \in Probers, a # "exec", probe[a].step = "none",
               probe' = [probe EXCEPT ![a].step = "start"],
               UNCHANGED <<tx, reported, wire, place, cached, started, applied, pc, stmt>>,
               IF a = "action" THEN acting' = "probe" ELSE UNCHANGED acting
        PROVE  IdleRest'
    <2>1. /\ probe'[a].step = "start" /\ probe'[a].id = probe[a].id
          /\ \A b \in Probers : b # a => probe'[b] = probe[b]
      BY <1>0, <1>6 DEF BeliefType
    <2> QED
      BY <1>0, <1>6, <2>1
      DEF IdleIsTrue, ProbesNumbered, WaitsMatch, OpenersAwaited, IdleReads, Counts
  <1>7. CASE \E r \in Refreshers : Refresh(r)
    BY <1>6, <1>7 DEF Refresh, serverVars, wireVars, taskVars
  <1>8. CASE ActReceive
    <2>1. /\ UNCHANGED <<tx, reported, wire, place, cached, started, applied, pc, stmt>>
          /\ acting = "await"
      BY <1>8 DEF ActReceive, serverVars, wireVars, taskVars
    <2>2. probe["action"].step = "none"
      BY <1>0, <2>1 DEF ProbesNumbered
    <2>3. CASE UNCHANGED probe /\ acting' = "none"
      BY <1>0, <2>1, <2>2, <2>3
      DEF IdleIsTrue, ProbesNumbered, WaitsMatch, OpenersAwaited, IdleReads, Counts
    <2>4. CASE probe' = [probe EXCEPT !["action"].step = "start"] /\ acting' = "probe"
      BY <1>6, <2>1, <2>2, <2>4
    <2> QED
      BY <1>8, <2>3, <2>4 DEF ActReceive
  <1> QED
    BY <1>1, <1>3, <1>4, <1>5, <1>7, <1>8 DEF CloseStep

\* The slot is given back only by an execution that is over.
LEMMA SlotStep ==
  ASSUME IdleInv, [Next]_vars
  PROVE  SlotHeld'
  <1> USE DEF IdleInv, SlotHeld, creditVars, taskVars
  <1>1. CASE \E sh \in Shapes : Execute(sh)
    BY <1>1 DEF Execute
  <1>2. CASE Settle
    BY <1>2 DEF Settle
  <1>3. CASE Begin \/ Checkpoint \/ Receive \/ BeginCleanup \/ Abandon
    <2>1. pc # "idle" /\ UNCHANGED running
      BY <1>3 DEF Begin, Checkpoint, Receive, BeginCleanup, Abandon
    <2> QED
      BY <2>1
  <1>4. CASE Send \/ CleanupTimeout \/ Conclude
    <2>1. pc # "idle" /\ UNCHANGED running
      BY <1>4 DEF Send, CleanupTimeout, Conclude
    <2> QED
      BY <2>1
  <1>5. CASE \E a \in Probers : Probing(a)
    <2>1. PICK a \in Probers : Probing(a)
      BY <1>5
    <2>2. CASE ProbeStart(a) \/ ProbeSend(a) \/ ProbeRead(a)
      BY <2>2 DEF ProbeStart, ProbeSend, ProbeRead
    <2>3. CASE ProbeApply(a)
      <3>1. a = "exec" => pc = "probe"
        BY <2>3 DEF ProbeApply, ProbesNumbered
      <3> QED
        BY <2>3, <3>1 DEF ProbeApply
    <2> QED
      BY <2>1, <2>2, <2>3 DEF Probing
  <1>6. CASE ServerAnswers \/ CancelLands \/ CancelDiscarded \/ SetMode
    BY <1>6 DEF ServerAnswers, CancelLands, CancelDiscarded, SetMode
  <1>7. CASE \/ RequestCancel \/ CloseRequest \/ Act("commit") \/ Act("rollback") \/ ActReceive
             \/ \E r \in Refreshers : Refresh(r)
    BY <1>7 DEF RequestCancel, CloseRequest, Act, ActReceive, Refresh
  <1>8. CASE CloseStep \/ UNCHANGED vars
    BY <1>8 DEF CloseStep, MarkClosed, CloseCancel, CloseRollback, CloseReceive, vars
  <1> QED
    BY <1>1, <1>2, <1>3, <1>4, <1>5, <1>6, <1>7, <1>8 DEF Next, ExecStep, CallStep

\* IdleInv holds for ever: types, probe numbering, FIFO matching of answers and
\* the truth of every Idle that is cached or that a probe may still cache.
THEOREM IdleCorrect == Spec => []IdleInv
  <1>1. IdleInv /\ [Next]_vars => IdleInv'
    <2> SUFFICES ASSUME IdleInv, [Next]_vars PROVE IdleInv'
      OBVIOUS
    <2>1. TypeOK' /\ SlotHeld'
      BY TypeStep, SlotStep DEF IdleInv
    <2>2. IdleRest'
      BY AnswerStep, ProbeStep, ExecutionStep, CallerStep DEF Next, CallStep
    <2> QED
      BY <2>1, <2>2 DEF IdleInv, IdleRest
  <1> QED
    BY <1>1, InitIdle, PTL DEF Spec

\* A cached Idle on which an execution can be admitted is what the server holds.
THEOREM IdleIsTrueAlways == Spec => []IdleIsTrue
  BY IdleCorrect, PTL DEF IdleInv

\* An execution admitted in autocommit mode, whose cursor read or pooled command
\* wraps a transaction of its own, starts on a server without a transaction.
THEOREM WrapperStartsIdle ==
  Spec => [][\A sh \in Shapes : Execute(sh) /\ entry' = "autocommit" => tx = "idle"]_vars
  <1>1. IdleInv /\ [Next]_vars
          => [\A sh \in Shapes : Execute(sh) /\ entry' = "autocommit" => tx = "idle"]_vars
    BY DEF IdleInv, SlotHeld, IdleIsTrue, Execute, EntryOf
  <1> QED
    BY <1>1, IdleCorrect, PTL DEF Spec
=============================================================================
