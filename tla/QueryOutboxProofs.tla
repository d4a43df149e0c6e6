------------------------- MODULE QueryOutboxProofs --------------------------
(***************************************************************************)
(* Proofs about QueryOutbox for every window, byte budget, set of batch     *)
(* sizes and bound: the inductive invariant OutboxInv, the safety           *)
(* properties it contains, the refinement of CreditStream, the order of     *)
(* delivery and the byte budget.                                            *)
(***************************************************************************)
EXTENDS QueryOutbox, FiniteSetTheorems, SequenceTheorems, TLAPS

-----------------------------------------------------------------------------
\* Acknowledging only ever shrinks the window (Outbox::acknowledge).
LEMMA AckShrinks ==
    ASSUME TypeOK, NEW n
    PROVE  LET rest == {o \in outstanding : o.seq > n}
           IN  /\ rest \subseteq outstanding
               /\ IsFiniteSet(rest)
               /\ Cardinality(rest) \in Nat
               /\ Cardinality(rest) <= Cardinality(outstanding)
               /\ Cardinality(rest) = Cardinality(outstanding) => rest = outstanding
<1> DEFINE rest == {o \in outstanding : o.seq > n}
<1>1. IsFiniteSet(outstanding)
  BY DEF TypeOK
<1>2. rest \in SUBSET outstanding
  OBVIOUS
<1>3. /\ IsFiniteSet(rest)
      /\ Cardinality(rest) <= Cardinality(outstanding)
      /\ Cardinality(outstanding) = Cardinality(rest) => outstanding = rest
  BY <1>1, <1>2, FS_Subset
<1>4. Cardinality(rest) \in Nat
  BY <1>3, FS_CardinalityType
<1> QED
  BY <1>2, <1>3, <1>4

\* A pushed batch is new, so it takes exactly one place (send_with_credit).
LEMMA PushGrows ==
    ASSUME TypeOK, NEW b \in BatchSizes \cup {0},
           \A o \in outstanding : o.seq <= seq
    PROVE  LET more == outstanding \cup {[seq |-> seq + 1, bytes |-> b]}
           IN  /\ more \subseteq Batches
               /\ IsFiniteSet(more)
               /\ Cardinality(more) = Cardinality(outstanding) + 1
<1> DEFINE new == [seq |-> seq + 1, bytes |-> b]
<1>1. new \in Batches /\ new.seq = seq + 1 /\ seq \in Nat
  BY DEF TypeOK, Batches
<1>2. new \notin outstanding
  <2> SUFFICES ASSUME new \in outstanding PROVE FALSE
    OBVIOUS
  <2> QED
    BY <1>1
<1>3. IsFiniteSet(outstanding) /\ outstanding \subseteq Batches
  BY DEF TypeOK
<1>4. /\ IsFiniteSet(outstanding \cup {new})
      /\ Cardinality(outstanding \cup {new}) = Cardinality(outstanding) + 1
  BY <1>2, <1>3, FS_AddElement
<1> QED
  BY <1>1, <1>3, <1>4

\* Unacknowledged batches are counted by a natural number, and none means none.
LEMMA WindowCount ==
    ASSUME TypeOK
    PROVE  /\ Cardinality(outstanding) \in Nat
           /\ Cardinality(outstanding) = 0 <=> outstanding = {}
BY FS_CardinalityType, FS_EmptySet DEF TypeOK

-----------------------------------------------------------------------------
\* A session just opened satisfies the invariant.
LEMMA InitInv == Init => OutboxInv
<1> SUFFICES ASSUME Init PROVE OutboxInv
  OBVIOUS
<1> USE OutboxAssumption
<1>1. IsFiniteSet({}) /\ Cardinality({}) = 0
  BY FS_EmptySet
<1>2. inbox \in Seq(Events)
  BY DEF Init, Events, Event, EventKinds
<1>3. TypeOK
  BY <1>1, <1>2 DEF Init, TypeOK, Batches, TaskSteps, CloseSteps, NoAck, AckPayloads
<1>4. WindowBounded /\ SettledSlot /\ NoLostWakeup
  BY <1>1 DEF Init, WindowBounded, SettledSlot, NoLostWakeup
<1> QED
  BY <1>3, <1>4 DEF Init, OutboxInv

\* A mailbox send keeps the mailbox a sequence of events, accepted or not.
LEMMA SinkTyped ==
    ASSUME TypeOK, NEW k \in EventKinds, NEW x \in Nat, NEW n \in Nat,
           SinkAccepts(Event(k, x, n)) \/ SinkRejects
    PROVE  inbox' \in Seq(Events) /\ sinkFailed' \in BOOLEAN
<1>1. Event(k, x, n) \in Events
  BY DEF Event, Events
<1>2. inbox \in Seq(Events) /\ sinkFailed \in BOOLEAN
  BY DEF TypeOK
<1>3. CASE SinkAccepts(Event(k, x, n))
  <2>1. inbox' = Append(inbox, Event(k, x, n)) /\ sinkFailed' = sinkFailed
    BY <1>3 DEF SinkAccepts
  <2> QED
    BY <1>1, <1>2, <2>1
<1>4. CASE SinkRejects
  BY <1>2, <1>4 DEF SinkRejects
<1> QED
  BY <1>3, <1>4

\* send, whoever calls it: the next number, or a refusal.
LEMMA PlainTyped ==
    ASSUME TypeOK, NEW k \in EventKinds, NEW x \in Nat,
           NEW ok \in TaskSteps, NEW failed \in TaskSteps,
           SendPlain(k, x, ok, failed)
    PROVE  /\ seq' \in Nat /\ seq' >= seq
           /\ pc' \in {ok, failed}
           /\ inbox' \in Seq(Events) /\ sinkFailed' \in BOOLEAN
<1>1. seq \in Nat /\ inbox \in Seq(Events) /\ sinkFailed \in BOOLEAN
  BY DEF TypeOK
<1>2. CASE closed /\ pc' = failed /\ UNCHANGED <<seq, sinkVars>>
  BY <1>1, <1>2 DEF sinkVars
<1>3. CASE ~closed /\ seq' = seq + 1
           /\ (\/ SinkAccepts(Event(k, x, seq + 1)) /\ pc' = ok
               \/ SinkRejects /\ pc' = failed)
  <2>1. seq + 1 \in Nat
    BY <1>1
  <2>2. inbox' \in Seq(Events) /\ sinkFailed' \in BOOLEAN
    BY <1>3, <2>1, SinkTyped
  <2> QED
    BY <1>1, <1>3, <2>2
<1> QED
  BY <1>2, <1>3 DEF SendPlain

\* remove_and_close, whoever calls it, leaves the closer's progress well typed.
LEMMA RemoveTyped ==
    ASSUME TypeOK, NEW r \in BOOLEAN, RemoveAndClose(r)
    PROVE  removed' \in BOOLEAN /\ closer' \in CloseSteps /\ emit' \in BOOLEAN
<1>1. CASE removed
  BY <1>1 DEF RemoveAndClose, TypeOK
<1>2. CASE ~removed
  <2>1. removed' = TRUE /\ closer' = "mark" /\ emit' = r
    BY <1>2 DEF RemoveAndClose
  <2> QED
    BY <2>1 DEF CloseSteps
<1> QED
  BY <1>1, <1>2

-----------------------------------------------------------------------------
\* The type invariant is inductive on its own.
LEMMA TypeStep == TypeOK /\ [Next]_vars => TypeOK'
<1> SUFFICES ASSUME TypeOK, [Next]_vars PROVE TypeOK'
  OBVIOUS
<1> USE OutboxAssumption
<1> USE DEF outboxVars, taskVars, closeVars, sinkVars, docVars, TaskSteps, CloseSteps
<1>1. CASE RunStart
  <2>1. SendPlain("meta", execs, "receive", "remove")
    BY <1>1 DEF RunStart
  <2>2. execs \in Nat
    BY DEF TypeOK
  <2>3. /\ seq' \in Nat /\ pc' \in {"receive", "remove"}
        /\ inbox' \in Seq(Events) /\ sinkFailed' \in BOOLEAN
    BY <2>1, <2>2, PlainTyped DEF EventKinds
  <2> QED
    BY <1>1, <2>3 DEF RunStart, TypeOK
<1>2. CASE RunMeta
  <2>1. SendPlain("meta", execs, "receive", "remove")
    BY <1>2 DEF RunMeta
  <2>2. execs \in Nat
    BY DEF TypeOK
  <2>3. /\ seq' \in Nat /\ pc' \in {"receive", "remove"}
        /\ inbox' \in Seq(Events) /\ sinkFailed' \in BOOLEAN
    BY <2>1, <2>2, PlainTyped DEF EventKinds
  <2> QED
    BY <1>2, <2>3 DEF RunMeta, TypeOK
<1>3. CASE RunBatch
  BY <1>3 DEF RunBatch, TypeOK
<1>4. CASE RunFinish
  BY <1>4 DEF RunFinish, TypeOK
<1>5. CASE GateArm
  <2>1. woken' \in BOOLEAN /\ pc' \in TaskSteps
    BY <1>5 DEF GateArm
  <2> QED
    BY <1>5, <2>1 DEF GateArm, TypeOK
<1>6. CASE GateReadClosed
  BY <1>6 DEF GateReadClosed, TypeOK
<1>7. CASE GateReadCredit
  BY <1>7 DEF GateReadCredit, TypeOK
<1>8. CASE GateWait
  BY <1>8 DEF GateWait, TypeOK
<1>9. CASE PushBatch
  <2>1. execs \in Nat /\ seq \in Nat /\ seq + 1 \in Nat
        /\ size \in BatchSizes \cup {0} /\ "row" \in EventKinds
    BY DEF TypeOK, EventKinds
  <2>2. /\ outstanding' = outstanding
           \/ outstanding' = outstanding \cup {[seq |-> seq + 1, bytes |-> size]}
        /\ seq' \in Nat /\ pc' \in TaskSteps
    BY <1>9, <2>1 DEF PushBatch, TypeOK
  <2>3. outstanding' \subseteq Batches /\ IsFiniteSet(outstanding')
    <3>1. outstanding \subseteq Batches /\ IsFiniteSet(outstanding)
      BY DEF TypeOK
    <3>2. [seq |-> seq + 1, bytes |-> size] \in Batches
      BY <2>1 DEF Batches
    <3>3. IsFiniteSet(outstanding \cup {[seq |-> seq + 1, bytes |-> size]})
      BY <3>1, FS_AddElement
    <3> QED
      BY <2>2, <3>1, <3>2, <3>3
  <2>4. inbox' \in Seq(Events) /\ sinkFailed' \in BOOLEAN
    <3>1. CASE SinkAccepts(Event("row", execs, seq + 1)) \/ SinkRejects
      BY <2>1, <3>1, SinkTyped
    <3>2. CASE UNCHANGED sinkVars
      BY <3>2 DEF TypeOK
    <3> QED
      BY <1>9, <3>1, <3>2 DEF PushBatch
  <2>5. size' \in BatchSizes \cup {0} /\ woken' \in BOOLEAN
    BY <1>9 DEF PushBatch
  <2> QED
    BY <1>9, <2>2, <2>3, <2>4, <2>5 DEF PushBatch, TypeOK
<1>10. CASE SendTerminal
  <2>1. execs \in Nat /\ seq \in Nat /\ seq + 1 \in Nat /\ "terminal" \in EventKinds
    BY DEF TypeOK, EventKinds
  <2>2. inbox' \in Seq(Events) /\ sinkFailed' \in BOOLEAN
    <3>1. CASE SinkAccepts(Event("terminal", execs, seq + 1)) \/ SinkRejects
      BY <2>1, <3>1, SinkTyped
    <3>2. CASE UNCHANGED sinkVars
      BY <3>2 DEF TypeOK
    <3> QED
      BY <1>10, <3>1, <3>2 DEF SendTerminal
  <2>3. gate' \in {"row", "drain"} /\ woken' \in BOOLEAN
    BY <1>10 DEF SendTerminal
  <2> QED
    BY <1>10, <2>1, <2>2, <2>3 DEF SendTerminal, TypeOK
<1>11. CASE RunLost
  <2>1. SendPlain("lost", 0, "remove", "remove")
    BY <1>11 DEF RunLost
  <2>2. /\ seq' \in Nat /\ pc' \in {"remove"}
        /\ inbox' \in Seq(Events) /\ sinkFailed' \in BOOLEAN
    BY <2>1, PlainTyped DEF EventKinds
  <2> QED
    BY <1>11, <2>2 DEF RunLost, TypeOK
<1>12. CASE RunRemove
  <2>1. RemoveAndClose(FALSE) /\ FALSE \in BOOLEAN
    BY <1>12 DEF RunRemove
  <2>2. removed' \in BOOLEAN /\ closer' \in CloseSteps /\ emit' \in BOOLEAN
    BY <2>1, RemoveTyped
  <2> QED
    BY <1>12, <2>2 DEF RunRemove, TypeOK
<1>13. CASE MarkClosed
  BY <1>13 DEF MarkClosed, TypeOK
<1>14. CASE NotifyAfterClose
  <2>1. woken' \in BOOLEAN
    BY <1>14 DEF NotifyAfterClose, Notify, TypeOK
  <2> QED
    BY <1>14, <2>1 DEF NotifyAfterClose, TypeOK
<1>15. CASE ReportClosed
  <2>1. seq \in Nat /\ seq + 1 \in Nat /\ "closed" \in EventKinds /\ 0 \in Nat
    BY DEF TypeOK, EventKinds
  <2>2. inbox' \in Seq(Events) /\ sinkFailed' \in BOOLEAN
    <3>1. CASE SinkAccepts(Event("closed", 0, seq + 1)) \/ SinkRejects
      BY <2>1, <3>1, SinkTyped
    <3>2. CASE UNCHANGED sinkVars
      BY <3>2 DEF TypeOK
    <3> QED
      BY <1>15, <3>1, <3>2 DEF ReportClosed
  <2> QED
    BY <1>15, <2>1, <2>2 DEF ReportClosed, TypeOK
<1>16. CASE ExpireCheck
  BY <1>16 DEF ExpireCheck, TypeOK
<1>17. CASE ExpireReport
  <2>1. seq \in Nat /\ seq + 1 \in Nat /\ "lost" \in EventKinds /\ 0 \in Nat
    BY DEF TypeOK, EventKinds
  <2>2. inbox' \in Seq(Events) /\ sinkFailed' \in BOOLEAN
    <3>1. CASE SinkAccepts(Event("lost", 0, seq + 1)) \/ SinkRejects
      BY <2>1, <3>1, SinkTyped
    <3>2. CASE UNCHANGED sinkVars
      BY <3>2 DEF TypeOK
    <3> QED
      BY <1>17, <3>1, <3>2 DEF ExpireReport
  <2> QED
    BY <1>17, <2>1, <2>2 DEF ExpireReport, TypeOK
<1>18. CASE ExpireRemove
  <2>1. RemoveAndClose(FALSE) /\ FALSE \in BOOLEAN
    BY <1>18 DEF ExpireRemove
  <2>2. removed' \in BOOLEAN /\ closer' \in CloseSteps /\ emit' \in BOOLEAN
    BY <2>1, RemoveTyped
  <2> QED
    BY <1>18, <2>2 DEF ExpireRemove, TypeOK
<1>19. CASE Execute
  BY <1>19 DEF Execute, BeginCredit, TypeOK
<1>20. CASE DocReceive
  <2> DEFINE e == Head(inbox)
  <2>1. inbox \in Seq(Events) /\ inbox # <<>>
    BY <1>20 DEF DocReceive, TypeOK
  <2>2. e \in Events /\ inbox' \in Seq(Events)
    BY <1>20, <2>1 DEF DocReceive
  <2>3. e.exec \in Nat /\ e.seq \in Nat
    BY <2>2 DEF Events
  <2>4. CASE /\ e.kind = "acked"
             /\ cExec' \in {0, cExec} /\ cTerminal' \in {0, cTerminal}
             /\ UNCHANGED <<cSeq, cRetain, cell, connected, gap>>
    BY <1>20, <2>2, <2>4 DEF DocReceive, TypeOK
  <2>5. CASE e.seq = cSeq + 1 /\ AdmitEvent(e) /\ UNCHANGED cExec
    <3>1. /\ cSeq' \in Nat /\ cTerminal' \in Nat /\ cRetain' \in BOOLEAN
          /\ cell' \in AckPayloads /\ connected' \in BOOLEAN /\ gap' \in BOOLEAN
      <4> DEFINE keep(k) == [exec |-> e.exec, seq |-> e.seq, keep |-> k]
      <4>1. \A k \in BOOLEAN : keep(k) \in AckPayloads
        BY <2>3 DEF AckPayloads
      <4>2. cRetain' \in BOOLEAN
        BY <2>5 DEF AdmitEvent, TypeOK
      <4>3. cSeq' \in Nat /\ cTerminal' \in Nat /\ gap' \in BOOLEAN
        BY <2>3, <2>5 DEF AdmitEvent, TypeOK
      <4>4. connected' \in {connected, FALSE}
        BY <2>5 DEF AdmitEvent
      <4>5. cell' = cell \/ cell' = keep(cRetain')
        BY <2>5 DEF AdmitEvent
      <4>6. cell \in AckPayloads /\ connected \in BOOLEAN
        BY DEF TypeOK
      <4> QED
        BY <4>1, <4>2, <4>3, <4>4, <4>5, <4>6
    <3> QED
      BY <1>20, <2>2, <2>5, <3>1 DEF DocReceive, TypeOK
  <2>6. CASE /\ UNCHANGED <<cExec, cSeq, cTerminal, cRetain, cell>>
             /\ gap' \in BOOLEAN /\ connected' \in BOOLEAN
    BY <1>20, <2>2, <2>6 DEF DocReceive, TypeOK
  <2> QED
    BY <1>20, <2>4, <2>5, <2>6 DEF DocReceive, TypeOK
<1>21. CASE DocAck
  <2>1. cell \in AckPayloads /\ NoAck \in AckPayloads
    BY DEF TypeOK, AckPayloads, NoAck
  <2>2. CASE Acknowledge(cell) /\ UNCHANGED <<connected, refused>>
    <3>1. cell.seq \in Nat /\ cell.keep \in BOOLEAN
      BY <2>1 DEF AckPayloads
    <3>2. /\ outstanding' = {o \in outstanding : o.seq > cell.seq}
          /\ retain' = (retain /\ cell.keep) /\ lastAcked' = cell.seq
          /\ executionId' \in {0, executionId} /\ terminal' \in {0, terminal}
          /\ UNCHANGED <<seq, closed>> /\ acking' = cell
      BY <2>2 DEF Acknowledge, AckUnnotified
    <3>3. outstanding' \subseteq Batches /\ IsFiniteSet(outstanding')
      BY <3>2, AckShrinks DEF TypeOK
    <3> QED
      BY <1>21, <2>1, <2>2, <3>1, <3>2, <3>3 DEF DocAck, TypeOK
  <2>3. CASE /\ connected' = FALSE /\ refused' \in {refused, TRUE}
             /\ UNCHANGED <<outboxVars, acking>>
    <3>1. connected' \in BOOLEAN /\ refused' \in BOOLEAN /\ cell' \in AckPayloads
      BY <1>21, <2>1, <2>3 DEF DocAck, TypeOK
    <3> QED
      BY <1>21, <2>3, <3>1 DEF DocAck, TypeOK
  <2> QED
    BY <1>21, <2>2, <2>3 DEF DocAck
<1>22. CASE NotifyAfterAck
  <2>1. acking.exec \in Nat /\ acking.seq \in Nat /\ "acked" \in EventKinds
    BY DEF TypeOK, AckPayloads, EventKinds
  <2>2. inbox' \in Seq(Events) /\ sinkFailed' \in BOOLEAN
    BY <1>22, <2>1, SinkTyped DEF NotifyAfterAck
  <2>3. woken' \in BOOLEAN
    BY <1>22 DEF NotifyAfterAck, Notify, TypeOK
  <2> QED
    BY <1>22, <2>2, <2>3 DEF NotifyAfterAck, TypeOK, NoAck, AckPayloads
<1>23. CASE DocStop
  <2>1. RemoveAndClose(TRUE) /\ TRUE \in BOOLEAN
    BY <1>23 DEF DocStop
  <2>2. removed' \in BOOLEAN /\ closer' \in CloseSteps /\ emit' \in BOOLEAN
    BY <2>1, RemoveTyped
  <2> QED
    BY <1>23, <2>2 DEF DocStop, TypeOK
<1>24. CASE UNCHANGED vars
  BY <1>24 DEF vars, TypeOK
<1> QED
  BY <1>1, <1>2, <1>3, <1>4, <1>5, <1>6, <1>7, <1>8, <1>9, <1>10, <1>11, <1>12,
     <1>13, <1>14, <1>15, <1>16, <1>17, <1>18, <1>19, <1>20, <1>21, <1>22, <1>23, <1>24
     DEF Next, RunStep, CloseStep, ExpireStep, DocStep

-----------------------------------------------------------------------------
\* What OutboxInv says of the task's next step, apart from the types.
TaskInv ==
    /\ SettledSlot
    /\ NoLostWakeup
    /\ pc = "push" => Cardinality(outstanding) < Window
    /\ pc = "terminal" => outstanding = {} \/ closed
    /\ pc \in {"readCredit", "wait"} /\ closed /\ ~woken => closer = "notify"
    /\ closed <=> closer \in {"notify", "report", "done"}
    /\ removed <=> closer # "none"

WindowInv ==
    /\ WindowBounded
    /\ \A o \in outstanding : o.seq <= seq

\* The invariant is the types, what the task relies on and the window.
LEMMA OutboxInvParts == OutboxInv <=> TypeOK /\ TaskInv /\ WindowInv
BY DEF OutboxInv, TaskInv, WindowInv

\* The window and its numbering survive every step.
LEMMA WindowStep == OutboxInv /\ [Next]_vars => WindowInv'
<1> SUFFICES ASSUME OutboxInv, [Next]_vars PROVE WindowInv'
  OBVIOUS
<1> USE DEF outboxVars, taskVars, closeVars, sinkVars, docVars
<1>1. TypeOK /\ TaskInv /\ WindowInv
  BY OutboxInvParts
<1>2. CASE outstanding' = outstanding /\ seq' \in Nat /\ seq' >= seq
  <2>1. outstanding \subseteq Batches /\ seq \in Nat
    BY <1>1 DEF TypeOK
  <2>2. \A o \in outstanding : o.seq \in Nat
    BY <2>1 DEF Batches
  <2> QED
    BY <1>1, <1>2, <2>1, <2>2 DEF WindowInv, WindowBounded
<1>3. CASE PushBatch /\ outstanding' # outstanding
  <2>1. /\ outstanding' = outstanding \cup {[seq |-> seq + 1, bytes |-> size]}
        /\ seq' = seq + 1 /\ pc = "push"
    BY <1>3 DEF PushBatch
  <2>2. size \in BatchSizes \cup {0} /\ seq \in Nat /\ outstanding \subseteq Batches
    BY <1>1 DEF TypeOK
  <2>3. Cardinality(outstanding') = Cardinality(outstanding) + 1
    BY <1>1, <2>1, <2>2, PushGrows DEF WindowInv
  <2>4. Cardinality(outstanding) \in Nat /\ Cardinality(outstanding) < Window
    BY <1>1, <2>1, WindowCount DEF TaskInv
  <2>5. \A o \in outstanding : o.seq \in Nat /\ o.seq <= seq
    BY <1>1, <2>2 DEF WindowInv, Batches
  <2>6. \A o \in outstanding' : o.seq <= seq'
    BY <2>1, <2>2, <2>5
  <2> QED
    BY <2>3, <2>4, <2>6, OutboxAssumption DEF WindowInv, WindowBounded
<1>4. CASE DocAck
  <2>1. CASE outstanding' = {o \in outstanding : o.seq > cell.seq} /\ UNCHANGED seq
    <3>1. Cardinality(outstanding') <= Cardinality(outstanding)
          /\ outstanding' \subseteq outstanding
          /\ Cardinality(outstanding') \in Nat /\ Cardinality(outstanding) \in Nat
      BY <1>1, <2>1, AckShrinks, WindowCount
    <3> QED
      BY <1>1, <2>1, <3>1, OutboxAssumption DEF WindowInv, WindowBounded
  <2>2. CASE UNCHANGED outboxVars
    BY <1>2, <2>2, <1>1 DEF TypeOK
  <2> QED
    BY <1>4, <2>1, <2>2 DEF DocAck, Acknowledge, AckUnnotified
<1>5. seq \in Nat /\ seq + 1 \in Nat /\ execs \in Nat
  BY <1>1 DEF TypeOK
<1>6. CASE RunStart \/ RunMeta \/ RunLost
  BY <1>2, <1>5, <1>6 DEF RunStart, RunMeta, RunLost, SendPlain
<1>7. CASE PushBatch /\ outstanding' = outstanding
  BY <1>2, <1>5, <1>7 DEF PushBatch
<1>8. CASE SendTerminal \/ ReportClosed \/ ExpireReport
  <2>1. outstanding' = outstanding /\ seq' \in Nat /\ seq' >= seq
    BY <1>5, <1>8 DEF SendTerminal, ReportClosed, ExpireReport
  <2> QED
    BY <1>2, <2>1
<1>9. CASE RunBatch
  BY <1>2, <1>5, <1>9 DEF RunBatch
<1>10. CASE RunFinish
  BY <1>2, <1>5, <1>10 DEF RunFinish
<1>11. CASE GateArm
  BY <1>2, <1>5, <1>11 DEF GateArm
<1>12. CASE GateReadClosed
  BY <1>2, <1>5, <1>12 DEF GateReadClosed
<1>13. CASE GateReadCredit
  BY <1>2, <1>5, <1>13 DEF GateReadCredit
<1>14. CASE GateWait
  BY <1>2, <1>5, <1>14 DEF GateWait
<1>15. CASE RunRemove
  BY <1>2, <1>5, <1>15 DEF RunRemove
<1>16. CASE MarkClosed
  BY <1>2, <1>5, <1>16 DEF MarkClosed
<1>17. CASE NotifyAfterClose
  BY <1>2, <1>5, <1>17 DEF NotifyAfterClose
<1>18. CASE ExpireCheck
  BY <1>2, <1>5, <1>18 DEF ExpireCheck
<1>19. CASE ExpireRemove
  BY <1>2, <1>5, <1>19 DEF ExpireRemove
<1>20. CASE Execute
  BY <1>2, <1>5, <1>20 DEF Execute
<1>21. CASE DocReceive
  BY <1>2, <1>5, <1>21 DEF DocReceive
<1>22. CASE NotifyAfterAck
  BY <1>2, <1>5, <1>22 DEF NotifyAfterAck
<1>23. CASE DocStop
  BY <1>2, <1>5, <1>23 DEF DocStop
<1>24. CASE UNCHANGED vars
  BY <1>2, <1>5, <1>24 DEF vars
<1> QED
  BY <1>3, <1>4, <1>6, <1>7, <1>8, <1>9, <1>10, <1>11, <1>12, <1>13, <1>14, <1>15, <1>16,
     <1>17, <1>18, <1>19, <1>20, <1>21, <1>22, <1>23, <1>24
     DEF Next, RunStep, CloseStep, ExpireStep, DocStep

\* What the task relies on between its critical sections survives every step.
LEMMA TaskStep == OutboxInv /\ [Next]_vars => TaskInv'
<1> SUFFICES ASSUME OutboxInv, [Next]_vars PROVE TaskInv'
  OBVIOUS
<1> USE DEF outboxVars, taskVars, closeVars, sinkVars, docVars
<1>0. TypeOK /\ TaskInv /\ WindowInv
  BY OutboxInvParts
<1>1. seq \in Nat /\ seq + 1 \in Nat /\ seq + 1 # 0
  BY <1>0 DEF TypeOK
<1>2. CASE RunBatch
  BY <1>0, <1>2 DEF RunBatch, TaskInv, SettledSlot, NoLostWakeup, GateOpen, FitsWindow, UsedBytes
<1>3. CASE RunFinish
  BY <1>0, <1>3 DEF RunFinish, TaskInv, SettledSlot, NoLostWakeup, GateOpen, FitsWindow, UsedBytes
<1>4. CASE GateArm
  BY <1>0, <1>4 DEF GateArm, TaskInv, SettledSlot, NoLostWakeup, GateOpen, FitsWindow, UsedBytes
<1>5. CASE GateReadClosed
  BY <1>0, <1>5 DEF GateReadClosed, TaskInv, SettledSlot, NoLostWakeup, GateOpen, FitsWindow, UsedBytes
<1>6. CASE GateReadCredit
  BY <1>0, <1>6 DEF GateReadCredit, TaskInv, SettledSlot, NoLostWakeup, GateOpen, FitsWindow, UsedBytes
<1>7. CASE GateWait
  BY <1>0, <1>7 DEF GateWait, TaskInv, SettledSlot, NoLostWakeup, GateOpen, FitsWindow, UsedBytes
<1>8. CASE MarkClosed
  BY <1>0, <1>8 DEF MarkClosed, TaskInv, SettledSlot, NoLostWakeup, GateOpen, FitsWindow, UsedBytes
<1>9. CASE NotifyAfterClose
  BY <1>0, <1>9 DEF NotifyAfterClose, Notify, TaskInv, SettledSlot, NoLostWakeup, GateOpen, FitsWindow, UsedBytes
<1>10. CASE ExpireCheck
  BY <1>0, <1>10 DEF ExpireCheck, TaskInv, SettledSlot, NoLostWakeup, GateOpen, FitsWindow, UsedBytes
<1>11. CASE DocReceive
  BY <1>0, <1>11 DEF DocReceive, TaskInv, SettledSlot, NoLostWakeup, GateOpen, FitsWindow, UsedBytes
<1>12. CASE NotifyAfterAck
  BY <1>0, <1>12 DEF NotifyAfterAck, Notify, TaskInv, SettledSlot, NoLostWakeup, GateOpen, FitsWindow, UsedBytes
<1>13. CASE RunStart
  BY <1>0, <1>13 DEF RunStart, SendPlain, TaskInv, SettledSlot, NoLostWakeup, GateOpen, FitsWindow, UsedBytes
<1>14. CASE RunMeta
  BY <1>0, <1>14 DEF RunMeta, SendPlain, TaskInv, SettledSlot, NoLostWakeup, GateOpen, FitsWindow, UsedBytes
<1>15. CASE RunLost
  BY <1>0, <1>15 DEF RunLost, SendPlain, TaskInv, SettledSlot, NoLostWakeup, GateOpen, FitsWindow, UsedBytes
<1>16. CASE RunRemove
  BY <1>0, <1>16 DEF RunRemove, RemoveAndClose, TaskInv, SettledSlot, NoLostWakeup, GateOpen, FitsWindow, UsedBytes
<1>17. CASE ExpireRemove
  BY <1>0, <1>17 DEF ExpireRemove, RemoveAndClose, TaskInv, SettledSlot, NoLostWakeup, GateOpen, FitsWindow, UsedBytes
<1>18. CASE DocStop
  BY <1>0, <1>18 DEF DocStop, RemoveAndClose, TaskInv, SettledSlot, NoLostWakeup, GateOpen, FitsWindow, UsedBytes
<1>19. CASE PushBatch
  BY <1>0, <1>1, <1>19 DEF PushBatch, TaskInv, SettledSlot, NoLostWakeup, GateOpen, FitsWindow, UsedBytes
<1>20. CASE SendTerminal
  BY <1>0, <1>1, <1>20 DEF SendTerminal, TaskInv, SettledSlot, NoLostWakeup, GateOpen, FitsWindow, UsedBytes
<1>21. CASE ReportClosed
  BY <1>0, <1>1, <1>21 DEF ReportClosed, TaskInv, SettledSlot, NoLostWakeup, GateOpen, FitsWindow, UsedBytes
<1>22. CASE ExpireReport
  BY <1>0, <1>1, <1>22 DEF ExpireReport, TaskInv, SettledSlot, NoLostWakeup, GateOpen, FitsWindow, UsedBytes
<1>23. CASE Execute
  <2>1. execs + 1 # 0
    BY <1>0 DEF TypeOK
  <2> QED
    BY <1>0, <1>23, <2>1 DEF Execute, BeginCredit, TaskInv, SettledSlot, NoLostWakeup, GateOpen, FitsWindow, UsedBytes
<1>24. CASE DocAck
  <2>1. cell \in AckPayloads /\ lastAcked \in Nat
    BY <1>0 DEF TypeOK
  <2>2. CASE UNCHANGED <<outboxVars, acking>>
    BY <1>0, <1>24, <2>2 DEF DocAck, TaskInv, SettledSlot, NoLostWakeup, GateOpen, FitsWindow, UsedBytes
  <2>3. CASE Acknowledge(cell)
    <3>1. /\ acking' = cell /\ cell # NoAck
          /\ cell.seq # 0
          /\ outstanding' = {o \in outstanding : o.seq > cell.seq}
          /\ executionId' = (IF terminal = cell.seq THEN 0 ELSE executionId)
          /\ terminal' = (IF terminal = cell.seq THEN 0 ELSE terminal)
          /\ UNCHANGED <<closed, pc, gate, woken, closer, removed>>
      BY <1>24, <2>1, <2>3 DEF DocAck, Acknowledge, AckUnnotified, AckValid, AckPayloads
    <3>2. pc = "push" => Cardinality(outstanding') < Window
      <4>1. Cardinality(outstanding') <= Cardinality(outstanding)
            /\ Cardinality(outstanding') \in Nat /\ Cardinality(outstanding) \in Nat
        BY <1>0, <3>1, AckShrinks, WindowCount
      <4> QED
        BY <1>0, <4>1, OutboxAssumption DEF TaskInv
    <3>3. SettledSlot'
      BY <1>0, <3>1 DEF TaskInv, SettledSlot
    <3>4. NoLostWakeup'
      BY <3>1 DEF NoLostWakeup, NoAck
    <3> QED
      BY <1>0, <3>1, <3>2, <3>3, <3>4 DEF TaskInv
  <2> QED
    BY <1>24, <2>2, <2>3 DEF DocAck
<1>25. CASE UNCHANGED vars
  BY <1>0, <1>25 DEF vars, TaskInv, SettledSlot, NoLostWakeup, GateOpen, FitsWindow, UsedBytes
<1> QED
  BY <1>2, <1>3, <1>4, <1>5, <1>6, <1>7, <1>8, <1>9, <1>10, <1>11, <1>12, <1>13, <1>14,
     <1>15, <1>16, <1>17, <1>18, <1>19, <1>20, <1>21, <1>22, <1>23, <1>24, <1>25
     DEF Next, RunStep, CloseStep, ExpireStep, DocStep

-----------------------------------------------------------------------------
\* OutboxInv is an invariant of the session for every window, budget and bound.
THEOREM OutboxCorrect == Spec => []OutboxInv
<1>1. OutboxInv /\ [Next]_vars => OutboxInv'
  <2> SUFFICES ASSUME OutboxInv, [Next]_vars PROVE OutboxInv'
    OBVIOUS
  <2>1. TypeOK' /\ TaskInv' /\ WindowInv'
    BY OutboxInvParts, TypeStep, TaskStep, WindowStep
  <2> QED
    BY <2>1 DEF OutboxInv, TaskInv, WindowInv
<1> QED
  BY <1>1, InitInv, PTL DEF Spec

\* The credit window bounds the unacknowledged batches (send_with_credit).
THEOREM WindowCorrect == Spec => []WindowBounded
<1>1. OutboxInv => WindowBounded
  BY DEF OutboxInv
<1> QED
  BY <1>1, OutboxCorrect, PTL

\* execute() admits into a slot whose last execution is entirely over, and a
\* terminal event is out only when no row batch is.
THEOREM SettlementCorrect == Spec => []SettledSlot
<1>1. OutboxInv => SettledSlot
  BY DEF OutboxInv
<1> QED
  BY <1>1, OutboxCorrect, PTL

\* credit_gate loses no wakeup: arming before reading is enough.
THEOREM WakeupCorrect == Spec => []NoLostWakeup
<1>1. OutboxInv => NoLostWakeup
  BY DEF OutboxInv
<1> QED
  BY <1>1, OutboxCorrect, PTL

-----------------------------------------------------------------------------
\* Every step of the session is a step of the bounded stream, or none.
LEMMA StreamStep == OutboxInv /\ [Next]_vars => [Stream!StreamNext]_(Stream!streamVars)
<1> SUFFICES ASSUME OutboxInv, [Next]_vars
             PROVE  [Stream!StreamNext]_(Stream!streamVars)
  OBVIOUS
<1> USE DEF outboxVars, taskVars, closeVars, sinkVars, docVars
<1> DEFINE phase == IF closed THEN "closed"
                    ELSE IF executionId = 0 THEN "idle"
                    ELSE IF terminal # 0 THEN "settling" ELSE "running"
           unacked == Cardinality(outstanding)
<1>1. TypeOK /\ TaskInv /\ WindowInv
  BY OutboxInvParts
<1>2. unacked \in Nat /\ (unacked = 0 <=> outstanding = {})
  BY <1>1, WindowCount
<1>3. CASE UNCHANGED <<closed, executionId, terminal, outstanding>>
  BY <1>3 DEF Stream!streamVars
<1>4. CASE Execute
  <2>1. phase = "idle" /\ phase' = "running" /\ unacked' = unacked
    BY <1>1, <1>4 DEF Execute, BeginCredit, TypeOK
  <2> QED
    BY <2>1 DEF Stream!StreamNext, Stream!Begin
<1>5. CASE PushBatch /\ outstanding' # outstanding
  <2>1. /\ ~closed /\ pc = "push" /\ UNCHANGED <<closed, executionId, terminal>>
        /\ outstanding' = outstanding \cup {[seq |-> seq + 1, bytes |-> size]}
    BY <1>5 DEF PushBatch
  <2>2. phase = "running" /\ phase' = phase /\ unacked < Window
    BY <1>1, <2>1 DEF TaskInv, SettledSlot
  <2>3. size \in BatchSizes \cup {0}
    BY <1>1 DEF TypeOK
  <2>4. unacked' = unacked + 1
    BY <1>1, <2>1, <2>3, PushGrows DEF WindowInv
  <2> QED
    BY <2>2, <2>4 DEF Stream!StreamNext, Stream!Emit
<1>6. CASE SendTerminal
  <2>1. seq \in Nat /\ seq + 1 # 0
    BY <1>1 DEF TypeOK
  <2>2. CASE terminal' = seq + 1 /\ ~closed
    <3>1. phase = "running" /\ phase' = "settling" /\ unacked = 0 /\ unacked' = unacked
      BY <1>1, <1>2, <1>6, <2>1, <2>2 DEF SendTerminal, TaskInv, SettledSlot
    <3> QED
      BY <3>1 DEF Stream!StreamNext, Stream!Finish
  <2>3. CASE terminal' = terminal
    BY <1>3, <1>6, <2>3 DEF SendTerminal
  <2>4. terminal = 0
    BY <1>1, <1>6 DEF SendTerminal, TaskInv, SettledSlot
  <2> QED
    BY <1>6, <2>2, <2>3, <2>4 DEF SendTerminal
<1>7. CASE MarkClosed
  <2>1. phase # "closed" /\ phase' = "closed" /\ unacked' = unacked
    BY <1>1, <1>7 DEF MarkClosed, TaskInv
  <2> QED
    BY <2>1 DEF Stream!StreamNext, Stream!Close
<1>8. CASE DocAck /\ Acknowledge(cell)
  <2>1. /\ outstanding' = {o \in outstanding : o.seq > cell.seq}
        /\ executionId' = (IF terminal = cell.seq THEN 0 ELSE executionId)
        /\ terminal' = (IF terminal = cell.seq THEN 0 ELSE terminal)
        /\ closed' = closed
        /\ cell.seq # 0
    BY <1>1, <1>8 DEF Acknowledge, AckUnnotified, AckValid, TypeOK, AckPayloads
  <2>2. /\ unacked' \in Nat /\ unacked' <= unacked
        /\ unacked' = unacked => outstanding' = outstanding
    BY <1>1, <2>1, AckShrinks
  <2>3. CASE terminal = cell.seq /\ ~closed
    <3>1. phase = "settling" /\ phase' = "idle" /\ unacked' = unacked
      BY <1>1, <2>1, <2>3 DEF TaskInv, SettledSlot
    <3> QED
      BY <3>1 DEF Stream!StreamNext, Stream!Settle
  <2>4. CASE terminal # cell.seq \/ closed
    <3>1. phase' = phase
      BY <2>1, <2>4
    <3>2. CASE unacked' = unacked
      BY <3>1, <3>2 DEF Stream!streamVars
    <3>3. CASE unacked' # unacked
      <4>1. unacked' \in 0..(unacked - 1)
        BY <1>2, <2>2, <3>3
      <4> QED
        BY <3>1, <4>1 DEF Stream!StreamNext, Stream!Acknowledge
    <3> QED
      BY <3>2, <3>3
  <2> QED
    BY <2>3, <2>4
<1>9. CASE DocAck /\ ~Acknowledge(cell)
  BY <1>3, <1>9 DEF DocAck
<1>10. CASE PushBatch /\ outstanding' = outstanding
  BY <1>3, <1>10 DEF PushBatch
<1>11. CASE RunStart
  BY <1>3, <1>11 DEF RunStart, SendPlain
<1>12. CASE RunMeta
  BY <1>3, <1>12 DEF RunMeta, SendPlain
<1>13. CASE RunBatch
  BY <1>3, <1>13 DEF RunBatch
<1>14. CASE RunFinish
  BY <1>3, <1>14 DEF RunFinish
<1>15. CASE GateArm
  BY <1>3, <1>15 DEF GateArm
<1>16. CASE GateReadClosed
  BY <1>3, <1>16 DEF GateReadClosed
<1>17. CASE GateReadCredit
  BY <1>3, <1>17 DEF GateReadCredit
<1>18. CASE GateWait
  BY <1>3, <1>18 DEF GateWait
<1>19. CASE RunLost
  BY <1>3, <1>19 DEF RunLost, SendPlain
<1>20. CASE RunRemove
  BY <1>3, <1>20 DEF RunRemove
<1>21. CASE NotifyAfterClose
  BY <1>3, <1>21 DEF NotifyAfterClose
<1>22. CASE ReportClosed
  BY <1>3, <1>22 DEF ReportClosed
<1>23. CASE ExpireCheck
  BY <1>3, <1>23 DEF ExpireCheck
<1>24. CASE ExpireReport
  BY <1>3, <1>24 DEF ExpireReport
<1>25. CASE ExpireRemove
  BY <1>3, <1>25 DEF ExpireRemove
<1>26. CASE DocReceive
  BY <1>3, <1>26 DEF DocReceive
<1>27. CASE NotifyAfterAck
  BY <1>3, <1>27 DEF NotifyAfterAck
<1>28. CASE DocStop
  BY <1>3, <1>28 DEF DocStop
<1>29. CASE UNCHANGED vars
  BY <1>3, <1>29 DEF vars
<1> QED
  BY <1>4, <1>5, <1>6, <1>7, <1>8, <1>9, <1>10, <1>11, <1>12, <1>13, <1>14, <1>15,
     <1>16, <1>17, <1>18, <1>19, <1>20, <1>21, <1>22, <1>23, <1>24, <1>25, <1>26, <1>27,
     <1>28, <1>29
     DEF Next, RunStep, CloseStep, ExpireStep, DocStep

\* The Outbox implements the bounded stream of acknowledged batches.
THEOREM OutboxImplementsStream == Spec => ImplementsStream
<1>1. Init => Stream!StreamInit
  BY FS_EmptySet DEF Init, Stream!StreamInit
<1> QED
  BY <1>1, StreamStep, OutboxCorrect, PTL DEF Spec, ImplementsStream, Stream!StreamSpec

-----------------------------------------------------------------------------
(* Delivery: what the document finds in its mailbox, and what it may still   *)
(* acknowledge.                                                              *)

Mail == 1..Len(inbox)

\* An event of the session, not the worker's own reply.
IsEvent(i) == inbox[i].kind # "acked"

\* The events in the mailbox follow the document's sequence without a gap, and
\* as long as the sink works they end with the last number given out.
NumberInv ==
    /\ ~gap /\ cSeq <= seq
    /\ connected =>
        /\ \A i \in Mail : IsEvent(i) =>
            /\ cSeq < inbox[i].seq /\ inbox[i].seq <= seq
            /\ \/ inbox[i].seq = cSeq + 1
               \/ \E j \in Mail : j < i /\ IsEvent(j) /\ inbox[j].seq + 1 = inbox[i].seq
        /\ \A i, j \in Mail : i < j /\ IsEvent(i) /\ IsEvent(j) => inbox[i].seq < inbox[j].seq
        /\ \/ sinkFailed \/ cSeq = seq
           \/ \E j \in Mail : IsEvent(j) /\ inbox[j].seq = seq

\* An event of an execution is in the mailbox only while that execution has the
\* slot and is the document's; its rows are unacknowledged, and its terminal
\* event is the last.
RunInv ==
    /\ pc # "idle" => execs > 0 /\ cExec = execs /\ executionId = execs /\ cTerminal = 0
    /\ connected => \A i \in Mail : IsEvent(i) =>
        /\ inbox[i].exec # 0 =>
            /\ inbox[i].exec = executionId /\ inbox[i].exec = cExec /\ cTerminal = 0
            /\ terminal # 0 => inbox[i].seq <= terminal
        /\ inbox[i].kind = "row" =>
            inbox[i].exec # 0 /\ \E o \in outstanding : o.seq = inbox[i].seq
        /\ inbox[i].kind = "terminal" => inbox[i].exec # 0 /\ inbox[i].seq = terminal

\* What the watch channel holds can still be acknowledged.
CellInv ==
    /\ ~refused /\ lastAcked <= cSeq
    /\ outstanding # {} => \E o \in outstanding : \A p \in outstanding : p.seq <= o.seq
    /\ connected /\ cell # NoAck =>
        /\ cell.exec = executionId /\ executionId # 0
        /\ lastAcked < cell.seq /\ cell.seq <= cSeq
        /\ cell.seq = terminal \/ \E o \in outstanding : o.seq = cell.seq

DeliveryInv == OutboxInv /\ NumberInv /\ RunInv /\ CellInv

\* The mailbox holds events with numbers.
LEMMA MailTyped ==
    ASSUME TypeOK
    PROVE  /\ Len(inbox) \in Nat
           /\ \A i \in Mail : inbox[i].seq \in Nat /\ inbox[i].exec \in Nat
<1>1. inbox \in Seq(Events)
  BY DEF TypeOK
<1>2. Len(inbox) \in Nat /\ \A i \in Mail : inbox[i] \in Events
  BY <1>1, LenProperties, ElementOfSeq DEF Mail
<1> QED
  BY <1>2 DEF Events

\* The mailbox after an accepted event, and after a refused one.
Grown(e) ==
    /\ ~sinkFailed /\ ~sinkFailed'
    /\ Len(inbox') = Len(inbox) + 1
    /\ \A i \in Mail : inbox'[i] = inbox[i]
    /\ inbox'[Len(inbox) + 1] = e

Failed == sinkFailed' /\ inbox' = inbox

\* A send lengthens the mailbox by one event or is refused.
LEMMA SinkEffect ==
    ASSUME TypeOK, NEW e \in Events, SinkAccepts(e) \/ SinkRejects
    PROVE  Grown(e) \/ Failed
<1>1. inbox \in Seq(Events) /\ sinkFailed \in BOOLEAN
  BY DEF TypeOK
<1>2. CASE SinkRejects
  BY <1>2 DEF SinkRejects, Failed
<1>3. CASE SinkAccepts(e)
  <2>1. inbox' = Append(inbox, e) /\ ~sinkFailed /\ ~sinkFailed'
    BY <1>1, <1>3 DEF SinkAccepts
  <2>2. /\ Len(inbox') = Len(inbox) + 1
        /\ \A i \in 1..Len(inbox) : inbox'[i] = inbox[i]
        /\ inbox'[Len(inbox) + 1] = e
    BY <1>1, <2>1, AppendProperties
  <2> QED
    BY <2>1, <2>2 DEF Grown, Mail
<1> QED
  BY <1>2, <1>3

\* A send under the sequence lock: the next number, delivered or lost with it.
Posts(kind, exec) ==
    /\ seq' = seq + 1
    /\ Grown(Event(kind, exec, seq + 1)) \/ Failed
    /\ UNCHANGED <<cSeq, connected, gap>>

\* Nothing is sent and nothing is received.
Silent == UNCHANGED <<inbox, sinkFailed, seq, cSeq, connected, gap>>

\* send, as its callers use it.
LEMMA PlainEffect ==
    ASSUME TypeOK, NEW k \in EventKinds, NEW x \in Nat, NEW ok, NEW failed,
           SendPlain(k, x, ok, failed), UNCHANGED <<cSeq, connected, gap>>
    PROVE  Posts(k, x) \/ Silent
<1>1. Event(k, x, seq + 1) \in Events
  BY DEF TypeOK, Event, Events
<1> QED
  BY <1>1, SinkEffect DEF SendPlain, Posts, Silent, sinkVars

\* A numbered send leaves no gap.
LEMMA PostNumbers ==
    ASSUME TypeOK, NumberInv, NEW k \in EventKinds \ {"acked"}, NEW x \in Nat, Posts(k, x)
    PROVE  NumberInv'
<1> DEFINE n == Len(inbox)
<1>1. /\ n \in Nat /\ seq \in Nat /\ cSeq \in Nat
      /\ \A i \in 1..n : inbox[i].seq \in Nat
  BY MailTyped DEF TypeOK, Mail
<1>2. seq' = seq + 1 /\ cSeq' = cSeq /\ connected' = connected /\ gap' = gap
  BY DEF Posts
<1>3. CASE ~connected
  BY <1>1, <1>2, <1>3 DEF NumberInv
<1>4. ~gap /\ cSeq <= seq
  BY DEF NumberInv
<1>5. ASSUME connected
      PROVE  /\ \A i \in 1..n : inbox[i].kind # "acked" =>
                  /\ cSeq < inbox[i].seq /\ inbox[i].seq <= seq
                  /\ \/ inbox[i].seq = cSeq + 1
                     \/ \E j \in 1..n : /\ j < i /\ inbox[j].kind # "acked"
                                        /\ inbox[j].seq + 1 = inbox[i].seq
             /\ \A i, j \in 1..n : i < j /\ inbox[i].kind # "acked" /\ inbox[j].kind # "acked"
                                   => inbox[i].seq < inbox[j].seq
             /\ \/ sinkFailed \/ cSeq = seq
                \/ \E j \in 1..n : inbox[j].kind # "acked" /\ inbox[j].seq = seq
  BY <1>5 DEF NumberInv, Mail, IsEvent
<1>6. CASE connected /\ Failed
  <2>1. inbox' = inbox /\ sinkFailed' = TRUE
    BY <1>6 DEF Failed
  <2>2. \A i \in 1..n : inbox[i].seq <= seq => inbox[i].seq <= seq + 1
    BY <1>1
  <2> QED
    BY <1>1, <1>2, <1>4, <1>5, <1>6, <2>1, <2>2 DEF NumberInv, Mail, IsEvent
<1>7. CASE connected /\ Grown(Event(k, x, seq + 1))
  <2>1. /\ Len(inbox') = n + 1 /\ ~sinkFailed
        /\ \A i \in 1..n : inbox'[i] = inbox[i]
        /\ inbox'[n + 1].seq = seq + 1 /\ inbox'[n + 1].kind = k
    BY <1>7 DEF Grown, Mail, Event
  <2>2. \A i \in 1..(n + 1) : i = n + 1 \/ i \in 1..n
    BY <1>1
  <2>3. n + 1 \in 1..(n + 1) /\ k # "acked" /\ \A i \in 1..n : i \in 1..(n + 1) /\ i < n + 1
    BY <1>1
  <2>4. \A i \in 1..(n + 1) : inbox'[i].kind # "acked" =>
            /\ cSeq < inbox'[i].seq /\ inbox'[i].seq <= seq + 1
            /\ \/ inbox'[i].seq = cSeq + 1
               \/ \E j \in 1..(n + 1) : /\ j < i /\ inbox'[j].kind # "acked"
                                        /\ inbox'[j].seq + 1 = inbox'[i].seq
    <3> TAKE i \in 1..(n + 1)
    <3> HAVE inbox'[i].kind # "acked"
    <3>1. CASE i = n + 1
      <4>1. cSeq < inbox'[i].seq /\ inbox'[i].seq <= seq + 1
        BY <1>1, <1>4, <2>1, <3>1
      <4>2. CASE cSeq = seq
        BY <2>1, <3>1, <4>1, <4>2
      <4>3. CASE cSeq # seq
        <5>1. PICK j \in 1..n : inbox[j].kind # "acked" /\ inbox[j].seq = seq
          BY <1>5, <1>7, <2>1, <4>3
        <5> QED
          BY <2>1, <2>3, <3>1, <4>1, <5>1
      <4> QED
        BY <4>2, <4>3
    <3>2. CASE i \in 1..n
      <4>1. cSeq < inbox[i].seq /\ inbox[i].seq <= seq /\ inbox[i].seq \in Nat
        BY <1>1, <1>5, <1>7, <2>1, <3>2
      <4>2. CASE inbox[i].seq = cSeq + 1
        BY <1>1, <2>1, <3>2, <4>1, <4>2
      <4>3. CASE inbox[i].seq # cSeq + 1
        <5>1. PICK j \in 1..n : j < i /\ inbox[j].kind # "acked" /\ inbox[j].seq + 1 = inbox[i].seq
          BY <1>5, <1>7, <2>1, <3>2, <4>3
        <5>2. inbox'[i] = inbox[i] /\ inbox'[j] = inbox[j] /\ j \in 1..(n + 1)
          BY <2>1, <2>3, <3>2, <5>1
        <5>3. inbox[i].seq <= seq + 1
          BY <1>1, <4>1
        <5> QED
          BY <4>1, <5>1, <5>2, <5>3
      <4> QED
        BY <4>2, <4>3
    <3> QED
      BY <2>2, <3>1, <3>2
  <2>5. \A i, j \in 1..(n + 1) : i < j /\ inbox'[i].kind # "acked" /\ inbox'[j].kind # "acked"
                                 => inbox'[i].seq < inbox'[j].seq
    <3> TAKE i, j \in 1..(n + 1)
    <3> HAVE i < j /\ inbox'[i].kind # "acked" /\ inbox'[j].kind # "acked"
    <3>1. i \in 1..n
      BY <1>1
    <3>2. CASE j = n + 1
      BY <1>1, <1>5, <1>7, <2>1, <3>1, <3>2
    <3>3. CASE j \in 1..n
      BY <1>1, <1>5, <1>7, <2>1, <3>1, <3>3
    <3> QED
      BY <2>2, <3>2, <3>3
  <2> QED
    BY <1>1, <1>2, <1>4, <1>7, <2>1, <2>3, <2>4, <2>5 DEF NumberInv, Mail, IsEvent
<1> QED
  BY <1>3, <1>6, <1>7 DEF Posts


\* The worker's own reply takes no number.
LEMMA ReplyNumbers ==
    ASSUME TypeOK, NumberInv, NEW e, e.kind = "acked", Grown(e) \/ Failed,
           UNCHANGED <<seq, cSeq, connected, gap>>
    PROVE  NumberInv'
<1> DEFINE n == Len(inbox)
<1>1. n \in Nat
  BY MailTyped
<1>2. CASE Failed
  BY <1>2 DEF Failed, NumberInv, Mail, IsEvent
<1>3. CASE Grown(e)
  <2>1. /\ Len(inbox') = n + 1 /\ ~sinkFailed
        /\ \A i \in 1..n : inbox'[i] = inbox[i] /\ i \in 1..(n + 1)
        /\ inbox'[n + 1].kind = "acked"
    BY <1>1, <1>3 DEF Grown, Mail
  <2>2. \A i \in 1..(n + 1) : inbox'[i].kind # "acked" => i \in 1..n
    BY <1>1, <2>1
  <2> QED
    BY <2>1, <2>2 DEF NumberInv, Mail, IsEvent
<1> QED
  BY <1>2, <1>3

\* The mailbox without its first message.
Shortened ==
    /\ Len(inbox) \in Nat /\ Len(inbox) > 0
    /\ Len(inbox') = Len(inbox) - 1
    /\ \A i \in 1..Len(inbox') : inbox'[i] = inbox[i + 1]
    /\ Head(inbox) = inbox[1]

LEMMA TailEffect ==
    ASSUME TypeOK, inbox # <<>>, inbox' = Tail(inbox)
    PROVE  Shortened
<1>1. inbox \in Seq(Events)
  BY DEF TypeOK
<1>2. Len(inbox) \in Nat /\ Len(inbox) > 0
  BY <1>1, EmptySeq
<1>3. /\ Len(inbox') = Len(inbox) - 1
      /\ \A i \in 1..Len(inbox') : inbox'[i] = inbox[i + 1]
  BY <1>1, HeadTailProperties
<1> QED
  BY <1>1, <1>2, <1>3 DEF Shortened

\* The document takes its next message: the next event, or the worker's reply.
\* An event it has seen, or one behind a gap, is not there.
LEMMA ReceiveNumbers ==
    ASSUME TypeOK, NumberInv, DocReceive
    PROVE  /\ NumberInv'
           /\ Head(inbox).kind # "acked" => Head(inbox).seq = cSeq + 1
<1> DEFINE n == Len(inbox)
<1>1. Shortened
  BY TailEffect DEF DocReceive
<1>2. /\ n \in Nat /\ n > 0 /\ Len(inbox') = n - 1 /\ Head(inbox) = inbox[1]
      /\ \A i \in 1..(n - 1) : inbox'[i] = inbox[i + 1]
  BY <1>1 DEF Shortened
<1>3. \A i \in 1..(n - 1) : i + 1 \in 1..n /\ i \in 1..n
  BY <1>2
<1>4. /\ seq \in Nat /\ cSeq \in Nat /\ \A i \in 1..n : inbox[i].seq \in Nat
  BY MailTyped DEF TypeOK, Mail
<1>5. /\ ~gap /\ cSeq <= seq /\ connected
      /\ UNCHANGED <<seq, sinkFailed>>
  BY DEF NumberInv, DocReceive, outboxVars
<1>6. /\ \A i \in 1..n : inbox[i].kind # "acked" =>
            /\ cSeq < inbox[i].seq /\ inbox[i].seq <= seq
            /\ \/ inbox[i].seq = cSeq + 1
               \/ \E j \in 1..n : /\ j < i /\ inbox[j].kind # "acked"
                                  /\ inbox[j].seq + 1 = inbox[i].seq
      /\ \A i, j \in 1..n : i < j /\ inbox[i].kind # "acked" /\ inbox[j].kind # "acked"
                            => inbox[i].seq < inbox[j].seq
      /\ \/ sinkFailed \/ cSeq = seq
         \/ \E j \in 1..n : inbox[j].kind # "acked" /\ inbox[j].seq = seq
  BY <1>5 DEF NumberInv, Mail, IsEvent
<1>7. 1 \in 1..n /\ \A j \in 1..n : ~(j < 1) /\ (j # 1 => j - 1 \in 1..(n - 1) /\ inbox[j] = inbox'[j - 1])
  BY <1>2
<1>8. inbox[1].kind # "acked" => inbox[1].seq = cSeq + 1
  BY <1>6, <1>7
<1>9. \A i, j \in 1..(n - 1) : i < j /\ inbox'[i].kind # "acked" /\ inbox'[j].kind # "acked"
                               => inbox'[i].seq < inbox'[j].seq
  <2> TAKE i, j \in 1..(n - 1)
  <2>1. i + 1 \in 1..n /\ j + 1 \in 1..n /\ (i < j => i + 1 < j + 1)
        /\ inbox'[i] = inbox[i + 1] /\ inbox'[j] = inbox[j + 1]
    BY <1>2, <1>3
  <2> QED
    BY <1>6, <2>1
<1>10. CASE inbox[1].kind = "acked"
  <2>1. cSeq' = cSeq /\ connected' = connected /\ gap' = gap
    BY <1>2, <1>10 DEF DocReceive
  <2>2. \A i \in 1..(n - 1) : inbox'[i].kind # "acked" =>
            /\ cSeq < inbox'[i].seq /\ inbox'[i].seq <= seq
            /\ \/ inbox'[i].seq = cSeq + 1
               \/ \E j \in 1..(n - 1) : /\ j < i /\ inbox'[j].kind # "acked"
                                        /\ inbox'[j].seq + 1 = inbox'[i].seq
    <3> TAKE i \in 1..(n - 1)
    <3> HAVE inbox'[i].kind # "acked"
    <3>1. i + 1 \in 1..n /\ inbox'[i] = inbox[i + 1]
      BY <1>2, <1>3
    <3>2. cSeq < inbox'[i].seq /\ inbox'[i].seq <= seq
      BY <1>6, <3>1
    <3>3. CASE inbox'[i].seq = cSeq + 1
      BY <3>2, <3>3
    <3>4. CASE inbox'[i].seq # cSeq + 1
      <4>1. PICK j \in 1..n : /\ j < i + 1 /\ inbox[j].kind # "acked"
                              /\ inbox[j].seq + 1 = inbox'[i].seq
        BY <1>6, <3>1, <3>4
      <4>2. j # 1
        BY <1>10, <4>1
      <4>3. j - 1 \in 1..(n - 1) /\ inbox[j] = inbox'[j - 1]
        BY <1>7, <4>2
      <4>4. j - 1 < i
        BY <4>1
      <4> QED
        BY <3>2, <4>1, <4>3, <4>4
    <3> QED
      BY <3>3, <3>4
  <2>3. sinkFailed \/ cSeq = seq \/ \E j \in 1..(n - 1) : inbox'[j].kind # "acked" /\ inbox'[j].seq = seq
    BY <1>6, <1>7, <1>10
  <2> QED
    BY <1>2, <1>5, <1>8, <1>9, <1>10, <2>1, <2>2, <2>3 DEF NumberInv, Mail, IsEvent
<1>11. CASE inbox[1].kind # "acked"
  <2>1. inbox[1].seq = cSeq + 1
    BY <1>8, <1>11
  <2>2. cSeq' = cSeq + 1 /\ gap' = gap
    <3>1. ~(inbox[1].seq <= cSeq) /\ ~(inbox[1].seq > cSeq + 1)
      BY <1>4, <2>1
    <3>2. AdmitEvent(inbox[1])
      BY <1>2, <1>11, <3>1 DEF DocReceive
    <3> QED
      BY <2>1, <3>2 DEF AdmitEvent
  <2>3. cSeq + 1 <= seq
    BY <1>6, <1>7, <1>11, <2>1
  <2>4. \A i \in 1..(n - 1) : inbox'[i].kind # "acked" =>
            /\ cSeq + 1 < inbox'[i].seq /\ inbox'[i].seq <= seq
            /\ \/ inbox'[i].seq = cSeq + 2
               \/ \E j \in 1..(n - 1) : /\ j < i /\ inbox'[j].kind # "acked"
                                        /\ inbox'[j].seq + 1 = inbox'[i].seq
    <3> TAKE i \in 1..(n - 1)
    <3> HAVE inbox'[i].kind # "acked"
    <3>1. i + 1 \in 1..n /\ 1 < i + 1 /\ inbox'[i] = inbox[i + 1]
      BY <1>2, <1>3
    <3>2. cSeq + 1 < inbox'[i].seq /\ inbox'[i].seq <= seq
      BY <1>6, <1>7, <1>11, <2>1, <3>1
    <3>3. PICK j \in 1..n : /\ j < i + 1 /\ inbox[j].kind # "acked"
                            /\ inbox[j].seq + 1 = inbox'[i].seq
      BY <1>4, <1>6, <3>1, <3>2
    <3>4. CASE j = 1
      BY <1>4, <2>1, <3>2, <3>3, <3>4
    <3>5. CASE j # 1
      <4>1. j - 1 \in 1..(n - 1) /\ inbox[j] = inbox'[j - 1]
        BY <1>7, <3>5
      <4>2. j - 1 < i
        BY <3>3
      <4> QED
        BY <3>2, <3>3, <4>1, <4>2
    <3> QED
      BY <3>4, <3>5
  <2>5. sinkFailed \/ cSeq + 1 = seq \/ \E j \in 1..(n - 1) : inbox'[j].kind # "acked" /\ inbox'[j].seq = seq
    <3>1. CASE \E j \in 1..n : inbox[j].kind # "acked" /\ inbox[j].seq = seq
      <4>1. PICK j \in 1..n : inbox[j].kind # "acked" /\ inbox[j].seq = seq
        BY <3>1
      <4>2. CASE j = 1
        BY <2>1, <4>1, <4>2
      <4>3. CASE j # 1
        <5>1. j - 1 \in 1..(n - 1) /\ inbox[j] = inbox'[j - 1]
          BY <1>7, <4>3
        <5> QED
          BY <4>1, <5>1
      <4> QED
        BY <4>2, <4>3
    <3>2. cSeq # seq
      BY <1>4, <2>3
    <3> QED
      BY <1>6, <3>1, <3>2
  <2>6. (cSeq + 1) + 1 = cSeq + 2
    BY <1>4
  <2> QED
    BY <1>2, <1>5, <1>8, <1>9, <1>11, <2>2, <2>3, <2>4, <2>5, <2>6 DEF NumberInv, Mail, IsEvent
<1> QED
  BY <1>10, <1>11


\* The sequence the document sees has no gap: every send takes its number under
\* the lock, and the only event lost is the one that ends the stream.
LEMMA NumbersStep == TypeOK /\ NumberInv /\ [Next]_vars => NumberInv'
<1> SUFFICES ASSUME TypeOK, NumberInv, [Next]_vars PROVE NumberInv'
  OBVIOUS
<1> USE DEF outboxVars, taskVars, closeVars, sinkVars, docVars
<1>0. execs \in Nat /\ seq \in Nat /\ 0 \in Nat
  BY DEF TypeOK
<1>1. CASE Silent
  BY <1>1 DEF Silent, NumberInv, Mail, IsEvent
<1>2. ASSUME NEW k \in EventKinds \ {"acked"}, NEW x \in Nat,
             SinkAccepts(Event(k, x, seq + 1)) \/ SinkRejects,
             seq' = seq + 1, UNCHANGED <<cSeq, connected, gap>>
      PROVE  NumberInv'
  <2>1. Event(k, x, seq + 1) \in Events
    BY <1>0 DEF Event, Events
  <2> QED
    BY <1>2, <2>1, SinkEffect, PostNumbers DEF Posts
<1>3. ASSUME NEW k \in EventKinds \ {"acked"}, NEW x \in Nat, NEW ok, NEW failed,
             SendPlain(k, x, ok, failed), UNCHANGED <<cSeq, connected, gap>>
      PROVE  NumberInv'
  BY <1>1, <1>3, PlainEffect, PostNumbers
<1>k. {"meta", "row", "terminal", "lost", "closed"} \subseteq EventKinds \ {"acked"}
  BY DEF EventKinds
<1>4. CASE RunStart
  <2>1. SendPlain("meta", execs, "receive", "remove") /\ UNCHANGED <<cSeq, connected, gap>>
    BY <1>4 DEF RunStart
  <2> QED
    BY <1>0, <1>3, <1>k, <2>1
<1>5. CASE RunMeta
  <2>1. SendPlain("meta", execs, "receive", "remove") /\ UNCHANGED <<cSeq, connected, gap>>
    BY <1>5 DEF RunMeta
  <2> QED
    BY <1>0, <1>3, <1>k, <2>1
<1>6. CASE RunLost
  <2>1. SendPlain("lost", 0, "remove", "remove") /\ UNCHANGED <<cSeq, connected, gap>>
    BY <1>6 DEF RunLost
  <2> QED
    BY <1>0, <1>3, <1>k, <2>1
<1>7. CASE PushBatch
  <2>1. UNCHANGED <<cSeq, connected, gap>>
        /\ (\/ SinkAccepts(Event("row", execs, seq + 1)) /\ seq' = seq + 1
            \/ SinkRejects /\ seq' = seq + 1
            \/ Silent)
    BY <1>7 DEF PushBatch, Silent
  <2> QED
    BY <1>0, <1>1, <1>2, <1>k, <2>1
<1>8. CASE SendTerminal
  <2>1. UNCHANGED <<cSeq, connected, gap>>
        /\ (\/ SinkAccepts(Event("terminal", execs, seq + 1)) /\ seq' = seq + 1
            \/ SinkRejects /\ seq' = seq + 1
            \/ Silent)
    BY <1>8 DEF SendTerminal, Silent
  <2> QED
    BY <1>0, <1>1, <1>2, <1>k, <2>1
<1>9. CASE ReportClosed
  <2>1. UNCHANGED <<cSeq, connected, gap>>
        /\ (\/ SinkAccepts(Event("closed", 0, seq + 1)) /\ seq' = seq + 1
            \/ SinkRejects /\ seq' = seq + 1
            \/ Silent)
    BY <1>9 DEF ReportClosed, Silent
  <2> QED
    BY <1>0, <1>1, <1>2, <1>k, <2>1
<1>10. CASE ExpireReport
  <2>1. UNCHANGED <<cSeq, connected, gap>>
        /\ (\/ SinkAccepts(Event("lost", 0, seq + 1)) /\ seq' = seq + 1
            \/ SinkRejects /\ seq' = seq + 1
            \/ Silent)
    BY <1>10 DEF ExpireReport, Silent
  <2> QED
    BY <1>0, <1>1, <1>2, <1>k, <2>1
<1>11. CASE NotifyAfterAck
  <2> DEFINE e == Event("acked", acking.exec, acking.seq)
  <2>1. e \in Events /\ e.kind = "acked"
    BY DEF TypeOK, AckPayloads, Event, Events, EventKinds
  <2>2. SinkAccepts(e) \/ SinkRejects
    BY <1>11 DEF NotifyAfterAck
  <2>3. UNCHANGED <<seq, cSeq, connected, gap>>
    BY <1>11 DEF NotifyAfterAck
  <2> HIDE DEF e
  <2> QED
    BY <2>1, <2>2, <2>3, SinkEffect, ReplyNumbers
<1>12. CASE DocReceive
  BY <1>12, ReceiveNumbers
<1>13. CASE DocAck
  <2>1. UNCHANGED <<inbox, sinkFailed, seq, cSeq, gap>> /\ (connected' => connected)
    BY <1>13 DEF DocAck, Acknowledge, AckUnnotified
  <2> QED
    BY <2>1 DEF NumberInv, Mail, IsEvent
<1>14. CASE RunBatch \/ RunFinish \/ GateArm \/ GateReadClosed \/ GateReadCredit \/ GateWait
  BY <1>1, <1>14 DEF RunBatch, RunFinish, GateArm, GateReadClosed, GateReadCredit, GateWait, Silent
<1>15. CASE RunRemove \/ MarkClosed \/ NotifyAfterClose \/ ExpireCheck \/ ExpireRemove
            \/ Execute \/ DocStop \/ UNCHANGED vars
  BY <1>1, <1>15 DEF RunRemove, MarkClosed, NotifyAfterClose, ExpireCheck, ExpireRemove,
     Execute, BeginCredit, DocStop, Silent, vars
<1> QED
  BY <1>4, <1>5, <1>6, <1>7, <1>8, <1>9, <1>10, <1>11, <1>12, <1>13, <1>14, <1>15
     DEF Next, RunStep, CloseStep, ExpireStep, DocStep

\* mark_closed serialises with the numbering of events: behind it only the
\* closer's SessionClosed is delivered.
THEOREM ClosedSendsNothing == Spec => OnlyClosedAfterClose
<1>1. Init => TypeOK
  BY InitInv DEF OutboxInv
<1>2. TypeOK /\ [Next]_vars =>
        [closed /\ Len(inbox') > Len(inbox)
           => \/ inbox'[Len(inbox')].kind = "acked"
              \/ inbox'[Len(inbox')].kind = "closed" /\ closer = "report"]_vars
  <2> SUFFICES ASSUME TypeOK, Next, closed, Len(inbox') > Len(inbox)
               PROVE  \/ inbox'[Len(inbox')].kind = "acked"
                      \/ inbox'[Len(inbox')].kind = "closed" /\ closer = "report"
    OBVIOUS
  <2> USE DEF outboxVars, taskVars, closeVars, sinkVars, docVars
  <2>1. Len(inbox) \in Nat /\ inbox' # inbox
    BY MailTyped
  <2>2. CASE ReportClosed
    <3> DEFINE e == Event("closed", 0, seq + 1)
    <3>1. e \in Events /\ e.kind = "closed"
      BY DEF TypeOK, Event, Events, EventKinds
    <3>2. closer = "report" /\ (SinkAccepts(e) \/ SinkRejects)
      BY <2>1, <2>2 DEF ReportClosed
    <3> HIDE DEF e
    <3>3. Grown(e)
      BY <2>1, <3>1, <3>2, SinkEffect DEF Failed
    <3> QED
      BY <3>1, <3>2, <3>3 DEF Grown
  <2>3. CASE NotifyAfterAck
    <3> DEFINE e == Event("acked", acking.exec, acking.seq)
    <3>1. e \in Events /\ e.kind = "acked"
      BY DEF TypeOK, AckPayloads, Event, Events, EventKinds
    <3>2. SinkAccepts(e) \/ SinkRejects
      BY <2>3 DEF NotifyAfterAck
    <3> HIDE DEF e
    <3>3. Grown(e)
      BY <2>1, <3>1, <3>2, SinkEffect DEF Failed
    <3> QED
      BY <3>1, <3>3 DEF Grown
  <2>4. CASE DocReceive
    <3>1. Shortened
      BY <2>4, TailEffect DEF DocReceive
    <3> QED
      BY <3>1 DEF Shortened
  <2>5. CASE RunStep
    BY <2>1, <2>5 DEF RunStep, RunStart, RunMeta, RunLost, SendPlain, RunBatch, RunFinish, GateArm,
       GateReadClosed, GateReadCredit, GateWait, PushBatch, SendTerminal, RunRemove
  <2>6. CASE MarkClosed \/ NotifyAfterClose \/ ExpireStep \/ Execute \/ DocAck \/ DocStop
    BY <2>1, <2>6 DEF MarkClosed, NotifyAfterClose, ExpireStep, ExpireCheck, ExpireReport,
       ExpireRemove, Execute, DocAck, DocStop
  <2> QED
    BY <2>2, <2>3, <2>4, <2>5, <2>6 DEF Next, CloseStep, DocStep
<1> QED
  BY <1>1, <1>2, TypeStep, PTL DEF Spec, OnlyClosedAfterClose


\* What is in the mailbox stays of the current execution when neither it nor
\* its window moves.
LEMMA RunKept ==
    ASSUME RunInv, inbox' = inbox, connected' => connected, pc' # "idle" => pc # "idle",
           UNCHANGED <<execs, cExec, cTerminal, executionId, terminal, outstanding>>
    PROVE  RunInv'
BY DEF RunInv, Mail, IsEvent

\* A send adds an event that belongs to no execution, or to the running one.
LEMMA RunSent ==
    ASSUME TypeOK, RunInv, NEW e,
           \/ Failed
           \/ /\ Grown(e) /\ e.kind # "terminal"
              /\ e.kind # "acked" /\ e.exec # 0 =>
                    e.exec = executionId /\ e.exec = cExec /\ cTerminal = 0 /\ terminal = 0
              /\ e.kind = "row" => e.exec # 0 /\ \E o \in outstanding' : o.seq = e.seq,
           outstanding \subseteq outstanding', pc' # "idle" => pc # "idle",
           UNCHANGED <<execs, cExec, cTerminal, executionId, terminal, connected>>
    PROVE  RunInv'
<1> DEFINE n == Len(inbox)
<1>1. n \in Nat
  BY MailTyped
<1>2. CASE Failed
  BY <1>2 DEF Failed, RunInv, Mail, IsEvent
<1>3. CASE ~Failed
  <2>1. /\ Len(inbox') = n + 1 /\ inbox'[n + 1] = e
        /\ \A i \in 1..n : inbox'[i] = inbox[i]
        /\ \A i \in 1..(n + 1) : i = n + 1 \/ i \in 1..n
    BY <1>1, <1>3 DEF Grown, Mail
  <2>2. connected => \A i \in 1..(n + 1) : inbox'[i].kind # "acked" =>
            /\ inbox'[i].exec # 0 =>
                /\ inbox'[i].exec = executionId /\ inbox'[i].exec = cExec /\ cTerminal = 0
                /\ terminal # 0 => inbox'[i].seq <= terminal
            /\ inbox'[i].kind = "row" =>
                inbox'[i].exec # 0 /\ \E o \in outstanding' : o.seq = inbox'[i].seq
            /\ inbox'[i].kind = "terminal" => inbox'[i].exec # 0 /\ inbox'[i].seq = terminal
    <3> SUFFICES ASSUME connected, NEW i \in 1..(n + 1), inbox'[i].kind # "acked"
                 PROVE  /\ inbox'[i].exec # 0 =>
                            /\ inbox'[i].exec = executionId /\ inbox'[i].exec = cExec /\ cTerminal = 0
                            /\ terminal # 0 => inbox'[i].seq <= terminal
                        /\ inbox'[i].kind = "row" =>
                            inbox'[i].exec # 0 /\ \E o \in outstanding' : o.seq = inbox'[i].seq
                        /\ inbox'[i].kind = "terminal" => inbox'[i].exec # 0 /\ inbox'[i].seq = terminal
      OBVIOUS
    <3>1. CASE i = n + 1
      BY <1>3, <2>1, <3>1
    <3>2. CASE i \in 1..n
      <4>1. inbox'[i] = inbox[i]
        BY <2>1, <3>2
      <4> QED
        BY <3>2, <4>1 DEF RunInv, Mail, IsEvent
    <3> QED
      BY <2>1, <3>1, <3>2
  <2> QED
    BY <2>1, <2>2 DEF RunInv, Mail, IsEvent
<1> QED
  BY <1>2, <1>3

\* send, by the running execution or by nobody in particular.
LEMMA RunPlain ==
    ASSUME OutboxInv, RunInv, NEW k \in {"meta", "lost"}, NEW x \in {0, execs}, pc # "idle",
           NEW ok, NEW failed, SendPlain(k, x, ok, failed),
           UNCHANGED <<execs, cSeq, cExec, cTerminal, executionId, terminal, outstanding,
                       connected, gap>>
    PROVE  RunInv'
<1>1. /\ TypeOK /\ x \in Nat /\ k \in EventKinds
      /\ terminal = 0
  BY DEF OutboxInv, TypeOK, SettledSlot, EventKinds
<1>2. CASE Silent
  BY <1>2, RunKept DEF Silent
<1>3. CASE Posts(k, x)
  <2> DEFINE e == Event(k, x, seq + 1)
  <2>1. e.kind = k /\ e.exec = x
    BY DEF Event
  <2>2. x # 0 => x = executionId /\ x = cExec /\ cTerminal = 0
    BY DEF RunInv
  <2>3. Grown(e) \/ Failed
    BY <1>3 DEF Posts
  <2> HIDE DEF e
  <2> QED
    BY <1>1, <2>1, <2>2, <2>3, RunSent
<1> QED
  BY <1>1, <1>2, <1>3, PlainEffect

\* The terminal event is the last of its execution.
LEMMA RunTerminal ==
    ASSUME OutboxInv, NumberInv, RunInv, SendTerminal
    PROVE  RunInv'
<1> DEFINE n == Len(inbox)
           e == Event("terminal", execs, seq + 1)
<1>1. /\ TypeOK /\ terminal = 0 /\ pc # "idle"
      /\ UNCHANGED <<execs, cExec, cTerminal, executionId, outstanding, connected>>
  BY DEF SendTerminal, OutboxInv, SettledSlot, docVars
<1>2. CASE terminal' = terminal /\ inbox' = inbox
  BY <1>1, <1>2, RunKept
<1>3. CASE ~(terminal' = terminal /\ inbox' = inbox)
  <2>1. /\ e \in Events /\ e.kind = "terminal" /\ e.exec = execs /\ e.seq = seq + 1
    BY <1>1 DEF TypeOK, Event, Events, EventKinds
  <2>2. terminal' = seq + 1 /\ pc' = "idle" /\ SinkAccepts(e)
    BY <1>1, <1>3 DEF SendTerminal, SinkRejects, sinkVars
  <2> HIDE DEF e
  <2>3. Grown(e)
    BY <1>1, <2>1, <2>2, SinkEffect DEF SinkAccepts, Failed
  <2>4. /\ n \in Nat /\ Len(inbox') = n + 1 /\ inbox'[n + 1] = e
        /\ \A i \in 1..n : inbox'[i] = inbox[i] /\ inbox[i].seq \in Nat
        /\ \A i \in 1..(n + 1) : i = n + 1 \/ i \in 1..n
    BY <1>1, <2>3, MailTyped DEF Grown, Mail
  <2>5. execs # 0 /\ cExec = execs /\ executionId = execs /\ cTerminal = 0 /\ seq \in Nat
    BY <1>1 DEF RunInv, TypeOK
  <2>6. ASSUME connected, NEW i \in 1..(n + 1), inbox'[i].kind # "acked"
        PROVE  /\ inbox'[i].exec # 0 =>
                   /\ inbox'[i].exec = executionId /\ inbox'[i].exec = cExec
                   /\ inbox'[i].seq <= seq + 1
               /\ inbox'[i].kind = "row" =>
                   inbox'[i].exec # 0 /\ \E o \in outstanding : o.seq = inbox'[i].seq
               /\ inbox'[i].kind = "terminal" => inbox'[i].exec # 0 /\ inbox'[i].seq = seq + 1
    <3>1. CASE i = n + 1
      BY <2>1, <2>4, <2>5, <3>1
    <3>2. CASE i \in 1..n
      <4>1. inbox'[i] = inbox[i] /\ inbox[i].seq \in Nat
        BY <2>4, <3>2
      <4>2. cSeq < inbox[i].seq /\ inbox[i].seq <= seq /\ cSeq \in Nat
        BY <1>1, <2>6, <3>2, <4>1 DEF NumberInv, Mail, IsEvent, TypeOK
      <4>3. inbox[i].seq <= seq + 1 /\ inbox[i].seq # 0
        BY <2>5, <4>1, <4>2
      <4> QED
        BY <1>1, <2>6, <3>2, <4>1, <4>3 DEF RunInv, Mail, IsEvent
    <3> QED
      BY <2>4, <3>1, <3>2
  <2> QED
    BY <1>1, <2>2, <2>4, <2>5, <2>6 DEF RunInv, Mail, IsEvent
<1> QED
  BY <1>2, <1>3

\* A batch in the mailbox is in the window.
LEMMA RunPush ==
    ASSUME OutboxInv, RunInv, PushBatch
    PROVE  RunInv'
<1> DEFINE e == Event("row", execs, seq + 1)
<1>1. /\ TypeOK /\ terminal = 0 /\ pc # "idle"
      /\ UNCHANGED <<execs, cExec, cTerminal, executionId, terminal, connected>>
  BY DEF PushBatch, OutboxInv, SettledSlot, docVars
<1>2. CASE inbox' = inbox /\ outstanding' = outstanding
  BY <1>1, <1>2, RunKept
<1>3. CASE ~(inbox' = inbox /\ outstanding' = outstanding)
  <2>1. /\ e \in Events /\ e.kind = "row" /\ e.exec = execs /\ e.seq = seq + 1
    BY <1>1 DEF TypeOK, Event, Events, EventKinds
  <2>2. /\ outstanding' = outstanding \cup {[seq |-> seq + 1, bytes |-> size]}
        /\ SinkAccepts(e)
    BY <1>3 DEF PushBatch, SinkRejects, sinkVars
  <2>3. \E o \in outstanding' : o.seq = seq + 1
    <3> DEFINE b == [seq |-> seq + 1, bytes |-> size]
    <3>1. b \in outstanding' /\ b.seq = seq + 1
      BY <2>2
    <3> HIDE DEF b
    <3> QED
      BY <3>1
  <2>4. execs # 0 /\ cExec = execs /\ executionId = execs /\ cTerminal = 0
    BY <1>1 DEF RunInv, TypeOK
  <2> HIDE DEF e
  <2>5. Grown(e) \/ Failed
    BY <1>1, <2>1, <2>2, SinkEffect
  <2> QED
    BY <1>1, <2>1, <2>2, <2>3, <2>4, <2>5, RunSent
<1> QED
  BY <1>2, <1>3


\* The document takes a message: with the terminal event, or the reply to its
\* acknowledgement, nothing of the execution is left behind it.
LEMMA RunReceive ==
    ASSUME OutboxInv, NumberInv, RunInv, DocReceive
    PROVE  RunInv'
<1> DEFINE n == Len(inbox)
<1> USE DEF outboxVars, taskVars, closeVars, sinkVars, docVars
<1>1. TypeOK /\ connected /\ Shortened
  BY TailEffect DEF DocReceive, OutboxInv
<1>2. /\ n \in Nat /\ n > 0 /\ Len(inbox') = n - 1 /\ Head(inbox) = inbox[1]
      /\ \A i \in 1..(n - 1) : inbox'[i] = inbox[i + 1]
  BY <1>1 DEF Shortened
<1>3. 1 \in 1..n /\ \A i \in 1..(n - 1) : i + 1 \in 1..n /\ 1 < i + 1
  BY <1>2
<1>4. UNCHANGED <<pc, execs, executionId, terminal, outstanding>>
  BY DEF DocReceive
<1>5. \A i \in 1..n : inbox[i].seq \in Nat
  BY <1>1, MailTyped DEF Mail
<1>6. \A i \in 1..n : inbox[i].kind # "acked" =>
        /\ inbox[i].exec # 0 =>
            /\ inbox[i].exec = executionId /\ inbox[i].exec = cExec /\ cTerminal = 0
            /\ terminal # 0 => inbox[i].seq <= terminal
        /\ inbox[i].kind = "row" =>
            inbox[i].exec # 0 /\ \E o \in outstanding : o.seq = inbox[i].seq
        /\ inbox[i].kind = "terminal" => inbox[i].exec # 0 /\ inbox[i].seq = terminal
  BY <1>1 DEF RunInv, Mail, IsEvent
<1>7. CASE cExec' = cExec /\ cTerminal' = cTerminal
  BY <1>2, <1>3, <1>4, <1>6, <1>7 DEF RunInv, Mail, IsEvent
<1>8. CASE cTerminal # 0 /\ cTerminal' = 0
  <2>1. pc = "idle"
    BY <1>8 DEF RunInv
  <2>2. \A i \in 1..(n - 1) : inbox'[i].kind # "acked" =>
            inbox'[i].exec = 0 /\ inbox'[i].kind # "row" /\ inbox'[i].kind # "terminal"
    BY <1>2, <1>3, <1>6, <1>8
  <2> QED
    BY <1>2, <1>4, <2>1, <2>2 DEF RunInv, Mail, IsEvent
<1>9. CASE inbox[1].kind = "terminal" /\ cExec' = cExec
  <2>1. inbox[1].seq = terminal /\ inbox[1].exec # 0 /\ terminal \in Nat
    BY <1>1, <1>3, <1>6, <1>9 DEF TypeOK
  <2>2. inbox[1].seq = cSeq + 1 /\ cSeq \in Nat
    BY <1>1, <1>2, <1>9, ReceiveNumbers DEF TypeOK
  <2>3. terminal # 0 /\ pc = "idle"
    BY <2>1, <2>2 DEF OutboxInv, SettledSlot
  <2>4. \A i \in 1..(n - 1) : inbox'[i].kind # "acked" =>
            inbox'[i].exec = 0 /\ inbox'[i].kind # "row" /\ inbox'[i].kind # "terminal"
    <3> TAKE i \in 1..(n - 1)
    <3> HAVE inbox'[i].kind # "acked"
    <3>1. inbox'[i] = inbox[i + 1] /\ i + 1 \in 1..n /\ 1 < i + 1
      BY <1>2, <1>3
    <3>2. inbox[1].seq < inbox[i + 1].seq
      BY <1>1, <1>3, <1>9, <3>1 DEF NumberInv, Mail, IsEvent
    <3>3. ~(inbox[i + 1].seq <= terminal)
      BY <1>5, <2>1, <3>1, <3>2
    <3> QED
      BY <1>6, <2>3, <3>1, <3>3
  <2> QED
    BY <1>2, <1>4, <2>3, <2>4 DEF RunInv, Mail, IsEvent
<1>10. \/ cExec' = cExec /\ cTerminal' = cTerminal
       \/ cTerminal # 0 /\ cTerminal' = 0
       \/ inbox[1].kind = "terminal" /\ cExec' = cExec
  <2>1. CASE Head(inbox).kind = "acked"
    <3> DEFINE settled == /\ Head(inbox).exec = cExec /\ cTerminal # 0
                          /\ Head(inbox).seq >= cTerminal
    <3>1. /\ cExec' = (IF settled THEN 0 ELSE cExec)
          /\ cTerminal' = (IF settled THEN 0 ELSE cTerminal)
      BY <2>1 DEF DocReceive
    <3> QED
      BY <3>1
  <2>2. CASE Head(inbox).kind # "acked"
    BY <1>2, <2>2 DEF DocReceive, AdmitEvent
  <2> QED
    BY <2>1, <2>2
<1> QED
  BY <1>7, <1>8, <1>9, <1>10

\* An acknowledgement takes only batches and terminal events the document has
\* already received.
LEMMA RunAck ==
    ASSUME OutboxInv, NumberInv, RunInv, CellInv, DocAck
    PROVE  RunInv'
<1> DEFINE n == Len(inbox)
<1> USE DEF outboxVars, taskVars, closeVars, sinkVars, docVars
<1>1. /\ TypeOK /\ connected /\ cell # NoAck
      /\ UNCHANGED <<pc, execs, cExec, cTerminal, inbox>> /\ (connected' => connected)
  BY DEF DocAck, OutboxInv
<1>2. CASE UNCHANGED outboxVars
  BY <1>1, <1>2, RunKept
<1>3. CASE Acknowledge(cell)
  <2>1. /\ outstanding' = {o \in outstanding : o.seq > cell.seq}
        /\ executionId' = (IF terminal = cell.seq THEN 0 ELSE executionId)
        /\ terminal' = (IF terminal = cell.seq THEN 0 ELSE terminal)
    BY <1>3 DEF Acknowledge, AckUnnotified
  <2>2. /\ cell.seq \in Nat /\ cSeq \in Nat /\ terminal \in Nat
        /\ n \in Nat /\ \A i \in 1..n : inbox[i].seq \in Nat
        /\ lastAcked \in Nat /\ lastAcked < cell.seq /\ cell.seq <= cSeq
    BY <1>1, MailTyped DEF TypeOK, AckPayloads, CellInv, Mail
  <2>3. \A i \in 1..n : inbox[i].kind # "acked" => inbox[i].seq > cell.seq
    <3>1. \A i \in 1..n : inbox[i].kind # "acked" => cSeq < inbox[i].seq
      BY <1>1 DEF NumberInv, Mail, IsEvent
    <3> QED
      BY <2>2, <3>1
  <2>4. \A i \in 1..n : inbox[i].kind # "acked" =>
          /\ inbox[i].exec # 0 =>
              /\ inbox[i].exec = executionId /\ inbox[i].exec = cExec /\ cTerminal = 0
              /\ terminal # 0 => inbox[i].seq <= terminal
          /\ inbox[i].kind = "row" =>
              inbox[i].exec # 0 /\ \E o \in outstanding : o.seq = inbox[i].seq
          /\ inbox[i].kind = "terminal" => inbox[i].exec # 0 /\ inbox[i].seq = terminal
    BY <1>1 DEF RunInv, Mail, IsEvent
  <2>5. CASE terminal = cell.seq
    <3>1. terminal # 0 /\ pc = "idle"
      BY <2>2, <2>5 DEF OutboxInv, SettledSlot
    <3>2. \A i \in 1..n : inbox[i].kind # "acked" => ~(inbox[i].seq <= terminal)
      BY <2>2, <2>3, <2>5
    <3>3. \A i \in 1..n : inbox[i].kind # "acked" =>
              inbox[i].exec = 0 /\ inbox[i].kind # "row" /\ inbox[i].kind # "terminal"
      BY <2>4, <3>1, <3>2
    <3> QED
      BY <1>1, <3>1, <3>3 DEF RunInv, Mail, IsEvent
  <2>6. CASE terminal # cell.seq
    <3>1. \A i \in 1..n : inbox[i].kind = "row" => \E o \in outstanding' : o.seq = inbox[i].seq
      <4> SUFFICES ASSUME NEW i \in 1..n, inbox[i].kind = "row"
                   PROVE  \E o \in outstanding' : o.seq = inbox[i].seq
        OBVIOUS
      <4>1. PICK o \in outstanding : o.seq = inbox[i].seq
        BY <2>4
      <4>2. o.seq > cell.seq
        BY <2>3, <4>1
      <4> QED
        BY <2>1, <4>1, <4>2
    <3>2. executionId' = executionId /\ terminal' = terminal
      BY <2>1, <2>6
    <3> QED
      BY <1>1, <2>4, <3>1, <3>2 DEF RunInv, Mail, IsEvent
  <2> QED
    BY <2>5, <2>6
<1> QED
  BY <1>2, <1>3 DEF DocAck

\* The mailbox holds events of the current execution only.
LEMMA RunsStep == OutboxInv /\ NumberInv /\ RunInv /\ CellInv /\ [Next]_vars => RunInv'
<1> SUFFICES ASSUME OutboxInv, NumberInv, RunInv, CellInv, [Next]_vars PROVE RunInv'
  OBVIOUS
<1> USE DEF outboxVars, taskVars, closeVars, sinkVars, docVars
<1>0. TypeOK
  BY DEF OutboxInv
<1>1. CASE RunStart \/ RunMeta \/ RunLost
  <2>1. pc # "idle"
    BY <1>1 DEF RunStart, RunMeta, RunLost
  <2> QED
    BY <1>1, <2>1, RunPlain DEF RunStart, RunMeta, RunLost
<1>2. CASE RunBatch \/ RunFinish \/ GateArm \/ GateReadClosed \/ GateReadCredit \/ GateWait
  BY <1>2, RunKept DEF RunBatch, RunFinish, GateArm, GateReadClosed, GateReadCredit, GateWait
<1>3. CASE RunRemove \/ MarkClosed \/ NotifyAfterClose \/ ExpireCheck \/ ExpireRemove \/ DocStop
           \/ UNCHANGED vars
  <2>1. /\ inbox' = inbox /\ connected' = connected /\ (pc' # "idle" => pc # "idle")
        /\ UNCHANGED <<execs, cExec, cTerminal, executionId, terminal, outstanding>>
    BY <1>3 DEF RunRemove, MarkClosed, NotifyAfterClose, ExpireCheck, ExpireRemove, DocStop, vars
  <2> QED
    BY <2>1, RunKept
<1>4. CASE ReportClosed \/ ExpireReport
  <2>1. PICK k \in {"closed", "lost"} :
            \/ inbox' = inbox
            \/ SinkAccepts(Event(k, 0, seq + 1)) \/ SinkRejects
    BY <1>4 DEF ReportClosed, ExpireReport
  <2> DEFINE e == Event(k, 0, seq + 1)
  <2>2. e \in Events /\ e.kind = k /\ e.exec = 0
    BY <1>0 DEF TypeOK, Event, Events, EventKinds
  <2>3. /\ UNCHANGED <<execs, cExec, cTerminal, executionId, terminal, outstanding, connected, pc>>
    BY <1>4 DEF ReportClosed, ExpireReport
  <2>4. inbox' = inbox \/ SinkAccepts(e) \/ SinkRejects
    BY <2>1
  <2> HIDE DEF e
  <2>5. CASE inbox' = inbox
    BY <2>3, <2>5, RunKept
  <2>6. CASE SinkAccepts(e) \/ SinkRejects
    <3>1. Grown(e) \/ Failed
      BY <1>0, <2>2, <2>6, SinkEffect
    <3> QED
      BY <1>0, <2>2, <2>3, <3>1, RunSent
  <2> QED
    BY <2>4, <2>5, <2>6
<1>5. CASE NotifyAfterAck
  <2> DEFINE e == Event("acked", acking.exec, acking.seq)
  <2>1. e \in Events /\ e.kind = "acked"
    BY <1>0 DEF TypeOK, AckPayloads, Event, Events, EventKinds
  <2>2. /\ SinkAccepts(e) \/ SinkRejects
        /\ UNCHANGED <<execs, cExec, cTerminal, executionId, terminal, outstanding, connected, pc>>
    BY <1>5 DEF NotifyAfterAck
  <2> HIDE DEF e
  <2>3. Grown(e) \/ Failed
    BY <1>0, <2>1, <2>2, SinkEffect
  <2> QED
    BY <1>0, <2>1, <2>2, <2>3, RunSent
<1>6. CASE Execute
  <2>1. /\ cExec = 0 /\ execs \in Nat /\ execs' = execs + 1 /\ cExec' = execs + 1
        /\ executionId' = execs + 1 /\ cTerminal' = 0 /\ inbox' = inbox /\ connected' = connected
    BY <1>0, <1>6 DEF Execute, BeginCredit, TypeOK
  <2> QED
    BY <2>1 DEF RunInv, Mail, IsEvent
<1> QED
  BY <1>1, <1>2, <1>3, <1>4, <1>5, <1>6, RunPush, RunTerminal, RunReceive, RunAck
     DEF Next, RunStep, CloseStep, ExpireStep, DocStep


\* The cell stays acknowledgeable when the credit window and the cell stay.
LEMMA CellKept ==
    ASSUME CellInv, connected' => connected,
           UNCHANGED <<outstanding, executionId, terminal, lastAcked, cSeq, cell, refused>>
    PROVE  CellInv'
BY DEF CellInv

\* A cell that can be acknowledged is accepted: it names an entry of the window
\* or the terminal event, and neither is behind MaxAckable.
LEMMA CellAccepted ==
    ASSUME OutboxInv, NumberInv, CellInv, connected, cell # NoAck
    PROVE  AckValid(cell)
<1>1. /\ cell.exec = executionId /\ executionId # 0
      /\ lastAcked < cell.seq /\ cell.seq <= cSeq /\ cSeq <= seq
      /\ cell.seq = terminal \/ \E o \in outstanding : o.seq = cell.seq
  BY DEF CellInv, NumberInv
<1>2. /\ cell.seq \in Nat /\ cSeq \in Nat /\ seq \in Nat /\ lastAcked \in Nat /\ terminal \in Nat
      /\ \A o \in outstanding : o.seq \in Nat
  BY DEF OutboxInv, TypeOK, AckPayloads, Batches
<1>3. CASE terminal # 0
  <2>1. outstanding = {}
    BY <1>3 DEF OutboxInv, SettledSlot
  <2>2. cell.seq <= MaxAckable
    BY <1>1, <1>2, <1>3, <2>1 DEF MaxAckable
  <2> QED
    BY <1>1, <1>2, <2>2 DEF AckValid
<1>4. CASE terminal = 0
  <2>1. PICK o \in outstanding : o.seq = cell.seq
    BY <1>1, <1>2, <1>4
  <2> DEFINE S == {p.seq : p \in outstanding}
  <2>2. \E x \in S : \A y \in S : x >= y
    <3>1. PICK m \in outstanding : \A p \in outstanding : p.seq <= m.seq
      BY <2>1 DEF CellInv
    <3>2. m.seq \in S /\ \A y \in S : m.seq >= y
      BY <1>2, <3>1
    <3> QED
      BY <3>2
  <2>3. Max(S) \in S /\ \A y \in S : Max(S) >= y
    BY <2>2 DEF Max
  <2>4. o.seq \in S
    BY <2>1
  <2>5. MaxAckable = Max(S)
    BY <1>4, <2>1 DEF MaxAckable
  <2>6. Max(S) \in Nat
    BY <1>2, <2>3
  <2> HIDE DEF S
  <2>7. cell.seq <= MaxAckable
    BY <1>2, <2>1, <2>3, <2>4, <2>5, <2>6
  <2> QED
    BY <1>1, <1>2, <2>7 DEF AckValid
<1> QED
  BY <1>3, <1>4

\* Whatever the watch channel coalesced away, what it holds is acknowledgeable.
LEMMA CellStep == OutboxInv /\ NumberInv /\ RunInv /\ CellInv /\ [Next]_vars => CellInv'
<1> SUFFICES ASSUME OutboxInv, NumberInv, RunInv, CellInv, [Next]_vars PROVE CellInv'
  OBVIOUS
<1> USE DEF outboxVars, taskVars, closeVars, sinkVars, docVars
<1>0. /\ TypeOK /\ seq \in Nat /\ cSeq \in Nat /\ lastAcked \in Nat /\ terminal \in Nat
      /\ cell.seq \in Nat /\ \A o \in outstanding : o.seq \in Nat
      /\ execs \in Nat /\ \A o \in outstanding : o.seq <= seq
  BY DEF OutboxInv, TypeOK, AckPayloads, Batches
<1>1. CASE RunStart \/ RunMeta \/ RunLost
  <2>1. /\ connected' = connected
        /\ UNCHANGED <<outstanding, executionId, terminal, lastAcked, cSeq, cell, refused>>
    BY <1>1 DEF RunStart, RunMeta, RunLost
  <2> QED
    BY <2>1, CellKept
<1>2. CASE RunBatch \/ RunFinish \/ GateArm \/ GateReadClosed \/ GateReadCredit \/ GateWait
  <2>1. /\ connected' = connected
        /\ UNCHANGED <<outstanding, executionId, terminal, lastAcked, cSeq, cell, refused>>
    BY <1>2 DEF RunBatch, RunFinish, GateArm, GateReadClosed, GateReadCredit, GateWait
  <2> QED
    BY <2>1, CellKept
<1>3. CASE RunRemove \/ CloseStep \/ ExpireStep \/ DocStop \/ NotifyAfterAck \/ UNCHANGED vars
  <2>1. /\ connected' = connected
        /\ UNCHANGED <<outstanding, executionId, terminal, lastAcked, cSeq, cell, refused>>
    BY <1>3 DEF RunRemove, CloseStep, MarkClosed, NotifyAfterClose, ReportClosed, ExpireStep,
       ExpireCheck, ExpireReport, ExpireRemove, DocStop, NotifyAfterAck, vars
  <2> QED
    BY <2>1, CellKept
<1>4. CASE PushBatch
  <2>1. /\ UNCHANGED <<executionId, terminal, lastAcked, cSeq, cell, refused, connected>>
        /\ \/ outstanding' = outstanding
           \/ outstanding' = outstanding \cup {[seq |-> seq + 1, bytes |-> size]}
    BY <1>4 DEF PushBatch
  <2>2. CASE outstanding' = outstanding
    BY <2>1, <2>2, CellKept
  <2>3. CASE outstanding' = outstanding \cup {[seq |-> seq + 1, bytes |-> size]}
    <3> DEFINE b == [seq |-> seq + 1, bytes |-> size]
    <3>1. b.seq = seq + 1 /\ outstanding' = outstanding \cup {b}
      BY <2>3
    <3> HIDE DEF b
    <3>2. \A p \in outstanding' : p.seq <= b.seq
      BY <1>0, <3>1
    <3>3. outstanding \subseteq outstanding' /\ b \in outstanding'
      BY <3>1
    <3> QED
      BY <2>1, <3>2, <3>3 DEF CellInv
  <2> QED
    BY <2>1, <2>2, <2>3
<1>5. CASE SendTerminal
  <2>1. /\ UNCHANGED <<outstanding, executionId, lastAcked, cSeq, cell, refused, connected>>
        /\ terminal' = terminal \/ ~closed
    BY <1>5 DEF SendTerminal
  <2>2. CASE terminal' = terminal
    BY <2>1, <2>2, CellKept
  <2>3. CASE ~closed
    <3>1. outstanding = {} /\ terminal = 0
      BY <1>5, <2>3 DEF SendTerminal, OutboxInv, SettledSlot
    <3>2. connected => cell = NoAck
      BY <1>0, <3>1 DEF CellInv
    <3> QED
      BY <2>1, <3>1, <3>2 DEF CellInv
  <2> QED
    BY <2>1, <2>2, <2>3
<1>6. CASE Execute
  <2>1. /\ executionId = 0 /\ lastAcked' = 0
        /\ UNCHANGED <<outstanding, cSeq, cell, refused, connected>>
    BY <1>6 DEF Execute, BeginCredit
  <2>2. connected => cell = NoAck
    BY <2>1 DEF CellInv
  <2> QED
    BY <1>0, <2>1, <2>2 DEF CellInv
<1>7. CASE DocReceive
  <2> DEFINE e == Head(inbox)
  <2>1. /\ connected /\ (connected' => connected)
        /\ UNCHANGED <<outstanding, executionId, terminal, lastAcked, refused>>
    BY <1>7 DEF DocReceive
  <2>2. CASE cSeq' = cSeq /\ cell' = cell
    BY <2>1, <2>2, CellKept
  <2>3. CASE e.kind # "acked"
    <3>1. /\ Shortened /\ e = inbox[1] /\ 1 \in 1..Len(inbox)
      BY <1>0, <1>7, TailEffect DEF DocReceive, Shortened
    <3>2. e.seq = cSeq + 1 /\ ~(e.seq <= cSeq) /\ ~(e.seq > cSeq + 1)
      <4>1. e.seq = cSeq + 1
        BY <1>0, <1>7, <2>3, ReceiveNumbers
      <4> QED
        BY <1>0, <4>1
    <3>3. AdmitEvent(e)
      BY <1>7, <2>3, <3>2 DEF DocReceive
    <3>4. cSeq' = cSeq + 1
      BY <3>2, <3>3 DEF AdmitEvent
    <3>5. CASE cell' = cell
      BY <1>0, <2>1, <3>4, <3>5 DEF CellInv
    <3>6. CASE cell' # cell
      <4>1. /\ e.kind \in {"row", "terminal"}
            /\ \E k \in BOOLEAN : cell' = [exec |-> e.exec, seq |-> e.seq, keep |-> k]
        <5>1. cRetain \in BOOLEAN
          BY <1>0 DEF TypeOK
        <5> QED
          BY <3>3, <3>6, <5>1 DEF AdmitEvent
      <4>2. cell'.exec = e.exec /\ cell'.seq = e.seq
        BY <4>1
      <4>3. /\ e.exec # 0 /\ e.exec = executionId
            /\ e.seq = terminal \/ \E o \in outstanding : o.seq = e.seq
        BY <2>1, <2>3, <3>1, <4>1 DEF RunInv, Mail, IsEvent
      <4>4. lastAcked < cell'.seq /\ cell'.seq <= cSeq' /\ lastAcked <= cSeq'
        BY <1>0, <3>2, <3>4, <4>2 DEF CellInv
      <4> HIDE DEF e
      <4> QED
        BY <2>1, <4>2, <4>3, <4>4 DEF CellInv
    <3> QED
      BY <3>5, <3>6
  <2>4. CASE e.kind = "acked"
    BY <1>7, <2>2, <2>4 DEF DocReceive
  <2> QED
    BY <2>3, <2>4
<1>8. CASE DocAck
  <2>1. /\ cell # NoAck /\ connected /\ cell' = NoAck /\ cSeq' = cSeq
        /\ AckValid(cell)
    BY <1>8, CellAccepted DEF DocAck
  <2>2. CASE UNCHANGED outboxVars
    <3>1. refused' = refused
      BY <1>8, <2>1, <2>2 DEF DocAck, Acknowledge
    <3> QED
      BY <2>1, <2>2, <3>1 DEF CellInv
  <2>3. CASE Acknowledge(cell)
    <3>1. /\ outstanding' = {o \in outstanding : o.seq > cell.seq} /\ lastAcked' = cell.seq
          /\ refused' = refused
      BY <1>8, <2>1, <2>3 DEF DocAck, Acknowledge, AckUnnotified
    <3>2. cell.seq <= cSeq
      BY <2>1 DEF CellInv
    <3>3. ASSUME outstanding' # {}
          PROVE  \E o \in outstanding' : \A p \in outstanding' : p.seq <= o.seq
      <4>1. PICK q \in outstanding : q.seq > cell.seq
        BY <3>1, <3>3
      <4>2. PICK o \in outstanding : \A p \in outstanding : p.seq <= o.seq
        BY <4>1 DEF CellInv
      <4>3. o.seq > cell.seq
        BY <1>0, <4>1, <4>2
      <4>4. o \in outstanding' /\ \A p \in outstanding' : p.seq <= o.seq
        BY <3>1, <4>2, <4>3
      <4> QED
        BY <4>4
    <3> QED
      BY <2>1, <3>1, <3>2, <3>3 DEF CellInv
  <2> QED
    BY <1>8, <2>1, <2>2, <2>3 DEF DocAck
<1> QED
  BY <1>1, <1>2, <1>3, <1>4, <1>5, <1>6, <1>7, <1>8 DEF Next, RunStep, DocStep

\* The document's side of the delivery is invariant too.
THEOREM DeliveryCorrect == Spec => []DeliveryInv
<1>1. Init => DeliveryInv
  <2> SUFFICES ASSUME Init PROVE DeliveryInv
    OBVIOUS
  <2>1. /\ Len(inbox) = 1 /\ inbox[1].kind = "meta" /\ inbox[1].exec = 0 /\ inbox[1].seq = 1
        /\ seq = 1 /\ cSeq = 0 /\ ~gap /\ pc = "idle" /\ lastAcked = 0 /\ cell = NoAck
        /\ outstanding = {} /\ ~refused
    BY DEF Init, Event
  <2>2. NumberInv
    BY <2>1 DEF NumberInv, Mail, IsEvent
  <2>3. RunInv
    BY <2>1 DEF RunInv, Mail, IsEvent
  <2>4. CellInv
    BY <2>1 DEF CellInv
  <2> QED
    BY <2>2, <2>3, <2>4, InitInv DEF DeliveryInv
<1>2. OutboxInv => TypeOK
  BY DEF OutboxInv
<1> QED
  BY <1>1, <1>2, OutboxCorrect, NumbersStep, RunsStep, CellStep, PTL DEF Spec, DeliveryInv

\* No sequence gap, and no event of an execution that is not the document's
\* current one: Stream::admit has nothing to drop.
THEOREM OrderCorrect == Spec => []EventsInOrder
<1>1. DeliveryInv => EventsInOrder
  <2> SUFFICES ASSUME DeliveryInv PROVE EventsInOrder
    OBVIOUS
  <2>1. inbox # <<>> => Head(inbox) = inbox[1] /\ 1 \in 1..Len(inbox)
    <3>1. inbox \in Seq(Events)
      BY DEF DeliveryInv, OutboxInv, TypeOK
    <3> QED
      BY <3>1, EmptySeq
  <2> QED
    BY <2>1 DEF DeliveryInv, NumberInv, RunInv, EventsInOrder, Mail, IsEvent
<1> QED
  BY <1>1, DeliveryCorrect, PTL

\* Outbox::acknowledge refuses nothing a live document sends it.
THEOREM AcksCorrect == Spec => []AcksAccepted
<1>1. DeliveryInv => AcksAccepted
  BY DEF DeliveryInv, CellInv, AcksAccepted
<1> QED
  BY <1>1, DeliveryCorrect, PTL

\* The stream of a live document goes on: Stream::admit applies every event, and
\* Outbox::acknowledge takes every acknowledgement.
THEOREM DocumentAlwaysFollows == Spec => []DocumentFollows
<1>1. EventsInOrder /\ AcksAccepted => DocumentFollows
  BY DEF DocumentFollows
<1> QED
  BY <1>1, OrderCorrect, AcksCorrect, PTL

-----------------------------------------------------------------------------
(* The bytes of the window.                                                 *)

\* The batch a sum takes first.
Picked(s) == CHOOSE o \in s : TRUE

\* sums gives each subset of batches the total MapThenSumSet computes for it.
AreSums(sums, batches) ==
    sums = [s \in SUBSET batches |->
                IF s = {} THEN 0
                ELSE Picked(s).bytes + sums[s \ {Picked(s)}]]

SumsOf(batches) == CHOOSE sums : AreSums(sums, batches)

\* SumBytes is the fold of the community modules: the last of those sums.
LEMMA SumBytesIs ==
    ASSUME NEW S
    PROVE  SumBytes(S) = SumsOf(S)[S]
BY DEF SumBytes, MapThenSumSet, MapThenFoldSet, SumsOf, AreSums, Picked

\* A finite set has a smallest subset among any it is asked about.  It stands in
\* for induction: a fact about the subsets has no smallest counterexample.
LEMMA FinMin ==
    ASSUME NEW S, IsFiniteSet(S), NEW T \in SUBSET (SUBSET S), T # {}
    PROVE  \E s \in T : \A u \in SUBSET s : u # s => u \notin T
<1>1. IsWellFoundedOn(StrictSubsetOrdering(S), SUBSET S)
  BY FS_StrictSubsetOrderingWellFounded, FS_FiniteSubsetsOfFinite
<1>2. PICK s \in T : \A u \in T : <<u, s>> \notin StrictSubsetOrdering(S)
  BY <1>1, WFMin
<1> QED BY <1>2 DEF StrictSubsetOrdering

\* What a sum takes first is there to be taken.
LEMMA PickedIn ==
    ASSUME NEW s, s # {}
    PROVE  Picked(s) \in s
BY DEF Picked

\* The recursion, at one subset.
LEMMA SumsAt ==
    ASSUME NEW S, NEW g, AreSums(g, S), NEW s \in SUBSET S
    PROVE  g[s] = IF s = {} THEN 0 ELSE Picked(s).bytes + g[s \ {Picked(s)}]
<1> DEFINE F == [t \in SUBSET S |-> IF t = {} THEN 0 ELSE Picked(t).bytes + g[t \ {Picked(t)}]]
<1>1. F[s] = IF s = {} THEN 0 ELSE Picked(s).bytes + g[s \ {Picked(s)}]
  OBVIOUS
<1>2. g = F
  BY DEF AreSums
<1> HIDE DEF F
<1> QED BY <1>1, <1>2

\* The sums of a set and of a part of it give the part the same total.
LEMMA SumsAgree ==
    ASSUME NEW S, IsFiniteSet(S), NEW w \in SUBSET S,
           NEW g, AreSums(g, S), NEW h, AreSums(h, w)
    PROVE  g[w] = h[w]
<1> DEFINE T == {s \in SUBSET w : g[s] # h[s]}
<1>1. SUFFICES ASSUME T # {} PROVE FALSE
  OBVIOUS
<1>2. T \in SUBSET (SUBSET S)
  OBVIOUS
<1>3. PICK s \in T : \A u \in SUBSET s : u # s => u \notin T
  <2> HIDE DEF T
  <2> QED BY <1>1, <1>2, FinMin
<1>4. s \in SUBSET w /\ s \in SUBSET S
  OBVIOUS
<1>14. \A u \in SUBSET w : u \notin T => g[u] = h[u]
  OBVIOUS
<1>15. s \in T => g[s] # h[s]
  OBVIOUS
<1> HIDE DEF T
<1>5. g[s] = IF s = {} THEN 0 ELSE Picked(s).bytes + g[s \ {Picked(s)}]
  BY <1>4, SumsAt
<1>6. h[s] = IF s = {} THEN 0 ELSE Picked(s).bytes + h[s \ {Picked(s)}]
  BY <1>4, SumsAt
<1>7. s # {}
  BY <1>5, <1>6, <1>15
<1>8. s \ {Picked(s)} \notin T
  BY <1>3, <1>7, PickedIn
<1>9. g[s \ {Picked(s)}] = h[s \ {Picked(s)}]
  BY <1>4, <1>8, <1>14
<1> QED BY <1>5, <1>6, <1>7, <1>9, <1>15

\* Sums that exist are the ones SumsOf chooses.
LEMMA SumsOfSums ==
    ASSUME NEW S, NEW g, AreSums(g, S)
    PROVE  AreSums(SumsOf(S), S)
BY DEF SumsOf

\* One step of SumBytes, where the sums of the whole set and of the rest exist.
LEMMA SumStepIf ==
    ASSUME NEW S, IsFiniteSet(S), AreSums(SumsOf(S), S),
           S # {} => AreSums(SumsOf(S \ {Picked(S)}), S \ {Picked(S)})
    PROVE  SumBytes(S) = IF S = {} THEN 0
                         ELSE Picked(S).bytes + SumBytes(S \ {Picked(S)})
<1>1. SumsOf(S)[S] = IF S = {} THEN 0
                     ELSE Picked(S).bytes + SumsOf(S)[S \ {Picked(S)}]
  BY SumsAt
<1>2. CASE S = {}
  BY <1>1, <1>2, SumBytesIs
<1>3. CASE S # {}
  <2>1. S \ {Picked(S)} \in SUBSET S
    OBVIOUS
  <2>2. SumsOf(S)[S \ {Picked(S)}] = SumsOf(S \ {Picked(S)})[S \ {Picked(S)}]
    BY <1>3, <2>1, SumsAgree
  <2> QED BY <1>1, <1>3, <2>2, SumBytesIs
<1> QED BY <1>2, <1>3

\* The recursion has a solution on every finite set of batches.
LEMMA SumsExist ==
    ASSUME NEW S, IsFiniteSet(S)
    PROVE  AreSums(SumsOf(S), S)
<1> DEFINE T == {s \in SUBSET S : ~AreSums(SumsOf(s), s)}
<1>1. SUFFICES ASSUME T # {} PROVE FALSE
  OBVIOUS
<1>2. PICK s \in T : \A u \in SUBSET s : u # s => u \notin T
  <2>1. T \in SUBSET (SUBSET S)
    OBVIOUS
  <2> HIDE DEF T
  <2> QED BY <1>1, <2>1, FinMin
<1>3. s \in SUBSET S /\ ~AreSums(SumsOf(s), s)
  OBVIOUS
<1>4. ASSUME NEW u \in SUBSET s, u # s PROVE AreSums(SumsOf(u), u) /\ IsFiniteSet(u)
  <2>1. u \in SUBSET S /\ u \notin T
    BY <1>2, <1>3, <1>4
  <2> QED BY <2>1, FS_Subset
<1> HIDE DEF T
<1> DEFINE g == [t \in SUBSET s |-> IF t = {} THEN 0
                   ELSE Picked(t).bytes + SumBytes(t \ {Picked(t)})]
<1>5. ASSUME NEW u \in SUBSET s, u # s PROVE g[u] = SumBytes(u)
  <2>1. g[u] = IF u = {} THEN 0 ELSE Picked(u).bytes + SumBytes(u \ {Picked(u)})
    OBVIOUS
  <2>2. u # {} => u \ {Picked(u)} \in SUBSET s /\ u \ {Picked(u)} # s
    BY <1>5
  <2>3. SumBytes(u) = IF u = {} THEN 0 ELSE Picked(u).bytes + SumBytes(u \ {Picked(u)})
    <3>1. AreSums(SumsOf(u), u) /\ IsFiniteSet(u)
      BY <1>4, <1>5
    <3>2. u # {} => AreSums(SumsOf(u \ {Picked(u)}), u \ {Picked(u)})
      BY <1>4, <2>2
    <3> QED BY <3>1, <3>2, SumStepIf
  <2> HIDE DEF g
  <2> QED BY <2>1, <2>3
<1>6. ASSUME NEW t \in SUBSET s, t # {}
      PROVE  g[t \ {Picked(t)}] = SumBytes(t \ {Picked(t)})
  <2>1. t \ {Picked(t)} \in SUBSET s /\ t \ {Picked(t)} # s
    BY <1>6, PickedIn
  <2> HIDE DEF g
  <2> QED BY <1>5, <2>1
<1>7. AreSums(g, s)
  <2> DEFINE G == [t \in SUBSET s |-> IF t = {} THEN 0 ELSE Picked(t).bytes + g[t \ {Picked(t)}]]
  <2>1. ASSUME NEW t \in SUBSET s PROVE g[t] = G[t]
    <3>1. g[t] = IF t = {} THEN 0 ELSE Picked(t).bytes + SumBytes(t \ {Picked(t)})
      OBVIOUS
    <3>2. G[t] = IF t = {} THEN 0 ELSE Picked(t).bytes + g[t \ {Picked(t)}]
      BY DEF G
    <3> HIDE DEF g, G
    <3> QED BY <1>6, <3>1, <3>2
  <2>2. g = G
    <3>1. g = [t \in SUBSET s |-> g[t]]
      OBVIOUS
    <3>2. G = [t \in SUBSET s |-> G[t]]
      OBVIOUS
    <3> HIDE DEF g, G
    <3> QED BY <2>1, <3>1, <3>2
  <2> HIDE DEF g
  <2> QED BY <2>2 DEF AreSums
<1> HIDE DEF g
<1> QED BY <1>3, <1>7, SumsOfSums

\* SumBytes takes one batch and sums the rest.
LEMMA SumStep ==
    ASSUME NEW S, IsFiniteSet(S)
    PROVE  SumBytes(S) = IF S = {} THEN 0
                         ELSE Picked(S).bytes + SumBytes(S \ {Picked(S)})
<1>1. IsFiniteSet(S \ {Picked(S)})
  BY FS_Subset
<1> QED BY <1>1, SumsExist, SumStepIf

\* The total of natural sizes is natural.
LEMMA SumIsNat ==
    ASSUME NEW S, IsFiniteSet(S), \A o \in S : o.bytes \in Nat
    PROVE  SumBytes(S) \in Nat
<1> DEFINE T == {s \in SUBSET S : SumBytes(s) \notin Nat}
<1>1. SUFFICES ASSUME T # {} PROVE FALSE
  OBVIOUS
<1>2. PICK s \in T : \A u \in SUBSET s : u # s => u \notin T
  <2>1. T \in SUBSET (SUBSET S)
    OBVIOUS
  <2> HIDE DEF T
  <2> QED BY <1>1, <2>1, FinMin
<1>3. SumBytes(s) = IF s = {} THEN 0 ELSE Picked(s).bytes + SumBytes(s \ {Picked(s)})
  <2>1. IsFiniteSet(s)
    BY FS_Subset
  <2> QED BY <2>1, SumStep
<1>4. s # {}
  BY <1>3
<1>5. Picked(s) \in s
  BY <1>4, PickedIn
<1>6. SumBytes(s \ {Picked(s)}) \in Nat
  BY <1>2, <1>5
<1>7. Picked(s).bytes \in Nat
  BY <1>5
<1>8. SumBytes(s) \in Nat
  BY <1>3, <1>4, <1>6, <1>7
<1> QED BY <1>8

\* It does not matter which batch is taken first.
LEMMA SumRemove ==
    ASSUME NEW S, IsFiniteSet(S), \A o \in S : o.bytes \in Nat, NEW x \in S
    PROVE  SumBytes(S) = x.bytes + SumBytes(S \ {x})
<1> DEFINE Off(s) == \E o \in s : SumBytes(s) # o.bytes + SumBytes(s \ {o})
           T == {s \in SUBSET S : Off(s)}
<1>1. SUFFICES ASSUME T # {} PROVE FALSE
  <2>1. T = {} => ~Off(S)
    OBVIOUS
  <2> QED BY <2>1
<1>2. PICK s \in T : \A u \in SUBSET s : u # s => u \notin T
  <2>1. T \in SUBSET (SUBSET S)
    OBVIOUS
  <2> HIDE DEF T
  <2> QED BY <1>1, <2>1, FinMin
<1>3. PICK o \in s : SumBytes(s) # o.bytes + SumBytes(s \ {o})
  OBVIOUS
<1>4. s \in SUBSET S
  OBVIOUS
<1>5. ASSUME NEW u \in SUBSET s, u # s, NEW b \in u
      PROVE  SumBytes(u) = b.bytes + SumBytes(u \ {b})
  BY <1>2, <1>4, <1>5
<1> HIDE DEF T
<1> DEFINE p == Picked(s)
<1>6. p \in s
  BY PickedIn
<1>7. SumBytes(s) = p.bytes + SumBytes(s \ {p})
  BY <1>4, FS_Subset, SumStep
<1>8. p # o
  BY <1>3, <1>7
<1> HIDE DEF p
<1>9. SumBytes(s \ {p}) = o.bytes + SumBytes((s \ {p}) \ {o})
  BY <1>5, <1>6, <1>8
<1>10. SumBytes(s \ {o}) = p.bytes + SumBytes((s \ {o}) \ {p})
  BY <1>5, <1>6, <1>8
<1>11. (s \ {p}) \ {o} = (s \ {o}) \ {p}
  OBVIOUS
<1>12. SumBytes((s \ {o}) \ {p}) \in Nat /\ o.bytes \in Nat /\ p.bytes \in Nat
  <2>1. (s \ {o}) \ {p} \in SUBSET S
    BY <1>4
  <2>2. IsFiniteSet((s \ {o}) \ {p})
    BY <2>1, FS_Subset
  <2>3. SumBytes((s \ {o}) \ {p}) \in Nat
    BY <2>1, <2>2, SumIsNat
  <2>4. o \in S /\ p \in S
    BY <1>4, <1>6
  <2> QED BY <2>3, <2>4
<1>13. SumBytes(s) = p.bytes + (o.bytes + SumBytes((s \ {o}) \ {p}))
  BY <1>7, <1>9, <1>11
<1> QED BY <1>3, <1>10, <1>12, <1>13

\* A part of the window holds no more bytes than the window (acknowledge).
LEMMA SumOfPart ==
    ASSUME NEW S, IsFiniteSet(S), \A o \in S : o.bytes \in Nat, NEW U \in SUBSET S
    PROVE  SumBytes(U) <= SumBytes(S)
<1> DEFINE T == {s \in SUBSET S : U \subseteq s /\ ~(SumBytes(U) <= SumBytes(s))}
<1>1. SUFFICES ASSUME T # {} PROVE FALSE
  OBVIOUS
<1>2. PICK s \in T : \A u \in SUBSET s : u # s => u \notin T
  <2>1. T \in SUBSET (SUBSET S)
    OBVIOUS
  <2> HIDE DEF T
  <2> QED BY <1>1, <2>1, FinMin
<1>3. s \in SUBSET S /\ U \subseteq s /\ ~(SumBytes(U) <= SumBytes(s))
  OBVIOUS
<1>4. SumBytes(U) \in Nat
  BY FS_Subset, SumIsNat
<1>5. PICK x \in s : x \notin U
  BY <1>3, <1>4
<1>6. SumBytes(U) <= SumBytes(s \ {x})
  <2>1. s \ {x} \notin T
    BY <1>2
  <2> QED BY <1>3, <1>5, <2>1
<1> HIDE DEF T
<1>7. IsFiniteSet(s)
  BY <1>3, FS_Subset
<1>8. SumBytes(s) = x.bytes + SumBytes(s \ {x})
  BY <1>3, <1>7, SumRemove
<1>9. SumBytes(s \ {x}) \in Nat /\ x.bytes \in Nat
  <2>1. s \ {x} \in SUBSET S
    BY <1>3
  <2> QED BY <1>3, <2>1, FS_Subset, SumIsNat
<1> QED BY <1>3, <1>4, <1>6, <1>8, <1>9

-----------------------------------------------------------------------------
\* The gate's verdict on the bytes still holds when the batch is pushed.
BytesInv ==
    /\ BytesBounded
    /\ pc = "push" => UsedBytes + size <= ByteBudget

\* The window is finite and its bytes are a natural number.
LEMMA WindowBytes ==
    ASSUME TypeOK
    PROVE  /\ IsFiniteSet(outstanding)
           /\ \A o \in outstanding : o.bytes \in Nat
           /\ UsedBytes \in Nat
           /\ size \in Nat
<1>1. IsFiniteSet(outstanding) /\ outstanding \subseteq Batches /\ size \in BatchSizes \cup {0}
  BY DEF TypeOK
<1>2. BatchSizes \cup {0} \subseteq Nat
  BY OutboxAssumption
<1>3. \A o \in outstanding : o.bytes \in Nat
  BY <1>1, <1>2 DEF Batches
<1> QED
  BY <1>1, <1>2, <1>3, SumIsNat DEF UsedBytes

\* What fitted beside more bytes fits beside fewer.
LEMMA LessFits ==
    ASSUME NEW fewer \in Nat, NEW more \in Nat, NEW held \in Nat, NEW budget \in Nat,
           fewer <= more, more + held <= budget
    PROVE  fewer + held <= budget
OBVIOUS

\* The byte budget survives every step: the gate checks it with the batch at
\* hand, and until the push only acknowledgements touch the window.
LEMMA BytesStep == OutboxInv /\ BytesInv /\ [Next]_vars => BytesInv'
<1> SUFFICES ASSUME OutboxInv, BytesInv, [Next]_vars PROVE BytesInv'
  OBVIOUS
<1> USE DEF outboxVars, taskVars, closeVars, sinkVars, docVars
<1>1. TypeOK /\ TaskInv /\ WindowInv
  BY OutboxInvParts
<1>2. CASE outstanding' = outstanding /\ (pc' = "push" => pc = "push" /\ size' = size)
  <2>1. UsedBytes' = UsedBytes
    BY <1>2 DEF UsedBytes
  <2> QED
    BY <1>2, <2>1 DEF BytesInv, BytesBounded
<1>3. CASE GateReadCredit
  <2>1. outstanding' = outstanding /\ size' = size
        /\ (pc' = "push" => FitsWindow)
    BY <1>3 DEF GateReadCredit
  <2>2. UsedBytes' = UsedBytes
    BY <2>1 DEF UsedBytes
  <2> QED
    BY <2>1, <2>2 DEF BytesInv, BytesBounded, FitsWindow
<1>4. CASE PushBatch
  <2>1. CASE outstanding' = outstanding
    BY <1>2, <1>4, <2>1 DEF PushBatch
  <2>2. CASE outstanding' # outstanding
    <3> DEFINE new == [seq |-> seq + 1, bytes |-> size]
    <3>1. outstanding' = outstanding \cup {new} /\ pc = "push" /\ pc' = "receive"
      BY <1>4, <2>2 DEF PushBatch
    <3>2. new.seq = seq + 1 /\ new.bytes = size /\ seq \in Nat
      BY <1>1 DEF TypeOK
    <3> HIDE DEF new
    <3>3. new \notin outstanding
      BY <1>1, <3>2 DEF WindowInv
    <3>4. IsFiniteSet(outstanding') /\ \A o \in outstanding' : o.bytes \in Nat
      BY <1>1, <3>1, <3>2, WindowBytes, FS_AddElement
    <3>5. SumBytes(outstanding') = new.bytes + SumBytes(outstanding' \ {new})
      BY <3>1, <3>4, SumRemove
    <3>6. outstanding' \ {new} = outstanding
      BY <3>1, <3>3
    <3>7. UsedBytes' = size + UsedBytes
      BY <3>2, <3>5, <3>6 DEF UsedBytes
    <3> QED
      BY <1>1, <3>1, <3>7, WindowBytes DEF BytesInv, BytesBounded
  <2> QED
    BY <2>1, <2>2
<1>5. CASE DocAck
  <2>1. CASE outstanding' = {o \in outstanding : o.seq > cell.seq} /\ pc' = pc /\ size' = size
    <3>1. outstanding' \in SUBSET outstanding
      BY <2>1
    <3>2. SumBytes(outstanding') <= SumBytes(outstanding)
      BY <1>1, <3>1, WindowBytes, SumOfPart
    <3>3. IsFiniteSet(outstanding') /\ \A o \in outstanding' : o.bytes \in Nat
      BY <1>1, <3>1, WindowBytes, FS_Subset
    <3>4. SumBytes(outstanding') \in Nat
      BY <3>3, SumIsNat
    <3>5. UsedBytes' <= UsedBytes /\ UsedBytes' \in Nat
      BY <3>2, <3>4 DEF UsedBytes
    <3>6. UsedBytes \in Nat /\ size \in Nat /\ ByteBudget \in Nat
      BY <1>1, WindowBytes, OutboxAssumption
    <3>7. UsedBytes' <= ByteBudget
      BY <3>5, <3>6 DEF BytesInv, BytesBounded
    <3>8. pc = "push" => UsedBytes' + size <= ByteBudget
      <4> SUFFICES ASSUME pc = "push" PROVE UsedBytes' + size <= ByteBudget
        OBVIOUS
      <4>1. UsedBytes + size <= ByteBudget
        BY DEF BytesInv
      <4> QED
        BY <3>5, <3>6, <4>1, LessFits
    <3> QED
      BY <2>1, <3>7, <3>8 DEF BytesInv, BytesBounded
  <2>2. CASE UNCHANGED <<outboxVars, taskVars>>
    BY <1>2, <2>2
  <2> QED
    BY <1>5, <2>1, <2>2 DEF DocAck, Acknowledge, AckUnnotified
<1>6. CASE RunStart \/ RunMeta \/ RunLost
  BY <1>2, <1>6 DEF RunStart, RunMeta, RunLost, SendPlain
<1>7. CASE RunBatch \/ RunFinish \/ GateArm \/ GateReadClosed \/ GateWait
  BY <1>2, <1>7 DEF RunBatch, RunFinish, GateArm, GateReadClosed, GateWait
<1>8. CASE SendTerminal \/ RunRemove
  BY <1>2, <1>8 DEF SendTerminal, RunRemove
<1>9. CASE CloseStep
  BY <1>2, <1>9 DEF CloseStep, MarkClosed, NotifyAfterClose, ReportClosed
<1>10. CASE ExpireStep
  BY <1>2, <1>10 DEF ExpireStep, ExpireCheck, ExpireReport, ExpireRemove
<1>11. CASE Execute \/ DocReceive \/ NotifyAfterAck \/ DocStop
  BY <1>2, <1>11 DEF Execute, DocReceive, NotifyAfterAck, DocStop
<1>12. CASE UNCHANGED vars
  BY <1>2, <1>12 DEF vars
<1> QED
  BY <1>3, <1>4, <1>5, <1>6, <1>7, <1>8, <1>9, <1>10, <1>11, <1>12 DEF Next, RunStep, DocStep

\* The unacknowledged bytes never exceed the budget, although the gate's check
\* and the push behind it are separate critical sections (send_with_credit).
THEOREM BytesCorrect == Spec => []BytesBounded
<1>1. Init => BytesInv
  <2> SUFFICES ASSUME Init PROVE BytesInv
    OBVIOUS
  <2>1. SumBytes({}) = 0
    BY FS_EmptySet, SumStep
  <2> QED
    BY <2>1, OutboxAssumption DEF Init, BytesInv, BytesBounded, UsedBytes
<1>2. OutboxInv /\ OutboxInv' /\ BytesInv /\ [Next]_vars => BytesInv'
  BY BytesStep
<1>3. BytesInv => BytesBounded
  BY DEF BytesInv
<1> QED
  BY <1>1, <1>2, <1>3, OutboxCorrect, PTL DEF Spec

=============================================================================
