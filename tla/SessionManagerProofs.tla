------------------------ MODULE SessionManagerProofs ------------------------
(***************************************************************************)
(* Proofs about SessionManager for any number of documents, connections,    *)
(* fences and owners: type correctness, the admission limits, and that no   *)
(* session of a fenced connection exists while the fenced change runs.      *)
(***************************************************************************)
EXTENDS SessionManager, FiniteSetTheorems, TLAPS

-----------------------------------------------------------------------------
(* Type correctness.                                                        *)

\* The initial state of a registered workspace is well typed.
LEMMA InitTyped == Init => TypeOK
  BY ManagerAssumption DEF Init, TypeOK, OpenSteps, CloseSteps, Stages, WorkSteps, RetireSteps,
     QuitSteps, Removers, Scopes, NoGate

\* The open's own steps keep every type.
LEMMA OpenTyped ==
    ASSUME TypeOK, NEW d \in Ids, Start(d) \/ OpenStep(d)
    PROVE  TypeOK'
  <1> USE DEF TypeOK, managerVars, socketVars, openVars, fenceVars, callVars, Goto, Continue,
          Return, NothingSeen, OpenSteps
  <1>1. CASE Start(d)
    BY <1>1 DEF Start
  <1>r. ASSUME NEW r \in {"ok", "error"}, Return(d, r)
        PROVE  /\ pc' \in [Ids -> OpenSteps] /\ result' \in [Ids -> {"none", "ok", "error"}]
               /\ seen' \in [Ids -> [version : Nat, gen : Nat]] /\ opened' \in [Ids -> BOOLEAN]
               /\ cancelled' \subseteq Ids /\ crossed' \subseteq Ids
    BY <1>r
  <1>2. CASE Admit(d)
    <2>1. CASE Return(d, "error")
      BY <1>2, <2>1, <1>r DEF Admit
    <2>2. CASE Continue(d, "resolve")
      <3>1. [version |-> version[conn[d]], gen |-> gen[conn[d]]] \in [version : Nat, gen : Nat]
        OBVIOUS
      <3> QED
        BY SMTT(30), <1>2, <2>2, <3>1 DEF Admit
    <2> QED
      BY <1>2, <2>1, <2>2 DEF Admit
  <1>3. CASE Resolve(d)
    <2>1. CASE Return(d, "error")
      BY <1>3, <2>1, <1>r DEF Resolve
    <2>2. CASE Continue(d, "reserve") /\ UNCHANGED <<seen, opened>>
      BY <1>3, <2>2 DEF Resolve
    <2> QED
      BY <1>3, <2>1, <2>2 DEF Resolve
  <1>4. CASE Reserve(d)
    <2>1. CASE Goto(d, "connect")
      BY <1>4, <2>1 DEF Reserve
    <2>2. CASE Goto(d, "regate")
      BY <1>4, <2>2 DEF Reserve
    <2> QED
      BY <1>4, <2>1, <2>2 DEF Reserve
  <1>5. CASE Connect(d) \/ ConnectFails(d)
    BY <1>5 DEF Connect, ConnectFails
  <1>6. CASE Publish(d)
    <2>1. CASE Goto(d, "announce")
      BY <1>6, <2>1 DEF Publish
    <2>2. CASE Goto(d, "regate")
      BY <1>6, <2>2 DEF Publish
    <2> QED
      BY <1>6, <2>1, <2>2 DEF Publish
  <1>7. CASE Announce(d)
    BY <1>7 DEF Announce, Remove
  <1>8. CASE Regate(d)
    <2>1. CASE Continue(d, "remove") /\ gate' = d /\ UNCHANGED <<seen, opened>>
      BY <1>8, <2>1 DEF Regate
    <2>2. ASSUME NEW r \in {"ok", "error"}, Return(d, r), UNCHANGED gate PROVE TypeOK'
      BY <1>8, <2>2, <1>r DEF Regate
    <2> QED
      BY <1>8, <2>1, <2>2 DEF Regate
  <1>9. CASE UndoRemove(d)
    BY <1>9 DEF UndoRemove, Remove
  <1>10. CASE UndoJoin(d)
    BY <1>10 DEF UndoJoin, Join
  <1> QED
    BY <1>1, <1>2, <1>3, <1>4, <1>5, <1>6, <1>7, <1>8, <1>9, <1>10 DEF OpenStep

\* So do the steps of the closes, the owners, the monitor and the sockets.
LEMMA CloseTyped ==
    ASSUME TypeOK, NEW d \in Ids,
           \/ CloseStart(d) \/ CloseStep(d) \/ RegisterRemove(d) \/ ExpireCheck(d)
           \/ ExpireRemove(d) \/ SocketEnds(d)
    PROVE  TypeOK'
  <1> USE DEF TypeOK, managerVars, socketVars, openVars, fenceVars, callVars, CloseSteps
  <1>1. CASE CloseStart(d)
    BY <1>1 DEF CloseStart
  <1>2. CASE CloseGate(d)
    BY <1>2 DEF CloseGate
  <1>3. CASE CloseRemove(d) \/ CloseJoin(d)
    BY SMTT(30), <1>3 DEF CloseRemove, CloseJoin, Remove, Join
  <1>4. CASE RegisterRemove(d) \/ ExpireCheck(d) \/ ExpireRemove(d) \/ SocketEnds(d)
    BY <1>4 DEF RegisterRemove, ExpireCheck, ExpireRemove, SocketEnds, Remove
  <1> QED
    BY <1>1, <1>2, <1>3, <1>4 DEF CloseStep

\* So do the steps of a fence.
LEMMA FenceTyped ==
    ASSUME TypeOK, NEW f \in Fences,
           (\E scopes \in Targets : FenceStart(f, scopes)) \/ FenceStep(f) \/ FencePanic(f)
    PROVE  TypeOK'
  <1> USE DEF TypeOK, managerVars, socketVars, openVars, fenceVars, callVars, WorkSteps, Stages,
          Removers
  <1>1. CASE \E scopes \in Targets : FenceStart(f, scopes)
    BY <1>1, ManagerAssumption DEF FenceStart
  <1>2. ASSUME NEW s \in Scopes, FenceMark(f, s) PROVE TypeOK'
    BY <1>2 DEF FenceMark
  <1>3. ASSUME NEW s \in Scopes, FenceRemove(f, s) PROVE TypeOK'
    BY <1>3 DEF FenceRemove, TakeVictims
  <1>4. ASSUME NEW s \in Scopes, FenceJoin(f, s) PROVE TypeOK'
    BY <1>4 DEF FenceJoin, JoinVictims, Join
  <1>5. ASSUME NEW s \in Scopes, FenceRelease(f, s) PROVE TypeOK'
    <2>1. gen' \in [Conns -> Nat]
      BY <1>5 DEF FenceRelease, Scopes
    <2>2. stage' \in [Fences -> [Scopes -> Stages]]
      BY <1>5 DEF FenceRelease
    <2>3. work' \in [Fences -> WorkSteps] /\ gate' \in {NoGate, "retire"} \cup Ids \cup Fences
      BY <1>5 DEF FenceRelease
    <2> QED
      BY <1>5, <2>1, <2>2, <2>3 DEF FenceRelease
  <1>6. CASE FenceRaised(f)
    BY <1>6 DEF FenceRaised
  <1>7. CASE FencePanic(f)
    BY <1>7 DEF FencePanic
  <1>8. CASE FenceWork(f)
    <2>1. version' \in [Conns -> Nat]
      <3>1. CASE UNCHANGED version
        BY <3>1
      <3>2. CASE version' = [c \in Conns |-> IF {c, All} \cap target[f] # {} THEN version[c] + 1
                                             ELSE version[c]]
        BY <3>2
      <3> QED
        BY <1>8, <3>1, <3>2 DEF FenceWork
    <2>2. work' \in [Fences -> WorkSteps]
      BY <1>8 DEF FenceWork
    <2> QED
      BY <1>8, <2>1, <2>2 DEF FenceWork
  <1> QED
    BY <1>1, <1>2, <1>3, <1>4, <1>5, <1>6, <1>7, <1>8 DEF FenceStep

\* So do retirement, registration and shutdown.
LEMMA WindowTyped ==
    ASSUME TypeOK, RetireStart \/ RetireStep \/ Register \/ QuitStart \/ QuitStep
    PROVE  TypeOK'
  <1> USE DEF TypeOK, managerVars, socketVars, openVars, fenceVars, callVars, RetireSteps,
          QuitSteps, Removers
  <1>1. CASE RetireStart \/ Register
    BY <1>1 DEF RetireStart, Register
  <1>2. CASE RetireStep
    BY <1>2 DEF RetireStep, RetireRemove, RetireJoin, RetireRest, TakeVictims, JoinVictims, Join
  <1>3. CASE QuitStart \/ QuitMark
    BY <1>3 DEF QuitStart, QuitMark, Scopes
  <1>6. CASE QuitDrained \/ QuitClear
    BY <1>6 DEF QuitDrained, QuitClear
  <1>4. CASE QuitRemove \/ QuitJoin
    BY <1>4 DEF QuitRemove, QuitJoin, TakeVictims, JoinVictims, Join
  <1>5. CASE QuitForced
    BY <1>5 DEF QuitForced, NothingSeen, OpenSteps, CloseSteps, WorkSteps
  <1> QED
    BY <1>1, <1>2, <1>3, <1>4, <1>5, <1>6 DEF QuitStep

\* Every step keeps every type.
LEMMA TypeStep == TypeOK /\ [Next]_vars => TypeOK'
  <1> SUFFICES ASSUME TypeOK, [Next]_vars PROVE TypeOK'
    OBVIOUS
  <1>1. CASE UNCHANGED vars
    BY <1>1 DEF TypeOK, vars, managerVars, socketVars, openVars, fenceVars, callVars
  <1> QED
    BY <1>1, OpenTyped, CloseTyped, FenceTyped, WindowTyped DEF Next

\* The manager's maps and every actor's progress stay well typed.
THEOREM TypeCorrect == Spec => []TypeOK
  BY InitTyped, TypeStep, PTL DEF Spec

-----------------------------------------------------------------------------
(* The lifecycle gate.                                                      *)

\* Whoever is inside a gated stretch holds development_gate, and a document's
\* open and close are not both inside.
GateHeld ==
    /\ \A f \in Fences : work[f] \in {"begin", "work", "release"} => gate = f
    /\ \A d \in Ids : pc[d] \in {"remove", "join"} => gate = d
    /\ \A d \in Ids : closer[d] \in {"remove", "join"}
                       => gate = d /\ pc[d] \notin {"remove", "join"}
    /\ retire # "none" => gate = "retire"

\* The steps of an open keep the gate exclusive: it is taken only when free and
\* given back only by its holder.
LEMMA OpenGated ==
    ASSUME TypeOK, GateHeld, NEW d \in Ids, Start(d) \/ OpenStep(d)
    PROVE  GateHeld'
  <1> USE ManagerAssumption DEF TypeOK, GateHeld, NoGate, fenceVars, callVars, Goto
  <1>1. CASE \/ Start(d) \/ Admit(d) \/ Resolve(d) \/ Reserve(d) \/ Connect(d)
             \/ ConnectFails(d) \/ Publish(d) \/ Announce(d) \/ UndoRemove(d)
    <2>1. UNCHANGED <<work, closer, retire, gate>>
      BY <1>1 DEF Start, Admit, Resolve, Reserve, Connect, ConnectFails, Publish, Announce,
         UndoRemove
    <2>2. \A e \in Ids : pc'[e] \in {"remove", "join"} => pc[e] \in {"remove", "join"}
      BY <1>1 DEF Start, Admit, Resolve, Reserve, Connect, ConnectFails, Publish, Announce,
         UndoRemove, Continue, Return
    <2> QED
      BY <2>1, <2>2
  <1>2. CASE Regate(d)
    BY <1>2 DEF Regate, Continue, Return
  <1>3. CASE UndoJoin(d)
    BY <1>3 DEF UndoJoin, Return
  <1> QED
    BY <1>1, <1>2, <1>3 DEF OpenStep

\* So do the steps of a close and the ungated ones.
LEMMA CloseGated ==
    ASSUME TypeOK, GateHeld, NEW d \in Ids,
           \/ CloseStart(d) \/ CloseStep(d) \/ RegisterRemove(d) \/ ExpireCheck(d)
           \/ ExpireRemove(d) \/ SocketEnds(d)
    PROVE  GateHeld'
  <1> USE ManagerAssumption DEF TypeOK, GateHeld, NoGate, openVars, fenceVars, callVars
  <1>1. CASE CloseStart(d)
    BY <1>1 DEF CloseStart
  <1>2. CASE CloseGate(d)
    BY <1>2 DEF CloseGate
  <1>3. CASE CloseRemove(d)
    BY <1>3 DEF CloseRemove
  <1>5. CASE CloseJoin(d)
    BY <1>5 DEF CloseJoin
  <1>4. CASE RegisterRemove(d) \/ ExpireCheck(d) \/ ExpireRemove(d) \/ SocketEnds(d)
    BY <1>4 DEF RegisterRemove, ExpireCheck, ExpireRemove, SocketEnds
  <1> QED
    BY <1>1, <1>2, <1>3, <1>4, <1>5 DEF CloseStep

\* So do the steps of a fence, the panic included.
LEMMA FenceGated ==
    ASSUME TypeOK, GateHeld, NEW f \in Fences,
           (\E scopes \in Targets : FenceStart(f, scopes)) \/ FenceStep(f) \/ FencePanic(f)
    PROVE  GateHeld'
  <1> USE ManagerAssumption DEF TypeOK, GateHeld, NoGate, openVars, fenceVars, callVars
  <1>1. CASE \E scopes \in Targets : FenceStart(f, scopes)
    BY <1>1 DEF FenceStart
  <1>2. CASE \E s \in Scopes : FenceMark(f, s) \/ FenceRemove(f, s) \/ FenceJoin(f, s)
    BY <1>2 DEF FenceMark, FenceRemove, FenceJoin
  <1>3. CASE FenceRaised(f) \/ FenceWork(f)
    BY <1>3 DEF FenceRaised, FenceWork
  <1>5. CASE FencePanic(f)
    BY <1>5 DEF FencePanic
  <1>4. CASE \E s \in Scopes : FenceRelease(f, s)
    BY SMTT(30), <1>4 DEF FenceRelease
  <1> QED
    BY <1>1, <1>2, <1>3, <1>4, <1>5 DEF FenceStep

\* So do retirement, registration and shutdown, whose abort of every task frees
\* the gate.
LEMMA WindowGated ==
    ASSUME TypeOK, GateHeld, RetireStart \/ RetireStep \/ Register \/ QuitStart \/ QuitStep
    PROVE  GateHeld'
  <1> USE ManagerAssumption DEF TypeOK, GateHeld, NoGate, openVars, fenceVars, callVars
  <1>1. CASE RetireStart \/ Register
    BY <1>1 DEF RetireStart, Register
  <1>2. CASE RetireStep
    BY <1>2 DEF RetireStep, RetireRemove, RetireJoin, RetireRest
  <1>3. CASE QuitStart \/ QuitMark \/ QuitDrained \/ QuitClear \/ QuitRemove \/ QuitJoin
    BY <1>3 DEF QuitStart, QuitMark, QuitDrained, QuitClear, QuitRemove, QuitJoin
  <1>4. CASE QuitForced
    BY <1>4 DEF QuitForced, Opening
  <1> QED
    BY <1>1, <1>2, <1>3, <1>4 DEF QuitStep

\* development_gate excludes the gated stretches of opens, closes, fences and the
\* retirement from each other, whatever the shutdown aborts.
THEOREM GateExcludes == Spec => [](TypeOK /\ GateHeld)
  <1>1. Init => GateHeld
    BY DEF Init, GateHeld
  <1>2. TypeOK /\ GateHeld /\ [Next]_vars => GateHeld'
    <2> SUFFICES ASSUME TypeOK, GateHeld, [Next]_vars PROVE GateHeld'
      OBVIOUS
    <2>1. CASE UNCHANGED vars
      BY <2>1 DEF GateHeld, vars, openVars, fenceVars, callVars
    <2> QED
      BY <2>1, OpenGated, CloseGated, FenceGated, WindowGated DEF Next
  <1> QED
    BY <1>1, <1>2, TypeCorrect, PTL DEF Spec
-----------------------------------------------------------------------------
(* The fence, when no change panics.                                        *)

Raising(f) == work[f] \in {"begin", "work"}

\* A raised fence stays marked, and what it removed stays away, until the fence
\* itself lets go: the marks are a set that every fence and the shutdown share.
FenceInv ==
    /\ \A f \in Fences : work[f] = "late" => quit \in {"clear", "done"}
    /\ quit \in {"clear", "done"} => \A f \in Fences : work[f] \in {"idle", "late", "over"}
    /\ \A f \in Fences : Raising(f) => \A s \in Scopes :
          /\ stage[f][s] \in {"remove", "join", "up"} => s \in closing
          /\ stage[f][s] \in {"join", "up"} => \A d \in sessions : ~InScope(d, s)
    /\ \A f \in Fences : work[f] = "work" => \A s \in target[f] : stage[f][s] = "up"

\* A step that leaves fences, marks and shutdown alone and publishes nothing.
LEMMA FenceAside ==
    ASSUME FenceInv, UNCHANGED <<work, stage, target, closing, conn, quit>>,
           sessions' \subseteq sessions
    PROVE  FenceInv'
  BY DEF FenceInv, Raising, InScope

\* The steps of an open: only Publish adds a session, and it looks at the marks.
LEMMA OpenFenced ==
    ASSUME TypeOK, FenceInv, NEW d \in Ids, Start(d) \/ OpenStep(d)
    PROVE  FenceInv'
  <1>1. CASE Publish(d) /\ MayPublish(d)
    <2>1. /\ UNCHANGED <<work, stage, target, closing, conn, quit>>
          /\ sessions' = sessions \cup {d}
      BY <1>1 DEF Publish, fenceVars, callVars
    <2>2. \A s \in closing : ~InScope(d, s)
      BY <1>1 DEF MayPublish, Fenced, InScope
    <2> QED
      BY <2>1, <2>2 DEF FenceInv, Raising, InScope
  <1>2. CASE ~(Publish(d) /\ MayPublish(d))
    <2>1. UNCHANGED <<work, stage, target, closing, conn, quit>> /\ sessions' \subseteq sessions
      BY <1>2 DEF OpenStep, Start, Admit, Resolve, Reserve, Connect, ConnectFails, Publish,
         Announce, Regate, UndoRemove, UndoJoin, Remove, managerVars, fenceVars, callVars
    <2> QED
      BY <2>1, FenceAside
  <1> QED
    BY <1>1, <1>2

\* The steps of a fence: under the gate it is the only one up, and a mark is taken
\* down by its own fence, or by a task left behind once the shutdown is over.
LEMMA FenceFenced ==
    ASSUME TypeOK, GateHeld, FenceInv, MaxPanics = 0, NEW f \in Fences,
           (\E scopes \in Targets : FenceStart(f, scopes)) \/ FenceStep(f) \/ FencePanic(f)
    PROVE  FenceInv'
  <1> USE ManagerAssumption DEF TypeOK, FenceInv, Raising, InScope, managerVars, openVars, callVars
  <1>1. CASE \E scopes \in Targets : FenceStart(f, scopes)
    BY <1>1 DEF FenceStart
  <1>2. ASSUME NEW s \in Scopes, FenceMark(f, s) PROVE FenceInv'
    BY <1>2 DEF FenceMark
  <1>3. ASSUME NEW s \in Scopes, FenceRemove(f, s) PROVE FenceInv'
    BY <1>3 DEF FenceRemove, TakeVictims
  <1>4. ASSUME NEW s \in Scopes, FenceJoin(f, s) PROVE FenceInv'
    BY <1>4 DEF FenceJoin
  <1>5. CASE FenceRaised(f)
    BY <1>5 DEF FenceRaised
  <1>6. CASE FenceWork(f)
    BY <1>6 DEF FenceWork
  <1>7. CASE FencePanic(f)
    BY <1>7 DEF FencePanic
  <1>8. ASSUME NEW s \in Scopes, FenceRelease(f, s) PROVE FenceInv'
    <2>1. \A g \in Fences : ~Raising(g)
      BY <1>8 DEF FenceRelease, GateHeld
    <2>2. \A g \in Fences : work'[g] = work[g] \/ work'[g] = "over"
      BY <1>8 DEF FenceRelease
    <2> QED
      BY <1>8, <2>1, <2>2 DEF FenceRelease
  <1> QED
    BY <1>1, <1>2, <1>3, <1>4, <1>5, <1>6, <1>7, <1>8 DEF FenceStep

\* The shutdown adds its mark, waits for the fences or aborts them.
LEMMA QuitFenced ==
    ASSUME TypeOK, FenceInv, QuitStart \/ QuitStep
    PROVE  FenceInv'
  <1> USE DEF TypeOK, FenceInv, Raising, InScope, managerVars, openVars, fenceVars
  <1>1. CASE QuitStart \/ QuitMark
    BY <1>1 DEF QuitStart, QuitMark
  <1>2. CASE QuitRemove \/ QuitJoin
    BY <1>2 DEF QuitRemove, QuitJoin, TakeVictims
  <1>3. CASE QuitDrained \/ QuitClear
    BY <1>3 DEF QuitDrained, QuitClear
  <1>4. CASE QuitForced
    BY <1>4 DEF QuitForced, WorkSteps
  <1> QED
    BY <1>1, <1>2, <1>3, <1>4 DEF QuitStep

\* FenceInv is preserved by every step.
LEMMA FenceInvStep ==
    ASSUME TypeOK, GateHeld, FenceInv, MaxPanics = 0, [Next]_vars
    PROVE  FenceInv'
  <1>1. CASE \/ UNCHANGED vars \/ RetireStart \/ RetireStep \/ Register
             \/ \E d \in Ids : \/ CloseStart(d) \/ CloseStep(d) \/ RegisterRemove(d)
                               \/ ExpireCheck(d) \/ ExpireRemove(d) \/ SocketEnds(d)
    <2>1. UNCHANGED <<work, stage, target, closing, conn, quit>> /\ sessions' \subseteq sessions
      BY <1>1 DEF vars, RetireStart, RetireStep, RetireRemove, RetireJoin, RetireRest, Register,
         CloseStart, CloseStep, CloseGate, CloseRemove, CloseJoin, RegisterRemove, ExpireCheck,
         ExpireRemove, SocketEnds, Remove, TakeVictims, managerVars, openVars, fenceVars, callVars
    <2> QED
      BY <2>1, FenceAside
  <1> QED
    BY <1>1, OpenFenced, FenceFenced, QuitFenced DEF Next

\* While a fenced change runs, no session of its scopes is in the map, for any
\* number of documents, connections and fences; unless a change panics, in which
\* case the release that FenceGuard spawns may take down a later fence's mark.
THEOREM FenceQuietAlways ==
    ASSUME MaxPanics = 0
    PROVE  Spec => []FenceQuiet
  <1>1. Init => FenceInv
    BY DEF Init, FenceInv, Raising
  <1>2. TypeOK /\ GateHeld /\ FenceInv /\ [Next]_vars => FenceInv'
    BY FenceInvStep
  <1>3. TypeOK /\ FenceInv => FenceQuiet
    BY DEF TypeOK, FenceInv, Raising, FenceQuiet
  <1> QED
    BY <1>1, <1>2, <1>3, GateExcludes, PTL DEF Spec
-----------------------------------------------------------------------------
(* Sockets and their records.                                               *)

\* A connect that may still bring a socket up has a record, or its group has
\* latched the abort; behind the shutdown there is neither socket nor connect.
SocketInv ==
    /\ SocketsRecorded
    /\ \A d \in Ids : pc[d] = "connect" => d \in records \cup aborted
    /\ quit \in {"clear", "done"} => alive = {} /\ \A d \in Ids : ~Opening(d)

\* Joining a set of sessions takes each socket down together with its record.
LEMMA JoinRecorded ==
    ASSUME SocketInv, NEW ids, Join(ids), quit' = quit,
           \A d \in Ids : pc'[d] # pc[d] => pc'[d] = "done"
    PROVE  SocketInv'
  BY DEF SocketInv, SocketsRecorded, Join, Opening

\* A step that at most ends opens and sockets, or starts an open before the shutdown.
LEMMA SocketAside ==
    ASSUME SocketInv, UNCHANGED <<records, aborted, quit>>, alive' \subseteq alive,
           \A d \in Ids : /\ pc'[d] = "connect" => pc[d] = "connect"
                          /\ Opening(d)' => Opening(d) \/ quit = "no"
    PROVE  SocketInv'
  BY DEF SocketInv, SocketsRecorded

\* The steps of an open.
LEMMA OpenRecorded ==
    ASSUME TypeOK, SocketInv, NEW d \in Ids, Start(d) \/ OpenStep(d)
    PROVE  SocketInv'
  <1> USE DEF TypeOK, Goto, managerVars, socketVars, callVars
  <1>1. CASE \/ Start(d) \/ Admit(d) \/ Resolve(d) \/ ConnectFails(d) \/ Publish(d)
             \/ Announce(d) \/ Regate(d) \/ UndoRemove(d)
    <2>1. UNCHANGED <<records, aborted, quit>> /\ alive' \subseteq alive
      BY <1>1 DEF Start, Admit, Resolve, ConnectFails, Publish, Announce, Regate, UndoRemove
    <2>2. \A e \in Ids : /\ pc'[e] = "connect" => pc[e] = "connect"
                         /\ Opening(e)' => Opening(e) \/ quit = "no"
      BY <1>1 DEF Start, Admit, Resolve, ConnectFails, Publish, Announce, Regate, UndoRemove,
         Continue, Return, Opening
    <2> QED
      BY <2>1, <2>2, SocketAside
  <1>2. CASE Reserve(d)
    BY <1>2 DEF Reserve, SocketInv, SocketsRecorded, Opening
  <1>3. CASE Connect(d)
    BY <1>3 DEF Connect, SocketInv, SocketsRecorded, Opening
  <1>4. CASE UndoJoin(d)
    <2>1. Join({d}) /\ quit' = quit /\ pc' = [pc EXCEPT ![d] = "done"]
      BY <1>4 DEF UndoJoin, Return
    <2> QED
      BY <2>1, JoinRecorded
  <1> QED
    BY <1>1, <1>2, <1>3, <1>4 DEF OpenStep

\* SocketInv is preserved by every step.
LEMMA SocketAlways == Spec => [](TypeOK /\ SocketInv)
  <1>1. Init => SocketInv
    BY DEF Init, SocketInv, SocketsRecorded
  <1>2. TypeOK /\ SocketInv /\ [Next]_vars => SocketInv'
    <2> SUFFICES ASSUME TypeOK, SocketInv, [Next]_vars PROVE SocketInv'
      OBVIOUS
    <2> USE DEF managerVars, socketVars, openVars, callVars
    <2>1. CASE \E d \in Ids : CloseJoin(d)
      BY <2>1, JoinRecorded DEF CloseJoin
    <2>2. CASE \E f \in Fences, t \in Scopes : FenceJoin(f, t)
      BY <2>2, JoinRecorded DEF FenceJoin, JoinVictims
    <2>3. CASE RetireJoin \/ RetireRest
      BY <2>3, JoinRecorded DEF RetireJoin, RetireRest, JoinVictims
    <2>4. CASE QuitJoin
      BY <2>4 DEF QuitJoin, JoinVictims, Join, SocketInv, SocketsRecorded, Opening
    <2>5. CASE QuitStart \/ QuitMark \/ QuitRemove \/ QuitDrained \/ QuitForced \/ QuitClear
      BY <2>5 DEF TypeOK, QuitStart, QuitMark, QuitRemove, QuitDrained, QuitForced, QuitClear,
         SocketInv, SocketsRecorded, Opening, OpenSteps
    <2>6. CASE \/ UNCHANGED vars \/ RetireStart \/ RetireRemove \/ Register
               \/ \E d \in Ids : \/ CloseStart(d) \/ CloseGate(d) \/ CloseRemove(d)
                                 \/ RegisterRemove(d) \/ ExpireCheck(d) \/ ExpireRemove(d)
                                 \/ SocketEnds(d)
      <3>1. UNCHANGED <<records, aborted, quit, pc>> /\ alive' \subseteq alive
        BY <2>6 DEF vars, RetireStart, RetireRemove, Register, CloseStart, CloseGate, CloseRemove,
           RegisterRemove, ExpireCheck, ExpireRemove, SocketEnds
      <3> QED
        BY <3>1, SocketAside DEF Opening
    <2>7. CASE \E f \in Fences :
                 \/ \E scopes \in Targets : FenceStart(f, scopes)
                 \/ \E t \in Scopes : FenceMark(f, t) \/ FenceRemove(f, t) \/ FenceRelease(f, t)
                 \/ FenceRaised(f) \/ FenceWork(f) \/ FencePanic(f)
      <3>1. UNCHANGED <<records, aborted, quit, pc, alive>>
        BY ZenonT(30), <2>7 DEF FenceStart, FenceMark, FenceRemove, FenceRelease, FenceRaised, FenceWork,
           FencePanic
      <3> QED
        BY <3>1, SocketAside DEF Opening
    <2> QED
      BY <2>1, <2>2, <2>3, <2>4, <2>5, <2>6, <2>7, OpenRecorded
         DEF Next, CloseStep, FenceStep, RetireStep, QuitStep
  <1> QED
    BY <1>1, <1>2, TypeCorrect, PTL DEF Spec

\* Every live socket has a record at every moment, so that a close, a fence, a
\* retirement or the shutdown can still join it.
THEOREM SocketsAlwaysRecorded == Spec => []SocketsRecorded
  <1>1. SocketInv => SocketsRecorded
    BY DEF SocketInv
  <1> QED
    BY <1>1, SocketAlways, PTL

-----------------------------------------------------------------------------
(* The reservations.                                                        *)

\* No step of an open, a caller or the shutdown leaves a reservation behind, and
\* none gives back one that a connect still needs.
THEOREM ReservationsAlwaysHeld == Spec => []ReservationsHeld
  <1>1. Init => ReservationsHeld
    BY DEF Init, ReservationsHeld
  <1>2. TypeOK /\ SocketInv /\ ReservationsHeld /\ [Next]_vars => ReservationsHeld'
    <2> SUFFICES ASSUME TypeOK, SocketInv, ReservationsHeld, [Next]_vars PROVE ReservationsHeld'
      OBVIOUS
    <2> USE DEF managerVars, openVars, callVars
    <2>1. ASSUME NEW d \in Ids, Start(d) \/ OpenStep(d) PROVE ReservationsHeld'
      <3>1. quit' = quit /\ \A e \in Ids \ {d} : pc'[e] = pc[e] /\ (e \in opening' <=> e \in opening)
        BY <2>1 DEF TypeOK, OpenStep, Start, Admit, Resolve, Reserve, Connect, ConnectFails,
           Publish, Announce, Regate, UndoRemove, UndoJoin, Goto, Continue, Return
      <3>2. opening' \subseteq Ids
        BY <2>1, TypeStep DEF TypeOK
      <3>3. CASE quit # "clear"
        <4>1. d \in opening' <=> pc'[d] \in {"connect", "publish"}
          BY <2>1, <3>3 DEF TypeOK, OpenStep, Start, Admit, Resolve, Reserve, Connect, ConnectFails,
             Publish, Announce, Regate, UndoRemove, UndoJoin, Goto, Continue, Return,
             ReservationsHeld, Admissible
        <4>2. \A e \in Ids : e \in opening' <=> pc'[e] \in {"connect", "publish"}
          BY <3>1, <3>3, <4>1 DEF ReservationsHeld
        <4> QED
          BY <3>2, <4>2 DEF ReservationsHeld
      <3> QED
        BY <3>1, <3>3 DEF ReservationsHeld
    <2>2. CASE UNCHANGED <<opening, pc, quit>>
      BY <2>2 DEF ReservationsHeld
    <2>3. ASSUME NEW d \in Ids, \/ CloseStart(d) \/ CloseStep(d) \/ RegisterRemove(d)
                                \/ ExpireCheck(d) \/ ExpireRemove(d) \/ SocketEnds(d)
          PROVE  UNCHANGED <<opening, pc, quit>>
      BY <2>3 DEF CloseStart, CloseStep, CloseGate, CloseRemove, CloseJoin, RegisterRemove,
         ExpireCheck, ExpireRemove, SocketEnds
    <2>4. ASSUME NEW f \in Fences, (\E scopes \in Targets : FenceStart(f, scopes))
                                   \/ FenceStep(f) \/ FencePanic(f)
          PROVE  UNCHANGED <<opening, pc, quit>>
      BY <2>4 DEF FenceStart, FenceStep, FenceMark, FenceRemove, FenceJoin, FenceRaised, FenceWork,
         FencePanic, FenceRelease
    <2>5. ASSUME UNCHANGED vars \/ RetireStart \/ RetireStep \/ Register
          PROVE  UNCHANGED <<opening, pc, quit>>
      BY <2>5 DEF vars, RetireStart, RetireStep, RetireRemove, RetireJoin, RetireRest, Register
    <2>6. CASE QuitStart \/ QuitStep
      BY <2>6 DEF QuitStart, QuitStep, QuitMark, QuitRemove, QuitJoin, QuitDrained, QuitForced,
         QuitClear, ReservationsHeld, SocketInv, Opening
    <2> QED
      BY <2>1, <2>2, <2>3, <2>4, <2>5, <2>6 DEF Next
  <1> QED
    BY <1>1, <1>2, SocketAlways, PTL DEF Spec

-----------------------------------------------------------------------------
(* The admission limits.                                                    *)

\* An open that connects holds its reservation until it publishes or fails.
LimitsInv ==
    /\ \A d \in Ids : pc[d] \in {"connect", "publish"} => d \in opening
    /\ LimitsHold

\* The three counts of check_admission are numbers, and smaller for fewer sessions.
LEMMA CountsShrink ==
    ASSUME TypeOK, NEW S \in SUBSET Ids, NEW T \in SUBSET S
    PROVE  /\ Cardinality(S) \in Nat /\ Cardinality(T) \in Nat
           /\ Cardinality(T) <= Cardinality(S)
           /\ \A c \in Conns : /\ Cardinality(On(c, S)) \in Nat /\ Cardinality(On(c, T)) \in Nat
                               /\ Cardinality(On(c, T)) <= Cardinality(On(c, S))
           /\ Cardinality(Active(S)) \in Nat /\ Cardinality(Active(T)) \in Nat
           /\ Cardinality(Active(T)) <= Cardinality(Active(S))
           /\ IsFiniteSet(S) /\ IsFiniteSet(Active(S)) /\ \A c \in Conns : IsFiniteSet(On(c, S))
  <1>1. IsFiniteSet(S) /\ IsFiniteSet(T) /\ Cardinality(T) <= Cardinality(S)
    BY FS_Subset, ManagerAssumption
  <1>2. ASSUME NEW c \in Conns
        PROVE  /\ IsFiniteSet(On(c, S)) /\ IsFiniteSet(On(c, T))
               /\ Cardinality(On(c, T)) <= Cardinality(On(c, S))
    <2>1. On(c, S) \in SUBSET S /\ On(c, T) \in SUBSET On(c, S)
      BY DEF On
    <2>2. IsFiniteSet(On(c, S))
      BY <1>1, <2>1, FS_Subset
    <2> QED
      BY <2>1, <2>2, FS_Subset
  <1>3. IsFiniteSet(Active(S))
    <2> DEFINE image == [e \in S |-> conn[e]]
    <2>1. image \in Surjection(S, Active(S))
      BY DEF Surjection, Active
    <2> QED
      BY <2>1, <1>1, FS_Surjection
  <1>4. Active(T) \in SUBSET Active(S)
    BY DEF Active
  <1>5. IsFiniteSet(Active(T)) /\ Cardinality(Active(T)) <= Cardinality(Active(S))
    BY <1>3, <1>4, FS_Subset
  <1> QED
    BY <1>1, <1>2, <1>3, <1>5, FS_CardinalityType

\* A step after which no session or reservation is new keeps the limits.
LEMMA LimitsAside ==
    ASSUME TypeOK, LimitsInv, conn' = conn,
           sessions' \cup opening' \subseteq sessions \cup opening,
           \A d \in Ids : pc'[d] \in {"connect", "publish"} => d \in opening'
    PROVE  LimitsInv'
  <1> DEFINE S == sessions \cup opening
             T == sessions' \cup opening'
  <1>1. S \in SUBSET Ids /\ T \in SUBSET S
    BY DEF TypeOK
  <1> HIDE DEF S, T
  <1>2. /\ Cardinality(T) <= Cardinality(S) /\ Cardinality(Active(T)) <= Cardinality(Active(S))
        /\ Cardinality(T) \in Nat /\ Cardinality(S) \in Nat
        /\ Cardinality(Active(T)) \in Nat /\ Cardinality(Active(S)) \in Nat
        /\ \A c \in Conns : /\ Cardinality(On(c, T)) <= Cardinality(On(c, S))
                            /\ Cardinality(On(c, T)) \in Nat /\ Cardinality(On(c, S)) \in Nat
    BY <1>1, CountsShrink
  <1>3. /\ Cardinality(S) <= MaxSessions /\ Cardinality(Active(S)) <= MaxActive
        /\ \A c \in Conns : Cardinality(On(c, S)) <= MaxPerConnection
    BY DEF LimitsInv, LimitsHold, S
  <1>4. /\ Cardinality(T) <= MaxSessions /\ Cardinality(Active(T)) <= MaxActive
        /\ \A c \in Conns : Cardinality(On(c, T)) <= MaxPerConnection
    BY <1>2, <1>3, ManagerAssumption
  <1>5. Active(sessions \cup opening)' = Active(T)
    BY DEF Active, T
  <1>6. \A c \in Conns : On(c, sessions \cup opening)' = On(c, T)
    BY DEF On, T
  <1>7. LimitsHold'
    BY <1>4, <1>5, <1>6 DEF LimitsHold, T
  <1> QED
    BY <1>7 DEF LimitsInv
\* Two finite sets together have at most as many members as both have.
LEMMA UnionCount ==
    ASSUME NEW A, NEW B, IsFiniteSet(A), IsFiniteSet(B)
    PROVE  /\ Cardinality(A) \in Nat /\ Cardinality(B) \in Nat /\ Cardinality(A \cup B) \in Nat
           /\ Cardinality(A \cup B) <= Cardinality(A) + Cardinality(B)
  <1>1. IsFiniteSet(A \cap B) /\ IsFiniteSet(A \cup B)
    <2>1. A \cap B \in SUBSET A
      OBVIOUS
    <2> QED
      BY <2>1, FS_Subset, FS_Union
  <1>2. /\ Cardinality(A) \in Nat /\ Cardinality(B) \in Nat /\ Cardinality(A \cup B) \in Nat
        /\ Cardinality(A \cap B) \in Nat
    BY <1>1, FS_CardinalityType
  <1>3. Cardinality(A \cup B) = Cardinality(A) + Cardinality(B) - Cardinality(A \cap B)
    BY FS_Union
  <1> QED
    BY <1>2, <1>3

\* A reservation that check_admission grants stays within the limits.
LEMMA ReserveWithin ==
    ASSUME TypeOK, NEW d \in Ids, Admissible(d), conn' = conn, sessions' = sessions,
           opening' = opening \cup {d}, LimitsHold
    PROVE  LimitsHold'
  <1> DEFINE S == sessions \cup opening
             c == conn[d]
  <1>1. /\ S \in SUBSET Ids /\ S \cup {d} \in SUBSET Ids /\ sessions \in SUBSET Ids
        /\ opening \in SUBSET Ids /\ c \in Conns /\ d \notin S
    BY DEF TypeOK, Admissible
  <1>2. IsFiniteSet(S) /\ IsFiniteSet(sessions) /\ IsFiniteSet(opening)
    BY <1>1, CountsShrink
  <1>3. Cardinality(S \cup {d}) <= MaxSessions
    <2>1. Cardinality(S) <= Cardinality(sessions) + Cardinality(opening)
      BY <1>2, UnionCount
    <2>2. Cardinality(S \cup {d}) = Cardinality(S) + 1
      BY <1>1, <1>2, FS_AddElement
    <2> QED
      BY <1>2, <2>1, <2>2, FS_CardinalityType, ManagerAssumption DEF Admissible, Limits
  <1>4. \A k \in Conns : Cardinality(On(k, S \cup {d})) <= MaxPerConnection
    <2> SUFFICES ASSUME NEW k \in Conns
                 PROVE  Cardinality(On(k, S \cup {d})) <= MaxPerConnection
      OBVIOUS
    <2>1. CASE k # c
      <3>1. On(k, S \cup {d}) = On(k, S)
        BY <2>1 DEF On
      <3> QED
        BY <3>1 DEF LimitsHold
    <2>2. CASE k = c
      <3>1. On(c, S \cup {d}) = On(c, S) \cup {d} /\ d \notin On(c, S)
        BY <1>1 DEF On
      <3>2. On(c, S) = On(c, sessions) \cup On(c, opening)
        BY DEF On
      <3>3. IsFiniteSet(On(c, S)) /\ IsFiniteSet(On(c, sessions)) /\ IsFiniteSet(On(c, opening))
        BY <1>1, CountsShrink
      <3>5. Cardinality(On(c, S)) <= Cardinality(On(c, sessions)) + Cardinality(On(c, opening))
        BY <3>2, <3>3, UnionCount
      <3>6. Cardinality(On(c, S \cup {d})) = Cardinality(On(c, S)) + 1
        BY <3>1, <3>3, FS_AddElement
      <3> QED
        BY <2>2, <3>3, <3>5, <3>6, FS_CardinalityType, ManagerAssumption DEF Admissible, Limits
    <2> QED
      BY <2>1, <2>2
  <1>5. Cardinality(Active(S \cup {d})) <= MaxActive
    <2>1. Active(S \cup {d}) = Active(S) \cup {c} /\ IsFiniteSet(Active(S))
      BY <1>1, CountsShrink DEF Active
    <2>2. CASE On(c, S) # {}
      <3>1. c \in Active(S)
        BY <2>2 DEF On, Active
      <3> QED
        BY <2>1, <3>1 DEF LimitsHold
    <2>3. CASE On(c, S) = {}
      <3>1. Cardinality(Active(S)) < MaxActive
        BY <2>3 DEF Admissible, Limits
      <3>2. c \notin Active(S)
        BY <2>3 DEF On, Active
      <3>3. Cardinality(Active(S) \cup {c}) = Cardinality(Active(S)) + 1
        BY <2>1, <3>2, FS_AddElement
      <3>4. Cardinality(Active(S)) \in Nat
        BY <2>1, FS_CardinalityType
      <3>5. MaxActive \in Nat
        BY ManagerAssumption
      <3> HIDE DEF S, c
      <3> QED
        BY <2>1, <3>1, <3>3, <3>4, <3>5
    <2> QED
      BY <2>2, <2>3
  <1>6. Active(sessions \cup opening)' = Active(S \cup {d})
    BY DEF Active
  <1>7. \A k \in Conns : On(k, sessions \cup opening)' = On(k, S \cup {d})
    BY DEF On
  <1>8. (sessions \cup opening)' = S \cup {d}
    OBVIOUS
  <1> QED
    BY <1>3, <1>4, <1>5, <1>6, <1>7, <1>8 DEF LimitsHold

\* The admission limits hold at every moment, for any number of opens connecting
\* at once: a place is taken by the reservation, not by the session.
THEOREM LimitsAlwaysHold == Spec => []LimitsHold
  <1>1. Init => LimitsInv
    <2> SUFFICES ASSUME Init PROVE LimitsInv
      OBVIOUS
    <2>1. /\ sessions \cup opening = {} /\ Active(sessions \cup opening) = {}
          /\ \A c \in Conns : On(c, sessions \cup opening) = {}
      BY DEF Init, Active, On
    <2>2. Cardinality({}) = 0
      BY FS_EmptySet
    <2>3. 0 <= MaxSessions /\ 0 <= MaxPerConnection /\ 0 <= MaxActive
      BY ManagerAssumption
    <2>4. LimitsHold
      BY <2>1, <2>2, <2>3 DEF LimitsHold
    <2> QED
      BY <2>4 DEF Init, LimitsInv
  <1>2. TypeOK /\ SocketInv /\ LimitsInv /\ [Next]_vars => LimitsInv'
    <2> SUFFICES ASSUME TypeOK, SocketInv, LimitsInv, [Next]_vars PROVE LimitsInv'
      OBVIOUS
    <2> USE DEF managerVars, openVars
    <2>1. ASSUME NEW d \in Ids, Reserve(d), Admissible(d) PROVE LimitsInv'
      <3>1. /\ conn' = conn /\ sessions' = sessions /\ opening' = opening \cup {d}
            /\ pc' = [pc EXCEPT ![d] = "connect"]
        BY <2>1 DEF Reserve, Goto
      <3>2. LimitsHold'
        BY <2>1, <3>1, ReserveWithin DEF LimitsInv
      <3> QED
        BY <3>1, <3>2 DEF LimitsInv, TypeOK
    <2>2. ASSUME NEW d \in Ids, Start(d) \/ OpenStep(d), ~(Reserve(d) /\ Admissible(d))
          PROVE  LimitsInv'
      <3>1. CASE \/ Start(d) \/ Admit(d) \/ Resolve(d) \/ Announce(d) \/ Regate(d)
                 \/ UndoRemove(d) \/ UndoJoin(d) \/ Reserve(d)
        <4>1. conn' = conn /\ opening' = opening /\ sessions' \subseteq sessions
          BY <2>2, <3>1 DEF Start, Admit, Resolve, Announce, Regate, UndoRemove, UndoJoin, Reserve,
             Remove
        <4>2. \A e \in Ids : pc'[e] \in {"connect", "publish"} => pc[e] \in {"connect", "publish"}
          BY <2>2, <3>1 DEF TypeOK, Start, Admit, Resolve, Announce, Regate, UndoRemove, UndoJoin,
             Reserve, Goto, Continue, Return
        <4> QED
          BY <4>1, <4>2, LimitsAside DEF LimitsInv
      <3>2. CASE Connect(d)
        <4>1. /\ conn' = conn /\ opening' = opening /\ sessions' = sessions
              /\ pc' = [pc EXCEPT ![d] = "publish"] /\ pc[d] = "connect"
          BY <3>2 DEF Connect, Goto
        <4> QED
          BY <4>1, LimitsAside DEF LimitsInv, TypeOK
      <3>3. CASE ConnectFails(d) \/ Publish(d)
        <4>1. /\ conn' = conn /\ opening' = opening \ {d} /\ sessions' \subseteq sessions \cup {d}
              /\ \A e \in Ids \ {d} : pc'[e] = pc[e]
              /\ pc'[d] \notin {"connect", "publish"} /\ pc[d] \in {"connect", "publish"}
          BY <3>3 DEF TypeOK, ConnectFails, Publish, Goto
        <4>2. d \in opening
          BY <4>1 DEF LimitsInv
        <4> QED
          BY <4>1, <4>2, LimitsAside DEF LimitsInv
      <3> QED
        BY <2>2, <3>1, <3>2, <3>3 DEF OpenStep
    <2>3. CASE \/ UNCHANGED vars \/ RetireStart \/ RetireStep \/ Register
               \/ \E d \in Ids : \/ CloseStart(d) \/ CloseStep(d) \/ RegisterRemove(d)
                                 \/ ExpireCheck(d) \/ ExpireRemove(d) \/ SocketEnds(d)
               \/ QuitStart \/ QuitMark \/ QuitRemove \/ QuitJoin \/ QuitDrained
      <3>1. UNCHANGED <<conn, opening, pc>> /\ sessions' \subseteq sessions
        BY <2>3 DEF vars, RetireStart, RetireStep, RetireRemove, RetireJoin, RetireRest, Register,
           CloseStart, CloseStep, CloseGate, CloseRemove, CloseJoin, RegisterRemove, ExpireCheck,
           ExpireRemove, SocketEnds, QuitStart, QuitMark, QuitRemove, QuitJoin, QuitDrained,
           Remove, TakeVictims
      <3> QED
        BY <3>1, LimitsAside DEF LimitsInv
    <2>4. CASE \E f \in Fences : \/ \E scopes \in Targets : FenceStart(f, scopes)
                                 \/ FenceStep(f) \/ FencePanic(f)
      <3>1. UNCHANGED <<conn, opening, pc>> /\ sessions' \subseteq sessions
        BY ZenonT(30), <2>4 DEF FenceStart, FenceStep, FenceMark, FenceRemove, FenceJoin, FenceRelease,
           FenceRaised, FenceWork, FencePanic, TakeVictims
      <3> QED
        BY <3>1, LimitsAside DEF LimitsInv
    <2>5. CASE QuitForced
      <3>1. UNCHANGED <<conn, opening, sessions>>
        BY <2>5 DEF QuitForced
      <3>2. \A e \in Ids : pc'[e] \in {"new", "done"}
        BY <2>5 DEF QuitForced, Opening
      <3> QED
        BY <3>1, <3>2, LimitsAside DEF LimitsInv
    <2>6. CASE QuitClear
      <3>1. UNCHANGED <<conn, pc>> /\ opening' = {} /\ sessions' = {}
        BY <2>6 DEF QuitClear
      <3>2. \A e \in Ids : pc'[e] \in {"new", "done"}
        BY <2>6, <3>1 DEF QuitClear, SocketInv, Opening
      <3> QED
        BY <3>1, <3>2, LimitsAside
    <2> QED
      BY <2>1, <2>2, <2>3, <2>4, <2>5, <2>6 DEF Next, QuitStep
  <1> QED
    BY <1>1, <1>2, SocketAlways, PTL DEF Spec, LimitsInv

\* Sockets, reservations and limits together, for any number of opens, owners,
\* fences and shutdowns, and through panics and failing connects.
THEOREM ResourcesAlwaysHeld == Spec => []ResourcesHeld
  <1>1. SocketsRecorded /\ ReservationsHeld /\ LimitsHold => ResourcesHeld
    BY DEF ResourcesHeld
  <1> QED
    BY <1>1, SocketsAlwaysRecorded, ReservationsAlwaysHeld, LimitsAlwaysHold, PTL

-----------------------------------------------------------------------------
(* Closing.                                                                 *)

\* Before a shutdown: a close cancels the open it finds, an open that was
\* cancelled undoes itself before it returns, and whichever of the two comes last
\* leaves nothing.
CloseInv ==
    quit = "no" =>
    /\ \A d \in opening : pc[d] \in {"connect", "publish"}
    /\ \A d \in Ids : pc[d] = "new" => closer[d] = "none"
    /\ \A d \in Ids : closer[d] # "none" /\ Opening(d) => d \in cancelled
    /\ \A d \in Ids : pc[d] \in {"new", "admit", "resolve", "reserve"}
                       => d \notin sessions \cup records
    /\ \A d \in Ids : pc[d] = "join" => d \notin sessions
    /\ \A d \in Ids : closer[d] = "join" /\ ~Opening(d) => d \notin sessions
    /\ \A d \in Ids : closer[d] = "done" /\ ~Opening(d) => d \notin sessions \cup records

\* A step that takes sessions and records away and moves neither open nor close.
LEMMA CloseAside ==
    ASSUME CloseInv, UNCHANGED <<pc, closer, cancelled>>, opening' \subseteq opening,
           sessions' \subseteq sessions, records' \subseteq records,
           quit' = "no" => quit = "no"
    PROVE  CloseInv'
  BY DEF CloseInv, Opening

\* The steps of an open.
LEMMA OpenClosed ==
    ASSUME TypeOK, CloseInv, NEW d \in Ids, Start(d) \/ OpenStep(d)
    PROVE  CloseInv'
  <1> SUFFICES ASSUME quit' = "no" PROVE CloseInv'
    BY DEF CloseInv
  <1> USE DEF TypeOK, Goto, managerVars, callVars
  <1>1. quit = "no" /\ closer' = closer
    BY DEF OpenStep, Start, Admit, Resolve, Reserve, Connect, ConnectFails, Publish, Announce,
       Regate, UndoRemove, UndoJoin
  <1>2. CASE Start(d)
    BY <1>1, <1>2 DEF Start, CloseInv, Opening
  <1>3. CASE Admit(d) \/ Resolve(d)
    <2>1. /\ UNCHANGED <<sessions, opening, records>>
          /\ pc[d] \in {"admit", "resolve"} /\ \A e \in Ids \ {d} : pc'[e] = pc[e]
          /\ \/ pc'[d] \in {"resolve", "reserve"} /\ cancelled' = cancelled
             \/ pc'[d] = "done" /\ cancelled' = cancelled \ {d}
      BY <1>3 DEF Admit, Resolve, Return, Continue
    <2> QED
      BY <1>1, <2>1 DEF CloseInv, Opening
  <1>4. CASE Reserve(d)
    <2>1. CASE Admissible(d)
      <3>1. /\ UNCHANGED <<sessions, cancelled>> /\ opening' = opening \cup {d}
            /\ records' = records \cup {d} /\ pc'[d] = "connect" /\ pc[d] = "reserve"
            /\ \A e \in Ids \ {d} : pc'[e] = pc[e]
        BY <1>4, <2>1 DEF Reserve
      <3> QED
        BY <1>1, <3>1 DEF CloseInv, Opening
    <2>2. CASE ~Admissible(d)
      BY <1>1, <1>4, <2>2 DEF Reserve, CloseInv, Opening
    <2> QED
      BY <2>1, <2>2
  <1>5. CASE Connect(d) \/ ConnectFails(d) \/ Publish(d)
    <2>1. /\ UNCHANGED <<records, cancelled>> /\ sessions' \subseteq sessions \cup {d}
          /\ pc[d] \in {"connect", "publish"} /\ \A e \in Ids \ {d} : pc'[e] = pc[e]
          /\ \/ pc'[d] = "publish" /\ opening' = opening
             \/ pc'[d] \in {"announce", "regate"} /\ opening' = opening \ {d}
      BY <1>5 DEF Connect, ConnectFails, Publish
    <2> QED
      BY <1>1, <2>1 DEF CloseInv, Opening
  <1>7. CASE Announce(d) \/ UndoRemove(d)
    BY <1>1, <1>7 DEF Announce, UndoRemove, Remove, CloseInv, Opening
  <1>8. CASE Regate(d)
    <2>1. CASE MustUndo(d)
      BY <1>1, <1>8, <2>1 DEF Regate, Continue, CloseInv, Opening
    <2>2. CASE ~MustUndo(d)
      <3>1. closer[d] = "none"
        BY <1>1, <1>8, <2>2 DEF Regate, MustUndo, CloseInv, Opening
      <3> QED
        BY ZenonT(30), <1>1, <1>8, <2>2, <3>1 DEF Regate, Return, CloseInv, Opening
    <2> QED
      BY <2>1, <2>2
  <1>9. CASE UndoJoin(d)
    BY <1>1, <1>9 DEF UndoJoin, Join, Return, CloseInv, Opening
  <1> QED
    BY <1>2, <1>3, <1>4, <1>5, <1>7, <1>8, <1>9 DEF OpenStep

\* The steps of a close.
LEMMA CloseClosed ==
    ASSUME TypeOK, CloseInv, NEW d \in Ids, CloseStart(d) \/ CloseStep(d)
    PROVE  CloseInv'
  <1> USE DEF TypeOK, managerVars, openVars, CloseInv, Opening
  <1>1. CASE CloseStart(d)
    BY <1>1 DEF CloseStart
  <1>2. CASE CloseGate(d)
    BY <1>2 DEF CloseGate
  <1>3. CASE CloseRemove(d)
    BY <1>3 DEF CloseRemove, Remove
  <1>4. CASE CloseJoin(d)
    BY <1>4 DEF CloseJoin, Join
  <1> QED
    BY <1>1, <1>2, <1>3, <1>4 DEF CloseStep

\* Once a document's close is over and its open has returned, nothing of the
\* session is left, for every order of their steps and of everything else that
\* removes sessions.
THEOREM ClosedAlwaysLeavesNothing == Spec => []ClosedLeavesNothing
  <1>1. Init => CloseInv
    BY DEF Init, CloseInv, Opening
  <1>2. TypeOK /\ CloseInv /\ [Next]_vars => CloseInv'
    <2> SUFFICES ASSUME TypeOK, CloseInv, [Next]_vars PROVE CloseInv'
      OBVIOUS
    <2> USE DEF managerVars, openVars, callVars
    <2>1. CASE \/ UNCHANGED vars \/ RetireStart \/ RetireStep \/ Register
               \/ \E d \in Ids : \/ RegisterRemove(d) \/ ExpireCheck(d) \/ ExpireRemove(d)
                                 \/ SocketEnds(d)
      <3>1. /\ UNCHANGED <<pc, closer, cancelled, quit, opening>>
            /\ sessions' \subseteq sessions /\ records' \subseteq records
        BY <2>1 DEF vars, RetireStart, RetireStep, RetireRemove, RetireJoin, RetireRest, Register,
           RegisterRemove, ExpireCheck, ExpireRemove, SocketEnds, Remove, TakeVictims, JoinVictims,
           Join
      <3> QED
        BY <3>1, CloseAside
    <2>2. CASE \E f \in Fences : \/ \E scopes \in Targets : FenceStart(f, scopes)
                                 \/ FenceStep(f) \/ FencePanic(f)
      <3>1. /\ UNCHANGED <<pc, closer, cancelled, quit, opening>>
            /\ sessions' \subseteq sessions /\ records' \subseteq records
        BY <2>2 DEF FenceStart, FenceStep, FenceMark, FenceRemove, FenceJoin, FenceRelease,
           FenceRaised, FenceWork, FencePanic, TakeVictims, JoinVictims, Join
      <3> QED
        BY <3>1, CloseAside
    <2>3. CASE QuitStart \/ QuitStep
      <3>1. quit' # "no"
        BY <2>3 DEF QuitStart, QuitStep, QuitMark, QuitRemove, QuitJoin, QuitDrained, QuitForced,
           QuitClear
      <3> QED
        BY <3>1 DEF CloseInv
    <2> QED
      BY <2>1, <2>2, <2>3, OpenClosed, CloseClosed DEF Next
  <1>3. SocketInv /\ CloseInv => ClosedLeavesNothing
    BY DEF SocketInv, SocketsRecorded, CloseInv, ClosedLeavesNothing, Opening
  <1> QED
    BY <1>1, <1>2, <1>3, SocketAlways, PTL DEF Spec
-----------------------------------------------------------------------------
(* Fences and the scopes they cover.                                        *)

\* A fence only works on the scopes it was called for.
StageInv == \A f \in Fences, s \in Scopes : stage[f][s] # "down" => s \in target[f]

\* A fence never raises or releases a scope outside its target.
LEMMA StageAlways == Spec => [](TypeOK /\ GateHeld /\ StageInv)
  <1>1. Init => StageInv
    BY DEF Init, StageInv
  <1>2. TypeOK /\ StageInv /\ [Next]_vars => StageInv'
    <2> SUFFICES ASSUME TypeOK, StageInv, [Next]_vars PROVE StageInv'
      OBVIOUS
    <2> USE DEF fenceVars
    <2>1. ASSUME NEW f \in Fences, NEW scopes \in Targets, FenceStart(f, scopes) PROVE StageInv'
      BY <2>1 DEF TypeOK, FenceStart, StageInv
    <2>2. ASSUME NEW f \in Fences, NEW t \in Scopes,
                 FenceMark(f, t) \/ FenceRemove(f, t) \/ FenceJoin(f, t) \/ FenceRelease(f, t)
          PROVE  StageInv'
      <3>1. /\ UNCHANGED target /\ stage[f][t] # "down"
            /\ \E x \in Stages : stage' = [stage EXCEPT ![f][t] = x]
        BY <2>2 DEF FenceMark, FenceRemove, FenceJoin, FenceRelease, Stages
      <3> QED
        BY <3>1 DEF TypeOK, StageInv
    <2>3. CASE UNCHANGED <<stage, target>>
      BY <2>3 DEF StageInv
    <2>4. ASSUME NEW d \in Ids, \/ Start(d) \/ OpenStep(d) \/ CloseStart(d) \/ CloseStep(d)
                                \/ RegisterRemove(d) \/ ExpireCheck(d) \/ ExpireRemove(d)
                                \/ SocketEnds(d)
          PROVE  UNCHANGED <<stage, target>>
      BY <2>4 DEF Start, OpenStep, Admit, Resolve, Reserve, Connect, ConnectFails, Publish,
         Announce, Regate, UndoRemove, UndoJoin, CloseStart, CloseStep, CloseGate, CloseRemove,
         CloseJoin, RegisterRemove, ExpireCheck, ExpireRemove, SocketEnds
    <2>5. ASSUME UNCHANGED vars \/ RetireStart \/ RetireStep \/ Register \/ QuitStart \/ QuitStep
          PROVE  UNCHANGED <<stage, target>>
      BY <2>5 DEF vars, RetireStart, RetireStep, RetireRemove, RetireJoin, RetireRest, Register,
         QuitStart, QuitStep, QuitMark, QuitRemove, QuitJoin, QuitDrained, QuitForced, QuitClear
    <2>6. ASSUME NEW f \in Fences, FenceRaised(f) \/ FenceWork(f) \/ FencePanic(f)
          PROVE  UNCHANGED <<stage, target>>
      BY <2>6 DEF FenceRaised, FenceWork, FencePanic
    <2> QED
      BY <2>1, <2>2, <2>3, <2>4, <2>5, <2>6 DEF Next, FenceStep
  <1> QED
    BY <1>1, <1>2, GateExcludes, PTL DEF Spec

-----------------------------------------------------------------------------
(* The shutdown, whatever fences of changes end beside it.                  *)

\* A host was told only of an open that has returned.
ShutdownInv ==
    /\ \A d \in Ids : result[d] = "ok" => pc[d] = "done"
    /\ ShutdownLeavesNothing

\* What only ends opens, or takes sessions, sockets and records away.
LEMMA ShutdownAside ==
    ASSUME ShutdownInv, UNCHANGED <<quit, pc, result>>, sessions' \subseteq sessions,
           opening' \subseteq opening, records' \subseteq records, alive' \subseteq alive
    PROVE  ShutdownInv'
  BY DEF ShutdownInv, ShutdownLeavesNothing, Opening

\* The steps of an open.
LEMMA ShutdownOpen ==
    ASSUME TypeOK, ShutdownInv, NEW d \in Ids, Start(d) \/ OpenStep(d)
    PROVE  ShutdownInv'
  <1> USE DEF ShutdownInv, ShutdownLeavesNothing, Opening, managerVars, socketVars, openVars, callVars
  <1>1. CASE Start(d)
    BY <1>1 DEF Start, Goto, TypeOK
  <1>2. ASSUME OpenStep(d)
        PROVE  /\ quit' = quit /\ Opening(d) /\ result[d] # "ok"
               /\ quit \notin {"clear", "done"}
               /\ \A e \in Ids \ {d} : pc'[e] = pc[e] /\ result'[e] = result[e]
               /\ sessions' \subseteq sessions \cup {d}
    <2>1. quit' = quit /\ Opening(d)
      BY <1>2 DEF OpenStep, Admit, Resolve, Reserve, Connect, ConnectFails, Publish, Announce,
         Regate, UndoRemove, UndoJoin
    <2>2. \A e \in Ids \ {d} : pc'[e] = pc[e] /\ result'[e] = result[e]
      BY <1>2 DEF OpenStep, Admit, Resolve, Reserve, Connect, ConnectFails, Publish, Announce,
         Regate, UndoRemove, UndoJoin, Return, Continue, Goto, TypeOK
    <2>3. sessions' \subseteq sessions \cup {d}
      BY <1>2 DEF OpenStep, Admit, Resolve, Reserve, Connect, ConnectFails, Publish, Announce,
         Regate, UndoRemove, UndoJoin, Remove, Join
    <2> QED
      BY <2>1, <2>2, <2>3
  <1>3. ASSUME OpenStep(d), result'[d] = "ok"
        PROVE  pc'[d] = "done" /\ quit = "no"
    <2>1. result[d] # "ok"
      BY <1>2, <1>3
    <2>2. Regate(d) /\ Return(d, "ok") /\ quit = "no"
      BY <1>3, <2>1 DEF OpenStep, Admit, Resolve, Reserve, Connect, ConnectFails, Publish, Announce,
         Regate, UndoRemove, UndoJoin, Return, Continue, TypeOK
    <2> QED
      BY <2>2 DEF Return, Goto, TypeOK
  <1>4. CASE OpenStep(d)
    <2>1. ASSUME NEW e \in Ids, result'[e] = "ok" PROVE pc'[e] = "done" /\ (e = d => quit = "no")
      BY <1>2, <1>3, <1>4, <2>1
    <2>2. quit' = quit /\ quit \notin {"clear", "done"} /\ sessions' \subseteq sessions \cup {d}
          /\ \A e \in Ids \ {d} : result'[e] = result[e]
      BY <1>2, <1>4
    <2>3. ASSUME quit \in {"join", "drain"}, NEW e \in sessions' PROVE result'[e] # "ok"
      <3>1. e \in Ids /\ (e # d => e \in sessions)
        BY <2>2, <2>3 DEF TypeOK
      <3> QED
        BY <2>1, <2>2, <2>3, <3>1
    <2> QED
      BY <2>1, <2>2, <2>3
  <1> QED
    BY <1>1, <1>4

\* The steps of the shutdown.
LEMMA ShutdownQuit ==
    ASSUME TypeOK, ShutdownInv, QuitStart \/ QuitStep
    PROVE  ShutdownInv'
  <1> USE DEF ShutdownInv, ShutdownLeavesNothing, Opening, managerVars, socketVars, openVars
  <1>1. CASE QuitStart \/ QuitMark
    BY <1>1 DEF QuitStart, QuitMark
  <1>2. CASE QuitRemove
    BY <1>2 DEF QuitRemove, TakeVictims, TypeOK
  <1>3. CASE QuitJoin
    BY <1>3 DEF QuitJoin
  <1>4. CASE QuitDrained
    BY <1>4 DEF QuitDrained
  <1>5. CASE QuitForced
    BY <1>5 DEF QuitForced, TypeOK
  <1>6. CASE QuitClear
    BY <1>6 DEF QuitClear
  <1> QED
    BY <1>1, <1>2, <1>3, <1>4, <1>5, <1>6 DEF QuitStep

\* A shutdown leaves no session behind, global fences beside it included: what is
\* published behind its teardown reaches no host and ends before the maps are
\* cleared.
THEOREM ShutdownAlwaysLeavesNothing == Spec => []ShutdownLeavesNothing
  <1>1. Init => ShutdownInv
    BY DEF Init, ShutdownInv, ShutdownLeavesNothing
  <1>2. TypeOK /\ ShutdownInv /\ [Next]_vars => ShutdownInv'
    <2> SUFFICES ASSUME TypeOK, ShutdownInv, [Next]_vars PROVE ShutdownInv'
      OBVIOUS
    <2> USE DEF managerVars, socketVars, openVars, callVars
    <2>1. CASE \/ UNCHANGED vars \/ RetireStart \/ RetireStep \/ Register
               \/ \E d \in Ids : \/ CloseStart(d) \/ CloseStep(d) \/ RegisterRemove(d)
                                 \/ ExpireCheck(d) \/ ExpireRemove(d) \/ SocketEnds(d)
      <3>1. /\ UNCHANGED <<quit, pc, result, opening>> /\ sessions' \subseteq sessions
            /\ records' \subseteq records /\ alive' \subseteq alive
        BY <2>1 DEF vars, RetireStart, RetireStep, RetireRemove, RetireJoin, RetireRest, Register,
           CloseStart, CloseStep, CloseGate, CloseRemove, CloseJoin, RegisterRemove, ExpireCheck,
           ExpireRemove, SocketEnds, Remove, TakeVictims, JoinVictims, Join
      <3> QED
        BY <3>1, ShutdownAside
    <2>2. CASE \E f \in Fences : \/ \E scopes \in Targets : FenceStart(f, scopes)
                                 \/ FenceStep(f) \/ FencePanic(f)
      <3>1. /\ UNCHANGED <<quit, pc, result, opening>> /\ sessions' \subseteq sessions
            /\ records' \subseteq records /\ alive' \subseteq alive
        BY <2>2 DEF FenceStart, FenceStep, FenceMark, FenceRemove, FenceJoin, FenceRelease,
           FenceRaised, FenceWork, FencePanic, TakeVictims, JoinVictims, Join
      <3> QED
        BY <3>1, ShutdownAside
    <2> QED
      BY <2>1, <2>2, ShutdownOpen, ShutdownQuit DEF Next
  <1> QED
    BY <1>1, <1>2, TypeCorrect, PTL DEF Spec, ShutdownInv
-----------------------------------------------------------------------------
(* An open and the fences raised while it connects, when no change panics.  *)

Up(f, c) == work[f] \in {"begin", "work", "release"} /\ stage[f][c] \in {"join", "up"}

\* An open whose connection was torn down since its admission can tell: the fence
\* is still up, or the generation it read has passed.
CrossInv ==
    /\ \A d \in crossed : pc[d] \notin {"new", "admit", "done"}
    /\ \A d \in Ids : pc[d] \notin {"new", "admit", "done"} => seen[d].gen <= gen[conn[d]]
    /\ \A d \in crossed : seen[d].gen < gen[conn[d]] \/ \E f \in Fences : Up(f, conn[d])

\* A step that leaves the fences and what an open has read alone.
LEMMA CrossAside ==
    ASSUME TypeOK, CrossInv, UNCHANGED <<seen, gen, conn, work, stage>>, crossed' \subseteq crossed,
           \A d \in Ids : \/ pc'[d] = pc[d] /\ (d \in crossed' => d \in crossed)
                          \/ pc'[d] = "done" /\ d \notin crossed'
                          \/ pc[d] = "new" /\ pc'[d] = "admit"
                          \/ pc[d] \notin {"new", "admit", "done"}
                             /\ pc'[d] \notin {"new", "admit", "done"}
    PROVE  CrossInv'
  BY DEF TypeOK, CrossInv, Up

\* The steps of an open: it reads the generation at admission, under the gate.
LEMMA OpenCrossed ==
    ASSUME TypeOK, CrossInv, NEW d \in Ids, Start(d) \/ OpenStep(d)
    PROVE  CrossInv'
  <1> USE DEF TypeOK, Goto, managerVars, fenceVars
  <1>1. UNCHANGED <<gen, conn, work, stage>>
    BY DEF OpenStep, Start, Admit, Resolve, Reserve, Connect, ConnectFails, Publish, Announce,
       Regate, UndoRemove, UndoJoin
  <1>2. CASE \E r \in {"ok", "error"} : Return(d, r)
    <2>1. /\ pc' = [pc EXCEPT ![d] = "done"] /\ seen' = [seen EXCEPT ![d] = NothingSeen]
          /\ crossed' = crossed \ {d}
      BY <1>2 DEF Return
    <2>2. \A e \in Ids \ {d} : pc'[e] = pc[e] /\ seen'[e] = seen[e]
      BY <2>1
    <2>3. pc'[d] = "done" /\ d \notin crossed'
      BY <2>1
    <2> QED
      BY <1>1, <2>1, <2>2, <2>3 DEF CrossInv, Up
  <1>3. CASE pc[d] = "admit" /\ Continue(d, "resolve")
             /\ seen' = [seen EXCEPT ![d] = [version |-> version[conn[d]], gen |-> gen[conn[d]]]]
    <2>1. d \notin crossed /\ crossed' = crossed
      BY <1>3 DEF CrossInv, Continue
    <2>2. \A e \in Ids \ {d} : pc'[e] = pc[e] /\ seen'[e] = seen[e]
      BY <1>3 DEF Continue
    <2>3. pc'[d] = "resolve" /\ seen'[d].gen = gen[conn[d]] /\ gen[conn[d]] \in Nat
      BY <1>3 DEF Continue
    <2>4. \A g \in Fences, c \in Conns : Up(g, c) => Up(g, c)'
      BY <1>1 DEF Up
    <2>5. \A e \in Ids : pc'[e] \notin {"new", "admit", "done"} => seen'[e].gen <= gen'[conn'[e]]
      BY <1>1, <2>2, <2>3 DEF CrossInv
    <2>6. \A e \in crossed : e \in Ids \ {d}
      BY <2>1
    <2>7. \A e \in crossed : pc'[e] = pc[e] /\ seen'[e].gen = seen[e].gen /\ conn[e] \in Conns
      BY <2>2, <2>6
    <2> QED
      BY <1>1, <2>1, <2>4, <2>5, <2>7 DEF CrossInv
  <1>4. CASE UNCHANGED <<seen, crossed>> /\ (\E x \in OpenSteps \ {"new", "admit", "done"} :
             pc' = [pc EXCEPT ![d] = x]) /\ pc[d] \notin {"new", "admit", "done"}
    BY <1>1, <1>4, CrossAside
  <1>5. CASE Start(d)
    BY <1>1, <1>5, CrossAside DEF Start
  <1>6. CASE Admit(d) \/ Resolve(d) \/ Regate(d) \/ UndoJoin(d)
    BY <1>2, <1>3, <1>4, <1>6 DEF Admit, Resolve, Regate, UndoJoin, Continue, OpenSteps
  <1>7. CASE \/ Reserve(d) \/ Connect(d) \/ ConnectFails(d) \/ Publish(d) \/ Announce(d)
             \/ UndoRemove(d)
    BY <1>4, <1>7 DEF Reserve, Connect, ConnectFails, Publish, Announce, UndoRemove, OpenSteps
  <1> QED
    BY <1>5, <1>6, <1>7 DEF OpenStep

\* The steps of a fence: it marks the opens it crosses while it is up, and moves
\* the generation in the step that lowers it.
LEMMA FenceCrossed ==
    ASSUME TypeOK, StageInv, CrossInv, MaxPanics = 0, NEW f \in Fences,
           (\E scopes \in Targets : FenceStart(f, scopes)) \/ FenceStep(f) \/ FencePanic(f)
    PROVE  CrossInv'
  <1> USE DEF TypeOK, managerVars, openVars
  <1>1. CASE \E scopes \in Targets : FenceStart(f, scopes)
    BY <1>1 DEF FenceStart, CrossInv, Up
  <1>2. ASSUME NEW t \in Scopes, FenceMark(f, t) PROVE CrossInv'
    <2>1. /\ UNCHANGED <<pc, seen, gen, conn, work, crossed>> /\ stage[f][t] = "mark"
          /\ stage' = [stage EXCEPT ![f][t] = "remove"]
      BY <1>2 DEF FenceMark
    <2>2. \A g \in Fences, c \in Conns : Up(g, c) => Up(g, c)'
      BY <2>1 DEF Up, Scopes
    <2> QED
      BY <2>1, <2>2 DEF CrossInv
  <1>3. ASSUME NEW t \in Scopes, FenceRemove(f, t) PROVE CrossInv'
    <2>1. /\ UNCHANGED <<pc, seen, gen, conn, work>> /\ work[f] = "begin"
          /\ stage' = [stage EXCEPT ![f][t] = "join"]
          /\ \A d \in crossed' \ crossed : conn[d] = t /\ pc[d] \notin {"new", "admit", "done"}
      BY <1>3 DEF FenceRemove, Opening
    <2>2. Up(f, t)'
      BY <2>1 DEF Up
    <2>3. \A g \in Fences, c \in Conns : Up(g, c) => Up(g, c)'
      BY <2>1 DEF Up, Scopes
    <2> QED
      BY <1>3, <2>1, <2>2, <2>3 DEF CrossInv, FenceRemove
  <1>4. ASSUME NEW t \in Scopes, FenceJoin(f, t) PROVE CrossInv'
    <2>1. /\ UNCHANGED <<pc, seen, gen, conn, work, crossed>>
          /\ stage' = [stage EXCEPT ![f][t] = "up"]
      BY <1>4 DEF FenceJoin
    <2>2. \A g \in Fences, c \in Conns : Up(g, c) => Up(g, c)'
      BY <2>1 DEF Up, Scopes
    <2> QED
      BY <2>1, <2>2 DEF CrossInv
  <1>5. CASE FenceRaised(f) \/ FenceWork(f)
    BY <1>5 DEF FenceRaised, FenceWork, CrossInv, Up
  <1>6. CASE FencePanic(f)
    BY <1>6, ManagerAssumption DEF FencePanic
  <1>7. ASSUME NEW t \in Scopes, FenceRelease(f, t) PROVE CrossInv'
    <2>1. /\ UNCHANGED <<pc, seen, conn, crossed, target>> /\ stage[f][t] = "up"
          /\ stage' = [stage EXCEPT ![f][t] = "down"]
          /\ gen' = IF t = All THEN gen ELSE [gen EXCEPT ![t] = @ + 1]
      BY <1>7 DEF FenceRelease
    <2>2. \A c \in Conns : gen'[c] = (IF c = t THEN gen[c] + 1 ELSE gen[c])
      BY <2>1, ManagerAssumption DEF Scopes
    <2>3. \A g \in Fences, c \in Conns \ {t} : Up(g, c) => Up(g, c)'
      <3> SUFFICES ASSUME NEW g \in Fences, NEW c \in Conns \ {t}, Up(g, c) PROVE Up(g, c)'
        OBVIOUS
      <3>1. stage'[g][c] = stage[g][c]
        BY <2>1 DEF Scopes
      <3>2. work'[g] = work[g]
        <4>1. CASE g # f
          BY <1>7, <4>1 DEF FenceRelease
        <4>2. CASE g = f
          <5>1. c \in target[f] \ {t} /\ stage[f][c] # "down"
            BY <4>2 DEF StageInv, Up, Scopes
          <5> QED
            BY <1>7, <4>2, <5>1 DEF FenceRelease
        <4> QED
          BY <4>1, <4>2
      <3> QED
        BY <3>1, <3>2 DEF Up
    <2> QED
      BY <2>1, <2>2, <2>3 DEF CrossInv
  <1> QED
    BY <1>1, <1>2, <1>3, <1>4, <1>5, <1>6, <1>7 DEF FenceStep

\* CrossInv is preserved by every step.
LEMMA CrossStep ==
    ASSUME TypeOK, StageInv, CrossInv, SocketInv, MaxPanics = 0, [Next]_vars
    PROVE  CrossInv'
  <1> USE DEF managerVars, openVars, fenceVars
  <1>1. CASE \/ UNCHANGED vars \/ RetireStart \/ RetireStep \/ Register
             \/ \E d \in Ids : \/ CloseStart(d) \/ CloseStep(d) \/ RegisterRemove(d)
                               \/ ExpireCheck(d) \/ ExpireRemove(d) \/ SocketEnds(d)
    <2>1. UNCHANGED <<pc, seen, gen, conn, work, stage, crossed>>
      BY <1>1 DEF vars, RetireStart, RetireStep, RetireRemove, RetireJoin, RetireRest, Register,
         CloseStart, CloseStep, CloseGate, CloseRemove, CloseJoin, RegisterRemove, ExpireCheck,
         ExpireRemove, SocketEnds
    <2> QED
      BY <2>1, CrossAside
  <1>2. CASE QuitStart \/ QuitMark \/ QuitRemove \/ QuitJoin \/ QuitDrained \/ QuitClear
    <2>1. UNCHANGED <<pc, seen, gen, conn, work, stage, crossed>>
      BY <1>2 DEF QuitStart, QuitMark, QuitRemove, QuitJoin, QuitDrained, QuitClear
    <2> QED
      BY <2>1, CrossAside
  <1>3. CASE QuitForced
    BY <1>3 DEF QuitForced, CrossInv, Opening
  <1> QED
    BY <1>1, <1>2, <1>3, OpenCrossed, FenceCrossed DEF Next, QuitStep

\* A host is never handed a session whose connection was torn down since its
\* record was read, even when the fence was raised and lowered entirely within
\* the connect.
THEOREM OpenNeverMissesFence ==
    ASSUME MaxPanics = 0
    PROVE  Spec => OpenMissesNoFence
  <1>1. Init => CrossInv
    BY DEF Init, CrossInv
  <1>2. TypeOK /\ StageInv /\ SocketInv /\ CrossInv /\ [Next]_vars => CrossInv'
    BY CrossStep
  <1>3. TypeOK /\ GateHeld /\ CrossInv /\ [Next]_vars
          => [\A d \in Ids : result'[d] = "ok" /\ result[d] # "ok" => d \notin crossed]_vars
    <2> SUFFICES ASSUME TypeOK, GateHeld, CrossInv, Next, NEW d \in Ids,
                        result'[d] = "ok", result[d] # "ok"
                 PROVE  d \notin crossed
      OBVIOUS
    <2>1. Regate(d) /\ ~MustUndo(d) /\ opened[d] /\ quit = "no"
      <3> USE DEF TypeOK, openVars
      <3>1. ASSUME NEW e \in Ids, Start(e) \/ OpenStep(e) PROVE Regate(e) /\ e = d
        <4>1. CASE \/ Start(e) \/ Reserve(e) \/ Connect(e) \/ ConnectFails(e) \/ Publish(e)
                   \/ Announce(e) \/ UndoRemove(e)
          <5>1. UNCHANGED result
            BY <4>1 DEF Start, Reserve, Connect, ConnectFails, Publish, Announce, UndoRemove
          <5> QED
            BY <5>1
        <4>2. CASE Admit(e) \/ Resolve(e) \/ UndoJoin(e)
          <5>1. UNCHANGED result \/ result' = [result EXCEPT ![e] = "error"]
            BY <4>2 DEF Admit, Resolve, UndoJoin, Return, Continue
          <5> QED
            BY <5>1
        <4>3. CASE Regate(e)
          <5>1. UNCHANGED result \/ \E r \in {"ok", "error"} : result' = [result EXCEPT ![e] = r]
            BY <4>3 DEF Regate, Return, Continue
          <5> QED
            BY <4>3, <5>1
        <4> QED
          BY <3>1, <4>1, <4>2, <4>3 DEF OpenStep
      <3>2. ASSUME NEW e \in Ids, \/ CloseStart(e) \/ CloseStep(e) \/ RegisterRemove(e)
                                  \/ ExpireCheck(e) \/ ExpireRemove(e) \/ SocketEnds(e)
            PROVE  UNCHANGED result
        BY <3>2 DEF CloseStart, CloseStep, CloseGate, CloseRemove, CloseJoin, RegisterRemove,
           ExpireCheck, ExpireRemove, SocketEnds
      <3>3. ASSUME NEW f \in Fences, (\E scopes \in Targets : FenceStart(f, scopes))
                                     \/ FenceStep(f) \/ FencePanic(f)
            PROVE  UNCHANGED result
        BY <3>3 DEF FenceStart, FenceStep, FenceMark, FenceRemove, FenceJoin, FenceRaised,
           FenceWork, FencePanic, FenceRelease
      <3>4. ASSUME RetireStart \/ RetireStep \/ Register \/ QuitStart
            PROVE  UNCHANGED result
        BY <3>4 DEF RetireStart, RetireStep, RetireRemove, RetireJoin, RetireRest, Register,
           QuitStart
      <3>5. ASSUME QuitStep PROVE result'[d] \in {result[d], "error"}
        BY <3>5 DEF QuitStep, QuitMark, QuitRemove, QuitJoin, QuitDrained, QuitForced, QuitClear
      <3>6. Regate(d)
        BY <3>1, <3>2, <3>3, <3>4, <3>5 DEF Next
      <3>7. CASE MustUndo(d)
        BY <3>6, <3>7 DEF Regate, Continue
      <3>8. CASE ~MustUndo(d)
        BY <3>6, <3>8 DEF Regate, Return
      <3> QED
        BY <3>6, <3>7, <3>8
    <2>2. seen[d].gen = gen[conn[d]] /\ gen[conn[d]] \in Nat
      BY <2>1 DEF TypeOK, MustUndo, Confirmed, Current
    <2>3. \A f \in Fences : ~Up(f, conn[d])
      BY <2>1, ManagerAssumption DEF Regate, GateHeld, Up
    <2> QED
      BY <2>2, <2>3 DEF CrossInv
  <1> QED
    BY <1>1, <1>2, <1>3, StageAlways, SocketAlways, PTL DEF Spec, OpenMissesNoFence
=============================================================================
