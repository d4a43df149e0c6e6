--------------------------- MODULE SessionManager ---------------------------
(***************************************************************************)
(* Who may have a PostgreSQL query session, and until when: the manager's   *)
(* maps (backend/src/query_session/mod.rs), the native open in three steps  *)
(* and its cancellation by ticket (backend/src/backend.rs), the fence that  *)
(* connection and credential changes raise (backend/src/socket_lifecycle.rs) *)
(* and the shutdown of the whole backend.                                   *)
(*                                                                          *)
(* One action is one critical section of the manager's lock, or one stretch *)
(* under the lifecycle gate that no ungated step can see into.  A session   *)
(* here is a name, a socket and a connection; what it executes is the       *)
(* subject of modules QueryOutbox and SessionTransaction.                   *)
(***************************************************************************)
EXTENDS Naturals, FiniteSets, FiniteSetsExt

CONSTANTS
    Ids,            \* session IDs; the host mints one per open
    Conns,          \* stored connections
    All,            \* the scope of a global fence
    Targets,        \* scopes that one fence may cover
    Fences,         \* connection and credential changes
    MaxSessions, MaxPerConnection, MaxActive,   \* the admission limits
    Monitors,       \* lease monitors (one; 0 leaves leases out)
    MaxOwners,      \* bound: owners registered
    MaxShutdowns,   \* bound: 1 to let the backend shut down, 0 not to
    MaxPanics       \* bound: fences whose work panics

NoGate == "free"
Scopes == Conns \cup {All}

ASSUME ManagerAssumption ==
    /\ IsFiniteSet(Ids)
    /\ All \notin Conns
    /\ Targets \subseteq SUBSET Scopes
    /\ {NoGate, "retire"} \cap (Ids \cup Fences) = {} /\ Ids \cap Fences = {}
    /\ {MaxSessions, MaxPerConnection, MaxActive} \subseteq Nat
    /\ {Monitors, MaxOwners, MaxShutdowns, MaxPanics} \subseteq Nat

VARIABLES
    owner,      \* ManagerState.owners of the window, 0 for none
    sessions,   \* ManagerState.sessions
    opening,    \* ManagerState.opening
    records,    \* ManagerState.native_sessions
    closing,    \* ManagerState.closing, with All for global_closing
    gen,        \* ManagerState.generations
    alive,      \* sessions whose socket driver runs
    aborted,    \* sessions whose DriverJoins group has latched its abort
    version,    \* the stored record of each connection, as a version
    gate,       \* holder of development_gate
    tenant,     \* the owner ID the workspace uses
    pc,         \* where the open of each session is
    conn,       \* the connection it opens
    own,        \* the owner ID it was given
    seen,       \* the record and generation it read at admission
    opened,     \* QuerySessionManager::open succeeded
    result,     \* what the host was told
    cancelled,  \* OpenTicket.cancelled
    crossed,    \* a fence closed its connection since its admission
    closer,     \* close_native_session of each session
    expiring,   \* sessions the lease monitor is about to remove
    replaced,   \* sessions register_owner is about to remove
    stage,      \* progress of each fence on each scope
    target,     \* the scopes of each fence
    work,       \* what each fence is doing
    victims,    \* sessions a fence, a retirement or the shutdown removed
    retire,     \* progress of retire_window
    quit,       \* progress of shutdown_with_deadlines
    panics      \* fences that panicked

managerVars == <<owner, sessions, opening, records, closing, gen>>
socketVars  == <<alive, aborted>>
openVars    == <<pc, conn, own, seen, opened, result, cancelled, crossed>>
fenceVars   == <<stage, target, work, panics>>
callVars    == <<tenant, closer, expiring, replaced, retire, quit>>
vars == <<managerVars, socketVars, version, gate, openVars, fenceVars, victims, callVars>>

-----------------------------------------------------------------------------
OpenSteps  == {"new", "admit", "resolve", "reserve", "connect", "publish", "announce",
               "regate", "remove", "join", "done"}
CloseSteps == {"none", "gate", "remove", "join", "done"}
Stages     == {"down", "mark", "remove", "join", "up"}
WorkSteps  == {"idle", "begin", "work", "release", "late", "over"}
RetireSteps == {"none", "remove", "join", "rest"}
QuitSteps  == {"no", "mark", "remove", "join", "drain", "clear", "done"}
Removers   == Fences \cup {"retire", "quit"}

TypeOK ==
    /\ owner \in Nat /\ tenant \in Nat
    /\ sessions \subseteq Ids /\ opening \subseteq Ids /\ records \subseteq Ids
    /\ alive \subseteq Ids /\ aborted \subseteq Ids
    /\ closing \subseteq Scopes /\ gen \in [Conns -> Nat] /\ version \in [Conns -> Nat]
    /\ gate \in {NoGate, "retire"} \cup Ids \cup Fences
    /\ pc \in [Ids -> OpenSteps] /\ conn \in [Ids -> Conns] /\ own \in [Ids -> Nat]
    /\ seen \in [Ids -> [version : Nat, gen : Nat]] /\ opened \in [Ids -> BOOLEAN]
    /\ result \in [Ids -> {"none", "ok", "error"}]
    /\ cancelled \subseteq Ids /\ crossed \subseteq Ids
    /\ closer \in [Ids -> CloseSteps]
    /\ expiring \subseteq Ids /\ replaced \subseteq Ids
    /\ stage \in [Fences -> [Scopes -> Stages]] /\ target \in [Fences -> SUBSET Scopes]
    /\ work \in [Fences -> WorkSteps] /\ victims \in [Removers -> SUBSET Ids]
    /\ retire \in RetireSteps /\ quit \in QuitSteps /\ panics \in Nat

\* The workspace has registered its owner; no document has connected yet.
Init ==
    /\ owner = 1 /\ tenant = 1
    /\ sessions = {} /\ opening = {} /\ records = {} /\ closing = {}
    /\ gen = [c \in Conns |-> 0] /\ version = [c \in Conns |-> 0]
    /\ alive = {} /\ aborted = {} /\ gate = NoGate
    /\ pc = [d \in Ids |-> "new"] /\ conn \in [Ids -> Conns] /\ own = [d \in Ids |-> 0]
    /\ seen = [d \in Ids |-> [version |-> 0, gen |-> 0]]
    /\ opened = [d \in Ids |-> FALSE] /\ result = [d \in Ids |-> "none"]
    /\ cancelled = {} /\ crossed = {}
    /\ closer = [d \in Ids |-> "none"] /\ expiring = {} /\ replaced = {}
    /\ stage = [f \in Fences |-> [s \in Scopes |-> "down"]]
    /\ target = [f \in Fences |-> {}] /\ work = [f \in Fences |-> "idle"]
    /\ victims = [r \in Removers |-> {}]
    /\ retire = "none" /\ quit = "no" /\ panics = 0

InScope(d, s) == s = All \/ conn[d] = s

\* global_closing, or the connection is among those closing.
Fenced(c) == closing \cap {c, All} # {}

Opening(d) == pc[d] \notin {"new", "done"}

-----------------------------------------------------------------------------
(* Steps that several operations share.                                     *)

\* remove_and_close: out of the map; the socket goes with the last reference.
Remove(ids) == sessions' = sessions \ ids

\* join_native_sessions: forget the records, latch the abort, wait for the end.
Join(ids) ==
    /\ records' = records \ ids
    /\ aborted' = aborted \cup (ids \cap records)
    /\ alive' = alive \ (ids \cap records)

\* close_matching up to its first unlock.
TakeVictims(r, ids) ==
    /\ sessions' = sessions \ ids
    /\ victims' = [victims EXCEPT ![r] = @ \cup (ids \cap sessions)]

Goto(d, step) == pc' = [pc EXCEPT ![d] = step]

NothingSeen == [version |-> 0, gen |-> 0]

\* The rest of close_matching.
JoinVictims(r, ids) ==
    /\ Join(ids)
    /\ victims' = [victims EXCEPT ![r] = @ \ ids]

\* The open returns: its ticket and its locals are gone.
Return(d, r) ==
    /\ Goto(d, "done")
    /\ result' = [result EXCEPT ![d] = r]
    /\ seen' = [seen EXCEPT ![d] = NothingSeen] /\ opened' = [opened EXCEPT ![d] = FALSE]
    /\ cancelled' = cancelled \ {d} /\ crossed' = crossed \ {d}

\* It goes on.
Continue(d, step) == Goto(d, step) /\ UNCHANGED <<result, cancelled, crossed>>

-----------------------------------------------------------------------------
(* open_native_session.                                                     *)

\* The ticket is registered before anything else.
Start(d) ==
    /\ pc[d] = "new"
    /\ quit = "no"
    /\ Goto(d, "admit")
    /\ own' = [own EXCEPT ![d] = tenant]
    /\ UNCHANGED <<managerVars, socketVars, version, gate, conn, seen, opened, result,
                   cancelled, crossed, fenceVars, victims, callVars>>

\* Gated: the record and the generation are read together.
Admit(d) ==
    /\ pc[d] = "admit"
    /\ gate = NoGate
    /\ \/ /\ quit # "no" \/ d \in cancelled
          /\ Return(d, "error")
       \/ /\ quit = "no" /\ d \notin cancelled
          /\ seen' = [seen EXCEPT ![d] = [version |-> version[conn[d]], gen |-> gen[conn[d]]]]
          /\ Continue(d, "resolve")
          /\ UNCHANGED opened
    /\ UNCHANGED <<managerVars, socketVars, version, gate, conn, own, fenceVars, victims, callVars>>

\* Ungated: the managed server and the SSH route, either of which can fail.
Resolve(d) ==
    /\ pc[d] = "resolve"
    /\ \/ Return(d, "error")
       \/ d \notin cancelled /\ Continue(d, "reserve") /\ UNCHANGED <<seen, opened>>
    /\ UNCHANGED <<managerVars, socketVars, version, gate, conn, own, fenceVars, victims, callVars>>

On(c, ids) == {e \in ids : conn[e] = c}

Active(ids) == {conn[e] : e \in ids}

\* The limits of check_admission; a connect under way holds its place.
Limits(c) ==
    /\ Cardinality(sessions) + Cardinality(opening) < MaxSessions
    /\ Cardinality(On(c, sessions)) + Cardinality(On(c, opening)) < MaxPerConnection
    /\ On(c, sessions \cup opening) = {} => Cardinality(Active(sessions \cup opening)) < MaxActive

\* check_admission; a fresh ID is in none of the maps.
Admissible(d) ==
    /\ owner = own[d]
    /\ ~Fenced(conn[d])
    /\ d \notin sessions \cup opening \cup records
    /\ Limits(conn[d])

Reserve(d) ==
    /\ pc[d] = "reserve"
    /\ \/ /\ Admissible(d)
          /\ opening' = opening \cup {d}
          /\ records' = records \cup {d}
          /\ Goto(d, "connect")
       \/ /\ ~Admissible(d)
          /\ Goto(d, "regate")
          /\ UNCHANGED <<opening, records>>
    /\ UNCHANGED <<owner, sessions, closing, gen, socketVars, version, gate, conn, own, seen,
                   opened, result, cancelled, crossed, fenceVars, victims, callVars>>

\* connect_tracked.  A driver registered with an aborted group is aborted, and
\* the queries of the connect fail with it.
Connect(d) ==
    /\ pc[d] = "connect"
    /\ d \notin aborted
    /\ alive' = alive \cup {d}
    /\ Goto(d, "publish")
    /\ UNCHANGED <<managerVars, aborted, version, gate, conn, own, seen, opened, result,
                   cancelled, crossed, fenceVars, victims, callVars>>

\* Mutation of ConnectFails: the reservation is not given back.
ConnectFailsLeaks(d) ==
    /\ pc[d] = "connect"
    /\ Goto(d, "regate")
    /\ UNCHANGED <<managerVars, socketVars, version, gate, conn, own, seen, opened, result,
                   cancelled, crossed, fenceVars, victims, callVars>>

ConnectFails(d) ==
    /\ pc[d] = "connect"
    /\ opening' = opening \ {d}
    /\ Goto(d, "regate")
    /\ UNCHANGED <<owner, sessions, records, closing, gen, socketVars, version, gate, conn, own,
                   seen, opened, result, cancelled, crossed, fenceVars, victims, callVars>>

\* Mutation of MayPublish: only the owner is checked again.
MayPublishOwner(d) == owner = own[d]

\* What is checked again under the lock once the socket is up.
MayPublish(d) == owner = own[d] /\ ~Fenced(conn[d])

\* The reservation becomes a session, or it is released and the socket dropped.
Publish(d) ==
    /\ pc[d] = "publish"
    /\ opening' = opening \ {d}
    /\ \/ MayPublish(d) /\ sessions' = sessions \cup {d} /\ Goto(d, "announce") /\ UNCHANGED alive
       \/ ~MayPublish(d) /\ alive' = alive \ {d} /\ Goto(d, "regate") /\ UNCHANGED sessions
    /\ UNCHANGED <<owner, records, closing, gen, aborted, version, gate, conn, own, seen, opened,
                   result, cancelled, crossed, fenceVars, victims, callVars>>

\* The first event.  It fails when the session was closed meanwhile or the host
\* does not take it, and the session goes.
Announce(d) ==
    /\ pc[d] = "announce"
    /\ Goto(d, "regate")
    /\ \/ opened' = [opened EXCEPT ![d] = TRUE] /\ UNCHANGED sessions
       \/ Remove({d}) /\ UNCHANGED opened
    /\ UNCHANGED <<owner, opening, records, closing, gen, socketVars, version, gate, conn, own,
                   seen, result, cancelled, crossed, fenceVars, victims, callVars>>

\* Mutation of Current: the generation is not compared.
CurrentRecord(d) == seen[d].version = version[conn[d]]

\* Nothing the session depends on moved while it connected.
Current(d) == seen[d] = [version |-> version[conn[d]], gen |-> gen[conn[d]]]

Confirmed(d) == Current(d) /\ d \in sessions \cap alive

\* Mutation of MustUndo: the ticket is not looked at once the session is open.
MustUndoUncancelled(d) == opened[d] /\ quit = "no" /\ ~Confirmed(d)

\* The open was cancelled, or what it connected with has changed.
MustUndo(d) == d \in cancelled \/ (opened[d] /\ quit = "no" /\ ~Confirmed(d))

\* Gated again: the open closes its own session, or returns it, or returns an
\* error because it failed or because the shutdown owns the session now.
Regate(d) ==
    /\ pc[d] = "regate"
    /\ gate = NoGate
    /\ \/ /\ MustUndo(d)
          /\ Continue(d, "remove") /\ gate' = d
          /\ UNCHANGED <<seen, opened>>
       \/ /\ ~MustUndo(d)
          /\ Return(d, IF opened[d] /\ quit = "no" THEN "ok" ELSE "error")
          /\ UNCHANGED gate
    /\ UNCHANGED <<managerVars, socketVars, version, conn, own, fenceVars, victims, callVars>>

\* close_native by the open itself, under the gate.
UndoRemove(d) ==
    /\ pc[d] = "remove"
    /\ Remove({d})
    /\ Goto(d, "join")
    /\ UNCHANGED <<owner, opening, records, closing, gen, socketVars, version, gate, conn, own,
                   seen, opened, result, cancelled, crossed, fenceVars, victims, callVars>>

UndoJoin(d) ==
    /\ pc[d] = "join"
    /\ Join({d})
    /\ Return(d, "error")
    /\ gate' = NoGate
    /\ UNCHANGED <<owner, sessions, opening, closing, gen, version, conn, own, fenceVars, victims,
                   callVars>>

OpenStep(d) ==
    \/ Admit(d) \/ Resolve(d) \/ Reserve(d) \/ Connect(d) \/ ConnectFails(d) \/ Publish(d)
    \/ Announce(d) \/ Regate(d) \/ UndoRemove(d) \/ UndoJoin(d)

-----------------------------------------------------------------------------
(* close_native_session: the open is cancelled first, not waited for.        *)

CloseStart(d) ==
    /\ closer[d] = "none" /\ pc[d] # "new"
    /\ cancelled' = IF Opening(d) THEN cancelled \cup {d} ELSE cancelled
    /\ closer' = [closer EXCEPT ![d] = IF quit = "no" THEN "gate" ELSE "done"]
    /\ UNCHANGED <<managerVars, socketVars, version, gate, pc, conn, own, seen, opened, result,
                   crossed, fenceVars, victims, tenant, expiring, replaced, retire, quit>>

CloseGate(d) ==
    /\ closer[d] = "gate"
    /\ gate = NoGate
    /\ \/ quit = "no" /\ gate' = d /\ closer' = [closer EXCEPT ![d] = "remove"]
       \/ quit # "no" /\ closer' = [closer EXCEPT ![d] = "done"] /\ UNCHANGED gate
    /\ UNCHANGED <<managerVars, socketVars, version, openVars, fenceVars, victims, tenant,
                   expiring, replaced, retire, quit>>

\* Mutation of CloseRemove: the open is waited for, with the gate held.
CloseRemoveWaits(d) ==
    /\ closer[d] = "remove"
    /\ ~Opening(d)
    /\ Remove({d})
    /\ closer' = [closer EXCEPT ![d] = "join"]
    /\ UNCHANGED <<owner, opening, records, closing, gen, socketVars, version, gate, openVars,
                   fenceVars, victims, tenant, expiring, replaced, retire, quit>>

CloseRemove(d) ==
    /\ closer[d] = "remove"
    /\ Remove({d})
    /\ closer' = [closer EXCEPT ![d] = "join"]
    /\ UNCHANGED <<owner, opening, records, closing, gen, socketVars, version, gate, openVars,
                   fenceVars, victims, tenant, expiring, replaced, retire, quit>>

CloseJoin(d) ==
    /\ closer[d] = "join"
    /\ Join({d})
    /\ gate' = NoGate
    /\ closer' = [closer EXCEPT ![d] = "done"]
    /\ UNCHANGED <<owner, sessions, opening, closing, gen, version, openVars, fenceVars, victims,
                   tenant, expiring, replaced, retire, quit>>

CloseStep(d) == CloseGate(d) \/ CloseRemove(d) \/ CloseJoin(d)

-----------------------------------------------------------------------------
(* A fence: with_connection_fence, with_connection_ids_fence and            *)
(* with_global_fence, called under the gate.                                *)

FenceStart(f, scopes) ==
    /\ work[f] = "idle"
    /\ quit = "no" /\ gate = NoGate
    /\ gate' = f
    /\ work' = [work EXCEPT ![f] = "begin"]
    /\ target' = [target EXCEPT ![f] = scopes]
    /\ stage' = [stage EXCEPT ![f] = [s \in Scopes |-> IF s \in scopes THEN "mark" ELSE "down"]]
    /\ UNCHANGED <<managerVars, socketVars, version, openVars, panics, victims, callVars>>

\* begin_connection_teardown and begin_global_teardown: first refuse, ...
FenceMark(f, s) ==
    /\ work[f] = "begin" /\ stage[f][s] = "mark"
    /\ closing' = closing \cup {s}
    /\ stage' = [stage EXCEPT ![f][s] = "remove"]
    /\ UNCHANGED <<owner, sessions, opening, records, gen, socketVars, version, gate, openVars,
                   target, work, panics, victims, callVars>>

\* ... then take what is there out of the map, ...
FenceRemove(f, s) ==
    /\ work[f] = "begin" /\ stage[f][s] = "remove"
    /\ TakeVictims(f, {d \in Ids : InScope(d, s)})
    /\ crossed' = IF s = All THEN crossed
                  ELSE crossed \cup {d \in Ids : conn[d] = s /\ Opening(d) /\ pc[d] # "admit"}
    /\ stage' = [stage EXCEPT ![f][s] = "join"]
    /\ UNCHANGED <<owner, opening, records, closing, gen, socketVars, version, gate, pc, conn,
                   own, seen, opened, result, cancelled, target, work, panics, callVars>>

\* ... close it and wait for its sockets and workers.
FenceJoin(f, s) ==
    /\ work[f] = "begin" /\ stage[f][s] = "join"
    /\ JoinVictims(f, {d \in victims[f] : InScope(d, s)})
    /\ stage' = [stage EXCEPT ![f][s] = "up"]
    /\ UNCHANGED <<owner, sessions, opening, closing, gen, version, gate, openVars, target, work,
                   panics, callVars>>

FenceRaised(f) ==
    /\ work[f] = "begin"
    /\ \A s \in target[f] : stage[f][s] = "up"
    /\ work' = [work EXCEPT ![f] = "work"]
    /\ UNCHANGED <<managerVars, socketVars, version, gate, openVars, stage, target, panics,
                   victims, callVars>>

\* The change itself; a disconnect leaves the stored record as it is.
FenceWork(f) ==
    /\ work[f] = "work"
    /\ work' = [work EXCEPT ![f] = "release"]
    /\ \/ UNCHANGED version
       \/ version' = [c \in Conns |-> IF {c, All} \cap target[f] # {} THEN version[c] + 1
                                   ELSE version[c]]
    /\ UNCHANGED <<managerVars, socketVars, gate, openVars, stage, target, panics, victims,
                   callVars>>

\* The change panics: FenceGuard's drop leaves the release to a task of its own,
\* which the gate does not wait for.
FencePanic(f) ==
    /\ work[f] = "work"
    /\ panics < MaxPanics
    /\ panics' = panics + 1
    /\ work' = [work EXCEPT ![f] = "late"]
    /\ gate' = NoGate
    /\ UNCHANGED <<managerVars, socketVars, version, openVars, stage, target, victims, callVars>>

\* release_fence, one scope: only a connection's own teardown moves its generation.
FenceRelease(f, s) ==
    /\ work[f] \in {"release", "late"} /\ stage[f][s] = "up"
    /\ closing' = closing \ {s}
    /\ gen' = IF s = All THEN gen ELSE [gen EXCEPT ![s] = @ + 1]
    /\ stage' = [stage EXCEPT ![f][s] = "down"]
    /\ IF \A t \in target[f] \ {s} : stage[f][t] = "down"
       THEN /\ work' = [work EXCEPT ![f] = "over"]
            /\ gate' = IF work[f] = "release" THEN NoGate ELSE gate
       ELSE UNCHANGED <<work, gate>>
    /\ UNCHANGED <<owner, sessions, opening, records, socketVars, version, openVars, target,
                   panics, victims, callVars>>

FenceStep(f) ==
    \/ \E s \in Scopes : FenceMark(f, s) \/ FenceRemove(f, s) \/ FenceJoin(f, s)
    \/ FenceRaised(f) \/ FenceWork(f)
    \/ \E s \in Scopes : FenceRelease(f, s)

-----------------------------------------------------------------------------
(* The window's owner, the lease monitor and the sockets.                   *)

\* retire_window, under the gate: no owner, no session, then every record of
\* the window.  (Bound: only an owner that another may follow is retired.)
RetireStart ==
    /\ retire = "none" /\ owner # 0 /\ tenant < MaxOwners
    /\ quit = "no" /\ gate = NoGate
    /\ gate' = "retire"
    /\ owner' = 0
    /\ retire' = "remove"
    /\ UNCHANGED <<sessions, opening, records, closing, gen, socketVars, version, openVars,
                   fenceVars, victims, tenant, closer, expiring, replaced, quit>>

RetireRemove ==
    /\ retire = "remove"
    /\ TakeVictims("retire", Ids)
    /\ retire' = "join"
    /\ UNCHANGED <<owner, opening, records, closing, gen, socketVars, version, gate, openVars,
                   fenceVars, tenant, closer, expiring, replaced, quit>>

RetireJoin ==
    /\ retire = "join"
    /\ JoinVictims("retire", victims["retire"])
    /\ retire' = "rest"
    /\ UNCHANGED <<owner, sessions, opening, closing, gen, version, gate, openVars, fenceVars,
                   tenant, closer, expiring, replaced, quit>>

RetireRest ==
    /\ retire = "rest"
    /\ Join(records)
    /\ retire' = "none"
    /\ gate' = NoGate
    /\ UNCHANGED <<owner, sessions, opening, closing, gen, version, openVars, fenceVars, victims,
                   tenant, closer, expiring, replaced, quit>>

RetireStep == RetireRemove \/ RetireJoin \/ RetireRest

\* register_owner: a new owner replaces the old one and the sessions it had.
Register ==
    /\ tenant < MaxOwners
    /\ quit = "no" /\ replaced = {}
    /\ tenant' = tenant + 1 /\ owner' = tenant + 1
    /\ replaced' = IF owner = 0 THEN {} ELSE {d \in sessions : own[d] # tenant + 1}
    /\ UNCHANGED <<sessions, opening, records, closing, gen, socketVars, version, gate, openVars,
                   fenceVars, victims, closer, expiring, retire, quit>>

RegisterRemove(d) ==
    /\ d \in replaced
    /\ replaced' = replaced \ {d}
    /\ Remove({d})
    /\ UNCHANGED <<owner, opening, records, closing, gen, socketVars, version, gate, openVars,
                   fenceVars, victims, tenant, closer, expiring, retire, quit>>

\* expire_stalled decides on a copy of the map, and removes by ID later.
ExpireCheck(d) ==
    /\ d \in sessions
    /\ Cardinality(expiring) < Monitors
    /\ quit = "no"
    /\ expiring' = expiring \cup {d}
    /\ UNCHANGED <<managerVars, socketVars, version, gate, openVars, fenceVars, victims, tenant,
                   closer, replaced, retire, quit>>

ExpireRemove(d) ==
    /\ d \in expiring
    /\ expiring' = expiring \ {d}
    /\ Remove({d})
    /\ UNCHANGED <<owner, opening, records, closing, gen, socketVars, version, gate, openVars,
                   fenceVars, victims, tenant, closer, replaced, retire, quit>>

\* A socket ends: lost, or dropped with the last reference to its session.
SocketEnds(d) ==
    /\ d \in alive
    /\ alive' = alive \ {d}
    /\ UNCHANGED <<managerVars, aborted, version, gate, openVars, fenceVars, victims, callVars>>

-----------------------------------------------------------------------------
(* shutdown_with_deadlines.                                                 *)

\* Submissions are refused and the monitor is stopped.
QuitStart ==
    /\ quit = "no" /\ MaxShutdowns > 0
    /\ quit' = "mark"
    /\ expiring' = {}
    /\ UNCHANGED <<managerVars, socketVars, version, gate, openVars, fenceVars, victims, tenant,
                   closer, replaced, retire>>

QuitMark ==
    /\ quit = "mark"
    /\ closing' = closing \cup {All}
    /\ quit' = "remove"
    /\ UNCHANGED <<owner, sessions, opening, records, gen, socketVars, version, gate, openVars,
                   fenceVars, victims, tenant, closer, expiring, replaced, retire>>

QuitRemove ==
    /\ quit = "remove"
    /\ TakeVictims("quit", Ids)
    /\ quit' = "join"
    /\ UNCHANGED <<owner, opening, records, closing, gen, socketVars, version, gate, openVars,
                   fenceVars, tenant, closer, expiring, replaced, retire>>

QuitJoin ==
    /\ quit = "join"
    /\ JoinVictims("quit", victims["quit"])
    /\ quit' = "drain"
    /\ UNCHANGED <<owner, sessions, opening, closing, gen, version, gate, openVars, fenceVars,
                   tenant, closer, expiring, replaced, retire>>

\* Mutation of QuitDrained: the tasks of native opens are not tracked.
QuitDrainedUntracked ==
    /\ quit = "drain"
    /\ alive = {} /\ replaced = {} /\ retire = "none"
    /\ \A f \in Fences : work[f] \in {"idle", "late", "over"}
    /\ quit' = "clear"
    /\ UNCHANGED <<managerVars, socketVars, version, gate, openVars, fenceVars, victims, tenant,
                   closer, expiring, replaced, retire>>

\* Every tracked task and socket ended in time.
QuitDrained ==
    /\ quit = "drain"
    /\ alive = {} /\ replaced = {} /\ retire = "none"
    /\ \A d \in Ids : ~Opening(d) /\ closer[d] \in {"none", "done"}
    /\ \A f \in Fences : work[f] \in {"idle", "late", "over"}
    /\ quit' = "clear"
    /\ UNCHANGED <<managerVars, socketVars, version, gate, openVars, fenceVars, victims, tenant,
                   closer, expiring, replaced, retire>>

\* The graceful deadline passed: every tracked task is aborted and joined.  A
\* fence that had been raised is released by the task its guard leaves behind.
QuitForced ==
    /\ quit \in {"remove", "join", "drain"}
    /\ quit' = "clear"
    /\ pc' = [d \in Ids |-> IF Opening(d) THEN "done" ELSE pc[d]]
    /\ result' = [d \in Ids |-> IF Opening(d) THEN "error" ELSE result[d]]
    /\ closer' = [d \in Ids |-> IF closer[d] = "none" THEN "none" ELSE "done"]
    /\ work' = [f \in Fences |-> IF work[f] \in {"work", "release"} THEN "late"
                                 ELSE IF work[f] = "begin" THEN "over" ELSE work[f]]
    /\ seen' = [d \in Ids |-> NothingSeen] /\ opened' = [d \in Ids |-> FALSE]
    /\ cancelled' = {} /\ crossed' = {} /\ victims' = [r \in Removers |-> {}]
    /\ alive' = {} /\ aborted' = Ids /\ gate' = NoGate /\ replaced' = {} /\ retire' = "none"
    /\ UNCHANGED <<managerVars, version, conn, own, stage, target, panics, tenant, expiring>>

\* clear_native_reservations.
QuitClear ==
    /\ quit = "clear"
    /\ owner' = 0 /\ opening' = {} /\ records' = {} /\ sessions' = {}
    /\ quit' = "done"
    /\ UNCHANGED <<closing, gen, socketVars, version, gate, openVars, fenceVars, victims, tenant,
                   closer, expiring, replaced, retire>>

QuitStep == QuitMark \/ QuitRemove \/ QuitJoin \/ QuitDrained \/ QuitForced \/ QuitClear

-----------------------------------------------------------------------------
Next ==
    \/ \E d \in Ids : Start(d) \/ OpenStep(d) \/ CloseStart(d) \/ CloseStep(d)
    \/ \E f \in Fences : \/ \E scopes \in Targets : FenceStart(f, scopes)
                         \/ FenceStep(f) \/ FencePanic(f)
    \/ RetireStart \/ RetireStep \/ Register
    \/ \E d \in Ids : RegisterRemove(d) \/ ExpireCheck(d) \/ ExpireRemove(d) \/ SocketEnds(d)
    \/ QuitStart \/ QuitStep

Spec == Init /\ [][Next]_vars

\* Tokio polls ready tasks, connects have a deadline and the gate is a fair
\* mutex.  Nobody has to start anything, and a lost socket is not promised.
Fairness ==
    /\ \A d \in Ids : WF_vars(OpenStep(d)) /\ WF_vars(CloseStep(d))
    /\ \A f \in Fences : WF_vars(FenceStep(f))
    /\ WF_vars(RetireStep)
    /\ WF_vars(QuitStep)

FairSpec == Spec /\ Fairness

-----------------------------------------------------------------------------
(* What must hold.                                                          *)

\* The limits on sessions hold at every moment, although a session is counted
\* long before its socket exists and several opens connect at once.
LimitsHold ==
    /\ Cardinality(sessions \cup opening) <= MaxSessions
    /\ \A c \in Conns : Cardinality(On(c, sessions \cup opening)) <= MaxPerConnection
    /\ Cardinality(Active(sessions \cup opening)) <= MaxActive

\* While a fence's change runs, no session of its scopes is in the map, however
\* the opens that were connecting when it was raised interleave with it.
FenceQuiet ==
    \A f \in Fences : work[f] = "work" =>
        \A d \in sessions, s \in target[f] : ~InScope(d, s)

\* A host is never handed a session whose connection was torn down since its
\* record was read, even when the teardown began and ended during the connect.
OpenMissesNoFence ==
    [][\A d \in Ids : result'[d] = "ok" /\ result[d] # "ok" => d \notin crossed]_vars

\* Once a document's close is over and its open has returned, nothing of the
\* session is left, whichever of the two came first at each step.
ClosedLeavesNothing ==
    \A d \in Ids : closer[d] = "done" /\ ~Opening(d) /\ quit = "no" =>
        d \notin sessions \cup opening \cup records \cup alive

\* Every live socket has a record, so that a close, a fence, a retirement or the
\* shutdown can join it even after its session left the map.
SocketsRecorded == alive \subseteq records

\* A reservation is held only by an open that is connecting.
ReservationsHeld ==
    quit # "clear" => opening = {d \in Ids : pc[d] \in {"connect", "publish"}}

\* Nothing an open takes is lost or taken twice: sockets have their records,
\* reservations their opens, and both together stay within the limits.
ResourcesHeld == SocketsRecorded /\ ReservationsHeld /\ LimitsHold

\* A shutdown leaves no session behind, although the fence of a change that
\* ends meanwhile lowers the global flag the shutdown raised (one flag for
\* both, end_global_teardown) and lets a connecting open publish behind the
\* teardown: what is in the map then no host was handed, every open and every
\* socket has ended before the maps are cleared, and none comes after.
ShutdownLeavesNothing ==
    /\ quit \in {"join", "drain"} => \A d \in sessions : result[d] # "ok"
    /\ quit \in {"clear", "done"} => alive = {} /\ \A d \in Ids : ~Opening(d)
    /\ quit = "done" => sessions \cup opening \cup records = {}

\* A close completes, and the host is told how its open ended.
ClosesComplete == \A d \in Ids : closer[d] = "gate" ~> closer[d] = "done"
OpensReturn == \A d \in Ids : pc[d] = "admit" ~> pc[d] = "done"

\* The gate, the tickets and the joins never wait for each other in a circle:
\* a close that joins an open under the gate and the open both end.
NoWaitCircle == ClosesComplete /\ OpensReturn
=============================================================================
