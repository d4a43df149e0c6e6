------------------------- MODULE ToolJobsProofs -------------------------
(***************************************************************************)
(* Proofs about ToolJobs, for any set of attempts and connections.  The    *)
(* invariant says attempt by attempt what the registry, the job, its       *)
(* worker, its process and its archive know of each other, and for the     *)
(* whole who owns the permits, the gate and the fences.  A step of a worker *)
(* or of the registry is first shown to be a move that changes the slots   *)
(* of one attempt to values that agree again; what such a move does to the *)
(* permits, the gate and the fences is then proved once.                   *)
(***************************************************************************)
EXTENDS ToolJobs, FiniteSetTheorems, TLAPS

\* The phases a job that nobody cancelled shows while its worker is at pc.
WorkPhases(pc, stage) ==
    CASE pc = "preflight" -> {"Queued"}
      [] pc \in {"spawn", "wait", "reap", "exited"} ->
            IF stage = "version" THEN {"Preflight"} ELSE {"Running"}
      [] pc = "running" -> {"Preflight"}
      [] pc = "finalizing" -> {"Running"}
      [] pc \in {"ready", "publish"} -> {"Finalizing"}
      [] OTHER -> {"Preflight", "Running", "Finalizing"}

\* A restore that committed, and where the claim may not know of it yet.
Kept(c) == c.stage = "restore" /\ c.state = "ok"
LateCommit == {"wait", "reap", "exited"}

\* The claim, the phase and the commit agree.
ClaimOk(e, j, w, c) ==
    \/ /\ j.outcome = "Open" /\ j.phase \in WorkPhases(w.pc, c.stage)
       /\ Kept(c) => w.pc \in LateCommit
    \/ /\ j.outcome = "Cancelled" /\ j.phase = "Cancelling"
       /\ Kept(c) => w.pc \in LateCommit
    \/ /\ j.outcome = "CancelledFinal" /\ j.phase = "Cancelling"
       /\ w.pc = "terminal" /\ ~Kept(c)
    \/ /\ j.outcome = "Irreversible" /\ Kept(c)
       /\ \/ w.pc \in {"exited", "reap", "finalizing"} /\ j.phase \in {"Running", "Cancelling"}
          \/ w.pc \in {"ready", "publish", "judge", "terminal"} /\ j.phase = "Finalizing"
    \/ /\ j.outcome = "Publishing" /\ e.kind = "Backup" /\ j.phase = "Finalizing"
       /\ w.pc \in {"publish", "judge", "terminal"}

\* What the worker's process is and did by the time the worker is at pc.
ChildOk(e, w, c) ==
    /\ c.stage \in {"list", "restore"} => e.kind = "Restore"
    /\ c.stage = "dump" => e.kind = "Backup"
    /\ c.stage = "none" => c.state = "none" /\ w.pc \in {"preflight", "judge", "terminal", "done"}
    /\ w.pc = "preflight" => c.stage = "none"
    /\ c.state = "running" => w.pc \in {"wait", "reap"}
    /\ w.pc \in {"wait", "reap"} => c.state # "none"
    /\ w.pc = "exited" => c.state \in {"ok", "err"}
    /\ w.pc = "spawn" => c.state = "none"
    /\ w.pc = "running" => c.stage = "version" /\ c.state = "ok"
    /\ w.pc \in {"finalizing", "ready", "publish"} =>
            c.state = "ok" /\ c.stage = IF e.kind = "Backup" THEN "dump" ELSE "restore"

\* The permit is the job's until its reaper takes it over.
ReaperOk(j, w, c) ==
    /\ w.pc \in {"preflight", "running", "spawn", "wait", "exited"} => j.reaper = "none"
    /\ j.reaper = "running" => w.pc = "reap"
    /\ w.pc = "reap" => j.reaper # "none" /\ w.result \in {"Failed", "Cancelled", "Timeout"}
    /\ j.permit <=> j.active /\ j.reaper = "none"
    /\ j.reaper = "done" => c.state # "running"
    /\ w.pc = "reap" /\ j.reaper = "done" /\ Kept(c) => j.outcome = "Irreversible"

\* What the worker found, and what it did about it.
ResultOk(e, j, w, c, f) ==
    /\ j.signal => j.outcome # "Open"
    /\ w.pc \in {"finalizing", "ready", "publish"} /\ e.kind = "Restore" => j.outcome = "Irreversible"
    /\ w.pc = "ready" /\ e.kind = "Backup" => j.outcome \in {"Open", "Cancelled"}
    /\ w.pc = "publish" => j.outcome \in {"Publishing", "Irreversible"}
    /\ f.published => w.pc \in {"judge", "terminal", "done"} /\ j.outcome = "Publishing"
    /\ w.pc = "reap" /\ w.result = "Cancelled" => j.signal
    /\ w.pc \in {"judge", "terminal"} =>
        /\ w.result # "none"
        /\ w.result = "ok" <=> f.published \/ Kept(c)
        /\ w.result = "Cancelled" => j.outcome \in {"Cancelled", "CancelledFinal"}
    /\ j.effects => w.pc \in {"terminal", "done"}
    /\ w.pc = "terminal" => (j.effects <=> w.result = "ok")

\* What a job, its worker, its process and its archive say of each other.
JobOk(e, j, w, c, f) ==
    IF ~e.job
    THEN j = NoJob /\ w = NoWorker /\ c = NoChild /\ ~f.published
    ELSE /\ w.pc # "none" /\ (j.active <=> w.pc # "done")
         /\ e.kind \in {"Backup", "Restore"}
         /\ j.dispatched <=> c.stage = "restore" /\ c.state # "none"
         /\ w.pc # "done" => ClaimOk(e, j, w, c)
         /\ w.pc = "done" =>
                /\ j.phase \in Terminal
                /\ j.phase = "Completed" <=> f.published \/ Kept(c)
                /\ j.effects <=> j.phase = "Completed"
         /\ ChildOk(e, w, c)
         /\ ReaperOk(j, w, c)
         /\ ResultOk(e, j, w, c, f)

\* Who works for an attempt, by what the registry shows of it.
Clean(e, f) == ~f.private /\ ~e.held

RegistryOk(e, t, m, p, f, w) ==
    /\ e.phase = "none" =>
        e = NoEntry /\ t.pc = "idle" /\ ~f.private /\ m.pc \in {"none", "loop", "done"}
    /\ e.phase # "none" => e.kind \in Kinds /\ e.conn \in Conns /\ m.pc # "none"
    /\ e.held <=> p.state # "none"
    /\ e.job =>
        /\ ~e.held /\ t.pc = "idle" /\ e.phase \in Phases
        /\ m.pc \notin {"cleaning", "cleaned", "uncleaned"}
    /\ ~e.job =>
        /\ m.pc \notin {"retire", "publish", "archive"}
        /\ e.cancel => e.phase \in {"Cancelling"} \cup Terminal
        /\ e.phase \in Terminal => t.pc = "idle" /\ m.pc \in {"loop", "done"}
    /\ t.pc # "idle" => e.phase \in {"Preparing", "Queued", "Cancelling"}
    /\ t.pc \in {"dispatch", "retire", "start"} => e.phase \in {"Queued", "Cancelling"}
    /\ t.pc = "cleaned" => Clean(e, f)
    /\ m.pc \in {"cleaning", "cleaned", "uncleaned"} => t.pc = "idle" /\ e.phase = "Cancelling"
    /\ m.pc = "cleaned" => Clean(e, f)
    /\ m.pc = "done" => e.phase \in Terminal \cup {"none"}
    /\ e.cleanup = "Complete" =>
        /\ e.phase \in Terminal /\ t.pc = "idle" /\ Clean(e, f)
        /\ e.job => m.pc = "done" /\ w.pc = "done"

\* What the monitor has seen of a job, and what it showed of its end.
ShownOk(e, m, j, w) ==
    /\ m.pc \in {"retire", "publish"} =>
        /\ m.seen \in Phases
        /\ m.seen \in Terminal => m.seen = j.phase /\ m.dispatched = j.dispatched
        /\ e.phase \in Terminal => m.seen \in Terminal
    /\ m.pc = "archive" => e.phase \in Terminal /\ w.pc = "done"
    /\ e.job /\ e.phase \in Terminal =>
        e.phase = j.phase /\ e.effect = ShownEffect(j.phase, j.dispatched)

\* Every attempt is in its slot of each map, and what the maps say of it agrees.
Types(e, t, m, p, j, w, c, f) ==
    /\ e \in EntryType /\ t \in TaskType /\ m \in MonitorType /\ p \in PendingType
    /\ j \in JobType /\ w \in WorkerType /\ c \in ChildType /\ f \in FilesType

Good(e, t, m, p, j, w, c, f) ==
    /\ Types(e, t, m, p, j, w, c, f)
    /\ JobOk(e, j, w, c, f)
    /\ RegistryOk(e, t, m, p, f, w)
    /\ ShownOk(e, m, j, w)

GoodAt(a) == Good(entry[a], task[a], monitor[a], pending[a], job[a], worker[a], child[a], files[a])

Slots ==
    /\ entry \in [Attempts -> EntryType] /\ task \in [Attempts -> TaskType]
    /\ monitor \in [Attempts -> MonitorType] /\ pending \in [Attempts -> PendingType]
    /\ job \in [Attempts -> JobType] /\ worker \in [Attempts -> WorkerType]
    /\ child \in [Attempts -> ChildType] /\ files \in [Attempts -> FilesType]

SlotsInv == Slots /\ \A a \in Attempts : GoodAt(a)

\* Who owns a reaper permit: an admission, a job, or the reaper that has it from
\* the job.
Owns(p, j) == p.state # "none" \/ j.permit \/ j.reaper = "running"
Owners == {a \in Attempts : Owns(pending[a], job[a])}

PermitInv ==
    /\ IsFiniteSet(Owners)
    /\ permits \in 0..MaxPermits /\ permits = Cardinality(Owners)

\* Who holds the gate, and the data documents that a restore keeps closed.
GateInv ==
    /\ change.at.pc # "idle" => gate = Global
    /\ \A a \in Attempts : task[a].pc \in {"retire", "start"} => gate = a
    /\ \A a \in Attempts :
        entry[a].kind = "Restore" /\ (task[a].pc = "start" \/ job[a].active) => entry[a].conn \notin docs

\* A fence that stands is that of the change under way or of shutdown.
Closing(s) ==
    (IF change.at.pc \in {"waiting", "work"} /\ change.at.scope = s THEN 1 ELSE 0)
    + (IF s = Global /\ down = "fenced" THEN 1 ELSE 0)

InUse(s) == InScope(s) \cap (Live(Attempts) \cup Held)

FenceInv ==
    /\ change.at.pc # "idle" => change.n > 0
    /\ \A s \in Scopes : scope[s].closing = Closing(s)
    /\ change.at.pc = "waiting" => InUse(change.at.scope) \subseteq change.at.waits
    /\ change.at.pc = "work" /\ change.at.waited => InUse(change.at.scope) = {}

HostTypes ==
    /\ scope \in [Scopes -> [closing : Nat, generation : Nat]]
    /\ gate \in Attempts \cup {Nobody, Global}
    /\ change \in [n : 0..MaxChanges,
                   at : [pc : {"idle", "checked", "waiting", "work"},
                         scope : Scopes, waits : SUBSET Attempts, waited : BOOLEAN]]
    /\ docs \subseteq Conns
    /\ down \in {"up", "closed", "fenced"}
    /\ panicked \in BOOLEAN

ToolInv ==
    /\ SlotsInv /\ HostTypes /\ NoPanic
    /\ PermitInv /\ GateInv /\ FenceInv

----------------------------------------------------------------------------
(* Steps.  A step of one attempt puts new values in its slots; a plain one  *)
(* takes no permit, gate or document and brings the attempt nowhere near a  *)
(* fence.                                                                   *)

Put(a, e, t, m, p, j, w, c, f) ==
    /\ entry' = [entry EXCEPT ![a] = e] /\ task' = [task EXCEPT ![a] = t]
    /\ monitor' = [monitor EXCEPT ![a] = m] /\ pending' = [pending EXCEPT ![a] = p]
    /\ job' = [job EXCEPT ![a] = j] /\ worker' = [worker EXCEPT ![a] = w]
    /\ child' = [child EXCEPT ![a] = c] /\ files' = [files EXCEPT ![a] = f]

Balance(a, p, j) ==
    \/ permits' = permits /\ (Owns(p, j) <=> Owns(pending[a], job[a]))
    \/ permits' = permits - 1 /\ Owns(pending[a], job[a]) /\ ~Owns(p, j)

Plain(a, e, t, m, p, j, w, c, f) ==
    /\ Put(a, e, t, m, p, j, w, c, f) /\ Good(e, t, m, p, j, w, c, f)
    /\ Balance(a, p, j)
    /\ j.active \/ p.state # "none" \/ t.pc = "start" =>
            e.conn = entry[a].conn /\ e.kind = entry[a].kind
    /\ j.active => job[a].active
    /\ p.state # "none" => pending[a].state # "none"
    /\ t.pc \in {"retire", "start"} => t.pc = task[a].pc
    /\ UNCHANGED <<scope, gate, change, down>> /\ docs' \subseteq docs
    /\ panicked' = FALSE

PlainMove(a) == \E e, t, m, p, j, w, c, f : Plain(a, e, t, m, p, j, w, c, f)

\* A step of the job's worker, process or reaper.
Work(a, j, w, c, f) ==
    /\ UNCHANGED <<entry, task, monitor, pending>>
    /\ job' = [job EXCEPT ![a] = j] /\ worker' = [worker EXCEPT ![a] = w]
    /\ child' = [child EXCEPT ![a] = c] /\ files' = [files EXCEPT ![a] = f]
    /\ worker[a].pc \notin {"none", "done"}
    /\ j \in JobType /\ w \in WorkerType /\ c \in ChildType /\ f \in FilesType
    /\ JobOk(entry[a], j, w, c, f)
    /\ Balance(a, pending[a], j)
    /\ UNCHANGED <<scope, gate, change, docs, down>>
    /\ panicked' = FALSE

WorkMove(a) == \E j, w, c, f : Work(a, j, w, c, f)

\* A step of the registry: an attempt's tasks and monitor, and its user.
Reg(a, e, t, m, p, f) ==
    /\ entry' = [entry EXCEPT ![a] = e] /\ task' = [task EXCEPT ![a] = t]
    /\ monitor' = [monitor EXCEPT ![a] = m] /\ pending' = [pending EXCEPT ![a] = p]
    /\ UNCHANGED <<job, worker, child>> /\ files' = [files EXCEPT ![a] = f]
    /\ e \in EntryType /\ t \in TaskType /\ m \in MonitorType /\ p \in PendingType /\ f \in FilesType
    /\ e.job = entry[a].job /\ e.kind = entry[a].kind /\ e.conn = entry[a].conn
    /\ f.published = files[a].published
    /\ RegistryOk(e, t, m, p, f, worker[a]) /\ ShownOk(e, m, job[a], worker[a])
    /\ \/ permits' = permits /\ p = pending[a]
       \/ permits' = permits /\ p.state = "none" /\ pending[a].state = "none"
       \/ permits' = permits - 1 /\ ~entry[a].job /\ p.state = "none" /\ pending[a].state # "none"
    /\ t.pc \in {"retire", "start"} => t.pc = task[a].pc
    /\ UNCHANGED <<scope, gate, change, down>> /\ docs' \subseteq docs
    /\ panicked' = FALSE

RegMove(a) == \E e, t, m, p, f : Reg(a, e, t, m, p, f)

\* What a slot holds.
LEMMA SlotAt ==
    ASSUME SlotsInv, NEW a \in Attempts
    PROVE  /\ entry[a] \in EntryType /\ task[a] \in TaskType /\ monitor[a] \in MonitorType
           /\ pending[a] \in PendingType /\ job[a] \in JobType /\ worker[a] \in WorkerType
           /\ child[a] \in ChildType /\ files[a] \in FilesType
           /\ JobOk(entry[a], job[a], worker[a], child[a], files[a])
           /\ RegistryOk(entry[a], task[a], monitor[a], pending[a], files[a], worker[a])
           /\ ShownOk(entry[a], monitor[a], job[a], worker[a])
  BY DEF SlotsInv, GoodAt, Good, Types

\* A slot that keeps its value is put it again.
LEMMA SlotKept ==
    ASSUME Slots, NEW a \in Attempts
    PROVE  /\ entry = [entry EXCEPT ![a] = entry[a]] /\ task = [task EXCEPT ![a] = task[a]]
           /\ monitor = [monitor EXCEPT ![a] = monitor[a]]
           /\ pending = [pending EXCEPT ![a] = pending[a]]
           /\ job = [job EXCEPT ![a] = job[a]] /\ worker = [worker EXCEPT ![a] = worker[a]]
           /\ child = [child EXCEPT ![a] = child[a]] /\ files = [files EXCEPT ![a] = files[a]]
  BY DEF Slots

\* A worker's step leaves what the registry shows in order.
LEMMA WorkKeepsShown ==
    ASSUME NEW e, NEW t, NEW m, NEW p, NEW j, NEW w, NEW c, NEW f,
           Good(e, t, m, p, j, w, c, f), w.pc \notin {"none", "done"},
           NEW j2 \in JobType, NEW w2 \in WorkerType, NEW c2 \in ChildType, NEW f2 \in FilesType,
           JobOk(e, j2, w2, c2, f2)
    PROVE  Good(e, t, m, p, j2, w2, c2, f2)
<1>1. Types(e, t, m, p, j2, w2, c2, f2)
  BY DEF Good, Types
<1>2. e.job /\ j.phase \notin Terminal
  BY DEF Good, JobOk, ClaimOk, ChildOk, ReaperOk, ResultOk, WorkPhases, LateCommit,
      Kept, NoJob, NoWorker, NoChild, Terminal, Phases, OutcomeCancelled, JobType,
      WorkerType, ChildType, FilesType, EntryType, Types
<1>3. e.phase \notin {"none"} \cup Terminal /\ e.cleanup # "Complete"
  BY <1>2 DEF Good, RegistryOk, Clean, NoEntry, Reviewable, Phases, Terminal, Types,
      EntryType, TaskType, MonitorType, PendingType, FilesType, WorkerType, ShownOk
<1>4. RegistryOk(e, t, m, p, f2, w2)
  BY <1>2, <1>3 DEF Good, RegistryOk, Clean, NoEntry, Reviewable, Phases, Terminal,
      Types, EntryType, TaskType, MonitorType, PendingType, FilesType, WorkerType
<1>5. ShownOk(e, m, j2, w2)
  BY <1>2, <1>3 DEF Good, ShownOk, ShownEffect, Phases, Terminal, Types, EntryType,
      MonitorType, JobType, WorkerType
<1> QED BY <1>1, <1>4, <1>5 DEF Good

\* A worker's move is a plain move.
LEMMA WorkIsPlain ==
    ASSUME SlotsInv, NEW a \in Attempts, WorkMove(a)
    PROVE  PlainMove(a)
<1>1. PICK j, w, c, f : Work(a, j, w, c, f)
  BY DEF WorkMove
<1>2. Good(entry[a], task[a], monitor[a], pending[a], j, w, c, f)
  BY <1>1, WorkKeepsShown DEF SlotsInv, GoodAt, Work
<1>3. Put(a, entry[a], task[a], monitor[a], pending[a], j, w, c, f)
  BY <1>1, SlotKept DEF SlotsInv, Put, Work
<1>4. j.active => job[a].active
  BY <1>1, SlotAt DEF Work, JobOk, ClaimOk, ChildOk, ReaperOk, ResultOk, WorkPhases,
      LateCommit, Kept, NoJob, NoWorker, NoChild, Terminal, Phases, OutcomeCancelled,
      JobType, WorkerType, ChildType, FilesType, EntryType, Types
<1>5. Plain(a, entry[a], task[a], monitor[a], pending[a], j, w, c, f)
  BY <1>1, <1>2, <1>3, <1>4 DEF Plain, Work
<1> QED BY <1>5 DEF PlainMove

\* A move of the registry is a plain move.
LEMMA RegIsPlain ==
    ASSUME SlotsInv, NEW a \in Attempts, RegMove(a)
    PROVE  PlainMove(a)
<1>1. PICK e, t, m, p, f : Reg(a, e, t, m, p, f)
  BY DEF RegMove
<1>2. Types(e, t, m, p, job[a], worker[a], child[a], f)
  BY <1>1, SlotAt DEF Reg, Types
<1>3. JobOk(e, job[a], worker[a], child[a], f)
  BY <1>1, SlotAt DEF Reg, JobOk, ClaimOk, ChildOk, ResultOk
<1>4. Good(e, t, m, p, job[a], worker[a], child[a], f)
  BY <1>1, <1>2, <1>3 DEF Reg, Good
<1>5. Put(a, e, t, m, p, job[a], worker[a], child[a], f)
  BY <1>1, SlotKept DEF SlotsInv, Put, Reg
<1>6. ~entry[a].job => ~job[a].permit /\ job[a].reaper = "none"
  BY SlotAt DEF JobOk, NoJob
<1>7. Balance(a, p, job[a])
  BY <1>1, <1>6 DEF Reg, Balance, Owns
<1>8. Plain(a, e, t, m, p, job[a], worker[a], child[a], f)
  BY <1>1, <1>4, <1>5, <1>7 DEF Plain, Reg
<1> QED BY <1>8 DEF PlainMove

\* New values in one slot keep every slot in order.
LEMMA PutKeepsSlots ==
    ASSUME SlotsInv, NEW a \in Attempts,
           NEW e, NEW t, NEW m, NEW p, NEW j, NEW w, NEW c, NEW f,
           Put(a, e, t, m, p, j, w, c, f), Good(e, t, m, p, j, w, c, f)
    PROVE  /\ SlotsInv'
           /\ entry'[a] = e /\ task'[a] = t /\ pending'[a] = p /\ job'[a] = j
           /\ \A b \in Attempts \ {a} :
                /\ entry'[b] = entry[b] /\ task'[b] = task[b]
                /\ pending'[b] = pending[b] /\ job'[b] = job[b]
<1>1. Slots'
  BY DEF SlotsInv, Slots, Put, Good, Types
<1>2. /\ entry'[a] = e /\ task'[a] = t /\ monitor'[a] = m /\ pending'[a] = p
      /\ job'[a] = j /\ worker'[a] = w /\ child'[a] = c /\ files'[a] = f
  BY DEF SlotsInv, Slots, Put
<1>3. \A b \in Attempts \ {a} :
        /\ entry'[b] = entry[b] /\ task'[b] = task[b] /\ monitor'[b] = monitor[b]
        /\ pending'[b] = pending[b] /\ job'[b] = job[b] /\ worker'[b] = worker[b]
        /\ child'[b] = child[b] /\ files'[b] = files[b]
  BY DEF SlotsInv, Slots, Put
<1>4. \A b \in Attempts : GoodAt(b)'
  <2> SUFFICES ASSUME NEW b \in Attempts PROVE GoodAt(b)' OBVIOUS
  <2>1. CASE b = a BY <2>1, <1>2 DEF GoodAt
  <2>2. CASE b # a BY <2>2, <1>3 DEF GoodAt, SlotsInv
  <2> QED BY <2>1, <2>2
<1> QED BY <1>1, <1>2, <1>3, <1>4 DEF SlotsInv

\* One owner more or less is one permit more or less.
LEMMA PermitKept ==
    ASSUME PermitInv, Owners' = Owners, permits' = permits
    PROVE  PermitInv'
  BY DEF PermitInv

\* An owner that gives its permit up leaves the count right.
LEMMA PermitBack ==
    ASSUME PermitInv, NEW a \in Owners, Owners' = Owners \ {a}, permits' = permits - 1
    PROVE  PermitInv'
<1>1. IsFiniteSet(Owners') /\ Cardinality(Owners') = Cardinality(Owners) - 1
  BY FS_RemoveElement DEF PermitInv
<1>2. Cardinality(Owners') \in Nat
  BY <1>1, FS_CardinalityType
<1> QED BY <1>1, <1>2, ToolJobsAssumption DEF PermitInv

\* A new owner that takes a free permit leaves the count right.
LEMMA PermitTaken ==
    ASSUME PermitInv, permits < MaxPermits, NEW a, a \notin Owners,
           Owners' = Owners \cup {a}, permits' = permits + 1
    PROVE  PermitInv'
<1>1. IsFiniteSet(Owners') /\ Cardinality(Owners') = Cardinality(Owners) + 1
  BY FS_AddElement DEF PermitInv
<1> QED BY <1>1, ToolJobsAssumption DEF PermitInv

\* A plain step keeps the invariant.
LEMMA PlainKeeps ==
    ASSUME ToolInv, NEW a \in Attempts, PlainMove(a)
    PROVE  ToolInv'
<1> USE DEF ToolInv
<1>1. PICK e, t, m, p, j, w, c, f : Plain(a, e, t, m, p, j, w, c, f)
  BY DEF PlainMove
<1>2. /\ SlotsInv'
      /\ entry'[a] = e /\ task'[a] = t /\ pending'[a] = p /\ job'[a] = j
      /\ \A b \in Attempts \ {a} :
            /\ entry'[b] = entry[b] /\ task'[b] = task[b]
            /\ pending'[b] = pending[b] /\ job'[b] = job[b]
  BY <1>1, PutKeepsSlots DEF Plain
<1>3. HostTypes' /\ NoPanic'
  BY <1>1 DEF Plain, HostTypes, NoPanic
<1>4. PermitInv'
  <2>1. CASE permits' = permits /\ (Owns(p, j) <=> Owns(pending[a], job[a]))
    <3>1. Owners' = Owners BY <1>2, <2>1 DEF Owners
    <3> QED BY <2>1, <3>1, PermitKept
  <2>2. CASE permits' = permits - 1 /\ Owns(pending[a], job[a]) /\ ~Owns(p, j)
    <3>1. Owners' = Owners \ {a} /\ a \in Owners BY <1>2, <2>2 DEF Owners
    <3> QED BY <2>2, <3>1, PermitBack
  <2> QED BY <1>1, <2>1, <2>2 DEF Plain, Balance
<1>5. GateInv'
  BY <1>1, <1>2 DEF Plain, GateInv
<1>6. \A s : InUse(s)' \subseteq InUse(s)
  BY <1>1, <1>2 DEF Plain, InUse, InScope, Live, Held
<1>7. FenceInv'
  BY <1>1, <1>6 DEF Plain, FenceInv, Closing
<1> QED BY <1>2, <1>3, <1>4, <1>5, <1>7

----------------------------------------------------------------------------
(* The worker, its process and its reaper.                                 *)

\* The first look at the cancellation, and the version asked for.
LEMMA WorkerPreflightMoves ==
    ASSUME ToolInv, NEW a \in Attempts, WorkerPreflight(a)
    PROVE  WorkMove(a)
<1> USE DEF ToolInv, NoPanic
<1>1. CASE Refused(a) /\ Returns(a, "Cancelled") /\ UNCHANGED <<job, child>>
  <2> DEFINE w2 == [pc |-> "judge", result |-> "Cancelled"]
  <2>1. JobOk(entry[a], job[a], w2, child[a], files[a])
    <3>1. /\ entry[a].job /\ worker[a].pc \notin {"none", "done"} /\ job[a].active
          /\ entry[a].kind \in {"Backup", "Restore"}
          /\ job[a].dispatched <=> child[a].stage = "restore" /\ child[a].state # "none"
          /\ ClaimOk(entry[a], job[a], worker[a], child[a]) /\ ChildOk(entry[a], worker[a], child[a])
          /\ ReaperOk(job[a], worker[a], child[a])
          /\ ResultOk(entry[a], job[a], worker[a], child[a], files[a])
      BY SlotAt DEF WorkerPreflight, JobOk, ChildOk, ReaperOk, NoJob, NoWorker, NoChild
    <3>2. ClaimOk(entry[a], job[a], w2, child[a])
      BY <1>1, <3>1, SlotAt DEF WorkerPreflight, Refused, Returns, ClaimOk, ChildOk,
          WorkPhases, Kept, LateCommit, OutcomeCancelled, JobType, WorkerType, ChildType
    <3>3. ChildOk(entry[a], w2, child[a])
      BY <1>1, <3>1, SlotAt DEF WorkerPreflight, Refused, Returns, ChildOk, WorkerType, ChildType
    <3>4. ReaperOk(job[a], w2, child[a])
      BY <1>1, <3>1, SlotAt DEF WorkerPreflight, Refused, Returns, ReaperOk, ChildOk, Kept,
          JobType, WorkerType, ChildType
    <3>5. ResultOk(entry[a], job[a], w2, child[a], files[a])
      BY <1>1, <3>1, SlotAt DEF WorkerPreflight, Refused, Returns, ResultOk, ClaimOk,
          ChildOk, WorkPhases, LateCommit, Kept, OutcomeCancelled, JobType, WorkerType,
          ChildType, FilesType
    <3>6. /\ job[a].active /\ w2.pc \notin {"none", "done"}
          /\ job[a].dispatched <=> child[a].stage = "restore" /\ child[a].state # "none"
      BY <1>1, <3>1, SlotAt DEF WorkerPreflight, Refused, Returns, ChildOk, JobType,
          WorkerType, ChildType
    <3> QED BY <3>1, <3>2, <3>3, <3>4, <3>5, <3>6 DEF JobOk
  <2>2. w2 \in WorkerType
    BY SlotAt DEF WorkerType, Phases, Terminal
  <2>3. worker' = [worker EXCEPT ![a] = w2]
    BY <1>1 DEF WorkerPreflight, Refused, Returns, registryVars, managerVars,
        runnerVars, hostVars, SlotsInv, Slots, WorkerType
  <2>4. Balance(a, pending[a], job[a])
    BY DEF WorkerPreflight, Refused, Returns, Balance, registryVars, managerVars,
        runnerVars, hostVars
  <2>5. worker[a].pc \notin {"none", "done"}
    BY SlotAt DEF WorkerPreflight, JobOk, ChildOk, ReaperOk, NoJob, NoChild
  <2>6. /\ UNCHANGED <<entry, task, monitor, pending, job, child, files>>
        /\ UNCHANGED <<scope, gate, change, docs, down>> /\ panicked' = FALSE
    BY <1>1 DEF WorkerPreflight, Refused, Returns, registryVars, managerVars,
        runnerVars, hostVars
  <2>7. Work(a, job[a], w2, child[a], files[a])
    BY <2>1, <2>2, <2>3, <2>4, <2>5, <2>6, SlotAt, SlotKept DEF Work, SlotsInv
  <2> QED BY <2>7 DEF WorkMove
<1>2. CASE /\ ~Refused(a) /\ job' = [job EXCEPT ![a].phase = "Preflight"]
             /\ WorkerAt(a, "spawn") /\ Spawns(a, "version")
  <2> DEFINE j2 == [job[a] EXCEPT !.phase = "Preflight"]
             w2 == [worker[a] EXCEPT !.pc = "spawn"]
             c2 == [stage |-> "version", state |-> "none"]
  <2>1. JobOk(entry[a], j2, w2, c2, files[a])
    BY <1>2, SlotAt DEF WorkerPreflight, Refused, WorkerAt, Spawns, JobOk, ClaimOk,
        ChildOk, ReaperOk, ResultOk, WorkPhases, LateCommit, Kept, NoJob, NoWorker,
        NoChild, Terminal, Phases, OutcomeCancelled, JobType, WorkerType, ChildType,
        FilesType, EntryType, Types
  <2>2. j2 \in JobType
    BY SlotAt DEF JobType, Phases, Terminal
  <2>3. job' = [job EXCEPT ![a] = j2]
    BY <1>2 DEF WorkerPreflight, Refused, WorkerAt, Spawns, registryVars,
        managerVars, runnerVars, hostVars, SlotsInv, Slots, JobType
  <2>4. w2 \in WorkerType
    BY SlotAt DEF WorkerType, Phases, Terminal
  <2>5. worker' = [worker EXCEPT ![a] = w2]
    BY <1>2 DEF WorkerPreflight, Refused, WorkerAt, Spawns, registryVars,
        managerVars, runnerVars, hostVars, SlotsInv, Slots, WorkerType
  <2>6. c2 \in ChildType
    BY SlotAt DEF ChildType, Phases, Terminal
  <2>7. child' = [child EXCEPT ![a] = c2]
    BY <1>2 DEF WorkerPreflight, Refused, WorkerAt, Spawns, registryVars,
        managerVars, runnerVars, hostVars, SlotsInv, Slots, ChildType
  <2>8. Balance(a, pending[a], j2)
    BY <1>2, SlotAt DEF WorkerPreflight, Refused, WorkerAt, Spawns, Balance, Owns,
        RegistryOk, JobOk, ReaperOk, NoJob, JobType, NoWorker, registryVars,
        managerVars, runnerVars, hostVars
  <2>9. worker[a].pc \notin {"none", "done"}
    BY SlotAt DEF WorkerPreflight, JobOk, ChildOk, ReaperOk, NoJob, NoChild
  <2>10. /\ UNCHANGED <<entry, task, monitor, pending, files>>
        /\ UNCHANGED <<scope, gate, change, docs, down>> /\ panicked' = FALSE
    BY <1>2 DEF WorkerPreflight, Refused, WorkerAt, Spawns, registryVars,
        managerVars, runnerVars, hostVars
  <2>11. Work(a, j2, w2, c2, files[a])
    BY <2>1, <2>2, <2>3, <2>4, <2>5, <2>6, <2>7, <2>8, <2>9, <2>10, SlotAt, SlotKept DEF
        Work, SlotsInv
  <2> QED BY <2>11 DEF WorkMove
<1>3. CASE /\ ~Refused(a) /\ job' = [job EXCEPT ![a].phase = "Preflight"]
             /\ Returns(a, "Failed") /\ UNCHANGED child
  <2> DEFINE j2 == [job[a] EXCEPT !.phase = "Preflight"]
             w2 == [pc |-> "judge", result |-> "Failed"]
  <2>1. JobOk(entry[a], j2, w2, child[a], files[a])
    <3>1. /\ entry[a].job /\ worker[a].pc \notin {"none", "done"} /\ job[a].active
          /\ entry[a].kind \in {"Backup", "Restore"}
          /\ job[a].dispatched <=> child[a].stage = "restore" /\ child[a].state # "none"
          /\ ClaimOk(entry[a], job[a], worker[a], child[a]) /\ ChildOk(entry[a], worker[a], child[a])
          /\ ReaperOk(job[a], worker[a], child[a])
          /\ ResultOk(entry[a], job[a], worker[a], child[a], files[a])
      BY SlotAt DEF WorkerPreflight, JobOk, ChildOk, ReaperOk, NoJob, NoWorker, NoChild
    <3>2. ClaimOk(entry[a], j2, w2, child[a])
      BY <1>3, <3>1, SlotAt DEF WorkerPreflight, Refused, Returns, ClaimOk, ChildOk,
          WorkPhases, Kept, LateCommit, OutcomeCancelled, JobType, WorkerType, ChildType
    <3>3. ChildOk(entry[a], w2, child[a])
      BY <1>3, <3>1, SlotAt DEF WorkerPreflight, Refused, Returns, ChildOk, WorkerType, ChildType
    <3>4. ReaperOk(j2, w2, child[a])
      BY <1>3, <3>1, SlotAt DEF WorkerPreflight, Refused, Returns, ReaperOk, ChildOk, Kept,
          JobType, WorkerType, ChildType
    <3>5. ResultOk(entry[a], j2, w2, child[a], files[a])
      BY <1>3, <3>1, SlotAt DEF WorkerPreflight, Refused, Returns, ResultOk, ClaimOk,
          ChildOk, WorkPhases, LateCommit, Kept, OutcomeCancelled, JobType, WorkerType,
          ChildType, FilesType
    <3>6. /\ j2.active /\ w2.pc \notin {"none", "done"}
          /\ j2.dispatched <=> child[a].stage = "restore" /\ child[a].state # "none"
      BY <1>3, <3>1, SlotAt DEF WorkerPreflight, Refused, Returns, ChildOk, JobType,
          WorkerType, ChildType
    <3> QED BY <3>1, <3>2, <3>3, <3>4, <3>5, <3>6 DEF JobOk
  <2>2. j2 \in JobType
    BY SlotAt DEF JobType, Phases, Terminal
  <2>3. job' = [job EXCEPT ![a] = j2]
    BY <1>3 DEF WorkerPreflight, Refused, Returns, registryVars, managerVars,
        runnerVars, hostVars, SlotsInv, Slots, JobType
  <2>4. w2 \in WorkerType
    BY SlotAt DEF WorkerType, Phases, Terminal
  <2>5. worker' = [worker EXCEPT ![a] = w2]
    BY <1>3 DEF WorkerPreflight, Refused, Returns, registryVars, managerVars,
        runnerVars, hostVars, SlotsInv, Slots, WorkerType
  <2>6. Balance(a, pending[a], j2)
    BY <1>3, SlotAt DEF WorkerPreflight, Refused, Returns, Balance, Owns,
        RegistryOk, JobOk, ReaperOk, NoJob, JobType, NoWorker, registryVars,
        managerVars, runnerVars, hostVars
  <2>7. worker[a].pc \notin {"none", "done"}
    BY SlotAt DEF WorkerPreflight, JobOk, ChildOk, ReaperOk, NoJob, NoChild
  <2>8. /\ UNCHANGED <<entry, task, monitor, pending, child, files>>
        /\ UNCHANGED <<scope, gate, change, docs, down>> /\ panicked' = FALSE
    BY <1>3 DEF WorkerPreflight, Refused, Returns, registryVars, managerVars,
        runnerVars, hostVars
  <2>9. Work(a, j2, w2, child[a], files[a])
    BY <2>1, <2>2, <2>3, <2>4, <2>5, <2>6, <2>7, <2>8, SlotAt, SlotKept DEF Work, SlotsInv
  <2> QED BY <2>9 DEF WorkMove
<1> QED BY <1>1, <1>2, <1>3 DEF WorkerPreflight

\* The work itself: the dump, the listing or the restore is to be spawned.
LEMMA WorkerRunningMoves ==
    ASSUME ToolInv, NEW a \in Attempts, WorkerRunning(a)
    PROVE  WorkMove(a)
<1> USE DEF ToolInv, NoPanic
<1>1. CASE Refused(a) /\ Returns(a, "Cancelled") /\ UNCHANGED <<job, child, files>>
  <2> DEFINE w2 == [pc |-> "judge", result |-> "Cancelled"]
  <2>1. JobOk(entry[a], job[a], w2, child[a], files[a])
    <3>1. /\ entry[a].job /\ worker[a].pc \notin {"none", "done"} /\ job[a].active
          /\ entry[a].kind \in {"Backup", "Restore"}
          /\ job[a].dispatched <=> child[a].stage = "restore" /\ child[a].state # "none"
          /\ ClaimOk(entry[a], job[a], worker[a], child[a]) /\ ChildOk(entry[a], worker[a], child[a])
          /\ ReaperOk(job[a], worker[a], child[a])
          /\ ResultOk(entry[a], job[a], worker[a], child[a], files[a])
      BY SlotAt DEF WorkerRunning, JobOk, ChildOk, ReaperOk, NoJob, NoWorker, NoChild
    <3>2. ClaimOk(entry[a], job[a], w2, child[a])
      BY <1>1, <3>1, SlotAt DEF WorkerRunning, Refused, Returns, ClaimOk, ChildOk,
          WorkPhases, Kept, LateCommit, OutcomeCancelled, JobType, WorkerType, ChildType
    <3>3. ChildOk(entry[a], w2, child[a])
      BY <1>1, <3>1, SlotAt DEF WorkerRunning, Refused, Returns, ChildOk, WorkerType, ChildType
    <3>4. ReaperOk(job[a], w2, child[a])
      BY <1>1, <3>1, SlotAt DEF WorkerRunning, Refused, Returns, ReaperOk, ChildOk, Kept,
          JobType, WorkerType, ChildType
    <3>5. ResultOk(entry[a], job[a], w2, child[a], files[a])
      BY <1>1, <3>1, SlotAt DEF WorkerRunning, Refused, Returns, ResultOk, ClaimOk, ChildOk,
          WorkPhases, LateCommit, Kept, OutcomeCancelled, JobType, WorkerType, ChildType,
          FilesType
    <3>6. /\ job[a].active /\ w2.pc \notin {"none", "done"}
          /\ job[a].dispatched <=> child[a].stage = "restore" /\ child[a].state # "none"
      BY <1>1, <3>1, SlotAt DEF WorkerRunning, Refused, Returns, ChildOk, JobType,
          WorkerType, ChildType
    <3> QED BY <3>1, <3>2, <3>3, <3>4, <3>5, <3>6 DEF JobOk
  <2>2. w2 \in WorkerType
    BY SlotAt DEF WorkerType, Phases, Terminal
  <2>3. worker' = [worker EXCEPT ![a] = w2]
    BY <1>1 DEF WorkerRunning, Refused, Returns, registryVars, managerVars,
        runnerVars, hostVars, SlotsInv, Slots, WorkerType
  <2>4. Balance(a, pending[a], job[a])
    BY DEF WorkerRunning, Refused, Returns, Balance, registryVars, managerVars,
        runnerVars, hostVars
  <2>5. worker[a].pc \notin {"none", "done"}
    BY SlotAt DEF WorkerRunning, JobOk, ChildOk, ReaperOk, NoJob, NoChild
  <2>6. /\ UNCHANGED <<entry, task, monitor, pending, job, child, files>>
        /\ UNCHANGED <<scope, gate, change, docs, down>> /\ panicked' = FALSE
    BY <1>1 DEF WorkerRunning, Refused, Returns, registryVars, managerVars,
        runnerVars, hostVars
  <2>7. Work(a, job[a], w2, child[a], files[a])
    BY <2>1, <2>2, <2>3, <2>4, <2>5, <2>6, SlotAt, SlotKept DEF Work, SlotsInv
  <2> QED BY <2>7 DEF WorkMove
<1>2. CASE /\ ~Refused(a) /\ job' = [job EXCEPT ![a].phase = "Running"]
             /\ Returns(a, "Failed") /\ UNCHANGED <<child, files>>
  <2> DEFINE j2 == [job[a] EXCEPT !.phase = "Running"]
             w2 == [pc |-> "judge", result |-> "Failed"]
  <2>1. JobOk(entry[a], j2, w2, child[a], files[a])
    <3>1. /\ entry[a].job /\ worker[a].pc \notin {"none", "done"} /\ job[a].active
          /\ entry[a].kind \in {"Backup", "Restore"}
          /\ job[a].dispatched <=> child[a].stage = "restore" /\ child[a].state # "none"
          /\ ClaimOk(entry[a], job[a], worker[a], child[a]) /\ ChildOk(entry[a], worker[a], child[a])
          /\ ReaperOk(job[a], worker[a], child[a])
          /\ ResultOk(entry[a], job[a], worker[a], child[a], files[a])
      BY SlotAt DEF WorkerRunning, JobOk, ChildOk, ReaperOk, NoJob, NoWorker, NoChild
    <3>2. ClaimOk(entry[a], j2, w2, child[a])
      BY <1>2, <3>1, SlotAt DEF WorkerRunning, Refused, Returns, ClaimOk, ChildOk,
          WorkPhases, Kept, LateCommit, OutcomeCancelled, JobType, WorkerType, ChildType
    <3>3. ChildOk(entry[a], w2, child[a])
      BY <1>2, <3>1, SlotAt DEF WorkerRunning, Refused, Returns, ChildOk, WorkerType, ChildType
    <3>4. ReaperOk(j2, w2, child[a])
      BY <1>2, <3>1, SlotAt DEF WorkerRunning, Refused, Returns, ReaperOk, ChildOk, Kept,
          JobType, WorkerType, ChildType
    <3>5. ResultOk(entry[a], j2, w2, child[a], files[a])
      BY <1>2, <3>1, SlotAt DEF WorkerRunning, Refused, Returns, ResultOk, ClaimOk, ChildOk,
          WorkPhases, LateCommit, Kept, OutcomeCancelled, JobType, WorkerType, ChildType,
          FilesType
    <3>6. /\ j2.active /\ w2.pc \notin {"none", "done"}
          /\ j2.dispatched <=> child[a].stage = "restore" /\ child[a].state # "none"
      BY <1>2, <3>1, SlotAt DEF WorkerRunning, Refused, Returns, ChildOk, JobType,
          WorkerType, ChildType
    <3> QED BY <3>1, <3>2, <3>3, <3>4, <3>5, <3>6 DEF JobOk
  <2>2. j2 \in JobType
    BY SlotAt DEF JobType, Phases, Terminal
  <2>3. job' = [job EXCEPT ![a] = j2]
    BY <1>2 DEF WorkerRunning, Refused, Returns, registryVars, managerVars,
        runnerVars, hostVars, SlotsInv, Slots, JobType
  <2>4. w2 \in WorkerType
    BY SlotAt DEF WorkerType, Phases, Terminal
  <2>5. worker' = [worker EXCEPT ![a] = w2]
    BY <1>2 DEF WorkerRunning, Refused, Returns, registryVars, managerVars,
        runnerVars, hostVars, SlotsInv, Slots, WorkerType
  <2>6. Balance(a, pending[a], j2)
    BY <1>2, SlotAt DEF WorkerRunning, Refused, Returns, Balance, Owns, RegistryOk,
        JobOk, ReaperOk, NoJob, JobType, NoWorker, registryVars, managerVars,
        runnerVars, hostVars
  <2>7. worker[a].pc \notin {"none", "done"}
    BY SlotAt DEF WorkerRunning, JobOk, ChildOk, ReaperOk, NoJob, NoChild
  <2>8. /\ UNCHANGED <<entry, task, monitor, pending, child, files>>
        /\ UNCHANGED <<scope, gate, change, docs, down>> /\ panicked' = FALSE
    BY <1>2 DEF WorkerRunning, Refused, Returns, registryVars, managerVars,
        runnerVars, hostVars
  <2>9. Work(a, j2, w2, child[a], files[a])
    BY <2>1, <2>2, <2>3, <2>4, <2>5, <2>6, <2>7, <2>8, SlotAt, SlotKept DEF Work, SlotsInv
  <2> QED BY <2>9 DEF WorkMove
<1>3. CASE /\ ~Refused(a) /\ job' = [job EXCEPT ![a].phase = "Running"]
             /\ WorkerAt(a, "spawn")
             /\ \E stage \in IF entry[a].kind = "Backup" THEN {"dump"} ELSE {"list", "restore"} :
                    Spawns(a, stage)
             /\ files' = [files EXCEPT ![a].private = TRUE]
  <2> PICK stage \in IF entry[a].kind = "Backup" THEN {"dump"} ELSE {"list", "restore"} : Spawns(a, stage)
    BY <1>3
  <2> DEFINE j2 == [job[a] EXCEPT !.phase = "Running"]
             w2 == [worker[a] EXCEPT !.pc = "spawn"]
             c2 == [stage |-> stage, state |-> "none"]
             f2 == [files[a] EXCEPT !.private = TRUE]
  <2>1. JobOk(entry[a], j2, w2, c2, f2)
    <3>1. /\ entry[a].job /\ worker[a].pc \notin {"none", "done"} /\ job[a].active
          /\ entry[a].kind \in {"Backup", "Restore"}
          /\ job[a].dispatched <=> child[a].stage = "restore" /\ child[a].state # "none"
          /\ ClaimOk(entry[a], job[a], worker[a], child[a]) /\ ChildOk(entry[a], worker[a], child[a])
          /\ ReaperOk(job[a], worker[a], child[a])
          /\ ResultOk(entry[a], job[a], worker[a], child[a], files[a])
      BY SlotAt DEF WorkerRunning, JobOk, ChildOk, ReaperOk, NoJob, NoWorker, NoChild
    <3>2. ClaimOk(entry[a], j2, w2, c2)
      BY <1>3, <3>1, SlotAt DEF WorkerRunning, Refused, WorkerAt, Spawns, ClaimOk, ChildOk,
          WorkPhases, Kept, LateCommit, OutcomeCancelled, JobType, WorkerType, ChildType
    <3>3. ChildOk(entry[a], w2, c2)
      BY <1>3, <3>1, SlotAt DEF WorkerRunning, Refused, WorkerAt, Spawns, ChildOk,
          WorkerType, ChildType
    <3>4. ReaperOk(j2, w2, c2)
      BY <1>3, <3>1, SlotAt DEF WorkerRunning, Refused, WorkerAt, Spawns, ReaperOk, ChildOk,
          Kept, JobType, WorkerType, ChildType
    <3>5. ResultOk(entry[a], j2, w2, c2, f2)
      BY <1>3, <3>1, SlotAt DEF WorkerRunning, Refused, WorkerAt, Spawns, ResultOk, ClaimOk,
          ChildOk, WorkPhases, LateCommit, Kept, OutcomeCancelled, JobType, WorkerType,
          ChildType, FilesType
    <3>6. /\ j2.active /\ w2.pc \notin {"none", "done"}
          /\ j2.dispatched <=> c2.stage = "restore" /\ c2.state # "none"
      BY <1>3, <3>1, SlotAt DEF WorkerRunning, Refused, WorkerAt, Spawns, ChildOk, JobType,
          WorkerType, ChildType
    <3> QED BY <3>1, <3>2, <3>3, <3>4, <3>5, <3>6 DEF JobOk
  <2>2. j2 \in JobType
    BY SlotAt DEF JobType, Phases, Terminal
  <2>3. job' = [job EXCEPT ![a] = j2]
    BY <1>3 DEF WorkerRunning, Refused, WorkerAt, Spawns, registryVars, managerVars,
        runnerVars, hostVars, SlotsInv, Slots, JobType
  <2>4. w2 \in WorkerType
    BY SlotAt DEF WorkerType, Phases, Terminal
  <2>5. worker' = [worker EXCEPT ![a] = w2]
    BY <1>3 DEF WorkerRunning, Refused, WorkerAt, Spawns, registryVars, managerVars,
        runnerVars, hostVars, SlotsInv, Slots, WorkerType
  <2>6. c2 \in ChildType
    BY SlotAt DEF ChildType, Phases, Terminal
  <2>7. child' = [child EXCEPT ![a] = c2]
    BY <1>3 DEF WorkerRunning, Refused, WorkerAt, Spawns, registryVars, managerVars,
        runnerVars, hostVars, SlotsInv, Slots, ChildType
  <2>8. f2 \in FilesType
    BY SlotAt DEF FilesType, Phases, Terminal
  <2>9. files' = [files EXCEPT ![a] = f2]
    BY <1>3 DEF WorkerRunning, Refused, WorkerAt, Spawns, registryVars, managerVars,
        runnerVars, hostVars, SlotsInv, Slots, FilesType
  <2>10. Balance(a, pending[a], j2)
    BY <1>3, SlotAt DEF WorkerRunning, Refused, WorkerAt, Spawns, Balance, Owns,
        RegistryOk, JobOk, ReaperOk, NoJob, JobType, NoWorker, registryVars,
        managerVars, runnerVars, hostVars
  <2>11. worker[a].pc \notin {"none", "done"}
    BY SlotAt DEF WorkerRunning, JobOk, ChildOk, ReaperOk, NoJob, NoChild
  <2>12. /\ UNCHANGED <<entry, task, monitor, pending>>
        /\ UNCHANGED <<scope, gate, change, docs, down>> /\ panicked' = FALSE
    BY <1>3 DEF WorkerRunning, Refused, WorkerAt, Spawns, registryVars, managerVars,
        runnerVars, hostVars
  <2>13. Work(a, j2, w2, c2, f2)
    BY <2>1, <2>2, <2>3, <2>4, <2>5, <2>6, <2>7, <2>8, <2>9, <2>10, <2>11, <2>12, SlotAt,
        SlotKept DEF Work, SlotsInv
  <2> QED BY <2>13 DEF WorkMove
<1> QED BY <1>1, <1>2, <1>3 DEF WorkerRunning

\* A process is spawned, and a restore is marked before it can do anything.
LEMMA ProcessSpawnsMoves ==
    ASSUME ToolInv, NEW a \in Attempts, ProcessSpawns(a)
    PROVE  WorkMove(a)
<1> USE DEF ToolInv, NoPanic
<1>1. CASE OutcomeCancelled(job[a].outcome) /\ Returns(a, "Cancelled") /\ UNCHANGED <<job, child>>
  <2> DEFINE w2 == [pc |-> "judge", result |-> "Cancelled"]
  <2>1. JobOk(entry[a], job[a], w2, child[a], files[a])
    <3>1. /\ entry[a].job /\ worker[a].pc \notin {"none", "done"} /\ job[a].active
          /\ entry[a].kind \in {"Backup", "Restore"}
          /\ job[a].dispatched <=> child[a].stage = "restore" /\ child[a].state # "none"
          /\ ClaimOk(entry[a], job[a], worker[a], child[a]) /\ ChildOk(entry[a], worker[a], child[a])
          /\ ReaperOk(job[a], worker[a], child[a])
          /\ ResultOk(entry[a], job[a], worker[a], child[a], files[a])
      BY SlotAt DEF ProcessSpawns, JobOk, ChildOk, ReaperOk, NoJob, NoWorker, NoChild
    <3>2. ClaimOk(entry[a], job[a], w2, child[a])
      BY <1>1, <3>1, SlotAt DEF ProcessSpawns, Returns, ClaimOk, ChildOk, WorkPhases, Kept,
          LateCommit, OutcomeCancelled, JobType, WorkerType, ChildType
    <3>3. ChildOk(entry[a], w2, child[a])
      BY <1>1, <3>1, SlotAt DEF ProcessSpawns, Returns, ChildOk, WorkerType, ChildType
    <3>4. ReaperOk(job[a], w2, child[a])
      BY <1>1, <3>1, SlotAt DEF ProcessSpawns, Returns, ReaperOk, ChildOk, Kept, JobType,
          WorkerType, ChildType
    <3>5. ResultOk(entry[a], job[a], w2, child[a], files[a])
      BY <1>1, <3>1, SlotAt DEF ProcessSpawns, Returns, ResultOk, ClaimOk, ChildOk,
          WorkPhases, LateCommit, Kept, OutcomeCancelled, JobType, WorkerType, ChildType,
          FilesType
    <3>6. /\ job[a].active /\ w2.pc \notin {"none", "done"}
          /\ job[a].dispatched <=> child[a].stage = "restore" /\ child[a].state # "none"
      BY <1>1, <3>1, SlotAt DEF ProcessSpawns, Returns, ChildOk, JobType, WorkerType, ChildType
    <3> QED BY <3>1, <3>2, <3>3, <3>4, <3>5, <3>6 DEF JobOk
  <2>2. w2 \in WorkerType
    BY SlotAt DEF WorkerType, Phases, Terminal
  <2>3. worker' = [worker EXCEPT ![a] = w2]
    BY <1>1 DEF ProcessSpawns, Returns, registryVars, managerVars, runnerVars,
        hostVars, SlotsInv, Slots, WorkerType
  <2>4. Balance(a, pending[a], job[a])
    BY DEF ProcessSpawns, Returns, Balance, registryVars, managerVars, runnerVars,
        hostVars
  <2>5. worker[a].pc \notin {"none", "done"}
    BY SlotAt DEF ProcessSpawns, JobOk, ChildOk, ReaperOk, NoJob, NoChild
  <2>6. /\ UNCHANGED <<entry, task, monitor, pending, job, child, files>>
        /\ UNCHANGED <<scope, gate, change, docs, down>> /\ panicked' = FALSE
    BY <1>1 DEF ProcessSpawns, Returns, registryVars, managerVars, runnerVars, hostVars
  <2>7. Work(a, job[a], w2, child[a], files[a])
    BY <2>1, <2>2, <2>3, <2>4, <2>5, <2>6, SlotAt, SlotKept DEF Work, SlotsInv
  <2> QED BY <2>7 DEF WorkMove
<1>2. CASE ~OutcomeCancelled(job[a].outcome) /\ Returns(a, "Failed") /\ UNCHANGED <<job, child>>
  <2> DEFINE w2 == [pc |-> "judge", result |-> "Failed"]
  <2>1. JobOk(entry[a], job[a], w2, child[a], files[a])
    <3>1. /\ entry[a].job /\ worker[a].pc \notin {"none", "done"} /\ job[a].active
          /\ entry[a].kind \in {"Backup", "Restore"}
          /\ job[a].dispatched <=> child[a].stage = "restore" /\ child[a].state # "none"
          /\ ClaimOk(entry[a], job[a], worker[a], child[a]) /\ ChildOk(entry[a], worker[a], child[a])
          /\ ReaperOk(job[a], worker[a], child[a])
          /\ ResultOk(entry[a], job[a], worker[a], child[a], files[a])
      BY SlotAt DEF ProcessSpawns, JobOk, ChildOk, ReaperOk, NoJob, NoWorker, NoChild
    <3>2. ClaimOk(entry[a], job[a], w2, child[a])
      BY <1>2, <3>1, SlotAt DEF ProcessSpawns, Returns, ClaimOk, ChildOk, WorkPhases, Kept,
          LateCommit, OutcomeCancelled, JobType, WorkerType, ChildType
    <3>3. ChildOk(entry[a], w2, child[a])
      BY <1>2, <3>1, SlotAt DEF ProcessSpawns, Returns, ChildOk, WorkerType, ChildType
    <3>4. ReaperOk(job[a], w2, child[a])
      BY <1>2, <3>1, SlotAt DEF ProcessSpawns, Returns, ReaperOk, ChildOk, Kept, JobType,
          WorkerType, ChildType
    <3>5. ResultOk(entry[a], job[a], w2, child[a], files[a])
      BY <1>2, <3>1, SlotAt DEF ProcessSpawns, Returns, ResultOk, ClaimOk, ChildOk,
          WorkPhases, LateCommit, Kept, OutcomeCancelled, JobType, WorkerType, ChildType,
          FilesType
    <3>6. /\ job[a].active /\ w2.pc \notin {"none", "done"}
          /\ job[a].dispatched <=> child[a].stage = "restore" /\ child[a].state # "none"
      BY <1>2, <3>1, SlotAt DEF ProcessSpawns, Returns, ChildOk, JobType, WorkerType, ChildType
    <3> QED BY <3>1, <3>2, <3>3, <3>4, <3>5, <3>6 DEF JobOk
  <2>2. w2 \in WorkerType
    BY SlotAt DEF WorkerType, Phases, Terminal
  <2>3. worker' = [worker EXCEPT ![a] = w2]
    BY <1>2 DEF ProcessSpawns, Returns, registryVars, managerVars, runnerVars,
        hostVars, SlotsInv, Slots, WorkerType
  <2>4. Balance(a, pending[a], job[a])
    BY DEF ProcessSpawns, Returns, Balance, registryVars, managerVars, runnerVars,
        hostVars
  <2>5. worker[a].pc \notin {"none", "done"}
    BY SlotAt DEF ProcessSpawns, JobOk, ChildOk, ReaperOk, NoJob, NoChild
  <2>6. /\ UNCHANGED <<entry, task, monitor, pending, job, child, files>>
        /\ UNCHANGED <<scope, gate, change, docs, down>> /\ panicked' = FALSE
    BY <1>2 DEF ProcessSpawns, Returns, registryVars, managerVars, runnerVars, hostVars
  <2>7. Work(a, job[a], w2, child[a], files[a])
    BY <2>1, <2>2, <2>3, <2>4, <2>5, <2>6, SlotAt, SlotKept DEF Work, SlotsInv
  <2> QED BY <2>7 DEF WorkMove
<1>3. CASE /\ ~OutcomeCancelled(job[a].outcome) /\ WorkerAt(a, "wait")
             /\ child' = [child EXCEPT ![a].state = "running"]
             /\ job' = [job EXCEPT ![a].dispatched = @ \/ child[a].stage = "restore"]
  <2> DEFINE j2 == [job[a] EXCEPT !.dispatched = (@ \/ child[a].stage = "restore")]
             w2 == [worker[a] EXCEPT !.pc = "wait"]
             c2 == [child[a] EXCEPT !.state = "running"]
  <2>1. JobOk(entry[a], j2, w2, c2, files[a])
    <3>1. /\ entry[a].job /\ worker[a].pc \notin {"none", "done"} /\ job[a].active
          /\ entry[a].kind \in {"Backup", "Restore"}
          /\ job[a].dispatched <=> child[a].stage = "restore" /\ child[a].state # "none"
          /\ ClaimOk(entry[a], job[a], worker[a], child[a]) /\ ChildOk(entry[a], worker[a], child[a])
          /\ ReaperOk(job[a], worker[a], child[a])
          /\ ResultOk(entry[a], job[a], worker[a], child[a], files[a])
      BY SlotAt DEF ProcessSpawns, JobOk, ChildOk, ReaperOk, NoJob, NoWorker, NoChild
    <3>2. ClaimOk(entry[a], j2, w2, c2)
      BY <1>3, <3>1, SlotAt DEF ProcessSpawns, WorkerAt, ClaimOk, ChildOk, WorkPhases, Kept,
          LateCommit, OutcomeCancelled, JobType, WorkerType, ChildType
    <3>3. ChildOk(entry[a], w2, c2)
      BY <1>3, <3>1, SlotAt DEF ProcessSpawns, WorkerAt, ChildOk, WorkerType, ChildType
    <3>4. ReaperOk(j2, w2, c2)
      BY <1>3, <3>1, SlotAt DEF ProcessSpawns, WorkerAt, ReaperOk, ChildOk, Kept, JobType,
          WorkerType, ChildType
    <3>5. ResultOk(entry[a], j2, w2, c2, files[a])
      BY <1>3, <3>1, SlotAt DEF ProcessSpawns, WorkerAt, ResultOk, ClaimOk, ChildOk,
          WorkPhases, LateCommit, Kept, OutcomeCancelled, JobType, WorkerType, ChildType,
          FilesType
    <3>6. /\ j2.active /\ w2.pc \notin {"none", "done"}
          /\ j2.dispatched <=> c2.stage = "restore" /\ c2.state # "none"
      BY <1>3, <3>1, SlotAt DEF ProcessSpawns, WorkerAt, ChildOk, JobType, WorkerType, ChildType
    <3> QED BY <3>1, <3>2, <3>3, <3>4, <3>5, <3>6 DEF JobOk
  <2>2. j2 \in JobType
    BY SlotAt DEF JobType, Phases, Terminal
  <2>3. job' = [job EXCEPT ![a] = j2]
    BY <1>3 DEF ProcessSpawns, WorkerAt, registryVars, managerVars, runnerVars,
        hostVars, SlotsInv, Slots, JobType
  <2>4. w2 \in WorkerType
    BY SlotAt DEF WorkerType, Phases, Terminal
  <2>5. worker' = [worker EXCEPT ![a] = w2]
    BY <1>3 DEF ProcessSpawns, WorkerAt, registryVars, managerVars, runnerVars,
        hostVars, SlotsInv, Slots, WorkerType
  <2>6. c2 \in ChildType
    BY SlotAt DEF ChildType, Phases, Terminal
  <2>7. child' = [child EXCEPT ![a] = c2]
    BY <1>3 DEF ProcessSpawns, WorkerAt, registryVars, managerVars, runnerVars,
        hostVars, SlotsInv, Slots, ChildType
  <2>8. Balance(a, pending[a], j2)
    BY <1>3, SlotAt DEF ProcessSpawns, WorkerAt, Balance, Owns, RegistryOk, JobOk,
        ReaperOk, NoJob, JobType, NoWorker, registryVars, managerVars, runnerVars,
        hostVars
  <2>9. worker[a].pc \notin {"none", "done"}
    BY SlotAt DEF ProcessSpawns, JobOk, ChildOk, ReaperOk, NoJob, NoChild
  <2>10. /\ UNCHANGED <<entry, task, monitor, pending, files>>
        /\ UNCHANGED <<scope, gate, change, docs, down>> /\ panicked' = FALSE
    BY <1>3 DEF ProcessSpawns, WorkerAt, registryVars, managerVars, runnerVars, hostVars
  <2>11. Work(a, j2, w2, c2, files[a])
    BY <2>1, <2>2, <2>3, <2>4, <2>5, <2>6, <2>7, <2>8, <2>9, <2>10, SlotAt, SlotKept DEF
        Work, SlotsInv
  <2> QED BY <2>11 DEF WorkMove
<1> QED BY <1>1, <1>2, <1>3 DEF ProcessSpawns

\* A process ends while the worker or the reaper waits for it.
LEMMA ChildExitsMoves ==
    ASSUME ToolInv, NEW a \in Attempts, NEW state \in {"ok", "err"}, ChildExits(a, state)
    PROVE  WorkMove(a)
<1> USE DEF ToolInv, NoPanic
<1> DEFINE c2 == [child[a] EXCEPT !.state = state]
<1>1. JobOk(entry[a], job[a], worker[a], c2, files[a])
  BY SlotAt DEF ChildExits, JobOk, ClaimOk, ChildOk, ReaperOk, ResultOk,
      WorkPhases, LateCommit, Kept, NoJob, NoWorker, NoChild, Terminal, Phases,
      OutcomeCancelled, JobType, WorkerType, ChildType, FilesType, EntryType, Types
<1>2. c2 \in ChildType
  BY SlotAt DEF ChildType, Phases, Terminal
<1>3. child' = [child EXCEPT ![a] = c2]
  BY DEF ChildExits, registryVars, managerVars, runnerVars, hostVars,
      SlotsInv, Slots, ChildType
<1>4. Balance(a, pending[a], job[a])
  BY DEF ChildExits, Balance, registryVars, managerVars, runnerVars, hostVars
<1>5. worker[a].pc \notin {"none", "done"}
  BY SlotAt DEF ChildExits, JobOk, ChildOk, ReaperOk, NoJob, NoChild
<1>6. /\ UNCHANGED <<entry, task, monitor, pending, job, worker, files>>
      /\ UNCHANGED <<scope, gate, change, docs, down>> /\ panicked' = FALSE
  BY DEF ChildExits, registryVars, managerVars, runnerVars, hostVars
<1>7. Work(a, job[a], worker[a], c2, files[a])
  BY <1>1, <1>2, <1>3, <1>4, <1>5, <1>6, SlotAt, SlotKept DEF Work, SlotsInv
<1> QED BY <1>7 DEF WorkMove

\* A cancellation that finds the restore committed keeps it; any other process
\* goes to the reaper with the permit.
LEMMA ProcessCancelledMoves ==
    ASSUME ToolInv, NEW a \in Attempts, ProcessCancelled(a)
    PROVE  WorkMove(a)
<1> USE DEF ToolInv, NoPanic
<1>1. CASE Committed(a) /\ Promotes(a) /\ WorkerAt(a, "exited")
  <2> DEFINE j2 == [job[a] EXCEPT !.outcome = Promoted(@)]
             w2 == [worker[a] EXCEPT !.pc = "exited"]
  <2>1. JobOk(entry[a], j2, w2, child[a], files[a])
    BY <1>1, SlotAt DEF ProcessCancelled, Committed, Promotes, WorkerAt, Promoted,
        JobOk, ClaimOk, ChildOk, ReaperOk, ResultOk, WorkPhases, LateCommit, Kept,
        NoJob, NoWorker, NoChild, Terminal, Phases, OutcomeCancelled, JobType,
        WorkerType, ChildType, FilesType, EntryType, Types
  <2>2. j2 \in JobType
    BY SlotAt DEF Promoted, JobType, Phases, Terminal
  <2>3. job' = [job EXCEPT ![a] = j2]
    BY <1>1 DEF ProcessCancelled, Committed, Promotes, WorkerAt, Promoted,
        registryVars, managerVars, runnerVars, hostVars, SlotsInv, Slots, JobType
  <2>4. w2 \in WorkerType
    BY SlotAt DEF WorkerType, Phases, Terminal
  <2>5. worker' = [worker EXCEPT ![a] = w2]
    BY <1>1 DEF ProcessCancelled, Committed, Promotes, WorkerAt, Promoted,
        registryVars, managerVars, runnerVars, hostVars, SlotsInv, Slots, WorkerType
  <2>6. Balance(a, pending[a], j2)
    BY <1>1, SlotAt DEF ProcessCancelled, Committed, Promotes, WorkerAt, Promoted,
        Balance, Owns, RegistryOk, JobOk, ReaperOk, NoJob, JobType, NoWorker,
        registryVars, managerVars, runnerVars, hostVars
  <2>7. worker[a].pc \notin {"none", "done"}
    BY SlotAt DEF ProcessCancelled, JobOk, ChildOk, ReaperOk, NoJob, NoChild
  <2>8. /\ UNCHANGED <<entry, task, monitor, pending, child, files>>
        /\ UNCHANGED <<scope, gate, change, docs, down>> /\ panicked' = FALSE
    BY <1>1 DEF ProcessCancelled, Committed, Promotes, WorkerAt, Promoted,
        registryVars, managerVars, runnerVars, hostVars
  <2>9. Work(a, j2, w2, child[a], files[a])
    BY <2>1, <2>2, <2>3, <2>4, <2>5, <2>6, <2>7, <2>8, SlotAt, SlotKept DEF Work, SlotsInv
  <2> QED BY <2>9 DEF WorkMove
<1>2. CASE ~Committed(a) /\ Reaps(a, "Cancelled")
  <2> DEFINE j2 == [job[a] EXCEPT !.permit = FALSE, !.reaper = "running"]
             w2 == [pc |-> "reap", result |-> "Cancelled"]
  <2>1. JobOk(entry[a], j2, w2, child[a], files[a])
    BY <1>2, SlotAt DEF ProcessCancelled, Committed, Reaps, JobOk, ClaimOk, ChildOk,
        ReaperOk, ResultOk, WorkPhases, LateCommit, Kept, NoJob, NoWorker, NoChild,
        Terminal, Phases, OutcomeCancelled, JobType, WorkerType, ChildType, FilesType,
        EntryType, Types
  <2>2. j2 \in JobType
    BY SlotAt DEF JobType, Phases, Terminal
  <2>3. job' = [job EXCEPT ![a] = j2]
    BY <1>2 DEF ProcessCancelled, Committed, Reaps, registryVars, managerVars,
        runnerVars, hostVars, SlotsInv, Slots, JobType
  <2>4. w2 \in WorkerType
    BY SlotAt DEF WorkerType, Phases, Terminal
  <2>5. worker' = [worker EXCEPT ![a] = w2]
    BY <1>2 DEF ProcessCancelled, Committed, Reaps, registryVars, managerVars,
        runnerVars, hostVars, SlotsInv, Slots, WorkerType
  <2>6. Balance(a, pending[a], j2)
    BY <1>2, SlotAt DEF ProcessCancelled, Committed, Reaps, Balance, Owns,
        RegistryOk, JobOk, ReaperOk, NoJob, JobType, NoWorker, registryVars,
        managerVars, runnerVars, hostVars
  <2>7. worker[a].pc \notin {"none", "done"}
    BY SlotAt DEF ProcessCancelled, JobOk, ChildOk, ReaperOk, NoJob, NoChild
  <2>8. /\ UNCHANGED <<entry, task, monitor, pending, child, files>>
        /\ UNCHANGED <<scope, gate, change, docs, down>> /\ panicked' = FALSE
    BY <1>2 DEF ProcessCancelled, Committed, Reaps, registryVars, managerVars,
        runnerVars, hostVars
  <2>9. Work(a, j2, w2, child[a], files[a])
    BY <2>1, <2>2, <2>3, <2>4, <2>5, <2>6, <2>7, <2>8, SlotAt, SlotKept DEF Work, SlotsInv
  <2> QED BY <2>9 DEF WorkMove
<1> QED BY <1>1, <1>2 DEF ProcessCancelled

\* A deadline or a broken stream hands the process to the reaper.
LEMMA ProcessStoppedMoves ==
    ASSUME ToolInv, NEW a \in Attempts, ProcessStopped(a)
    PROVE  WorkMove(a)
<1> USE DEF ToolInv, NoPanic
<1>1. CASE child[a].stage = "version" /\ Reaps(a, "Timeout")
  <2> DEFINE j2 == [job[a] EXCEPT !.permit = FALSE, !.reaper = "running"]
             w2 == [pc |-> "reap", result |-> "Timeout"]
  <2>1. JobOk(entry[a], j2, w2, child[a], files[a])
    BY <1>1, SlotAt DEF ProcessStopped, Reaps, JobOk, ClaimOk, ChildOk, ReaperOk,
        ResultOk, WorkPhases, LateCommit, Kept, NoJob, NoWorker, NoChild, Terminal,
        Phases, OutcomeCancelled, JobType, WorkerType, ChildType, FilesType, EntryType,
        Types
  <2>2. j2 \in JobType
    BY SlotAt DEF JobType, Phases, Terminal
  <2>3. job' = [job EXCEPT ![a] = j2]
    BY <1>1 DEF ProcessStopped, Reaps, registryVars, managerVars, runnerVars,
        hostVars, SlotsInv, Slots, JobType
  <2>4. w2 \in WorkerType
    BY SlotAt DEF WorkerType, Phases, Terminal
  <2>5. worker' = [worker EXCEPT ![a] = w2]
    BY <1>1 DEF ProcessStopped, Reaps, registryVars, managerVars, runnerVars,
        hostVars, SlotsInv, Slots, WorkerType
  <2>6. Balance(a, pending[a], j2)
    BY <1>1, SlotAt DEF ProcessStopped, Reaps, Balance, Owns, RegistryOk, JobOk,
        ReaperOk, NoJob, JobType, NoWorker, registryVars, managerVars, runnerVars,
        hostVars
  <2>7. worker[a].pc \notin {"none", "done"}
    BY SlotAt DEF ProcessStopped, JobOk, ChildOk, ReaperOk, NoJob, NoChild
  <2>8. /\ UNCHANGED <<entry, task, monitor, pending, child, files>>
        /\ UNCHANGED <<scope, gate, change, docs, down>> /\ panicked' = FALSE
    BY <1>1 DEF ProcessStopped, Reaps, registryVars, managerVars, runnerVars, hostVars
  <2>9. Work(a, j2, w2, child[a], files[a])
    BY <2>1, <2>2, <2>3, <2>4, <2>5, <2>6, <2>7, <2>8, SlotAt, SlotKept DEF Work, SlotsInv
  <2> QED BY <2>9 DEF WorkMove
<1>2. CASE child[a].stage = "restore" /\ Reaps(a, "Failed")
  <2> DEFINE j2 == [job[a] EXCEPT !.permit = FALSE, !.reaper = "running"]
             w2 == [pc |-> "reap", result |-> "Failed"]
  <2>1. JobOk(entry[a], j2, w2, child[a], files[a])
    BY <1>2, SlotAt DEF ProcessStopped, Reaps, JobOk, ClaimOk, ChildOk, ReaperOk,
        ResultOk, WorkPhases, LateCommit, Kept, NoJob, NoWorker, NoChild, Terminal,
        Phases, OutcomeCancelled, JobType, WorkerType, ChildType, FilesType, EntryType,
        Types
  <2>2. j2 \in JobType
    BY SlotAt DEF JobType, Phases, Terminal
  <2>3. job' = [job EXCEPT ![a] = j2]
    BY <1>2 DEF ProcessStopped, Reaps, registryVars, managerVars, runnerVars,
        hostVars, SlotsInv, Slots, JobType
  <2>4. w2 \in WorkerType
    BY SlotAt DEF WorkerType, Phases, Terminal
  <2>5. worker' = [worker EXCEPT ![a] = w2]
    BY <1>2 DEF ProcessStopped, Reaps, registryVars, managerVars, runnerVars,
        hostVars, SlotsInv, Slots, WorkerType
  <2>6. Balance(a, pending[a], j2)
    BY <1>2, SlotAt DEF ProcessStopped, Reaps, Balance, Owns, RegistryOk, JobOk,
        ReaperOk, NoJob, JobType, NoWorker, registryVars, managerVars, runnerVars,
        hostVars
  <2>7. worker[a].pc \notin {"none", "done"}
    BY SlotAt DEF ProcessStopped, JobOk, ChildOk, ReaperOk, NoJob, NoChild
  <2>8. /\ UNCHANGED <<entry, task, monitor, pending, child, files>>
        /\ UNCHANGED <<scope, gate, change, docs, down>> /\ panicked' = FALSE
    BY <1>2 DEF ProcessStopped, Reaps, registryVars, managerVars, runnerVars, hostVars
  <2>9. Work(a, j2, w2, child[a], files[a])
    BY <2>1, <2>2, <2>3, <2>4, <2>5, <2>6, <2>7, <2>8, SlotAt, SlotKept DEF Work, SlotsInv
  <2> QED BY <2>9 DEF WorkMove
<1> QED BY <1>1, <1>2 DEF ProcessStopped

\* The worker sees its process end.
LEMMA ProcessExitedMoves ==
    ASSUME ToolInv, NEW a \in Attempts, ProcessExited(a)
    PROVE  WorkMove(a)
<1> USE DEF ToolInv, NoPanic
<1> DEFINE w2 == [worker[a] EXCEPT !.pc = "exited"]
<1>1. JobOk(entry[a], job[a], w2, child[a], files[a])
  BY SlotAt DEF ProcessExited, WorkerAt, JobOk, ClaimOk, ChildOk, ReaperOk,
      ResultOk, WorkPhases, LateCommit, Kept, NoJob, NoWorker, NoChild, Terminal,
      Phases, OutcomeCancelled, JobType, WorkerType, ChildType, FilesType, EntryType,
      Types
<1>2. w2 \in WorkerType
  BY SlotAt DEF WorkerType, Phases, Terminal
<1>3. worker' = [worker EXCEPT ![a] = w2]
  BY DEF ProcessExited, WorkerAt, registryVars, managerVars, runnerVars,
      hostVars, SlotsInv, Slots, WorkerType
<1>4. Balance(a, pending[a], job[a])
  BY DEF ProcessExited, WorkerAt, Balance, registryVars, managerVars, runnerVars,
      hostVars
<1>5. worker[a].pc \notin {"none", "done"}
  BY SlotAt DEF ProcessExited, JobOk, ChildOk, ReaperOk, NoJob, NoChild
<1>6. /\ UNCHANGED <<entry, task, monitor, pending, job, child, files>>
      /\ UNCHANGED <<scope, gate, change, docs, down>> /\ panicked' = FALSE
  BY DEF ProcessExited, WorkerAt, registryVars, managerVars, runnerVars, hostVars
<1>7. Work(a, job[a], w2, child[a], files[a])
  BY <1>1, <1>2, <1>3, <1>4, <1>5, <1>6, SlotAt, SlotKept DEF Work, SlotsInv
<1> QED BY <1>7 DEF WorkMove

\* The reaper records a late commit and gives its permit back.
LEMMA ReaperEndsMoves ==
    ASSUME ToolInv, NEW a \in Attempts, ReaperEnds(a)
    PROVE  WorkMove(a)
<1> USE DEF ToolInv, NoPanic
<1>1. CASE Committed(a)
  <2> DEFINE j2 == [job[a] EXCEPT !.reaper = "done", !.outcome = Promoted(@)]
  <2>1. JobOk(entry[a], j2, worker[a], child[a], files[a])
    BY <1>1, SlotAt DEF ReaperEnds, Committed, Promoted, JobOk, ClaimOk, ChildOk,
        ReaperOk, ResultOk, WorkPhases, LateCommit, Kept, NoJob, NoWorker, NoChild,
        Terminal, Phases, OutcomeCancelled, JobType, WorkerType, ChildType, FilesType,
        EntryType, Types
  <2>2. j2 \in JobType
    BY SlotAt DEF Promoted, JobType, Phases, Terminal
  <2>3. job' = [job EXCEPT ![a] = j2]
    BY <1>1 DEF ReaperEnds, Committed, Promoted, registryVars, managerVars,
        runnerVars, hostVars, SlotsInv, Slots, JobType
  <2>4. Balance(a, pending[a], j2)
    BY <1>1, SlotAt DEF ReaperEnds, Committed, Promoted, Balance, Owns, RegistryOk,
        JobOk, ReaperOk, NoJob, JobType, NoWorker, registryVars, managerVars,
        runnerVars, hostVars
  <2>5. worker[a].pc \notin {"none", "done"}
    BY SlotAt DEF ReaperEnds, JobOk, ChildOk, ReaperOk, NoJob, NoChild
  <2>6. /\ UNCHANGED <<entry, task, monitor, pending, worker, child, files>>
        /\ UNCHANGED <<scope, gate, change, docs, down>> /\ panicked' = FALSE
    BY <1>1 DEF ReaperEnds, Committed, Promoted, registryVars, managerVars,
        runnerVars, hostVars
  <2>7. Work(a, j2, worker[a], child[a], files[a])
    BY <2>1, <2>2, <2>3, <2>4, <2>5, <2>6, SlotAt, SlotKept DEF Work, SlotsInv
  <2> QED BY <2>7 DEF WorkMove
<1>2. CASE ~Committed(a)
  <2> DEFINE j2 == [job[a] EXCEPT !.reaper = "done"]
  <2>1. JobOk(entry[a], j2, worker[a], child[a], files[a])
    BY <1>2, SlotAt DEF ReaperEnds, Committed, Promoted, JobOk, ClaimOk, ChildOk,
        ReaperOk, ResultOk, WorkPhases, LateCommit, Kept, NoJob, NoWorker, NoChild,
        Terminal, Phases, OutcomeCancelled, JobType, WorkerType, ChildType, FilesType,
        EntryType, Types
  <2>2. j2 \in JobType
    BY SlotAt DEF JobType, Phases, Terminal
  <2>3. job' = [job EXCEPT ![a] = j2]
    BY <1>2 DEF ReaperEnds, Committed, Promoted, registryVars, managerVars,
        runnerVars, hostVars, SlotsInv, Slots, JobType
  <2>4. Balance(a, pending[a], j2)
    BY <1>2, SlotAt DEF ReaperEnds, Committed, Promoted, Balance, Owns, RegistryOk,
        JobOk, ReaperOk, NoJob, JobType, NoWorker, registryVars, managerVars,
        runnerVars, hostVars
  <2>5. worker[a].pc \notin {"none", "done"}
    BY SlotAt DEF ReaperEnds, JobOk, ChildOk, ReaperOk, NoJob, NoChild
  <2>6. /\ UNCHANGED <<entry, task, monitor, pending, worker, child, files>>
        /\ UNCHANGED <<scope, gate, change, docs, down>> /\ panicked' = FALSE
    BY <1>2 DEF ReaperEnds, Committed, Promoted, registryVars, managerVars,
        runnerVars, hostVars
  <2>7. Work(a, j2, worker[a], child[a], files[a])
    BY <2>1, <2>2, <2>3, <2>4, <2>5, <2>6, SlotAt, SlotKept DEF Work, SlotsInv
  <2> QED BY <2>7 DEF WorkMove
<1> QED BY <1>1, <1>2 DEF ReaperEnds

\* The worker goes on behind its reaper.
LEMMA WorkerReapedMoves ==
    ASSUME ToolInv, NEW a \in Attempts, WorkerReaped(a)
    PROVE  WorkMove(a)
<1> USE DEF ToolInv, NoPanic
<1>1. CASE Committed(a) /\ Promotes(a) /\ WorkerAt(a, "finalizing")
  <2> DEFINE j2 == [job[a] EXCEPT !.outcome = Promoted(@)]
             w2 == [worker[a] EXCEPT !.pc = "finalizing"]
  <2>1. JobOk(entry[a], j2, w2, child[a], files[a])
    BY <1>1, SlotAt DEF WorkerReaped, Committed, Promotes, WorkerAt, Promoted,
        JobOk, ClaimOk, ChildOk, ReaperOk, ResultOk, WorkPhases, LateCommit, Kept,
        NoJob, NoWorker, NoChild, Terminal, Phases, OutcomeCancelled, JobType,
        WorkerType, ChildType, FilesType, EntryType, Types
  <2>2. j2 \in JobType
    BY SlotAt DEF Promoted, JobType, Phases, Terminal
  <2>3. job' = [job EXCEPT ![a] = j2]
    BY <1>1 DEF WorkerReaped, Committed, Promotes, WorkerAt, Promoted, registryVars,
        managerVars, runnerVars, hostVars, SlotsInv, Slots, JobType
  <2>4. w2 \in WorkerType
    BY SlotAt DEF WorkerType, Phases, Terminal
  <2>5. worker' = [worker EXCEPT ![a] = w2]
    BY <1>1 DEF WorkerReaped, Committed, Promotes, WorkerAt, Promoted, registryVars,
        managerVars, runnerVars, hostVars, SlotsInv, Slots, WorkerType
  <2>6. Balance(a, pending[a], j2)
    BY <1>1, SlotAt DEF WorkerReaped, Committed, Promotes, WorkerAt, Promoted,
        Balance, Owns, RegistryOk, JobOk, ReaperOk, NoJob, JobType, NoWorker,
        registryVars, managerVars, runnerVars, hostVars
  <2>7. worker[a].pc \notin {"none", "done"}
    BY SlotAt DEF WorkerReaped, JobOk, ChildOk, ReaperOk, NoJob, NoChild
  <2>8. /\ UNCHANGED <<entry, task, monitor, pending, child, files>>
        /\ UNCHANGED <<scope, gate, change, docs, down>> /\ panicked' = FALSE
    BY <1>1 DEF WorkerReaped, Committed, Promotes, WorkerAt, Promoted, registryVars,
        managerVars, runnerVars, hostVars
  <2>9. Work(a, j2, w2, child[a], files[a])
    BY <2>1, <2>2, <2>3, <2>4, <2>5, <2>6, <2>7, <2>8, SlotAt, SlotKept DEF Work, SlotsInv
  <2> QED BY <2>9 DEF WorkMove
<1>2. CASE ~Committed(a) /\ Returns(a, worker[a].result) /\ UNCHANGED job
  <2> DEFINE w2 == [pc |-> "judge", result |-> worker[a].result]
  <2>1. JobOk(entry[a], job[a], w2, child[a], files[a])
    BY <1>2, SlotAt DEF WorkerReaped, Committed, Returns, JobOk, ClaimOk, ChildOk,
        ReaperOk, ResultOk, WorkPhases, LateCommit, Kept, NoJob, NoWorker, NoChild,
        Terminal, Phases, OutcomeCancelled, JobType, WorkerType, ChildType, FilesType,
        EntryType, Types
  <2>2. w2 \in WorkerType
    BY SlotAt DEF WorkerType, Phases, Terminal
  <2>3. worker' = [worker EXCEPT ![a] = w2]
    BY <1>2 DEF WorkerReaped, Committed, Returns, registryVars, managerVars,
        runnerVars, hostVars, SlotsInv, Slots, WorkerType
  <2>4. Balance(a, pending[a], job[a])
    BY DEF WorkerReaped, Committed, Returns, Balance, registryVars, managerVars,
        runnerVars, hostVars
  <2>5. worker[a].pc \notin {"none", "done"}
    BY SlotAt DEF WorkerReaped, JobOk, ChildOk, ReaperOk, NoJob, NoChild
  <2>6. /\ UNCHANGED <<entry, task, monitor, pending, job, child, files>>
        /\ UNCHANGED <<scope, gate, change, docs, down>> /\ panicked' = FALSE
    BY <1>2 DEF WorkerReaped, Committed, Returns, registryVars, managerVars,
        runnerVars, hostVars
  <2>7. Work(a, job[a], w2, child[a], files[a])
    BY <2>1, <2>2, <2>3, <2>4, <2>5, <2>6, SlotAt, SlotKept DEF Work, SlotsInv
  <2> QED BY <2>7 DEF WorkMove
<1> QED BY <1>1, <1>2 DEF WorkerReaped

\* What follows the end of each process.
LEMMA WorkerExitedMoves ==
    ASSUME ToolInv, NEW a \in Attempts, WorkerExited(a)
    PROVE  WorkMove(a)
<1> USE DEF ToolInv, NoPanic
<1>1. CASE ~Committed(a) /\ UNCHANGED job /\ Returns(a, "Failed") /\ UNCHANGED child
  <2> DEFINE w2 == [pc |-> "judge", result |-> "Failed"]
  <2>1. JobOk(entry[a], job[a], w2, child[a], files[a])
    BY <1>1, SlotAt DEF WorkerExited, Committed, Returns, JobOk, ClaimOk, ChildOk,
        ReaperOk, ResultOk, WorkPhases, LateCommit, Kept, NoJob, NoWorker, NoChild,
        Terminal, Phases, OutcomeCancelled, JobType, WorkerType, ChildType, FilesType,
        EntryType, Types
  <2>2. w2 \in WorkerType
    BY SlotAt DEF WorkerType, Phases, Terminal
  <2>3. worker' = [worker EXCEPT ![a] = w2]
    BY <1>1 DEF WorkerExited, Committed, Returns, registryVars, managerVars,
        runnerVars, hostVars, SlotsInv, Slots, WorkerType
  <2>4. Balance(a, pending[a], job[a])
    BY DEF WorkerExited, Committed, Returns, Balance, registryVars, managerVars,
        runnerVars, hostVars
  <2>5. worker[a].pc \notin {"none", "done"}
    BY SlotAt DEF WorkerExited, JobOk, ChildOk, ReaperOk, NoJob, NoChild
  <2>6. /\ UNCHANGED <<entry, task, monitor, pending, job, child, files>>
        /\ UNCHANGED <<scope, gate, change, docs, down>> /\ panicked' = FALSE
    BY <1>1 DEF WorkerExited, Committed, Returns, registryVars, managerVars,
        runnerVars, hostVars
  <2>7. Work(a, job[a], w2, child[a], files[a])
    BY <2>1, <2>2, <2>3, <2>4, <2>5, <2>6, SlotAt, SlotKept DEF Work, SlotsInv
  <2> QED BY <2>7 DEF WorkMove
<1>2. CASE /\ UNCHANGED job /\ child[a] = [stage |-> "version", state |-> "ok"]
             /\ WorkerAt(a, "running") /\ UNCHANGED child
  <2> DEFINE w2 == [worker[a] EXCEPT !.pc = "running"]
  <2>1. JobOk(entry[a], job[a], w2, child[a], files[a])
    BY <1>2, SlotAt DEF WorkerExited, Committed, WorkerAt, JobOk, ClaimOk, ChildOk,
        ReaperOk, ResultOk, WorkPhases, LateCommit, Kept, NoJob, NoWorker, NoChild,
        Terminal, Phases, OutcomeCancelled, JobType, WorkerType, ChildType, FilesType,
        EntryType, Types
  <2>2. w2 \in WorkerType
    BY SlotAt DEF WorkerType, Phases, Terminal
  <2>3. worker' = [worker EXCEPT ![a] = w2]
    BY <1>2 DEF WorkerExited, Committed, WorkerAt, registryVars, managerVars,
        runnerVars, hostVars, SlotsInv, Slots, WorkerType
  <2>4. Balance(a, pending[a], job[a])
    BY DEF WorkerExited, Committed, WorkerAt, Balance, registryVars, managerVars,
        runnerVars, hostVars
  <2>5. worker[a].pc \notin {"none", "done"}
    BY SlotAt DEF WorkerExited, JobOk, ChildOk, ReaperOk, NoJob, NoChild
  <2>6. /\ UNCHANGED <<entry, task, monitor, pending, job, child, files>>
        /\ UNCHANGED <<scope, gate, change, docs, down>> /\ panicked' = FALSE
    BY <1>2 DEF WorkerExited, Committed, WorkerAt, registryVars, managerVars,
        runnerVars, hostVars
  <2>7. Work(a, job[a], w2, child[a], files[a])
    BY <2>1, <2>2, <2>3, <2>4, <2>5, <2>6, SlotAt, SlotKept DEF Work, SlotsInv
  <2> QED BY <2>7 DEF WorkMove
<1>3. CASE /\ UNCHANGED job /\ child[a] = [stage |-> "list", state |-> "ok"]
             /\ WorkerAt(a, "spawn") /\ Spawns(a, "restore")
  <2> DEFINE w2 == [worker[a] EXCEPT !.pc = "spawn"]
             c2 == [stage |-> "restore", state |-> "none"]
  <2>1. JobOk(entry[a], job[a], w2, c2, files[a])
    BY <1>3, SlotAt DEF WorkerExited, WorkerAt, Spawns, JobOk, ClaimOk, ChildOk,
        ReaperOk, ResultOk, WorkPhases, LateCommit, Kept, NoJob, NoWorker, NoChild,
        Terminal, Phases, OutcomeCancelled, JobType, WorkerType, ChildType, FilesType,
        EntryType, Types
  <2>2. w2 \in WorkerType
    BY SlotAt DEF WorkerType, Phases, Terminal
  <2>3. worker' = [worker EXCEPT ![a] = w2]
    BY <1>3 DEF WorkerExited, WorkerAt, Spawns, registryVars, managerVars,
        runnerVars, hostVars, SlotsInv, Slots, WorkerType
  <2>4. c2 \in ChildType
    BY SlotAt DEF ChildType, Phases, Terminal
  <2>5. child' = [child EXCEPT ![a] = c2]
    BY <1>3 DEF WorkerExited, WorkerAt, Spawns, registryVars, managerVars,
        runnerVars, hostVars, SlotsInv, Slots, ChildType
  <2>6. Balance(a, pending[a], job[a])
    BY DEF WorkerExited, WorkerAt, Spawns, Balance, registryVars, managerVars,
        runnerVars, hostVars
  <2>7. worker[a].pc \notin {"none", "done"}
    BY SlotAt DEF WorkerExited, JobOk, ChildOk, ReaperOk, NoJob, NoChild
  <2>8. /\ UNCHANGED <<entry, task, monitor, pending, job, files>>
        /\ UNCHANGED <<scope, gate, change, docs, down>> /\ panicked' = FALSE
    BY <1>3 DEF WorkerExited, WorkerAt, Spawns, registryVars, managerVars,
        runnerVars, hostVars
  <2>9. Work(a, job[a], w2, c2, files[a])
    BY <2>1, <2>2, <2>3, <2>4, <2>5, <2>6, <2>7, <2>8, SlotAt, SlotKept DEF Work, SlotsInv
  <2> QED BY <2>9 DEF WorkMove
<1>4. CASE /\ UNCHANGED job /\ child[a].stage = "dump" /\ child[a].state = "ok"
             /\ WorkerAt(a, "finalizing") /\ UNCHANGED child
  <2> DEFINE w2 == [worker[a] EXCEPT !.pc = "finalizing"]
  <2>1. JobOk(entry[a], job[a], w2, child[a], files[a])
    BY <1>4, SlotAt DEF WorkerExited, WorkerAt, JobOk, ClaimOk, ChildOk, ReaperOk,
        ResultOk, WorkPhases, LateCommit, Kept, NoJob, NoWorker, NoChild, Terminal,
        Phases, OutcomeCancelled, JobType, WorkerType, ChildType, FilesType, EntryType,
        Types
  <2>2. w2 \in WorkerType
    BY SlotAt DEF WorkerType, Phases, Terminal
  <2>3. worker' = [worker EXCEPT ![a] = w2]
    BY <1>4 DEF WorkerExited, WorkerAt, registryVars, managerVars, runnerVars,
        hostVars, SlotsInv, Slots, WorkerType
  <2>4. Balance(a, pending[a], job[a])
    BY DEF WorkerExited, WorkerAt, Balance, registryVars, managerVars, runnerVars,
        hostVars
  <2>5. worker[a].pc \notin {"none", "done"}
    BY SlotAt DEF WorkerExited, JobOk, ChildOk, ReaperOk, NoJob, NoChild
  <2>6. /\ UNCHANGED <<entry, task, monitor, pending, job, child, files>>
        /\ UNCHANGED <<scope, gate, change, docs, down>> /\ panicked' = FALSE
    BY <1>4 DEF WorkerExited, WorkerAt, registryVars, managerVars, runnerVars, hostVars
  <2>7. Work(a, job[a], w2, child[a], files[a])
    BY <2>1, <2>2, <2>3, <2>4, <2>5, <2>6, SlotAt, SlotKept DEF Work, SlotsInv
  <2> QED BY <2>7 DEF WorkMove
<1>5. CASE /\ Promotes(a) /\ Committed(a)
             /\ WorkerAt(a, "finalizing") /\ UNCHANGED child
  <2> DEFINE j2 == [job[a] EXCEPT !.outcome = Promoted(@)]
             w2 == [worker[a] EXCEPT !.pc = "finalizing"]
  <2>1. JobOk(entry[a], j2, w2, child[a], files[a])
    BY <1>5, SlotAt DEF WorkerExited, Committed, Promotes, WorkerAt, Promoted,
        JobOk, ClaimOk, ChildOk, ReaperOk, ResultOk, WorkPhases, LateCommit, Kept,
        NoJob, NoWorker, NoChild, Terminal, Phases, OutcomeCancelled, JobType,
        WorkerType, ChildType, FilesType, EntryType, Types
  <2>2. j2 \in JobType
    BY SlotAt DEF Promoted, JobType, Phases, Terminal
  <2>3. job' = [job EXCEPT ![a] = j2]
    BY <1>5 DEF WorkerExited, Committed, Promotes, WorkerAt, Promoted, registryVars,
        managerVars, runnerVars, hostVars, SlotsInv, Slots, JobType
  <2>4. w2 \in WorkerType
    BY SlotAt DEF WorkerType, Phases, Terminal
  <2>5. worker' = [worker EXCEPT ![a] = w2]
    BY <1>5 DEF WorkerExited, Committed, Promotes, WorkerAt, Promoted, registryVars,
        managerVars, runnerVars, hostVars, SlotsInv, Slots, WorkerType
  <2>6. Balance(a, pending[a], j2)
    BY <1>5, SlotAt DEF WorkerExited, Committed, Promotes, WorkerAt, Promoted,
        Balance, Owns, RegistryOk, JobOk, ReaperOk, NoJob, JobType, NoWorker,
        registryVars, managerVars, runnerVars, hostVars
  <2>7. worker[a].pc \notin {"none", "done"}
    BY SlotAt DEF WorkerExited, JobOk, ChildOk, ReaperOk, NoJob, NoChild
  <2>8. /\ UNCHANGED <<entry, task, monitor, pending, child, files>>
        /\ UNCHANGED <<scope, gate, change, docs, down>> /\ panicked' = FALSE
    BY <1>5 DEF WorkerExited, Committed, Promotes, WorkerAt, Promoted, registryVars,
        managerVars, runnerVars, hostVars
  <2>9. Work(a, j2, w2, child[a], files[a])
    BY <2>1, <2>2, <2>3, <2>4, <2>5, <2>6, <2>7, <2>8, SlotAt, SlotKept DEF Work, SlotsInv
  <2> QED BY <2>9 DEF WorkMove
<1> QED BY <1>1, <1>2, <1>3, <1>4, <1>5 DEF WorkerExited, Committed

\* A dump that was not cancelled is made ready.
LEMMA FinalizeBackupMoves ==
    ASSUME ToolInv, NEW a \in Attempts, FinalizeBackup(a)
    PROVE  WorkMove(a)
<1> USE DEF ToolInv, NoPanic
<1>1. CASE Refused(a) /\ Returns(a, "Cancelled") /\ UNCHANGED job
  <2> DEFINE w2 == [pc |-> "judge", result |-> "Cancelled"]
  <2>1. JobOk(entry[a], job[a], w2, child[a], files[a])
    <3>1. /\ entry[a].job /\ worker[a].pc \notin {"none", "done"} /\ job[a].active
          /\ entry[a].kind \in {"Backup", "Restore"}
          /\ job[a].dispatched <=> child[a].stage = "restore" /\ child[a].state # "none"
          /\ ClaimOk(entry[a], job[a], worker[a], child[a]) /\ ChildOk(entry[a], worker[a], child[a])
          /\ ReaperOk(job[a], worker[a], child[a])
          /\ ResultOk(entry[a], job[a], worker[a], child[a], files[a])
      BY SlotAt DEF FinalizeBackup, JobOk, ChildOk, ReaperOk, NoJob, NoWorker, NoChild
    <3>2. ClaimOk(entry[a], job[a], w2, child[a])
      BY <1>1, <3>1, SlotAt DEF FinalizeBackup, Refused, Returns, ClaimOk, ChildOk,
          WorkPhases, Kept, LateCommit, OutcomeCancelled, JobType, WorkerType, ChildType
    <3>3. ChildOk(entry[a], w2, child[a])
      BY <1>1, <3>1, SlotAt DEF FinalizeBackup, Refused, Returns, ChildOk, WorkerType, ChildType
    <3>4. ReaperOk(job[a], w2, child[a])
      BY <1>1, <3>1, SlotAt DEF FinalizeBackup, Refused, Returns, ReaperOk, ChildOk, Kept,
          JobType, WorkerType, ChildType
    <3>5. ResultOk(entry[a], job[a], w2, child[a], files[a])
      BY <1>1, <3>1, SlotAt DEF FinalizeBackup, Refused, Returns, ResultOk, ClaimOk,
          ChildOk, WorkPhases, LateCommit, Kept, OutcomeCancelled, JobType, WorkerType,
          ChildType, FilesType
    <3>6. /\ job[a].active /\ w2.pc \notin {"none", "done"}
          /\ job[a].dispatched <=> child[a].stage = "restore" /\ child[a].state # "none"
      BY <1>1, <3>1, SlotAt DEF FinalizeBackup, Refused, Returns, ChildOk, JobType,
          WorkerType, ChildType
    <3> QED BY <3>1, <3>2, <3>3, <3>4, <3>5, <3>6 DEF JobOk
  <2>2. w2 \in WorkerType
    BY SlotAt DEF WorkerType, Phases, Terminal
  <2>3. worker' = [worker EXCEPT ![a] = w2]
    BY <1>1 DEF FinalizeBackup, Refused, Returns, registryVars, managerVars,
        runnerVars, hostVars, SlotsInv, Slots, WorkerType
  <2>4. Balance(a, pending[a], job[a])
    BY DEF FinalizeBackup, Refused, Returns, Balance, registryVars, managerVars,
        runnerVars, hostVars
  <2>5. worker[a].pc \notin {"none", "done"}
    BY SlotAt DEF FinalizeBackup, JobOk, ChildOk, ReaperOk, NoJob, NoChild
  <2>6. /\ UNCHANGED <<entry, task, monitor, pending, job, child, files>>
        /\ UNCHANGED <<scope, gate, change, docs, down>> /\ panicked' = FALSE
    BY <1>1 DEF FinalizeBackup, Refused, Returns, registryVars, managerVars,
        runnerVars, hostVars
  <2>7. Work(a, job[a], w2, child[a], files[a])
    BY <2>1, <2>2, <2>3, <2>4, <2>5, <2>6, SlotAt, SlotKept DEF Work, SlotsInv
  <2> QED BY <2>7 DEF WorkMove
<1>2. CASE ~Refused(a) /\ job' = [job EXCEPT ![a].phase = "Finalizing"] /\ WorkerAt(a, "ready")
  <2> DEFINE j2 == [job[a] EXCEPT !.phase = "Finalizing"]
             w2 == [worker[a] EXCEPT !.pc = "ready"]
  <2>1. JobOk(entry[a], j2, w2, child[a], files[a])
    BY <1>2, SlotAt DEF FinalizeBackup, Refused, WorkerAt, JobOk, ClaimOk, ChildOk,
        ReaperOk, ResultOk, WorkPhases, LateCommit, Kept, NoJob, NoWorker, NoChild,
        Terminal, Phases, OutcomeCancelled, JobType, WorkerType, ChildType, FilesType,
        EntryType, Types
  <2>2. j2 \in JobType
    BY SlotAt DEF JobType, Phases, Terminal
  <2>3. job' = [job EXCEPT ![a] = j2]
    BY <1>2 DEF FinalizeBackup, Refused, WorkerAt, registryVars, managerVars,
        runnerVars, hostVars, SlotsInv, Slots, JobType
  <2>4. w2 \in WorkerType
    BY SlotAt DEF WorkerType, Phases, Terminal
  <2>5. worker' = [worker EXCEPT ![a] = w2]
    BY <1>2 DEF FinalizeBackup, Refused, WorkerAt, registryVars, managerVars,
        runnerVars, hostVars, SlotsInv, Slots, WorkerType
  <2>6. Balance(a, pending[a], j2)
    BY <1>2, SlotAt DEF FinalizeBackup, Refused, WorkerAt, Balance, Owns,
        RegistryOk, JobOk, ReaperOk, NoJob, JobType, NoWorker, registryVars,
        managerVars, runnerVars, hostVars
  <2>7. worker[a].pc \notin {"none", "done"}
    BY SlotAt DEF FinalizeBackup, JobOk, ChildOk, ReaperOk, NoJob, NoChild
  <2>8. /\ UNCHANGED <<entry, task, monitor, pending, child, files>>
        /\ UNCHANGED <<scope, gate, change, docs, down>> /\ panicked' = FALSE
    BY <1>2 DEF FinalizeBackup, Refused, WorkerAt, registryVars, managerVars,
        runnerVars, hostVars
  <2>9. Work(a, j2, w2, child[a], files[a])
    BY <2>1, <2>2, <2>3, <2>4, <2>5, <2>6, <2>7, <2>8, SlotAt, SlotKept DEF Work, SlotsInv
  <2> QED BY <2>9 DEF WorkMove
<1>3. CASE ~Refused(a) /\ job' = [job EXCEPT ![a].phase = "Finalizing"] /\ Returns(a, "Failed")
  <2> DEFINE j2 == [job[a] EXCEPT !.phase = "Finalizing"]
             w2 == [pc |-> "judge", result |-> "Failed"]
  <2>1. JobOk(entry[a], j2, w2, child[a], files[a])
    <3>1. /\ entry[a].job /\ worker[a].pc \notin {"none", "done"} /\ job[a].active
          /\ entry[a].kind \in {"Backup", "Restore"}
          /\ job[a].dispatched <=> child[a].stage = "restore" /\ child[a].state # "none"
          /\ ClaimOk(entry[a], job[a], worker[a], child[a]) /\ ChildOk(entry[a], worker[a], child[a])
          /\ ReaperOk(job[a], worker[a], child[a])
          /\ ResultOk(entry[a], job[a], worker[a], child[a], files[a])
      BY SlotAt DEF FinalizeBackup, JobOk, ChildOk, ReaperOk, NoJob, NoWorker, NoChild
    <3>2. ClaimOk(entry[a], j2, w2, child[a])
      BY <1>3, <3>1, SlotAt DEF FinalizeBackup, Refused, Returns, ClaimOk, ChildOk,
          WorkPhases, Kept, LateCommit, OutcomeCancelled, JobType, WorkerType, ChildType
    <3>3. ChildOk(entry[a], w2, child[a])
      BY <1>3, <3>1, SlotAt DEF FinalizeBackup, Refused, Returns, ChildOk, WorkerType, ChildType
    <3>4. ReaperOk(j2, w2, child[a])
      BY <1>3, <3>1, SlotAt DEF FinalizeBackup, Refused, Returns, ReaperOk, ChildOk, Kept,
          JobType, WorkerType, ChildType
    <3>5. ResultOk(entry[a], j2, w2, child[a], files[a])
      BY <1>3, <3>1, SlotAt DEF FinalizeBackup, Refused, Returns, ResultOk, ClaimOk,
          ChildOk, WorkPhases, LateCommit, Kept, OutcomeCancelled, JobType, WorkerType,
          ChildType, FilesType
    <3>6. /\ j2.active /\ w2.pc \notin {"none", "done"}
          /\ j2.dispatched <=> child[a].stage = "restore" /\ child[a].state # "none"
      BY <1>3, <3>1, SlotAt DEF FinalizeBackup, Refused, Returns, ChildOk, JobType,
          WorkerType, ChildType
    <3> QED BY <3>1, <3>2, <3>3, <3>4, <3>5, <3>6 DEF JobOk
  <2>2. j2 \in JobType
    BY SlotAt DEF JobType, Phases, Terminal
  <2>3. job' = [job EXCEPT ![a] = j2]
    BY <1>3 DEF FinalizeBackup, Refused, Returns, registryVars, managerVars,
        runnerVars, hostVars, SlotsInv, Slots, JobType
  <2>4. w2 \in WorkerType
    BY SlotAt DEF WorkerType, Phases, Terminal
  <2>5. worker' = [worker EXCEPT ![a] = w2]
    BY <1>3 DEF FinalizeBackup, Refused, Returns, registryVars, managerVars,
        runnerVars, hostVars, SlotsInv, Slots, WorkerType
  <2>6. Balance(a, pending[a], j2)
    BY <1>3, SlotAt DEF FinalizeBackup, Refused, Returns, Balance, Owns, RegistryOk,
        JobOk, ReaperOk, NoJob, JobType, NoWorker, registryVars, managerVars,
        runnerVars, hostVars
  <2>7. worker[a].pc \notin {"none", "done"}
    BY SlotAt DEF FinalizeBackup, JobOk, ChildOk, ReaperOk, NoJob, NoChild
  <2>8. /\ UNCHANGED <<entry, task, monitor, pending, child, files>>
        /\ UNCHANGED <<scope, gate, change, docs, down>> /\ panicked' = FALSE
    BY <1>3 DEF FinalizeBackup, Refused, Returns, registryVars, managerVars,
        runnerVars, hostVars
  <2>9. Work(a, j2, w2, child[a], files[a])
    BY <2>1, <2>2, <2>3, <2>4, <2>5, <2>6, <2>7, <2>8, SlotAt, SlotKept DEF Work, SlotsInv
  <2> QED BY <2>9 DEF WorkMove
<1> QED BY <1>1, <1>2, <1>3 DEF FinalizeBackup

\* Whoever claims the outcome first decides.
LEMMA ClaimPublicationMoves ==
    ASSUME ToolInv, NEW a \in Attempts, ClaimPublication(a)
    PROVE  WorkMove(a)
<1> USE DEF ToolInv, NoPanic
<1>1. CASE entry[a].kind = "Restore" /\ WorkerAt(a, "publish") /\ UNCHANGED job
  <2> DEFINE w2 == [worker[a] EXCEPT !.pc = "publish"]
  <2>1. JobOk(entry[a], job[a], w2, child[a], files[a])
    BY <1>1, SlotAt DEF ClaimPublication, WorkerAt, JobOk, ClaimOk, ChildOk,
        ReaperOk, ResultOk, WorkPhases, LateCommit, Kept, NoJob, NoWorker, NoChild,
        Terminal, Phases, OutcomeCancelled, JobType, WorkerType, ChildType, FilesType,
        EntryType, Types
  <2>2. w2 \in WorkerType
    BY SlotAt DEF WorkerType, Phases, Terminal
  <2>3. worker' = [worker EXCEPT ![a] = w2]
    BY <1>1 DEF ClaimPublication, WorkerAt, registryVars, managerVars, runnerVars,
        hostVars, SlotsInv, Slots, WorkerType
  <2>4. Balance(a, pending[a], job[a])
    BY DEF ClaimPublication, WorkerAt, Balance, registryVars, managerVars,
        runnerVars, hostVars
  <2>5. worker[a].pc \notin {"none", "done"}
    BY SlotAt DEF ClaimPublication, JobOk, ChildOk, ReaperOk, NoJob, NoChild
  <2>6. /\ UNCHANGED <<entry, task, monitor, pending, job, child, files>>
        /\ UNCHANGED <<scope, gate, change, docs, down>> /\ panicked' = FALSE
    BY <1>1 DEF ClaimPublication, WorkerAt, registryVars, managerVars, runnerVars,
        hostVars
  <2>7. Work(a, job[a], w2, child[a], files[a])
    BY <2>1, <2>2, <2>3, <2>4, <2>5, <2>6, SlotAt, SlotKept DEF Work, SlotsInv
  <2> QED BY <2>7 DEF WorkMove
<1>2. CASE /\ entry[a].kind # "Restore" /\ job[a].outcome = "Open" /\ WorkerAt(a, "publish")
             /\ job' = [job EXCEPT ![a].outcome = "Publishing"]
  <2> DEFINE j2 == [job[a] EXCEPT !.outcome = "Publishing"]
             w2 == [worker[a] EXCEPT !.pc = "publish"]
  <2>1. JobOk(entry[a], j2, w2, child[a], files[a])
    BY <1>2, SlotAt DEF ClaimPublication, WorkerAt, JobOk, ClaimOk, ChildOk,
        ReaperOk, ResultOk, WorkPhases, LateCommit, Kept, NoJob, NoWorker, NoChild,
        Terminal, Phases, OutcomeCancelled, JobType, WorkerType, ChildType, FilesType,
        EntryType, Types
  <2>2. j2 \in JobType
    BY SlotAt DEF JobType, Phases, Terminal
  <2>3. job' = [job EXCEPT ![a] = j2]
    BY <1>2 DEF ClaimPublication, WorkerAt, registryVars, managerVars, runnerVars,
        hostVars, SlotsInv, Slots, JobType
  <2>4. w2 \in WorkerType
    BY SlotAt DEF WorkerType, Phases, Terminal
  <2>5. worker' = [worker EXCEPT ![a] = w2]
    BY <1>2 DEF ClaimPublication, WorkerAt, registryVars, managerVars, runnerVars,
        hostVars, SlotsInv, Slots, WorkerType
  <2>6. Balance(a, pending[a], j2)
    BY <1>2, SlotAt DEF ClaimPublication, WorkerAt, Balance, Owns, RegistryOk,
        JobOk, ReaperOk, NoJob, JobType, NoWorker, registryVars, managerVars,
        runnerVars, hostVars
  <2>7. worker[a].pc \notin {"none", "done"}
    BY SlotAt DEF ClaimPublication, JobOk, ChildOk, ReaperOk, NoJob, NoChild
  <2>8. /\ UNCHANGED <<entry, task, monitor, pending, child, files>>
        /\ UNCHANGED <<scope, gate, change, docs, down>> /\ panicked' = FALSE
    BY <1>2 DEF ClaimPublication, WorkerAt, registryVars, managerVars, runnerVars,
        hostVars
  <2>9. Work(a, j2, w2, child[a], files[a])
    BY <2>1, <2>2, <2>3, <2>4, <2>5, <2>6, <2>7, <2>8, SlotAt, SlotKept DEF Work, SlotsInv
  <2> QED BY <2>9 DEF WorkMove
<1>3. CASE /\ entry[a].kind # "Restore" /\ job[a].outcome # "Open"
             /\ Returns(a, "Cancelled") /\ UNCHANGED job
  <2> DEFINE w2 == [pc |-> "judge", result |-> "Cancelled"]
  <2>1. JobOk(entry[a], job[a], w2, child[a], files[a])
    BY <1>3, SlotAt DEF ClaimPublication, Returns, JobOk, ClaimOk, ChildOk,
        ReaperOk, ResultOk, WorkPhases, LateCommit, Kept, NoJob, NoWorker, NoChild,
        Terminal, Phases, OutcomeCancelled, JobType, WorkerType, ChildType, FilesType,
        EntryType, Types
  <2>2. w2 \in WorkerType
    BY SlotAt DEF WorkerType, Phases, Terminal
  <2>3. worker' = [worker EXCEPT ![a] = w2]
    BY <1>3 DEF ClaimPublication, Returns, registryVars, managerVars, runnerVars,
        hostVars, SlotsInv, Slots, WorkerType
  <2>4. Balance(a, pending[a], job[a])
    BY DEF ClaimPublication, Returns, Balance, registryVars, managerVars,
        runnerVars, hostVars
  <2>5. worker[a].pc \notin {"none", "done"}
    BY SlotAt DEF ClaimPublication, JobOk, ChildOk, ReaperOk, NoJob, NoChild
  <2>6. /\ UNCHANGED <<entry, task, monitor, pending, job, child, files>>
        /\ UNCHANGED <<scope, gate, change, docs, down>> /\ panicked' = FALSE
    BY <1>3 DEF ClaimPublication, Returns, registryVars, managerVars, runnerVars, hostVars
  <2>7. Work(a, job[a], w2, child[a], files[a])
    BY <2>1, <2>2, <2>3, <2>4, <2>5, <2>6, SlotAt, SlotKept DEF Work, SlotsInv
  <2> QED BY <2>7 DEF WorkMove
<1> QED BY <1>1, <1>2, <1>3 DEF ClaimPublication

\* The archive is linked to its destination, or is refused there.
LEMMA PublishMoves ==
    ASSUME ToolInv, NEW a \in Attempts, Publish(a)
    PROVE  WorkMove(a)
<1> USE DEF ToolInv, NoPanic
<1>1. CASE /\ Returns(a, "ok")
             /\ files' = [files EXCEPT ![a].published = entry[a].kind = "Backup"]
  <2> DEFINE w2 == [pc |-> "judge", result |-> "ok"]
             f2 == [files[a] EXCEPT !.published = (entry[a].kind = "Backup")]
  <2>1. JobOk(entry[a], job[a], w2, child[a], f2)
    BY <1>1, SlotAt DEF Publish, Returns, JobOk, ClaimOk, ChildOk, ReaperOk,
        ResultOk, WorkPhases, LateCommit, Kept, NoJob, NoWorker, NoChild, Terminal,
        Phases, OutcomeCancelled, JobType, WorkerType, ChildType, FilesType, EntryType,
        Types
  <2>2. w2 \in WorkerType
    BY SlotAt DEF WorkerType, Phases, Terminal
  <2>3. worker' = [worker EXCEPT ![a] = w2]
    BY <1>1 DEF Publish, Returns, registryVars, managerVars, runnerVars, hostVars,
        SlotsInv, Slots, WorkerType
  <2>4. f2 \in FilesType
    BY SlotAt DEF FilesType, Phases, Terminal
  <2>5. files' = [files EXCEPT ![a] = f2]
    BY <1>1 DEF Publish, Returns, registryVars, managerVars, runnerVars, hostVars,
        SlotsInv, Slots, FilesType
  <2>6. Balance(a, pending[a], job[a])
    BY DEF Publish, Returns, Balance, registryVars, managerVars, runnerVars, hostVars
  <2>7. worker[a].pc \notin {"none", "done"}
    BY SlotAt DEF Publish, JobOk, ChildOk, ReaperOk, NoJob, NoChild
  <2>8. /\ UNCHANGED <<entry, task, monitor, pending, job, child>>
        /\ UNCHANGED <<scope, gate, change, docs, down>> /\ panicked' = FALSE
    BY <1>1 DEF Publish, Returns, registryVars, managerVars, runnerVars, hostVars
  <2>9. Work(a, job[a], w2, child[a], f2)
    BY <2>1, <2>2, <2>3, <2>4, <2>5, <2>6, <2>7, <2>8, SlotAt, SlotKept DEF Work, SlotsInv
  <2> QED BY <2>9 DEF WorkMove
<1>2. CASE entry[a].kind = "Backup" /\ Returns(a, "Failed") /\ UNCHANGED files
  <2> DEFINE w2 == [pc |-> "judge", result |-> "Failed"]
  <2>1. JobOk(entry[a], job[a], w2, child[a], files[a])
    BY <1>2, SlotAt DEF Publish, Returns, JobOk, ClaimOk, ChildOk, ReaperOk,
        ResultOk, WorkPhases, LateCommit, Kept, NoJob, NoWorker, NoChild, Terminal,
        Phases, OutcomeCancelled, JobType, WorkerType, ChildType, FilesType, EntryType,
        Types
  <2>2. w2 \in WorkerType
    BY SlotAt DEF WorkerType, Phases, Terminal
  <2>3. worker' = [worker EXCEPT ![a] = w2]
    BY <1>2 DEF Publish, Returns, registryVars, managerVars, runnerVars, hostVars,
        SlotsInv, Slots, WorkerType
  <2>4. Balance(a, pending[a], job[a])
    BY DEF Publish, Returns, Balance, registryVars, managerVars, runnerVars, hostVars
  <2>5. worker[a].pc \notin {"none", "done"}
    BY SlotAt DEF Publish, JobOk, ChildOk, ReaperOk, NoJob, NoChild
  <2>6. /\ UNCHANGED <<entry, task, monitor, pending, job, child, files>>
        /\ UNCHANGED <<scope, gate, change, docs, down>> /\ panicked' = FALSE
    BY <1>2 DEF Publish, Returns, registryVars, managerVars, runnerVars, hostVars
  <2>7. Work(a, job[a], w2, child[a], files[a])
    BY <2>1, <2>2, <2>3, <2>4, <2>5, <2>6, SlotAt, SlotKept DEF Work, SlotsInv
  <2> QED BY <2>7 DEF WorkMove
<1> QED BY <1>1, <1>2 DEF Publish

\* The result is settled against the claim.
LEMMA JudgeMoves ==
    ASSUME ToolInv, NEW a \in Attempts, Judge(a)
    PROVE  WorkMove(a)
<1> USE DEF ToolInv, NoPanic
<1> DEFINE j2 == [job[a] EXCEPT !.outcome = FinalCancel(@),
                             !.effects = (Judgement(worker[a].result, job[a].outcome) = "ok")]
           w2 == [pc |-> "terminal", result |-> Judgement(worker[a].result, job[a].outcome)]
<1>1. JobOk(entry[a], j2, w2, child[a], files[a])
  <2>1. /\ entry[a].job /\ worker[a].pc \notin {"none", "done"} /\ job[a].active
        /\ entry[a].kind \in {"Backup", "Restore"}
        /\ job[a].dispatched <=> child[a].stage = "restore" /\ child[a].state # "none"
        /\ ClaimOk(entry[a], job[a], worker[a], child[a]) /\ ChildOk(entry[a], worker[a], child[a])
        /\ ReaperOk(job[a], worker[a], child[a])
        /\ ResultOk(entry[a], job[a], worker[a], child[a], files[a])
    BY SlotAt DEF Judge, JobOk, ChildOk, ReaperOk, NoJob, NoWorker, NoChild
  <2>2. ClaimOk(entry[a], j2, w2, child[a])
    BY <2>1, SlotAt DEF Judge, Judgement, FinalCancel, ClaimOk, ChildOk, WorkPhases,
        Kept, LateCommit, OutcomeCancelled, JobType, WorkerType, ChildType
  <2>3. ChildOk(entry[a], w2, child[a])
    BY <2>1, SlotAt DEF Judge, Judgement, FinalCancel, ChildOk, WorkerType, ChildType
  <2>4. ReaperOk(j2, w2, child[a])
    BY <2>1, SlotAt DEF Judge, Judgement, FinalCancel, ReaperOk, ChildOk, Kept,
        JobType, WorkerType, ChildType
  <2>5. ResultOk(entry[a], j2, w2, child[a], files[a])
    BY <2>1, SlotAt DEF Judge, Judgement, FinalCancel, ResultOk, ClaimOk, ChildOk,
        WorkPhases, LateCommit, Kept, OutcomeCancelled, JobType, WorkerType, ChildType,
        FilesType
  <2>6. /\ j2.active /\ w2.pc \notin {"none", "done"}
        /\ j2.dispatched <=> child[a].stage = "restore" /\ child[a].state # "none"
    BY <2>1, SlotAt DEF Judge, Judgement, FinalCancel, ChildOk, JobType, WorkerType,
        ChildType
  <2> QED BY <2>1, <2>2, <2>3, <2>4, <2>5, <2>6 DEF JobOk
<1>2. j2 \in JobType
  <2>1. FinalCancel(job[a].outcome) \in {"Open", "Cancelled", "Publishing", "Irreversible", "CancelledFinal"}
    BY SlotAt DEF FinalCancel, JobType
  <2>2. (Judgement(worker[a].result, job[a].outcome) = "ok") \in BOOLEAN
    OBVIOUS
  <2> QED BY <2>1, <2>2, SlotAt DEF JobType
<1>3. job' = [job EXCEPT ![a] = j2]
  BY DEF Judge, Judgement, FinalCancel, registryVars, managerVars,
      runnerVars, hostVars, SlotsInv, Slots, JobType
<1>4. w2 \in WorkerType
  BY SlotAt DEF Judgement, FinalCancel, OutcomeCancelled, WorkerType, Phases, Terminal
<1>5. worker' = [worker EXCEPT ![a] = w2]
  BY DEF Judge, Judgement, FinalCancel, registryVars, managerVars,
      runnerVars, hostVars, SlotsInv, Slots, WorkerType
<1>6. Balance(a, pending[a], j2)
  BY SlotAt DEF Judge, Judgement, FinalCancel, Balance, Owns, RegistryOk,
      JobOk, ReaperOk, NoJob, JobType, NoWorker, registryVars, managerVars,
      runnerVars, hostVars
<1>7. worker[a].pc \notin {"none", "done"}
  BY SlotAt DEF Judge, JobOk, ChildOk, ReaperOk, NoJob, NoChild
<1>8. /\ UNCHANGED <<entry, task, monitor, pending, child, files>>
      /\ UNCHANGED <<scope, gate, change, docs, down>> /\ panicked' = FALSE
  BY DEF Judge, Judgement, FinalCancel, registryVars, managerVars,
      runnerVars, hostVars
<1>9. Work(a, j2, w2, child[a], files[a])
  BY <1>1, <1>2, <1>3, <1>4, <1>5, <1>6, <1>7, <1>8, SlotAt, SlotKept DEF Work, SlotsInv
<1> QED BY <1>9 DEF WorkMove

\* A restore that got to its end has its commit claimed, so the phase may move
\* on and the success is not taken back.
LEMMA FinalizeRestoreMoves ==
    ASSUME ToolInv, NEW a \in Attempts, FinalizeRestore(a)
    PROVE  WorkMove(a)
<1> USE DEF ToolInv, NoPanic
<1> DEFINE j == [job[a] EXCEPT !.outcome = Promoted(job[a].outcome), !.phase = "Finalizing"]
           w == [worker[a] EXCEPT !.pc = "ready"]
<1>1. /\ job[a].outcome = "Irreversible" /\ job[a].phase \in {"Running", "Cancelling"}
      /\ worker[a].pc = "finalizing" /\ entry[a].kind = "Restore"
  BY SlotAt DEF FinalizeRestore, JobOk, ClaimOk, ChildOk, ReaperOk, ResultOk,
      WorkPhases, LateCommit, Kept, NoJob, NoWorker, NoChild, Terminal, Phases,
      OutcomeCancelled, JobType, WorkerType, ChildType, FilesType, EntryType, Types
<1>2. Legal(job[a].phase, "Finalizing") /\ ~OutcomeCancelled(Promoted(job[a].outcome))
  BY <1>1 DEF Legal, OutcomeCancelled, Promoted
<1>3. JobOk(entry[a], j, w, child[a], files[a])
  BY <1>1, SlotAt DEF JobOk, ClaimOk, ChildOk, ReaperOk, ResultOk, WorkPhases,
      LateCommit, Kept, NoJob, NoWorker, NoChild, Terminal, Phases, OutcomeCancelled,
      JobType, WorkerType, ChildType, FilesType, EntryType, Types, Promoted
<1>4. j \in JobType /\ w \in WorkerType
  <2>1. Promoted(job[a].outcome) = "Irreversible" /\ "Finalizing" \in {"none"} \cup Phases
    BY <1>1 DEF Promoted, Phases
  <2>2. j \in JobType
    BY <2>1, SlotAt DEF JobType
  <2>3. w \in WorkerType
    BY SlotAt DEF WorkerType
  <2> QED BY <2>2, <2>3
<1>5. job' = [job EXCEPT ![a] = j]
  BY <1>2 DEF FinalizeRestore, SlotsInv, Slots, JobType
<1>6. worker' = [worker EXCEPT ![a] = w]
  BY <1>2 DEF FinalizeRestore, WorkerAt, SlotsInv, Slots, WorkerType
<1>7. Balance(a, pending[a], j)
  BY SlotAt DEF FinalizeRestore, Balance, Owns, JobType
<1>8. /\ UNCHANGED <<entry, task, monitor, pending, child, files>>
      /\ UNCHANGED <<scope, gate, change, docs, down>> /\ panicked' = FALSE
  BY DEF FinalizeRestore, registryVars, managerVars, runnerVars, hostVars
<1>9. Work(a, j, w, child[a], files[a])
  BY <1>1, <1>3, <1>4, <1>5, <1>6, <1>7, <1>8, SlotAt, SlotKept DEF Work, SlotsInv
<1> QED BY <1>9 DEF WorkMove

\* However a cancellation, a late commit and the end of the work raced, the end
\* that publish_terminal asks for is a legal one.
LEMMA TerminalLegal ==
    ASSUME SlotsInv, NEW a \in Attempts, worker[a].pc = "terminal"
    PROVE  /\ Legal(job[a].phase, TerminalPhase(a))
           /\ TerminalPhase(a) \in Terminal
           /\ TerminalPhase(a) = "Completed" <=> files[a].published \/ Kept(child[a])
           /\ job[a].effects <=> TerminalPhase(a) = "Completed"
<1>1. entry[a].job /\ ClaimOk(entry[a], job[a], worker[a], child[a])
  BY SlotAt DEF JobOk, NoWorker
<1>2. ResultOk(entry[a], job[a], worker[a], child[a], files[a])
  BY <1>1, SlotAt DEF JobOk
<1>3. CASE job[a].outcome \in {"Cancelled", "CancelledFinal"}
  <2>1. TerminalPhase(a) = "Cancelled" /\ job[a].phase = "Cancelling"
    BY <1>1, <1>3 DEF TerminalPhase, OutcomeCancelled, ClaimOk
  <2>2. ~files[a].published /\ ~Kept(child[a]) /\ ~job[a].effects
    BY <1>1, <1>2, <1>3 DEF ClaimOk, ResultOk, LateCommit
  <2> QED BY <2>1, <2>2 DEF Legal, Terminal
<1>4. CASE job[a].outcome \notin {"Cancelled", "CancelledFinal"}
  <2>1. job[a].phase \in {"Preflight", "Running", "Finalizing"}
    BY <1>1, <1>4 DEF ClaimOk, WorkPhases
  <2>2. CASE worker[a].result = "ok"
    <3>1. TerminalPhase(a) = "Completed" /\ job[a].phase = "Finalizing"
      BY <1>1, <1>2, <1>4, <2>2 DEF TerminalPhase, OutcomeCancelled, ClaimOk, ResultOk,
          LateCommit
    <3> QED BY <1>2, <2>2, <3>1 DEF Legal, ResultOk, Terminal
  <2>3. CASE worker[a].result # "ok"
    <3>1. TerminalPhase(a) = "Failed"
      BY <1>4, <2>3 DEF TerminalPhase, OutcomeCancelled
    <3> QED BY <1>2, <2>1, <2>3, <3>1 DEF Legal, ResultOk, Terminal
  <2> QED BY <2>2, <2>3
<1> QED BY <1>3, <1>4

\* The worker that publishes its end moves: publish_terminal.
LEMMA PublishTerminalMoves ==
    ASSUME ToolInv, NEW a \in Attempts, PublishTerminal(a)
    PROVE  WorkMove(a)
<1> USE DEF ToolInv, NoPanic
<1> DEFINE j == [job[a] EXCEPT !.active = FALSE, !.permit = FALSE,
                               !.outcome = FinalCancel(job[a].outcome),
                               !.phase = TerminalPhase(a)]
           w == [pc |-> "done", result |-> "none"]
<1>1. worker[a].pc = "terminal" /\ entry[a].job
  BY SlotAt DEF PublishTerminal, JobOk, NoWorker
<1>2. panicked' = FALSE
  BY <1>1, TerminalLegal DEF PublishTerminal
<1>3. job[a].reaper # "running" /\ (job[a].signal => job[a].outcome # "Open")
      /\ (files[a].published => job[a].outcome = "Publishing")
      /\ job[a].active /\ (job[a].dispatched <=> child[a].stage = "restore" /\ child[a].state # "none")
      /\ ChildOk(entry[a], worker[a], child[a]) /\ ReaperOk(job[a], worker[a], child[a])
      /\ entry[a].kind \in {"Backup", "Restore"}
  BY <1>1, SlotAt DEF JobOk, ReaperOk, ResultOk
<1>4. JobOk(entry[a], j, w, child[a], files[a])
  <2>1. j.effects = job[a].effects /\ j.phase = TerminalPhase(a) /\ ~j.active /\ ~j.permit
    BY SlotAt DEF JobType
  <2>2. j.reaper = job[a].reaper /\ j.signal = job[a].signal /\ j.dispatched = job[a].dispatched
        /\ j.outcome = FinalCancel(job[a].outcome)
    BY SlotAt DEF JobType
  <2> HIDE DEF j
  <2>3. ChildOk(entry[a], w, child[a])
    BY <1>1, <1>3 DEF ChildOk
  <2>4. ReaperOk(j, w, child[a])
    BY <1>1, <1>3, <2>1, <2>2 DEF ReaperOk
  <2>5. ResultOk(entry[a], j, w, child[a], files[a])
    BY <1>1, <1>3, <2>1, <2>2 DEF ResultOk, FinalCancel
  <2> QED BY <1>1, <1>3, <2>1, <2>2, <2>3, <2>4, <2>5, TerminalLegal DEF JobOk
<1>5. j \in JobType
  <2>1. FinalCancel(job[a].outcome) \in
            {"Open", "Cancelled", "Publishing", "Irreversible", "CancelledFinal"}
    BY SlotAt DEF FinalCancel, JobType
  <2>2. TerminalPhase(a) \in {"none"} \cup Phases
    BY <1>1, TerminalLegal DEF Phases
  <2> QED BY <2>1, <2>2, SlotAt DEF JobType
<1>6. w \in WorkerType
  BY DEF WorkerType
<1>7. job' = [job EXCEPT ![a] = j]
  BY <1>2 DEF PublishTerminal, SlotsInv, Slots, JobType
<1>8. worker' = [worker EXCEPT ![a] = w]
  BY DEF PublishTerminal
<1>9. Balance(a, pending[a], j)
  <2>1. j.permit = FALSE /\ j.reaper = job[a].reaper BY SlotAt DEF JobType
  <2>2. pending[a].state = "none" BY <1>1, SlotAt DEF RegistryOk
  <2>3. permits' = IF job[a].permit THEN permits - 1 ELSE permits BY DEF PublishTerminal
  <2> HIDE DEF j
  <2> QED BY <1>3, <2>1, <2>2, <2>3, SlotAt DEF Balance, Owns, JobType
<1>10. /\ UNCHANGED <<entry, task, monitor, pending, child, files>>
       /\ UNCHANGED <<scope, gate, change, docs, down>>
  BY DEF PublishTerminal, registryVars, managerVars, runnerVars, hostVars
<1>11. Work(a, j, w, child[a], files[a])
  BY <1>1, <1>2, <1>4, <1>5, <1>6, <1>7, <1>8, <1>9, <1>10, SlotAt, SlotKept DEF Work, SlotsInv
<1> QED BY <1>11 DEF WorkMove

\* Every step of a worker, a process or a reaper is work for its own job.
LEMMA WorkerWorks ==
    ASSUME ToolInv, NEW a \in Attempts,
           \/ WorkerStep(a) \/ ProcessStopped(a) \/ ReaperEnds(a)
           \/ \E state \in {"ok", "err"} : ChildExits(a, state)
    PROVE  WorkMove(a)
  BY WorkerPreflightMoves, WorkerRunningMoves, ProcessSpawnsMoves, ChildExitsMoves,
     ProcessCancelledMoves, ProcessStoppedMoves, ProcessExitedMoves, ReaperEndsMoves,
     WorkerReapedMoves, WorkerExitedMoves, FinalizeBackupMoves, FinalizeRestoreMoves,
     ClaimPublicationMoves, PublishMoves, JudgeMoves, PublishTerminalMoves
     DEF WorkerStep

\* So it is a plain move.
LEMMA WorkerMoves ==
    ASSUME ToolInv, NEW a \in Attempts,
           \/ WorkerStep(a) \/ ProcessStopped(a) \/ ReaperEnds(a)
           \/ \E state \in {"ok", "err"} : ChildExits(a, state)
    PROVE  PlainMove(a)
  BY WorkerWorks, WorkIsPlain DEF ToolInv

----------------------------------------------------------------------------
(* The registry's tasks and monitors.                                      *)

\* The entries that the registry writes.
LEMMA EntryTypes ==
    ASSUME NEW e \in EntryType, NEW phase \in Phases
    PROVE  /\ [e EXCEPT !.cancel = TRUE, !.phase = phase] \in EntryType
           /\ \A error, clean : Finished(e, error, clean) \in EntryType
           /\ \A dispatched :
                [e EXCEPT !.phase = phase, !.effect = ShownEffect(phase, dispatched)] \in EntryType
<1>1. [e EXCEPT !.cancel = TRUE, !.phase = phase] \in EntryType
  BY DEF EntryType
<1>2. ASSUME NEW error, NEW clean PROVE Finished(e, error, clean) \in EntryType
  BY DEF EntryType, Finished, Phases, Terminal
<1>3. ASSUME NEW dispatched
      PROVE [e EXCEPT !.phase = phase, !.effect = ShownEffect(phase, dispatched)] \in EntryType
  <2>1. ShownEffect(phase, dispatched) \in {"NotStarted", "Pending", "Succeeded", "Unknown"}
    BY DEF ShownEffect
  <2> QED BY <2>1 DEF EntryType
<1> QED BY <1>1, <1>2, <1>3

\* The user is asked to confirm a restore.
LEMMA AwaitConfirmationMoves ==
    ASSUME ToolInv, NEW a \in Attempts, AwaitConfirmation(a)
    PROVE  RegMove(a)
<1> USE DEF ToolInv, NoPanic
<1> DEFINE e2 == [entry[a] EXCEPT !.phase = "AwaitingConfirmation"]
<1>1. RegistryOk(e2, task[a], monitor[a], pending[a], files[a], worker[a])
  BY SlotAt, ToolJobsAssumption DEF AwaitConfirmation, Current, NoPending,
      RegistryOk, Clean, NoEntry, Reviewable, Phases, Terminal, Types, EntryType,
      TaskType, MonitorType, PendingType, FilesType, WorkerType
<1>2. ShownOk(e2, monitor[a], job[a], worker[a])
  BY SlotAt DEF AwaitConfirmation, Current, ShownOk, ShownEffect, Phases,
      Terminal, Types, EntryType, MonitorType, JobType, WorkerType, RegistryOk
<1>3. e2 \in EntryType
  BY SlotAt, ToolJobsAssumption DEF EntryType, Phases, Terminal, Reviewable
<1>4. entry' = [entry EXCEPT ![a] = e2]
  BY DEF AwaitConfirmation, Current, registryVars, managerVars, runnerVars,
      hostVars, SlotsInv, Slots, EntryType
<1>5. /\ UNCHANGED <<job, worker, child, task, monitor, pending, files>>
      /\ UNCHANGED <<scope, gate, change, down>> /\ docs' \subseteq docs /\ panicked' = FALSE
  BY DEF AwaitConfirmation, Current, registryVars, managerVars, runnerVars,
      hostVars
<1>6. UNCHANGED permits
  BY DEF AwaitConfirmation, Current, registryVars, managerVars, runnerVars,
      hostVars
<1>7. e2.job = entry[a].job /\ e2.kind = entry[a].kind /\ e2.conn = entry[a].conn
  BY SlotAt DEF EntryType, FilesType, TaskType
<1>8. Reg(a, e2, task[a], monitor[a], pending[a], files[a])
  BY <1>1, <1>2, <1>3, <1>4, <1>5, <1>6, <1>7, SlotAt, SlotKept DEF Reg, SlotsInv
<1> QED BY <1>8 DEF RegMove

\* A reviewed attempt is dispatched.
LEMMA DispatchMoves ==
    ASSUME ToolInv, NEW a \in Attempts, Dispatch(a)
    PROVE  RegMove(a)
<1> USE DEF ToolInv, NoPanic
<1> DEFINE e2 == [entry[a] EXCEPT !.phase = "Queued"]
           t2 == [task[a] EXCEPT !.pc = "dispatch"]
<1>1. RegistryOk(e2, t2, monitor[a], pending[a], files[a], worker[a])
  BY SlotAt, ToolJobsAssumption DEF Dispatch, Current, NoPending,
      RegistryOk, Clean, NoEntry, Reviewable, Phases, Terminal, Types, EntryType,
      TaskType, MonitorType, PendingType, FilesType, WorkerType
<1>2. ShownOk(e2, monitor[a], job[a], worker[a])
  BY SlotAt DEF Dispatch, Current, ShownOk, ShownEffect, Phases, Terminal,
      Types, EntryType, MonitorType, JobType, WorkerType, RegistryOk
<1>3. e2 \in EntryType
  BY SlotAt, ToolJobsAssumption DEF EntryType, Phases, Terminal, Reviewable
<1>4. entry' = [entry EXCEPT ![a] = e2]
  BY DEF Dispatch, Current, registryVars, managerVars, runnerVars, hostVars,
      SlotsInv, Slots, EntryType
<1>5. t2 \in TaskType
  BY SlotAt, ToolJobsAssumption DEF TaskType, Phases, Terminal, Reviewable
<1>6. task' = [task EXCEPT ![a] = t2]
  BY DEF Dispatch, Current, registryVars, managerVars, runnerVars, hostVars,
      SlotsInv, Slots, TaskType
<1>7. /\ UNCHANGED <<job, worker, child, monitor, pending, files>>
      /\ UNCHANGED <<scope, gate, change, down>> /\ docs' \subseteq docs /\ panicked' = FALSE
  BY DEF Dispatch, Current, registryVars, managerVars, runnerVars, hostVars
<1>8. UNCHANGED permits
  BY DEF Dispatch, Current, registryVars, managerVars, runnerVars, hostVars
<1>9. /\ e2.job = entry[a].job /\ e2.kind = entry[a].kind /\ e2.conn = entry[a].conn
      /\ t2.pc \in {"retire", "start"} => t2.pc = task[a].pc
  BY SlotAt DEF EntryType, FilesType, TaskType
<1>10. Reg(a, e2, t2, monitor[a], pending[a], files[a])
  BY <1>1, <1>2, <1>3, <1>4, <1>5, <1>6, <1>7, <1>8, <1>9, SlotAt, SlotKept DEF Reg, SlotsInv
<1> QED BY <1>10 DEF RegMove

\* A prepare passes the gate, or ends there.
LEMMA PrepareAdmitsMoves ==
    ASSUME ToolInv, NEW a \in Attempts, PrepareAdmits(a)
    PROVE  RegMove(a)
<1> USE DEF ToolInv, NoPanic
<1>1. CASE entry[a].cancel /\ Fails(a, "Cancelled")
  <2> DEFINE t2 == [pc |-> "cleaning", error |-> "Cancelled"]
  <2>1. RegistryOk(entry[a], t2, monitor[a], pending[a], files[a], worker[a])
    BY <1>1, SlotAt, ToolJobsAssumption DEF PrepareAdmits, PassesGate, Fails, NoPending,
        RegistryOk, Clean, NoEntry, Reviewable, Phases, Terminal, Types, EntryType,
        TaskType, MonitorType, PendingType, FilesType, WorkerType
  <2>2. ShownOk(entry[a], monitor[a], job[a], worker[a])
    BY <1>1, SlotAt DEF PrepareAdmits, PassesGate, Fails, ShownOk, ShownEffect, Phases,
        Terminal, Types, EntryType, MonitorType, JobType, WorkerType, RegistryOk
  <2>3. t2 \in TaskType
    BY <1>1, SlotAt, ToolJobsAssumption DEF TaskType, Phases, Terminal, Reviewable
  <2>4. task' = [task EXCEPT ![a] = t2]
    BY <1>1 DEF PrepareAdmits, PassesGate, Fails, registryVars, managerVars, runnerVars,
        hostVars, SlotsInv, Slots, TaskType
  <2>5. /\ UNCHANGED <<job, worker, child, entry, monitor, pending, files>>
        /\ UNCHANGED <<scope, gate, change, down>> /\ docs' \subseteq docs /\ panicked' = FALSE
    BY <1>1 DEF PrepareAdmits, PassesGate, Fails, registryVars, managerVars, runnerVars, hostVars
  <2>6. UNCHANGED permits
    BY <1>1 DEF PrepareAdmits, PassesGate, Fails, registryVars, managerVars, runnerVars, hostVars
  <2>7. t2.pc \in {"retire", "start"} => t2.pc = task[a].pc
    BY SlotAt DEF EntryType, FilesType, TaskType
  <2>8. Reg(a, entry[a], t2, monitor[a], pending[a], files[a])
    BY <2>1, <2>2, <2>3, <2>4, <2>5, <2>6, <2>7, SlotAt, SlotKept DEF Reg, SlotsInv
  <2> QED BY <2>8 DEF RegMove
<1>2. CASE ~entry[a].cancel /\ Fails(a, "Failed")
  <2> DEFINE t2 == [pc |-> "cleaning", error |-> "Failed"]
  <2>1. RegistryOk(entry[a], t2, monitor[a], pending[a], files[a], worker[a])
    BY <1>2, SlotAt, ToolJobsAssumption DEF PrepareAdmits, PassesGate, Fails, NoPending,
        RegistryOk, Clean, NoEntry, Reviewable, Phases, Terminal, Types, EntryType,
        TaskType, MonitorType, PendingType, FilesType, WorkerType
  <2>2. ShownOk(entry[a], monitor[a], job[a], worker[a])
    BY <1>2, SlotAt DEF PrepareAdmits, PassesGate, Fails, ShownOk, ShownEffect, Phases,
        Terminal, Types, EntryType, MonitorType, JobType, WorkerType, RegistryOk
  <2>3. t2 \in TaskType
    BY <1>2, SlotAt, ToolJobsAssumption DEF TaskType, Phases, Terminal, Reviewable
  <2>4. task' = [task EXCEPT ![a] = t2]
    BY <1>2 DEF PrepareAdmits, PassesGate, Fails, registryVars, managerVars, runnerVars,
        hostVars, SlotsInv, Slots, TaskType
  <2>5. /\ UNCHANGED <<job, worker, child, entry, monitor, pending, files>>
        /\ UNCHANGED <<scope, gate, change, down>> /\ docs' \subseteq docs /\ panicked' = FALSE
    BY <1>2 DEF PrepareAdmits, PassesGate, Fails, registryVars, managerVars, runnerVars, hostVars
  <2>6. UNCHANGED permits
    BY <1>2 DEF PrepareAdmits, PassesGate, Fails, registryVars, managerVars, runnerVars, hostVars
  <2>7. t2.pc \in {"retire", "start"} => t2.pc = task[a].pc
    BY SlotAt DEF EntryType, FilesType, TaskType
  <2>8. Reg(a, entry[a], t2, monitor[a], pending[a], files[a])
    BY <2>1, <2>2, <2>3, <2>4, <2>5, <2>6, <2>7, SlotAt, SlotKept DEF Reg, SlotsInv
  <2> QED BY <2>8 DEF RegMove
<1>3. CASE ~entry[a].cancel /\ task' = [task EXCEPT ![a].pc = "copy"]
  <2> DEFINE t2 == [task[a] EXCEPT !.pc = "copy"]
  <2>1. RegistryOk(entry[a], t2, monitor[a], pending[a], files[a], worker[a])
    BY <1>3, SlotAt, ToolJobsAssumption DEF PrepareAdmits, NoPending, RegistryOk,
        Clean, NoEntry, Reviewable, Phases, Terminal, Types, EntryType, TaskType,
        MonitorType, PendingType, FilesType, WorkerType
  <2>2. ShownOk(entry[a], monitor[a], job[a], worker[a])
    BY <1>3, SlotAt DEF PrepareAdmits, ShownOk, ShownEffect, Phases, Terminal,
        Types, EntryType, MonitorType, JobType, WorkerType, RegistryOk
  <2>3. t2 \in TaskType
    BY <1>3, SlotAt, ToolJobsAssumption DEF TaskType, Phases, Terminal, Reviewable
  <2>4. task' = [task EXCEPT ![a] = t2]
    BY <1>3 DEF PrepareAdmits, registryVars, managerVars, runnerVars, hostVars,
        SlotsInv, Slots, TaskType
  <2>5. /\ UNCHANGED <<job, worker, child, entry, monitor, pending, files>>
        /\ UNCHANGED <<scope, gate, change, down>> /\ docs' \subseteq docs /\ panicked' = FALSE
    BY <1>3 DEF PrepareAdmits, registryVars, managerVars, runnerVars, hostVars
  <2>6. UNCHANGED permits
    BY <1>3 DEF PrepareAdmits, registryVars, managerVars, runnerVars, hostVars
  <2>7. t2.pc \in {"retire", "start"} => t2.pc = task[a].pc
    BY SlotAt DEF EntryType, FilesType, TaskType
  <2>8. Reg(a, entry[a], t2, monitor[a], pending[a], files[a])
    BY <2>1, <2>2, <2>3, <2>4, <2>5, <2>6, <2>7, SlotAt, SlotKept DEF Reg, SlotsInv
  <2> QED BY <2>8 DEF RegMove
<1> QED BY <1>1, <1>2, <1>3 DEF PrepareAdmits

\* The copy is made, and the attempt is ready for review or ends.
LEMMA PrepareReadyMoves ==
    ASSUME ToolInv, NEW a \in Attempts, PrepareReady(a)
    PROVE  RegMove(a)
<1> USE DEF ToolInv, NoPanic
<1>1. CASE (entry[a].cancel \/ ~Current(a)) /\ UNCHANGED entry
             /\ Fails(a, IF entry[a].cancel THEN "Cancelled" ELSE "Failed")
  <2> DEFINE t2 == [pc |-> "cleaning", error |-> IF entry[a].cancel THEN "Cancelled" ELSE "Failed"]
             f2 == [files[a] EXCEPT !.private = (entry[a].kind = "Restore")]
  <2>1. RegistryOk(entry[a], t2, monitor[a], pending[a], f2, worker[a])
    BY <1>1, SlotAt, ToolJobsAssumption DEF PrepareReady, Fails, NoPending,
        RegistryOk, Clean, NoEntry, Reviewable, Phases, Terminal, Types, EntryType,
        TaskType, MonitorType, PendingType, FilesType, WorkerType
  <2>2. ShownOk(entry[a], monitor[a], job[a], worker[a])
    BY <1>1, SlotAt DEF PrepareReady, Fails, ShownOk, ShownEffect, Phases, Terminal,
        Types, EntryType, MonitorType, JobType, WorkerType, RegistryOk
  <2>3. t2 \in TaskType
    BY <1>1, SlotAt, ToolJobsAssumption DEF TaskType, Phases, Terminal, Reviewable
  <2>4. task' = [task EXCEPT ![a] = t2]
    BY <1>1 DEF PrepareReady, Fails, registryVars, managerVars, runnerVars,
        hostVars, SlotsInv, Slots, TaskType
  <2>5. f2 \in FilesType
    BY <1>1, SlotAt, ToolJobsAssumption DEF FilesType, Phases, Terminal, Reviewable
  <2>6. files' = [files EXCEPT ![a] = f2]
    BY <1>1 DEF PrepareReady, Fails, registryVars, managerVars, runnerVars,
        hostVars, SlotsInv, Slots, FilesType
  <2>7. /\ UNCHANGED <<job, worker, child, entry, monitor, pending>>
        /\ UNCHANGED <<scope, gate, change, down>> /\ docs' \subseteq docs /\ panicked' = FALSE
    BY <1>1 DEF PrepareReady, Fails, registryVars, managerVars, runnerVars, hostVars
  <2>8. UNCHANGED permits
    BY <1>1 DEF PrepareReady, Fails, registryVars, managerVars, runnerVars, hostVars
  <2>9. /\ f2.published = files[a].published
        /\ t2.pc \in {"retire", "start"} => t2.pc = task[a].pc
    BY SlotAt DEF EntryType, FilesType, TaskType
  <2>10. Reg(a, entry[a], t2, monitor[a], pending[a], f2)
    BY <2>1, <2>2, <2>3, <2>4, <2>5, <2>6, <2>7, <2>8, <2>9, SlotAt, SlotKept DEF Reg, SlotsInv
  <2> QED BY <2>10 DEF RegMove
<1>2. CASE /\ ~entry[a].cancel /\ task' = [task EXCEPT ![a].pc = "idle"]
             /\ entry' = [entry EXCEPT ![a].phase = "ReadyReview"]
  <2> DEFINE e2 == [entry[a] EXCEPT !.phase = "ReadyReview"]
             t2 == [task[a] EXCEPT !.pc = "idle"]
             f2 == [files[a] EXCEPT !.private = (entry[a].kind = "Restore")]
  <2>1. RegistryOk(e2, t2, monitor[a], pending[a], f2, worker[a])
    BY <1>2, SlotAt, ToolJobsAssumption DEF PrepareReady, NoPending, RegistryOk,
        Clean, NoEntry, Reviewable, Phases, Terminal, Types, EntryType, TaskType,
        MonitorType, PendingType, FilesType, WorkerType
  <2>2. ShownOk(e2, monitor[a], job[a], worker[a])
    BY <1>2, SlotAt DEF PrepareReady, ShownOk, ShownEffect, Phases, Terminal, Types,
        EntryType, MonitorType, JobType, WorkerType, RegistryOk
  <2>3. e2 \in EntryType
    BY <1>2, SlotAt, ToolJobsAssumption DEF EntryType, Phases, Terminal, Reviewable
  <2>4. entry' = [entry EXCEPT ![a] = e2]
    BY <1>2 DEF PrepareReady, registryVars, managerVars, runnerVars, hostVars,
        SlotsInv, Slots, EntryType
  <2>5. t2 \in TaskType
    BY <1>2, SlotAt, ToolJobsAssumption DEF TaskType, Phases, Terminal, Reviewable
  <2>6. task' = [task EXCEPT ![a] = t2]
    BY <1>2 DEF PrepareReady, registryVars, managerVars, runnerVars, hostVars,
        SlotsInv, Slots, TaskType
  <2>7. f2 \in FilesType
    BY <1>2, SlotAt, ToolJobsAssumption DEF FilesType, Phases, Terminal, Reviewable
  <2>8. files' = [files EXCEPT ![a] = f2]
    BY <1>2 DEF PrepareReady, registryVars, managerVars, runnerVars, hostVars,
        SlotsInv, Slots, FilesType
  <2>9. /\ UNCHANGED <<job, worker, child, monitor, pending>>
        /\ UNCHANGED <<scope, gate, change, down>> /\ docs' \subseteq docs /\ panicked' = FALSE
    BY <1>2 DEF PrepareReady, registryVars, managerVars, runnerVars, hostVars
  <2>10. UNCHANGED permits
    BY <1>2 DEF PrepareReady, registryVars, managerVars, runnerVars, hostVars
  <2>11. /\ e2.job = entry[a].job /\ e2.kind = entry[a].kind /\ e2.conn = entry[a].conn
        /\ f2.published = files[a].published
        /\ t2.pc \in {"retire", "start"} => t2.pc = task[a].pc
    BY SlotAt DEF EntryType, FilesType, TaskType
  <2>12. Reg(a, e2, t2, monitor[a], pending[a], f2)
    BY <2>1, <2>2, <2>3, <2>4, <2>5, <2>6, <2>7, <2>8, <2>9, <2>10, <2>11, SlotAt, SlotKept
        DEF Reg, SlotsInv
  <2> QED BY <2>12 DEF RegMove
<1> QED BY <1>1, <1>2 DEF PrepareReady

\* The copy fails or is cancelled, and may be left behind.
LEMMA PrepareFailsMoves ==
    ASSUME ToolInv, NEW a \in Attempts, PrepareFails(a)
    PROVE  RegMove(a)
<1> USE DEF ToolInv, NoPanic
<1>0. PICK left \in {FALSE, entry[a].kind = "Restore"}, error \in {"Failed", "Cancelled", "Cleanup"} :
          files' = [files EXCEPT ![a].private = left] /\ Fails(a, error)
  BY SlotAt DEF PrepareFails, Terminal
<1> DEFINE t2 == [pc |-> "cleaning", error |-> error]
           f2 == [files[a] EXCEPT !.private = left]
<1>1. RegistryOk(entry[a], t2, monitor[a], pending[a], f2, worker[a])
  BY <1>0, SlotAt, ToolJobsAssumption DEF PrepareFails, Fails, NoPending,
      RegistryOk, Clean, NoEntry, Reviewable, Phases, Terminal, Types, EntryType,
      TaskType, MonitorType, PendingType, FilesType, WorkerType
<1>2. ShownOk(entry[a], monitor[a], job[a], worker[a])
  BY <1>0, SlotAt DEF PrepareFails, Fails, ShownOk, ShownEffect, Phases,
      Terminal, Types, EntryType, MonitorType, JobType, WorkerType, RegistryOk
<1>3. t2 \in TaskType
  BY <1>0, SlotAt, ToolJobsAssumption DEF TaskType, Phases, Terminal, Reviewable
<1>4. task' = [task EXCEPT ![a] = t2]
  BY <1>0 DEF PrepareFails, Fails, registryVars, managerVars, runnerVars,
      hostVars, SlotsInv, Slots, TaskType
<1>5. f2 \in FilesType
  BY <1>0, SlotAt, ToolJobsAssumption DEF FilesType, Phases, Terminal, Reviewable
<1>6. files' = [files EXCEPT ![a] = f2]
  BY <1>0 DEF PrepareFails, Fails, registryVars, managerVars, runnerVars,
      hostVars, SlotsInv, Slots, FilesType
<1>7. /\ UNCHANGED <<job, worker, child, entry, monitor, pending>>
      /\ UNCHANGED <<scope, gate, change, down>> /\ docs' \subseteq docs /\ panicked' = FALSE
  BY <1>0 DEF PrepareFails, Fails, registryVars, managerVars, runnerVars, hostVars
<1>8. UNCHANGED permits
  BY <1>0 DEF PrepareFails, Fails, registryVars, managerVars, runnerVars, hostVars
<1>9. /\ f2.published = files[a].published
      /\ t2.pc \in {"retire", "start"} => t2.pc = task[a].pc
  BY SlotAt DEF EntryType, FilesType, TaskType
<1>10. Reg(a, entry[a], t2, monitor[a], pending[a], f2)
  BY <1>1, <1>2, <1>3, <1>4, <1>5, <1>6, <1>7, <1>8, <1>9, SlotAt, SlotKept DEF Reg, SlotsInv
<1> QED BY <1>10 DEF RegMove

\* A failed task removes what it holds, or keeps all of it.
LEMMA TaskCleansMoves ==
    ASSUME ToolInv, NEW a \in Attempts, TaskCleans(a)
    PROVE  RegMove(a)
<1> USE DEF ToolInv, NoPanic
<1>1. CASE CleansResources(a) /\ task' = [task EXCEPT ![a].pc = "cleaned"]
  <2> DEFINE e2 == [entry[a] EXCEPT !.held = FALSE]
             t2 == [task[a] EXCEPT !.pc = "cleaned"]
             f2 == [files[a] EXCEPT !.private = FALSE]
  <2>1. RegistryOk(e2, t2, monitor[a], NoPending, f2, worker[a])
    BY <1>1, SlotAt, ToolJobsAssumption DEF TaskCleans, CleansResources,
        DropsAdmission, NoPending, RegistryOk, Clean, NoEntry, Reviewable, Phases,
        Terminal, Types, EntryType, TaskType, MonitorType, PendingType, FilesType,
        WorkerType
  <2>2. ShownOk(e2, monitor[a], job[a], worker[a])
    BY <1>1, SlotAt DEF TaskCleans, CleansResources, DropsAdmission, ShownOk,
        ShownEffect, Phases, Terminal, Types, EntryType, MonitorType, JobType,
        WorkerType, RegistryOk
  <2>3. e2 \in EntryType
    BY SlotAt DEF EntryType
  <2>4. entry' = [entry EXCEPT ![a] = e2]
    BY <1>1 DEF TaskCleans, CleansResources, DropsAdmission, registryVars,
        managerVars, runnerVars, hostVars, SlotsInv, Slots, EntryType
  <2>5. t2 \in TaskType
    BY <1>1, SlotAt, ToolJobsAssumption DEF TaskType, Phases, Terminal, Reviewable
  <2>6. task' = [task EXCEPT ![a] = t2]
    BY <1>1 DEF TaskCleans, CleansResources, DropsAdmission, registryVars,
        managerVars, runnerVars, hostVars, SlotsInv, Slots, TaskType
  <2>7. NoPending \in PendingType
    BY <1>1, SlotAt, ToolJobsAssumption DEF NoPending, PendingType, Phases, Terminal, Reviewable
  <2>8. pending' = [pending EXCEPT ![a] = NoPending]
    BY <1>1 DEF TaskCleans, CleansResources, DropsAdmission, NoPending,
        registryVars, managerVars, runnerVars, hostVars, SlotsInv, Slots, PendingType
  <2>9. f2 \in FilesType
    BY <1>1, SlotAt, ToolJobsAssumption DEF FilesType, Phases, Terminal, Reviewable
  <2>10. files' = [files EXCEPT ![a] = f2]
    BY <1>1 DEF TaskCleans, CleansResources, DropsAdmission, registryVars,
        managerVars, runnerVars, hostVars, SlotsInv, Slots, FilesType
  <2>11. /\ UNCHANGED <<job, worker, child, monitor>>
        /\ UNCHANGED <<scope, gate, change, down>> /\ docs' \subseteq docs /\ panicked' = FALSE
    BY <1>1 DEF TaskCleans, CleansResources, DropsAdmission, registryVars,
        managerVars, runnerVars, hostVars
  <2>12. /\ ~entry[a].job /\ NoPending.state = "none"
        /\ permits' = IF pending[a].state = "none" THEN permits ELSE permits - 1
    BY <1>1, SlotAt DEF TaskCleans, CleansResources, DropsAdmission, NoPending, RegistryOk
  <2>13. /\ e2.job = entry[a].job /\ e2.kind = entry[a].kind /\ e2.conn = entry[a].conn
        /\ f2.published = files[a].published
        /\ t2.pc \in {"retire", "start"} => t2.pc = task[a].pc
    BY SlotAt DEF EntryType, FilesType, TaskType
  <2>14. Reg(a, e2, t2, monitor[a], NoPending, f2)
    BY <2>1, <2>2, <2>3, <2>4, <2>5, <2>6, <2>7, <2>8, <2>9, <2>10, <2>11, <2>12, <2>13,
        SlotAt, SlotKept DEF Reg, SlotsInv
  <2> QED BY <2>14 DEF RegMove
<1>2. CASE UNCHANGED <<files, entry, pending, permits>> /\ task' = [task EXCEPT ![a].pc = "uncleaned"]
  <2> DEFINE t2 == [task[a] EXCEPT !.pc = "uncleaned"]
  <2>1. RegistryOk(entry[a], t2, monitor[a], pending[a], files[a], worker[a])
    BY <1>2, SlotAt, ToolJobsAssumption DEF TaskCleans, NoPending, RegistryOk,
        Clean, NoEntry, Reviewable, Phases, Terminal, Types, EntryType, TaskType,
        MonitorType, PendingType, FilesType, WorkerType
  <2>2. ShownOk(entry[a], monitor[a], job[a], worker[a])
    BY <1>2, SlotAt DEF TaskCleans, ShownOk, ShownEffect, Phases, Terminal, Types,
        EntryType, MonitorType, JobType, WorkerType, RegistryOk
  <2>3. t2 \in TaskType
    BY <1>2, SlotAt, ToolJobsAssumption DEF TaskType, Phases, Terminal, Reviewable
  <2>4. task' = [task EXCEPT ![a] = t2]
    BY <1>2 DEF TaskCleans, registryVars, managerVars, runnerVars, hostVars,
        SlotsInv, Slots, TaskType
  <2>5. /\ UNCHANGED <<job, worker, child, entry, monitor, pending, files>>
        /\ UNCHANGED <<scope, gate, change, down>> /\ docs' \subseteq docs /\ panicked' = FALSE
    BY <1>2 DEF TaskCleans, registryVars, managerVars, runnerVars, hostVars
  <2>6. UNCHANGED permits
    BY <1>2 DEF TaskCleans, registryVars, managerVars, runnerVars, hostVars
  <2>7. t2.pc \in {"retire", "start"} => t2.pc = task[a].pc
    BY SlotAt DEF EntryType, FilesType, TaskType
  <2>8. Reg(a, entry[a], t2, monitor[a], pending[a], files[a])
    BY <2>1, <2>2, <2>3, <2>4, <2>5, <2>6, <2>7, SlotAt, SlotKept DEF Reg, SlotsInv
  <2> QED BY <2>8 DEF RegMove
<1> QED BY <1>1, <1>2 DEF TaskCleans, KeepsResources

\* A failed task shows the end of the attempt.
LEMMA TaskFinishesMoves ==
    ASSUME ToolInv, NEW a \in Attempts, TaskFinishes(a)
    PROVE  RegMove(a)
<1> USE DEF ToolInv, NoPanic
<1> DEFINE e2 == Finished(entry[a], task[a].error, task[a].pc = "cleaned")
           t2 == [pc |-> "idle", error |-> "none"]
<1>1. RegistryOk(e2, t2, monitor[a], pending[a], files[a], worker[a])
  BY SlotAt, ToolJobsAssumption DEF TaskFinishes, Finished, NoPending,
      RegistryOk, Clean, NoEntry, Reviewable, Phases, Terminal, Types, EntryType,
      TaskType, MonitorType, PendingType, FilesType, WorkerType
<1>2. ShownOk(e2, monitor[a], job[a], worker[a])
  BY SlotAt DEF TaskFinishes, Finished, ShownOk, ShownEffect, Phases,
      Terminal, Types, EntryType, MonitorType, JobType, WorkerType, RegistryOk
<1>3. e2 \in EntryType
  BY SlotAt, EntryTypes DEF Phases, Terminal, TaskType, MonitorType
<1>4. entry' = [entry EXCEPT ![a] = e2]
  BY DEF TaskFinishes, Finished, registryVars, managerVars, runnerVars,
      hostVars, SlotsInv, Slots, EntryType
<1>5. t2 \in TaskType
  BY SlotAt, ToolJobsAssumption DEF TaskType, Phases, Terminal, Reviewable
<1>6. task' = [task EXCEPT ![a] = t2]
  BY DEF TaskFinishes, Finished, registryVars, managerVars, runnerVars,
      hostVars, SlotsInv, Slots, TaskType
<1>7. /\ UNCHANGED <<job, worker, child, monitor, pending, files>>
      /\ UNCHANGED <<scope, gate, change, down>> /\ docs' \subseteq docs /\ panicked' = FALSE
  BY DEF TaskFinishes, Finished, registryVars, managerVars, runnerVars, hostVars
<1>8. UNCHANGED permits
  BY DEF TaskFinishes, Finished, registryVars, managerVars, runnerVars, hostVars
<1>9. /\ e2.job = entry[a].job /\ e2.kind = entry[a].kind /\ e2.conn = entry[a].conn
      /\ t2.pc \in {"retire", "start"} => t2.pc = task[a].pc
  BY SlotAt DEF Finished, EntryType, FilesType, TaskType
<1>10. Reg(a, e2, t2, monitor[a], pending[a], files[a])
  BY <1>1, <1>2, <1>3, <1>4, <1>5, <1>6, <1>7, <1>8, <1>9, SlotAt, SlotKept DEF Reg, SlotsInv
<1> QED BY <1>10 DEF RegMove

\* The monitor carries a teardown to the entry.
LEMMA MonitorCancelsMoves ==
    ASSUME ToolInv, NEW a \in Attempts, MonitorCancels(a)
    PROVE  RegMove(a)
<1> USE DEF ToolInv, NoPanic
<1>0. ~entry[a].job /\ entry[a].phase \notin Terminal \cup {"none"}
  BY SlotAt DEF MonitorCancels, TeardownSeen, RegistryOk, NoEntry, Terminal
<1> DEFINE e2 == [entry[a] EXCEPT !.cancel = TRUE, !.phase = "Cancelling"]
<1>1. RegistryOk(e2, task[a], monitor[a], pending[a], files[a], worker[a])
  BY <1>0, SlotAt, ToolJobsAssumption DEF MonitorCancels, TeardownSeen, CancelledEntry,
      NoPending, RegistryOk, Clean, NoEntry, Reviewable, Phases, Terminal, Types,
      EntryType, TaskType, MonitorType, PendingType, FilesType, WorkerType
<1>2. ShownOk(e2, monitor[a], job[a], worker[a])
  BY <1>0, SlotAt DEF MonitorCancels, TeardownSeen, CancelledEntry, ShownOk, ShownEffect,
      Phases, Terminal, Types, EntryType, MonitorType, JobType, WorkerType, RegistryOk
<1>3. e2 \in EntryType
  BY <1>0, SlotAt, EntryTypes DEF Phases, Terminal, TaskType, MonitorType
<1>4. entry' = [entry EXCEPT ![a] = e2]
  BY <1>0 DEF MonitorCancels, TeardownSeen, CancelledEntry, registryVars, managerVars,
      runnerVars, hostVars, SlotsInv, Slots, EntryType
<1>5. /\ UNCHANGED <<job, worker, child, task, monitor, pending, files>>
      /\ UNCHANGED <<scope, gate, change, down>> /\ docs' \subseteq docs /\ panicked' = FALSE
  BY <1>0 DEF MonitorCancels, TeardownSeen, CancelledEntry, registryVars, managerVars,
      runnerVars, hostVars
<1>6. UNCHANGED permits
  BY <1>0 DEF MonitorCancels, TeardownSeen, CancelledEntry, registryVars, managerVars,
      runnerVars, hostVars
<1>7. e2.job = entry[a].job /\ e2.kind = entry[a].kind /\ e2.conn = entry[a].conn
  BY SlotAt DEF EntryType, FilesType, TaskType
<1>8. Reg(a, e2, task[a], monitor[a], pending[a], files[a])
  BY <1>1, <1>2, <1>3, <1>4, <1>5, <1>6, <1>7, SlotAt, SlotKept DEF Reg, SlotsInv
<1> QED BY <1>8 DEF RegMove

\* The monitor takes over a cancelled attempt that nothing runs for.
LEMMA MonitorFinishesMoves ==
    ASSUME ToolInv, NEW a \in Attempts, MonitorFinishes(a)
    PROVE  RegMove(a)
<1> USE DEF ToolInv, NoPanic
<1>0. entry[a].phase = "Cancelling"
  BY SlotAt DEF MonitorFinishes, RegistryOk, NoEntry, Settled
<1> DEFINE m2 == [monitor[a] EXCEPT !.pc = "cleaning"]
<1>1. RegistryOk(entry[a], task[a], m2, pending[a], files[a], worker[a])
  BY <1>0, SlotAt, ToolJobsAssumption DEF MonitorFinishes, Settled,
      NoPending, RegistryOk, Clean, NoEntry, Reviewable, Phases, Terminal, Types,
      EntryType, TaskType, MonitorType, PendingType, FilesType, WorkerType
<1>2. ShownOk(entry[a], m2, job[a], worker[a])
  BY <1>0, SlotAt DEF MonitorFinishes, Settled, ShownOk, ShownEffect,
      Phases, Terminal, Types, EntryType, MonitorType, JobType, WorkerType, RegistryOk
<1>3. m2 \in MonitorType
  BY <1>0, SlotAt, ToolJobsAssumption DEF MonitorType, Phases, Terminal, Reviewable,
      JobType
<1>4. monitor' = [monitor EXCEPT ![a] = m2]
  BY <1>0 DEF MonitorFinishes, Settled, registryVars, managerVars,
      runnerVars, hostVars, SlotsInv, Slots, MonitorType
<1>5. /\ UNCHANGED <<job, worker, child, entry, task, pending, files>>
      /\ UNCHANGED <<scope, gate, change, down>> /\ docs' \subseteq docs /\ panicked' = FALSE
  BY <1>0 DEF MonitorFinishes, Settled, registryVars, managerVars,
      runnerVars, hostVars
<1>6. UNCHANGED permits
  BY <1>0 DEF MonitorFinishes, Settled, registryVars, managerVars,
      runnerVars, hostVars
<1>7. Reg(a, entry[a], task[a], m2, pending[a], files[a])
  BY <1>1, <1>2, <1>3, <1>4, <1>5, <1>6, SlotAt, SlotKept DEF Reg, SlotsInv
<1> QED BY <1>7 DEF RegMove

\* The monitor removes what the attempt holds, or keeps all of it.
LEMMA MonitorCleansMoves ==
    ASSUME ToolInv, NEW a \in Attempts, MonitorCleans(a)
    PROVE  RegMove(a)
<1> USE DEF ToolInv, NoPanic
<1>1. CASE CleansResources(a) /\ monitor' = [monitor EXCEPT ![a].pc = "cleaned"]
  <2> DEFINE e2 == [entry[a] EXCEPT !.held = FALSE]
             m2 == [monitor[a] EXCEPT !.pc = "cleaned"]
             f2 == [files[a] EXCEPT !.private = FALSE]
  <2>1. RegistryOk(e2, task[a], m2, NoPending, f2, worker[a])
    BY <1>1, SlotAt, ToolJobsAssumption DEF MonitorCleans, CleansResources,
        DropsAdmission, NoPending, RegistryOk, Clean, NoEntry, Reviewable, Phases,
        Terminal, Types, EntryType, TaskType, MonitorType, PendingType, FilesType,
        WorkerType
  <2>2. ShownOk(e2, m2, job[a], worker[a])
    BY <1>1, SlotAt DEF MonitorCleans, CleansResources, DropsAdmission, ShownOk,
        ShownEffect, Phases, Terminal, Types, EntryType, MonitorType, JobType,
        WorkerType, RegistryOk
  <2>3. e2 \in EntryType
    BY SlotAt DEF EntryType
  <2>4. entry' = [entry EXCEPT ![a] = e2]
    BY <1>1 DEF MonitorCleans, CleansResources, DropsAdmission, registryVars,
        managerVars, runnerVars, hostVars, SlotsInv, Slots, EntryType
  <2>5. m2 \in MonitorType
    BY <1>1, SlotAt, ToolJobsAssumption DEF MonitorType, Phases, Terminal, Reviewable, JobType
  <2>6. monitor' = [monitor EXCEPT ![a] = m2]
    BY <1>1 DEF MonitorCleans, CleansResources, DropsAdmission, registryVars,
        managerVars, runnerVars, hostVars, SlotsInv, Slots, MonitorType
  <2>7. NoPending \in PendingType
    BY <1>1, SlotAt, ToolJobsAssumption DEF NoPending, PendingType, Phases, Terminal, Reviewable
  <2>8. pending' = [pending EXCEPT ![a] = NoPending]
    BY <1>1 DEF MonitorCleans, CleansResources, DropsAdmission, NoPending,
        registryVars, managerVars, runnerVars, hostVars, SlotsInv, Slots, PendingType
  <2>9. f2 \in FilesType
    BY <1>1, SlotAt, ToolJobsAssumption DEF FilesType, Phases, Terminal, Reviewable
  <2>10. files' = [files EXCEPT ![a] = f2]
    BY <1>1 DEF MonitorCleans, CleansResources, DropsAdmission, registryVars,
        managerVars, runnerVars, hostVars, SlotsInv, Slots, FilesType
  <2>11. /\ UNCHANGED <<job, worker, child, task>>
        /\ UNCHANGED <<scope, gate, change, down>> /\ docs' \subseteq docs /\ panicked' = FALSE
    BY <1>1 DEF MonitorCleans, CleansResources, DropsAdmission, registryVars,
        managerVars, runnerVars, hostVars
  <2>12. /\ ~entry[a].job /\ NoPending.state = "none"
        /\ permits' = IF pending[a].state = "none" THEN permits ELSE permits - 1
    BY <1>1, SlotAt DEF MonitorCleans, CleansResources, DropsAdmission, NoPending, RegistryOk
  <2>13. /\ e2.job = entry[a].job /\ e2.kind = entry[a].kind /\ e2.conn = entry[a].conn
        /\ f2.published = files[a].published
    BY SlotAt DEF EntryType, FilesType, TaskType
  <2>14. Reg(a, e2, task[a], m2, NoPending, f2)
    BY <2>1, <2>2, <2>3, <2>4, <2>5, <2>6, <2>7, <2>8, <2>9, <2>10, <2>11, <2>12, <2>13,
        SlotAt, SlotKept DEF Reg, SlotsInv
  <2> QED BY <2>14 DEF RegMove
<1>2. CASE UNCHANGED <<files, entry, pending, permits>> /\ monitor' = [monitor EXCEPT ![a].pc = "uncleaned"]
  <2> DEFINE m2 == [monitor[a] EXCEPT !.pc = "uncleaned"]
  <2>1. RegistryOk(entry[a], task[a], m2, pending[a], files[a], worker[a])
    BY <1>2, SlotAt, ToolJobsAssumption DEF MonitorCleans, NoPending, RegistryOk,
        Clean, NoEntry, Reviewable, Phases, Terminal, Types, EntryType, TaskType,
        MonitorType, PendingType, FilesType, WorkerType
  <2>2. ShownOk(entry[a], m2, job[a], worker[a])
    BY <1>2, SlotAt DEF MonitorCleans, ShownOk, ShownEffect, Phases, Terminal,
        Types, EntryType, MonitorType, JobType, WorkerType, RegistryOk
  <2>3. m2 \in MonitorType
    BY <1>2, SlotAt, ToolJobsAssumption DEF MonitorType, Phases, Terminal, Reviewable, JobType
  <2>4. monitor' = [monitor EXCEPT ![a] = m2]
    BY <1>2 DEF MonitorCleans, registryVars, managerVars, runnerVars, hostVars,
        SlotsInv, Slots, MonitorType
  <2>5. /\ UNCHANGED <<job, worker, child, entry, task, pending, files>>
        /\ UNCHANGED <<scope, gate, change, down>> /\ docs' \subseteq docs /\ panicked' = FALSE
    BY <1>2 DEF MonitorCleans, registryVars, managerVars, runnerVars, hostVars
  <2>6. UNCHANGED permits
    BY <1>2 DEF MonitorCleans, registryVars, managerVars, runnerVars, hostVars
  <2>7. Reg(a, entry[a], task[a], m2, pending[a], files[a])
    BY <2>1, <2>2, <2>3, <2>4, <2>5, <2>6, SlotAt, SlotKept DEF Reg, SlotsInv
  <2> QED BY <2>7 DEF RegMove
<1> QED BY <1>1, <1>2 DEF MonitorCleans, KeepsResources

\* The monitor shows the end of the attempt.
LEMMA MonitorFinishedMoves ==
    ASSUME ToolInv, NEW a \in Attempts, MonitorFinished(a)
    PROVE  RegMove(a)
<1> USE DEF ToolInv, NoPanic
<1> DEFINE e2 == Finished(entry[a], "Cancelled", monitor[a].pc = "cleaned")
           m2 == [monitor[a] EXCEPT !.pc = "done"]
<1>1. RegistryOk(e2, task[a], m2, pending[a], files[a], worker[a])
  BY SlotAt, ToolJobsAssumption DEF MonitorFinished, Finished, NoPending,
      RegistryOk, Clean, NoEntry, Reviewable, Phases, Terminal, Types, EntryType,
      TaskType, MonitorType, PendingType, FilesType, WorkerType
<1>2. ShownOk(e2, m2, job[a], worker[a])
  BY SlotAt DEF MonitorFinished, Finished, ShownOk, ShownEffect, Phases,
      Terminal, Types, EntryType, MonitorType, JobType, WorkerType, RegistryOk
<1>3. e2 \in EntryType
  BY SlotAt, EntryTypes DEF Phases, Terminal, TaskType, MonitorType
<1>4. entry' = [entry EXCEPT ![a] = e2]
  BY DEF MonitorFinished, Finished, registryVars, managerVars, runnerVars,
      hostVars, SlotsInv, Slots, EntryType
<1>5. m2 \in MonitorType
  BY SlotAt, ToolJobsAssumption DEF MonitorType, Phases, Terminal, Reviewable, JobType
<1>6. monitor' = [monitor EXCEPT ![a] = m2]
  BY DEF MonitorFinished, Finished, registryVars, managerVars, runnerVars,
      hostVars, SlotsInv, Slots, MonitorType
<1>7. /\ UNCHANGED <<job, worker, child, task, pending, files>>
      /\ UNCHANGED <<scope, gate, change, down>> /\ docs' \subseteq docs /\ panicked' = FALSE
  BY DEF MonitorFinished, Finished, registryVars, managerVars, runnerVars, hostVars
<1>8. UNCHANGED permits
  BY DEF MonitorFinished, Finished, registryVars, managerVars, runnerVars, hostVars
<1>9. e2.job = entry[a].job /\ e2.kind = entry[a].kind /\ e2.conn = entry[a].conn
  BY SlotAt DEF Finished, EntryType, FilesType, TaskType
<1>10. Reg(a, e2, task[a], m2, pending[a], files[a])
  BY <1>1, <1>2, <1>3, <1>4, <1>5, <1>6, <1>7, <1>8, <1>9, SlotAt, SlotKept DEF Reg, SlotsInv
<1> QED BY <1>10 DEF RegMove

\* The monitor of an attempt that its task finished ends.
LEMMA MonitorEndsMoves ==
    ASSUME ToolInv, NEW a \in Attempts, MonitorEnds(a)
    PROVE  RegMove(a)
<1> USE DEF ToolInv, NoPanic
<1>0. monitor[a].pc = "loop" /\ ~entry[a].job /\ task[a].pc = "idle"
  BY SlotAt DEF MonitorEnds, RegistryOk, Settled
<1>1. CASE entry[a].phase \in Terminal /\ Settled(a)
  <2> DEFINE m2 == [monitor[a] EXCEPT !.pc = "done"]
  <2>1. RegistryOk(entry[a], task[a], m2, pending[a], files[a], worker[a])
    BY <1>0, <1>1, SlotAt DEF RegistryOk, Clean, NoEntry, Terminal, MonitorType
  <2>2. ShownOk(entry[a], m2, job[a], worker[a])
    BY <1>0, <1>1, SlotAt DEF MonitorEnds, Settled, ShownOk, ShownEffect, Phases,
        Terminal, Types, EntryType, MonitorType, JobType, WorkerType, RegistryOk
  <2>3. m2 \in MonitorType
    BY <1>0, <1>1, SlotAt, ToolJobsAssumption DEF MonitorType, Phases, Terminal, Reviewable,
        JobType
  <2>4. monitor' = [monitor EXCEPT ![a] = m2]
    BY <1>0, <1>1 DEF MonitorEnds, Settled, registryVars, managerVars, runnerVars,
        hostVars, SlotsInv, Slots, MonitorType
  <2>5. /\ UNCHANGED <<job, worker, child, entry, task, pending, files>>
        /\ UNCHANGED <<scope, gate, change, down>> /\ docs' \subseteq docs /\ panicked' = FALSE
    BY <1>0, <1>1 DEF MonitorEnds, Settled, registryVars, managerVars, runnerVars,
        hostVars
  <2>6. UNCHANGED permits
    BY <1>0, <1>1 DEF MonitorEnds, Settled, registryVars, managerVars, runnerVars,
        hostVars
  <2>7. Reg(a, entry[a], task[a], m2, pending[a], files[a])
    BY <2>1, <2>2, <2>3, <2>4, <2>5, <2>6, SlotAt, SlotKept DEF Reg, SlotsInv
  <2> QED BY <2>7 DEF RegMove
<1>2. CASE entry[a].phase = "none"
  <2> DEFINE m2 == [monitor[a] EXCEPT !.pc = "done"]
  <2>1. RegistryOk(entry[a], task[a], m2, pending[a], files[a], worker[a])
    BY <1>0, <1>2, SlotAt DEF RegistryOk, Clean, NoEntry, Terminal, MonitorType
  <2>2. ShownOk(entry[a], m2, job[a], worker[a])
    BY <1>0, <1>2, SlotAt DEF MonitorEnds, Settled, ShownOk, ShownEffect, Phases,
        Terminal, Types, EntryType, MonitorType, JobType, WorkerType, RegistryOk
  <2>3. m2 \in MonitorType
    BY <1>0, <1>2, SlotAt, ToolJobsAssumption DEF MonitorType, Phases, Terminal, Reviewable,
        JobType
  <2>4. monitor' = [monitor EXCEPT ![a] = m2]
    BY <1>0, <1>2 DEF MonitorEnds, Settled, registryVars, managerVars, runnerVars,
        hostVars, SlotsInv, Slots, MonitorType
  <2>5. /\ UNCHANGED <<job, worker, child, entry, task, pending, files>>
        /\ UNCHANGED <<scope, gate, change, down>> /\ docs' \subseteq docs /\ panicked' = FALSE
    BY <1>0, <1>2 DEF MonitorEnds, Settled, registryVars, managerVars, runnerVars,
        hostVars
  <2>6. UNCHANGED permits
    BY <1>0, <1>2 DEF MonitorEnds, Settled, registryVars, managerVars, runnerVars,
        hostVars
  <2>7. Reg(a, entry[a], task[a], m2, pending[a], files[a])
    BY <2>1, <2>2, <2>3, <2>4, <2>5, <2>6, SlotAt, SlotKept DEF Reg, SlotsInv
  <2> QED BY <2>7 DEF RegMove
<1> QED BY <1>1, <1>2, <1>0 DEF MonitorEnds

\* A cleanup that takes long is shown as failed.
LEMMA MonitorOverdueMoves ==
    ASSUME ToolInv, NEW a \in Attempts, MonitorOverdue(a)
    PROVE  RegMove(a)
<1> USE DEF ToolInv, NoPanic
<1> DEFINE e2 == [entry[a] EXCEPT !.cleanup = "Failed"]
<1>1. RegistryOk(e2, task[a], monitor[a], pending[a], files[a], worker[a])
  BY SlotAt, ToolJobsAssumption DEF MonitorOverdue, NoPending, RegistryOk,
      Clean, NoEntry, Reviewable, Phases, Terminal, Types, EntryType, TaskType,
      MonitorType, PendingType, FilesType, WorkerType
<1>2. ShownOk(e2, monitor[a], job[a], worker[a])
  BY SlotAt DEF MonitorOverdue, ShownOk, ShownEffect, Phases, Terminal,
      Types, EntryType, MonitorType, JobType, WorkerType, RegistryOk
<1>3. e2 \in EntryType
  BY SlotAt DEF EntryType
<1>4. entry' = [entry EXCEPT ![a] = e2]
  BY DEF MonitorOverdue, registryVars, managerVars, runnerVars, hostVars,
      SlotsInv, Slots, EntryType
<1>5. /\ UNCHANGED <<job, worker, child, task, monitor, pending, files>>
      /\ UNCHANGED <<scope, gate, change, down>> /\ docs' \subseteq docs /\ panicked' = FALSE
  BY DEF MonitorOverdue, registryVars, managerVars, runnerVars, hostVars
<1>6. UNCHANGED permits
  BY DEF MonitorOverdue, registryVars, managerVars, runnerVars, hostVars
<1>7. e2.job = entry[a].job /\ e2.kind = entry[a].kind /\ e2.conn = entry[a].conn
  BY SlotAt DEF EntryType, FilesType, TaskType
<1>8. Reg(a, e2, task[a], monitor[a], pending[a], files[a])
  BY <1>1, <1>2, <1>3, <1>4, <1>5, <1>6, <1>7, SlotAt, SlotKept DEF Reg, SlotsInv
<1> QED BY <1>8 DEF RegMove

\* The monitor reads a snapshot of the job.
LEMMA MonitorObservesMoves ==
    ASSUME ToolInv, NEW a \in Attempts, MonitorObserves(a)
    PROVE  RegMove(a)
<1> USE DEF ToolInv, NoPanic
<1>0. job[a].phase \in Phases
  BY SlotAt DEF MonitorObserves, JobOk, ClaimOk, ChildOk, ReaperOk, ResultOk,
      WorkPhases, LateCommit, Kept, NoJob, NoWorker, NoChild, Terminal, Phases,
      OutcomeCancelled, JobType, WorkerType, ChildType, FilesType, EntryType, Types
<1>p. PICK pc \in {"retire", "publish"}, retired \in BOOLEAN :
          /\ monitor' = [monitor EXCEPT ![a] =
                [pc |-> pc, seen |-> job[a].phase, dispatched |-> job[a].dispatched]]
          /\ entry' = [entry EXCEPT ![a].retired = retired]
  BY <1>0, SlotAt DEF MonitorObserves, Terminal
<1> DEFINE e2 == [entry[a] EXCEPT !.retired = retired]
           m2 == [pc |-> pc, seen |-> job[a].phase, dispatched |-> job[a].dispatched]
<1>1. RegistryOk(e2, task[a], m2, pending[a], files[a], worker[a])
  BY <1>0, <1>p, SlotAt, ToolJobsAssumption DEF MonitorObserves, NoPending,
      RegistryOk, Clean, NoEntry, Reviewable, Phases, Terminal, Types, EntryType,
      TaskType, MonitorType, PendingType, FilesType, WorkerType
<1>2. ShownOk(e2, m2, job[a], worker[a])
  BY <1>0, <1>p, SlotAt DEF MonitorObserves, ShownOk, ShownEffect, Phases,
      Terminal, Types, EntryType, MonitorType, JobType, WorkerType, RegistryOk
<1>3. e2 \in EntryType
  BY SlotAt DEF EntryType
<1>4. entry' = [entry EXCEPT ![a] = e2]
  BY <1>0, <1>p DEF MonitorObserves, registryVars, managerVars, runnerVars,
      hostVars, SlotsInv, Slots, EntryType
<1>5. m2 \in MonitorType
  BY <1>0, <1>p, SlotAt, ToolJobsAssumption DEF MonitorType, Phases, Terminal,
      Reviewable, JobType
<1>6. monitor' = [monitor EXCEPT ![a] = m2]
  BY <1>0, <1>p DEF MonitorObserves, registryVars, managerVars, runnerVars,
      hostVars, SlotsInv, Slots, MonitorType
<1>7. /\ UNCHANGED <<job, worker, child, task, pending, files>>
      /\ UNCHANGED <<scope, gate, change, down>> /\ docs' \subseteq docs /\ panicked' = FALSE
  BY <1>0, <1>p DEF MonitorObserves, registryVars, managerVars, runnerVars,
      hostVars
<1>8. UNCHANGED permits
  BY <1>0, <1>p DEF MonitorObserves, registryVars, managerVars, runnerVars,
      hostVars
<1>9. e2.job = entry[a].job /\ e2.kind = entry[a].kind /\ e2.conn = entry[a].conn
  BY SlotAt DEF EntryType, FilesType, TaskType
<1>10. Reg(a, e2, task[a], m2, pending[a], files[a])
  BY <1>1, <1>2, <1>3, <1>4, <1>5, <1>6, <1>7, <1>8, <1>9, SlotAt, SlotKept DEF Reg, SlotsInv
<1> QED BY <1>10 DEF RegMove

\* The data of the connection is retired, or the cleanup has failed.
LEMMA MonitorRetiresMoves ==
    ASSUME ToolInv, NEW a \in Attempts, MonitorRetires(a)
    PROVE  RegMove(a)
<1> USE DEF ToolInv, NoPanic
<1>1. CASE docs' = docs \ {entry[a].conn} /\ entry' = [entry EXCEPT ![a].retired = TRUE]
  <2> DEFINE e2 == [entry[a] EXCEPT !.retired = TRUE]
             m2 == [monitor[a] EXCEPT !.pc = "publish"]
  <2>1. RegistryOk(e2, task[a], m2, pending[a], files[a], worker[a])
    BY <1>1, SlotAt, ToolJobsAssumption DEF MonitorRetires, NoPending, RegistryOk,
        Clean, NoEntry, Reviewable, Phases, Terminal, Types, EntryType, TaskType,
        MonitorType, PendingType, FilesType, WorkerType
  <2>2. ShownOk(e2, m2, job[a], worker[a])
    BY <1>1, SlotAt DEF MonitorRetires, ShownOk, ShownEffect, Phases, Terminal,
        Types, EntryType, MonitorType, JobType, WorkerType, RegistryOk
  <2>3. e2 \in EntryType
    BY SlotAt DEF EntryType
  <2>4. entry' = [entry EXCEPT ![a] = e2]
    BY <1>1 DEF MonitorRetires, registryVars, managerVars, runnerVars, hostVars,
        SlotsInv, Slots, EntryType
  <2>5. m2 \in MonitorType
    BY <1>1, SlotAt, ToolJobsAssumption DEF MonitorType, Phases, Terminal, Reviewable, JobType
  <2>6. monitor' = [monitor EXCEPT ![a] = m2]
    BY <1>1 DEF MonitorRetires, registryVars, managerVars, runnerVars, hostVars,
        SlotsInv, Slots, MonitorType
  <2>7. /\ UNCHANGED <<job, worker, child, task, pending, files>>
        /\ UNCHANGED <<scope, gate, change, down>> /\ docs' \subseteq docs /\ panicked' = FALSE
    BY <1>1 DEF MonitorRetires, registryVars, managerVars, runnerVars, hostVars
  <2>8. UNCHANGED permits
    BY <1>1 DEF MonitorRetires, registryVars, managerVars, runnerVars, hostVars
  <2>9. e2.job = entry[a].job /\ e2.kind = entry[a].kind /\ e2.conn = entry[a].conn
    BY SlotAt DEF EntryType, FilesType, TaskType
  <2>10. Reg(a, e2, task[a], m2, pending[a], files[a])
    BY <2>1, <2>2, <2>3, <2>4, <2>5, <2>6, <2>7, <2>8, <2>9, SlotAt, SlotKept DEF Reg, SlotsInv
  <2> QED BY <2>10 DEF RegMove
<1>2. CASE UNCHANGED docs /\ entry' = [entry EXCEPT ![a].cleanup = "Failed"]
  <2> DEFINE e2 == [entry[a] EXCEPT !.cleanup = "Failed"]
             m2 == [monitor[a] EXCEPT !.pc = "publish"]
  <2>1. RegistryOk(e2, task[a], m2, pending[a], files[a], worker[a])
    BY <1>2, SlotAt, ToolJobsAssumption DEF MonitorRetires, NoPending, RegistryOk,
        Clean, NoEntry, Reviewable, Phases, Terminal, Types, EntryType, TaskType,
        MonitorType, PendingType, FilesType, WorkerType
  <2>2. ShownOk(e2, m2, job[a], worker[a])
    BY <1>2, SlotAt DEF MonitorRetires, ShownOk, ShownEffect, Phases, Terminal,
        Types, EntryType, MonitorType, JobType, WorkerType, RegistryOk
  <2>3. e2 \in EntryType
    BY SlotAt DEF EntryType
  <2>4. entry' = [entry EXCEPT ![a] = e2]
    BY <1>2 DEF MonitorRetires, registryVars, managerVars, runnerVars, hostVars,
        SlotsInv, Slots, EntryType
  <2>5. m2 \in MonitorType
    BY <1>2, SlotAt, ToolJobsAssumption DEF MonitorType, Phases, Terminal, Reviewable, JobType
  <2>6. monitor' = [monitor EXCEPT ![a] = m2]
    BY <1>2 DEF MonitorRetires, registryVars, managerVars, runnerVars, hostVars,
        SlotsInv, Slots, MonitorType
  <2>7. /\ UNCHANGED <<job, worker, child, task, pending, files>>
        /\ UNCHANGED <<scope, gate, change, down>> /\ docs' \subseteq docs /\ panicked' = FALSE
    BY <1>2 DEF MonitorRetires, registryVars, managerVars, runnerVars, hostVars
  <2>8. UNCHANGED permits
    BY <1>2 DEF MonitorRetires, registryVars, managerVars, runnerVars, hostVars
  <2>9. e2.job = entry[a].job /\ e2.kind = entry[a].kind /\ e2.conn = entry[a].conn
    BY SlotAt DEF EntryType, FilesType, TaskType
  <2>10. Reg(a, e2, task[a], m2, pending[a], files[a])
    BY <2>1, <2>2, <2>3, <2>4, <2>5, <2>6, <2>7, <2>8, <2>9, SlotAt, SlotKept DEF Reg, SlotsInv
  <2> QED BY <2>10 DEF RegMove
<1> QED BY <1>1, <1>2 DEF MonitorRetires

\* What the monitor saw is shown; behind the joined end of the job the archive
\* is next.
LEMMA MonitorPublishesMoves ==
    ASSUME ToolInv, NEW a \in Attempts, MonitorPublishes(a)
    PROVE  RegMove(a)
<1> USE DEF ToolInv, NoPanic
<1>0. entry[a].job /\ monitor[a].seen \in Phases /\ entry[a].cleanup # "Complete"
  BY SlotAt DEF MonitorPublishes, RegistryOk, ShownOk
<1>p. PICK pc \in {"loop", "archive"} :
          /\ monitor' = [monitor EXCEPT ![a] = [pc |-> pc, seen |-> "none", dispatched |-> FALSE]]
          /\ pc = "archive" => monitor[a].seen \in Terminal /\ Joined(a)
  BY <1>0, SlotAt DEF MonitorPublishes, Terminal
<1> DEFINE e2 == [entry[a] EXCEPT !.phase = monitor[a].seen,
                      !.effect = ShownEffect(monitor[a].seen, monitor[a].dispatched)]
           m2 == [pc |-> pc, seen |-> "none", dispatched |-> FALSE]
<1>1. RegistryOk(e2, task[a], m2, pending[a], files[a], worker[a])
  BY <1>0, <1>p, SlotAt, ToolJobsAssumption DEF MonitorPublishes, Joined,
      Settled, NoPending, RegistryOk, Clean, NoEntry, Reviewable, Phases, Terminal,
      Types, EntryType, TaskType, MonitorType, PendingType, FilesType, WorkerType
<1>2. ShownOk(e2, m2, job[a], worker[a])
  BY <1>0, <1>p, SlotAt DEF MonitorPublishes, Joined, Settled, ShownOk,
      ShownEffect, Phases, Terminal, Types, EntryType, MonitorType, JobType,
      WorkerType, RegistryOk
<1>3. e2 \in EntryType
  BY <1>0, <1>p, SlotAt, EntryTypes DEF Phases, Terminal, TaskType, MonitorType
<1>4. entry' = [entry EXCEPT ![a] = e2]
  BY <1>0, <1>p DEF MonitorPublishes, Joined, Settled, registryVars,
      managerVars, runnerVars, hostVars, SlotsInv, Slots, EntryType
<1>5. m2 \in MonitorType
  BY <1>0, <1>p, SlotAt, ToolJobsAssumption DEF MonitorType, Phases, Terminal,
      Reviewable, JobType
<1>6. monitor' = [monitor EXCEPT ![a] = m2]
  BY <1>0, <1>p DEF MonitorPublishes, Joined, Settled, registryVars,
      managerVars, runnerVars, hostVars, SlotsInv, Slots, MonitorType
<1>7. /\ UNCHANGED <<job, worker, child, task, pending, files>>
      /\ UNCHANGED <<scope, gate, change, down>> /\ docs' \subseteq docs /\ panicked' = FALSE
  BY <1>0, <1>p DEF MonitorPublishes, Joined, Settled, registryVars,
      managerVars, runnerVars, hostVars
<1>8. UNCHANGED permits
  BY <1>0, <1>p DEF MonitorPublishes, Joined, Settled, registryVars,
      managerVars, runnerVars, hostVars
<1>9. e2.job = entry[a].job /\ e2.kind = entry[a].kind /\ e2.conn = entry[a].conn
  BY SlotAt DEF EntryType, FilesType, TaskType
<1>10. Reg(a, e2, task[a], m2, pending[a], files[a])
  BY <1>1, <1>2, <1>3, <1>4, <1>5, <1>6, <1>7, <1>8, <1>9, SlotAt, SlotKept DEF Reg, SlotsInv
<1> QED BY <1>10 DEF RegMove

\* The private archive is removed, or the cleanup has failed.
LEMMA MonitorArchivesMoves ==
    ASSUME ToolInv, NEW a \in Attempts, MonitorArchives(a)
    PROVE  RegMove(a)
<1> USE DEF ToolInv, NoPanic
<1>1. CASE files' = [files EXCEPT ![a].private = FALSE] /\ entry' = [entry EXCEPT ![a].cleanup = "Complete"]
  <2> DEFINE e2 == [entry[a] EXCEPT !.cleanup = "Complete"]
             m2 == [monitor[a] EXCEPT !.pc = "done"]
             f2 == [files[a] EXCEPT !.private = FALSE]
  <2>1. RegistryOk(e2, task[a], m2, pending[a], f2, worker[a])
    BY <1>1, SlotAt, ToolJobsAssumption DEF MonitorArchives, ShownOk, NoPending,
        RegistryOk, Clean, NoEntry, Reviewable, Phases, Terminal, Types, EntryType,
        TaskType, MonitorType, PendingType, FilesType, WorkerType
  <2>2. ShownOk(e2, m2, job[a], worker[a])
    BY <1>1, SlotAt DEF MonitorArchives, ShownOk, ShownEffect, Phases, Terminal,
        Types, EntryType, MonitorType, JobType, WorkerType, RegistryOk
  <2>3. e2 \in EntryType
    BY SlotAt DEF EntryType
  <2>4. entry' = [entry EXCEPT ![a] = e2]
    BY <1>1 DEF MonitorArchives, ShownOk, registryVars, managerVars, runnerVars,
        hostVars, SlotsInv, Slots, EntryType
  <2>5. m2 \in MonitorType
    BY <1>1, SlotAt, ToolJobsAssumption DEF MonitorType, Phases, Terminal, Reviewable, JobType
  <2>6. monitor' = [monitor EXCEPT ![a] = m2]
    BY <1>1 DEF MonitorArchives, ShownOk, registryVars, managerVars, runnerVars,
        hostVars, SlotsInv, Slots, MonitorType
  <2>7. f2 \in FilesType
    BY <1>1, SlotAt, ToolJobsAssumption DEF FilesType, Phases, Terminal, Reviewable
  <2>8. files' = [files EXCEPT ![a] = f2]
    BY <1>1 DEF MonitorArchives, ShownOk, registryVars, managerVars, runnerVars,
        hostVars, SlotsInv, Slots, FilesType
  <2>9. /\ UNCHANGED <<job, worker, child, task, pending>>
        /\ UNCHANGED <<scope, gate, change, down>> /\ docs' \subseteq docs /\ panicked' = FALSE
    BY <1>1 DEF MonitorArchives, ShownOk, registryVars, managerVars, runnerVars, hostVars
  <2>10. UNCHANGED permits
    BY <1>1 DEF MonitorArchives, ShownOk, registryVars, managerVars, runnerVars, hostVars
  <2>11. /\ e2.job = entry[a].job /\ e2.kind = entry[a].kind /\ e2.conn = entry[a].conn
        /\ f2.published = files[a].published
    BY SlotAt DEF EntryType, FilesType, TaskType
  <2>12. Reg(a, e2, task[a], m2, pending[a], f2)
    BY <2>1, <2>2, <2>3, <2>4, <2>5, <2>6, <2>7, <2>8, <2>9, <2>10, <2>11, SlotAt, SlotKept
        DEF Reg, SlotsInv
  <2> QED BY <2>12 DEF RegMove
<1>2. CASE UNCHANGED files /\ entry' = [entry EXCEPT ![a].cleanup = "Failed"]
  <2> DEFINE e2 == [entry[a] EXCEPT !.cleanup = "Failed"]
             m2 == [monitor[a] EXCEPT !.pc = "done"]
  <2>1. RegistryOk(e2, task[a], m2, pending[a], files[a], worker[a])
    BY <1>2, SlotAt, ToolJobsAssumption DEF MonitorArchives, ShownOk, NoPending,
        RegistryOk, Clean, NoEntry, Reviewable, Phases, Terminal, Types, EntryType,
        TaskType, MonitorType, PendingType, FilesType, WorkerType
  <2>2. ShownOk(e2, m2, job[a], worker[a])
    BY <1>2, SlotAt DEF MonitorArchives, ShownOk, ShownEffect, Phases, Terminal,
        Types, EntryType, MonitorType, JobType, WorkerType, RegistryOk
  <2>3. e2 \in EntryType
    BY SlotAt DEF EntryType
  <2>4. entry' = [entry EXCEPT ![a] = e2]
    BY <1>2 DEF MonitorArchives, ShownOk, registryVars, managerVars, runnerVars,
        hostVars, SlotsInv, Slots, EntryType
  <2>5. m2 \in MonitorType
    BY <1>2, SlotAt, ToolJobsAssumption DEF MonitorType, Phases, Terminal, Reviewable, JobType
  <2>6. monitor' = [monitor EXCEPT ![a] = m2]
    BY <1>2 DEF MonitorArchives, ShownOk, registryVars, managerVars, runnerVars,
        hostVars, SlotsInv, Slots, MonitorType
  <2>7. /\ UNCHANGED <<job, worker, child, task, pending, files>>
        /\ UNCHANGED <<scope, gate, change, down>> /\ docs' \subseteq docs /\ panicked' = FALSE
    BY <1>2 DEF MonitorArchives, ShownOk, registryVars, managerVars, runnerVars, hostVars
  <2>8. UNCHANGED permits
    BY <1>2 DEF MonitorArchives, ShownOk, registryVars, managerVars, runnerVars, hostVars
  <2>9. e2.job = entry[a].job /\ e2.kind = entry[a].kind /\ e2.conn = entry[a].conn
    BY SlotAt DEF EntryType, FilesType, TaskType
  <2>10. Reg(a, e2, task[a], m2, pending[a], files[a])
    BY <2>1, <2>2, <2>3, <2>4, <2>5, <2>6, <2>7, <2>8, <2>9, SlotAt, SlotKept DEF Reg, SlotsInv
  <2> QED BY <2>10 DEF RegMove
<1> QED BY <1>1, <1>2 DEF MonitorArchives

----------------------------------------------------------------------------
(* Cancellation, release and admission.                                    *)

\* A cancellation changes the job's claim, phase and signal only.
LEMMA CancelEntryKeeps ==
    ASSUME NEW j \in JobType
    PROVE  /\ CancelEntry(j) \in JobType
           /\ CancelEntry(j).active = j.active /\ CancelEntry(j).permit = j.permit
           /\ CancelEntry(j).reaper = j.reaper
<1>1. CancelEntry(j).outcome \in {"Open", "Cancelled", "Publishing", "Irreversible", "CancelledFinal"}
  BY DEF CancelEntry, JobType
<1>2. CancelEntry(j).phase \in {"none"} \cup Phases
  BY DEF CancelEntry, JobType, Phases
<1> QED BY <1>1, <1>2 DEF CancelEntry, JobType

\* A job that can still be cancelled has nothing shown of its end.
LEMMA CancelEntryGood ==
    ASSUME NEW e, NEW t, NEW m, NEW p, NEW j, NEW w, NEW c, NEW f,
           Good(e, t, m, p, j, w, c, f)
    PROVE  Good(e, t, m, p, CancelEntry(j), w, c, f)
<1>1. CASE CancelEntry(j) = j
  BY <1>1
<1>2. CASE CancelEntry(j) # j
  <2> DEFINE k == [j EXCEPT !.outcome = "Cancelled", !.phase = "Cancelling", !.signal = TRUE]
  <2>1. /\ CancelEntry(j) = k
        /\ j.active /\ j.phase \notin Terminal \cup {"Cancelling"} /\ j.outcome = "Open"
    BY <1>2 DEF CancelEntry
  <2>2. k \in JobType
    BY DEF Good, Types, JobType, Phases
  <2>3. JobOk(e, k, w, c, f)
    BY <2>1 DEF Good, JobOk, ClaimOk, ChildOk, ReaperOk, ResultOk, WorkPhases,
        LateCommit, Kept, NoJob, NoWorker, NoChild, Terminal, Phases, OutcomeCancelled,
        JobType, WorkerType, ChildType, FilesType, EntryType, Types
  <2>4. e.phase \in Terminal => ~e.job
    BY <2>1 DEF Good, ShownOk
  <2>5. ShownOk(e, m, k, w)
    BY <2>1, <2>4 DEF Good, ShownOk, ShownEffect, Phases, Terminal, Types,
        EntryType, MonitorType, JobType, WorkerType
  <2> QED BY <2>1, <2>2, <2>3, <2>5 DEF Good, Types
<1> QED BY <1>1, <1>2

\* The entry is told only while it shows no end, and with its job.
LEMMA CancelledGood ==
    ASSUME NEW e, NEW t, NEW m, NEW p, NEW j, NEW w, NEW c, NEW f,
           Good(e, t, m, p, j, w, c, f)
    PROVE  Good(CancelledEntry(e, j), t, m, p, CancelledJob(e, j), w, c, f)
<1>1. Good(e, t, m, p, CancelledJob(e, j), w, c, f)
  BY CancelEntryGood DEF CancelledJob
<1>2. CASE CancelledEntry(e, j) = e
  BY <1>1, <1>2
<1>3. CASE CancelledEntry(e, j) # e
  <2> DEFINE d == [e EXCEPT !.cancel = TRUE, !.phase = "Cancelling"]
             k == CancelledJob(e, j)
  <2>1. CancelledEntry(e, j) = d /\ e.phase \notin Terminal \cup {"none"}
    BY <1>3 DEF CancelledEntry
  <2>2. d \in EntryType /\ d.job = e.job /\ d.kind = e.kind /\ d.conn = e.conn
        /\ d.held = e.held /\ d.cleanup = e.cleanup /\ d.phase = "Cancelling"
    BY EntryTypes DEF Good, Types, EntryType, Phases
  <2> HIDE DEF d, k
  <2>3. JobOk(d, k, w, c, f)
    BY <1>1, <2>2 DEF k, Good, JobOk, ClaimOk, ChildOk, ResultOk
  <2>4. RegistryOk(d, t, m, p, f, w)
    BY <1>1, <2>1, <2>2 DEF Good, RegistryOk, Clean, Terminal, Phases
  <2>5. ShownOk(d, m, k, w)
    BY <1>1, <2>1, <2>2 DEF k, Good, ShownOk, Terminal
  <2>6. Good(d, t, m, p, k, w, c, f)
    BY <1>1, <2>2, <2>3, <2>4, <2>5 DEF k, Good, Types
  <2> QED BY <2>1, <2>6 DEF k
<1> QED BY <1>2, <1>3

\* What admission, the gate and the permits see is not touched.
LEMMA CancelledKeeps ==
    ASSUME NEW e \in EntryType, NEW j \in JobType
    PROVE  /\ CancelledEntry(e, j).conn = e.conn /\ CancelledEntry(e, j).kind = e.kind
           /\ CancelledJob(e, j).active = j.active /\ CancelledJob(e, j).permit = j.permit
           /\ CancelledJob(e, j).reaper = j.reaper
  BY CancelEntryKeeps DEF CancelledEntry, CancelledJob, EntryType

\* The user cancels one attempt.
LEMMA CancelMoves ==
    ASSUME ToolInv, NEW a \in Attempts, Cancel(a)
    PROVE  PlainMove(a)
<1> USE DEF ToolInv, NoPanic
<1> DEFINE e == CancelledEntry(entry[a], job[a])
           j == CancelledJob(entry[a], job[a])
<1>1. /\ Good(e, task[a], monitor[a], pending[a], j, worker[a], child[a], files[a])
      /\ e.conn = entry[a].conn /\ e.kind = entry[a].kind
      /\ j.active = job[a].active /\ j.permit = job[a].permit /\ j.reaper = job[a].reaper
  <2>1. Good(entry[a], task[a], monitor[a], pending[a], job[a], worker[a], child[a], files[a])
    BY DEF SlotsInv, GoodAt
  <2> HIDE DEF ToolInv, NoPanic, e, j
  <2>2. Good(e, task[a], monitor[a], pending[a], j, worker[a], child[a], files[a])
    BY <2>1, CancelledGood DEF e, j
  <2>3. e.conn = entry[a].conn /\ e.kind = entry[a].kind
    BY SlotAt, CancelledKeeps DEF e, ToolInv
  <2>4. j.active = job[a].active /\ j.permit = job[a].permit /\ j.reaper = job[a].reaper
    BY SlotAt, CancelledKeeps DEF j, ToolInv
  <2> QED BY <2>2, <2>3, <2>4
<1>2. entry' = [entry EXCEPT ![a] = e] /\ job' = [job EXCEPT ![a] = j]
  BY DEF Cancel
<1>3. /\ UNCHANGED <<task, monitor, pending, worker, child, files, permits>>
      /\ UNCHANGED <<scope, gate, change, docs, down, panicked>>
  BY DEF Cancel, registryVars, managerVars, runnerVars, hostVars
<1> HIDE DEF e, j
<1>4. Put(a, e, task[a], monitor[a], pending[a], j, worker[a], child[a], files[a])
  BY <1>2, <1>3, SlotKept DEF Put, SlotsInv
<1>5. Plain(a, e, task[a], monitor[a], pending[a], j, worker[a], child[a], files[a])
  BY <1>1, <1>3, <1>4 DEF Plain, Balance, Owns
<1> QED BY <1>5 DEF PlainMove

\* An attempt is released behind a complete cleanup, which leaves nothing that
\* an empty slot would not show.
LEMMA ReleaseMoves ==
    ASSUME ToolInv, NEW a \in Attempts, Release(a)
    PROVE  PlainMove(a)
<1> USE DEF ToolInv, NoPanic
<1>1. /\ task[a].pc = "idle" /\ ~job[a].active /\ pending[a].state = "none"
      /\ monitor[a].pc \in {"loop", "done"}
      /\ ~job[a].permit /\ job[a].reaper # "running"
  <2>1. entry[a].phase \in Terminal /\ entry[a].cleanup = "Complete" /\ task[a].pc = "idle" /\ ~job[a].active
    BY DEF Release, Settled
  <2>2. pending[a].state = "none" /\ monitor[a].pc \in {"loop", "done"}
    BY <2>1, SlotAt DEF RegistryOk, Clean
  <2>3. ~job[a].permit /\ job[a].reaper # "running"
    BY <2>1, SlotAt DEF RegistryOk, JobOk, ReaperOk, NoJob
  <2> QED BY <2>1, <2>2, <2>3
<1>2. NoEntry \in EntryType /\ NoJob \in JobType /\ NoWorker \in WorkerType
      /\ NoChild \in ChildType /\ NoFiles \in FilesType
  BY DEF NoEntry, NoJob, NoWorker, NoChild, NoFiles, Scopes, EntryType, JobType, WorkerType,
      ChildType, FilesType
<1>3. Good(NoEntry, task[a], monitor[a], pending[a], NoJob, NoWorker, NoChild, NoFiles)
  <2>1. JobOk(NoEntry, NoJob, NoWorker, NoChild, NoFiles)
    BY DEF JobOk, NoEntry, NoFiles
  <2>2. RegistryOk(NoEntry, task[a], monitor[a], pending[a], NoFiles, NoWorker)
    BY <1>1 DEF RegistryOk, NoEntry, NoFiles, Terminal
  <2>3. ShownOk(NoEntry, monitor[a], NoJob, NoWorker)
    BY <1>1 DEF ShownOk, NoEntry
  <2> QED BY <1>2, <2>1, <2>2, <2>3, SlotAt DEF Good, Types
<1>4. Put(a, NoEntry, task[a], monitor[a], pending[a], NoJob, NoWorker, NoChild, NoFiles)
  BY SlotKept DEF Release, Put, registryVars, managerVars, runnerVars, hostVars, SlotsInv
<1>5. /\ UNCHANGED permits /\ UNCHANGED <<scope, gate, change, docs, down, panicked>>
  BY DEF Release, registryVars, managerVars, runnerVars, hostVars
<1>6. Plain(a, NoEntry, task[a], monitor[a], pending[a], NoJob, NoWorker, NoChild, NoFiles)
  BY <1>1, <1>3, <1>4, <1>5 DEF Plain, Balance, Owns, NoJob
<1> QED BY <1>6 DEF PlainMove

\* An attempt that begins finds its slot empty and no fence over its connection.
LEMMA BeginKeeps ==
    ASSUME ToolInv, NEW a \in Attempts, NEW c \in Conns, NEW k \in Kinds, Begin(a, c, k)
    PROVE  ToolInv'
<1> USE DEF ToolInv
<1> DEFINE e == [NoEntry EXCEPT !.phase = "Preparing", !.conn = c, !.kind = k, !.held = TRUE]
           t == [task[a] EXCEPT !.pc = "prepare"]
           m == [monitor[a] EXCEPT !.pc = "loop"]
           p == [state |-> "open", generation |-> scope[c].generation,
                 global |-> scope[Global].generation]
<1>1. /\ entry[a] = NoEntry /\ job[a] = NoJob /\ worker[a] = NoWorker /\ child[a] = NoChild
      /\ ~files[a].published /\ ~files[a].private /\ pending[a].state = "none"
  <2>1. entry[a].phase = "none"
    BY DEF Begin
  <2>2. entry[a] = NoEntry /\ ~files[a].private
    BY <2>1, SlotAt DEF RegistryOk
  <2> QED BY <2>2, SlotAt DEF RegistryOk, JobOk, NoEntry
<1>2. scope[c].closing = 0 /\ scope[Global].closing = 0 /\ permits < MaxPermits
  BY DEF Begin, Admits, Fenced, HostTypes, Scopes
<1>3. e \in EntryType /\ p \in PendingType
  BY DEF NoEntry, EntryType, PendingType, HostTypes, Scopes
<1>4. t \in TaskType /\ m \in MonitorType
  BY SlotAt DEF TaskType, MonitorType
<1>5. /\ e.phase = "Preparing" /\ e.conn = c /\ e.kind = k /\ e.held /\ ~e.job /\ ~e.cancel
      /\ e.cleanup = "Pending" /\ t.pc = "prepare" /\ m.pc = "loop" /\ p.state = "open"
  BY SlotAt DEF NoEntry, TaskType, MonitorType
<1>6. Put(a, e, t, m, p, job[a], worker[a], child[a], files[a])
  BY SlotKept DEF Begin, Put, registryVars, managerVars, runnerVars, hostVars,
      SlotsInv, Slots
<1>7. /\ permits' = permits + 1 /\ change' = [change EXCEPT !.at.waits = @ \ {a}]
      /\ UNCHANGED <<scope, gate, docs, down, panicked>>
  BY DEF Begin, registryVars, managerVars, runnerVars, hostVars
<1> HIDE DEF e, t, m, p
<1>8. Good(e, t, m, p, job[a], worker[a], child[a], files[a])
  <2>1. JobOk(e, job[a], worker[a], child[a], files[a])
    BY <1>1, <1>5 DEF JobOk
  <2>2. RegistryOk(e, t, m, p, files[a], worker[a])
    BY <1>1, <1>5 DEF RegistryOk, Terminal
  <2>3. ShownOk(e, m, job[a], worker[a])
    BY <1>5 DEF ShownOk
  <2> QED BY <1>3, <1>4, <2>1, <2>2, <2>3, SlotAt DEF Good, Types
<1>9. /\ SlotsInv'
      /\ entry'[a] = e /\ task'[a] = t /\ pending'[a] = p /\ job'[a] = job[a]
      /\ \A b \in Attempts \ {a} :
            /\ entry'[b] = entry[b] /\ task'[b] = task[b]
            /\ pending'[b] = pending[b] /\ job'[b] = job[b]
  BY <1>6, <1>8, PutKeepsSlots
<1>10. /\ change'.n = change.n /\ change'.at.pc = change.at.pc
       /\ change'.at.scope = change.at.scope /\ change'.at.waited = change.at.waited
       /\ change'.at.waits = change.at.waits \ {a}
       /\ change' \in [n : 0..MaxChanges,
                       at : [pc : {"idle", "checked", "waiting", "work"},
                             scope : Scopes, waits : SUBSET Attempts, waited : BOOLEAN]]
  BY <1>7 DEF HostTypes
<1>11. HostTypes' /\ NoPanic'
  BY <1>7, <1>10 DEF HostTypes, NoPanic
<1>12. PermitInv'
  <2>1. a \notin Owners
    BY <1>1 DEF Owners, Owns, NoJob
  <2>2. Owners' = Owners \cup {a}
    BY <1>5, <1>9 DEF Owners, Owns
  <2> QED BY <1>2, <1>7, <2>1, <2>2, PermitTaken
<1>13. GateInv'
  BY <1>1, <1>5, <1>7, <1>9, <1>10 DEF GateInv, NoJob
<1>14. change.at.pc \in {"waiting", "work"} => a \notin InUse(change.at.scope)'
  <2> SUFFICES ASSUME change.at.pc \in {"waiting", "work"}, a \in InUse(change.at.scope)'
               PROVE  FALSE
    OBVIOUS
  <2>1. change.at.scope \in {c, Global}
    BY <1>5, <1>9, <1>10 DEF InUse, InScope
  <2>2. change.at.scope \in Scopes BY DEF HostTypes
  <2>3. scope[change.at.scope].closing >= 1
    BY <2>2 DEF FenceInv, Closing
  <2> QED BY <1>2, <2>1, <2>3
<1>15. \A s : InUse(s)' \subseteq InUse(s) \cup {a}
  BY <1>9 DEF InUse, InScope, Live, Held
<1>16. FenceInv'
  BY <1>7, <1>10, <1>14, <1>15 DEF FenceInv, Closing
<1> QED BY <1>9, <1>11, <1>12, <1>13, <1>16

----------------------------------------------------------------------------
(* Dispatch, which takes the gate, retires the data documents of a restore  *)
(* and hands the admission over to the job.                                 *)

\* A task that fails, at whatever point, goes to its cleanup.
LEMMA FailsGood ==
    ASSUME SlotsInv, NEW a \in Attempts, task[a].pc \notin {"idle", "cleaned", "uncleaned"},
           NEW error \in {"Failed", "Cancelled", "Cleanup"}
    PROVE  Good(entry[a], [pc |-> "cleaning", error |-> error], monitor[a], pending[a], job[a],
                worker[a], child[a], files[a])
<1>1. [pc |-> "cleaning", error |-> error] \in TaskType
  BY DEF TaskType
<1>2. RegistryOk(entry[a], [pc |-> "cleaning", error |-> error], monitor[a], pending[a],
                 files[a], worker[a])
  BY SlotAt DEF RegistryOk, Clean, Terminal
<1> QED BY <1>1, <1>2, SlotAt DEF Good, Types

\* Whoever holds the gate for a dispatch holds it alone.
LEMMA GateAlone ==
    ASSUME GateInv, NEW a \in Attempts, task[a].pc \in {"retire", "start"}
    PROVE  /\ gate = a /\ change.at.pc = "idle"
           /\ \A b \in Attempts \ {a} : task[b].pc \notin {"retire", "start"}
  BY ToolJobsAssumption DEF GateInv

\* A free gate is held by no dispatch and no change.
LEMMA GateFree ==
    ASSUME GateInv, gate = Nobody
    PROVE  /\ change.at.pc = "idle"
           /\ \A b \in Attempts : task[b].pc \notin {"retire", "start"}
  BY ToolJobsAssumption DEF GateInv

\* The task alone takes a step: no permit moves and no fence is met.
LEMMA TaskStepKeeps ==
    ASSUME ToolInv, NEW a \in Attempts, NEW t,
           Good(entry[a], t, monitor[a], pending[a], job[a], worker[a], child[a], files[a]),
           task' = [task EXCEPT ![a] = t],
           UNCHANGED <<entry, monitor, pending, job, worker, child, files, permits>>,
           UNCHANGED <<scope, change, down, panicked>>, docs' \subseteq docs,
           gate' \in Attempts \cup {Nobody, Global}
    PROVE  /\ SlotsInv' /\ HostTypes' /\ NoPanic' /\ PermitInv' /\ FenceInv'
           /\ task'[a] = t /\ \A b \in Attempts \ {a} : task'[b] = task[b]
<1> USE DEF ToolInv
<1>1. Put(a, entry[a], t, monitor[a], pending[a], job[a], worker[a], child[a], files[a])
  BY SlotKept DEF Put, SlotsInv
<1>2. /\ SlotsInv'
      /\ task'[a] = t /\ \A b \in Attempts \ {a} : task'[b] = task[b]
  BY <1>1, PutKeepsSlots
<1>3. HostTypes' /\ NoPanic'
  BY DEF HostTypes, NoPanic
<1>4. PermitInv'
  BY PermitKept DEF Owners
<1>5. FenceInv'
  BY DEF FenceInv, Closing, InUse, InScope, Live, Held
<1> QED BY <1>2, <1>3, <1>4, <1>5

\* Dispatch takes the gate, or the attempt ends at it.
LEMMA DispatchAdmitsKeeps ==
    ASSUME ToolInv, NEW a \in Attempts, DispatchAdmits(a)
    PROVE  ToolInv'
<1> USE DEF ToolInv
<1>1. /\ task[a].pc = "dispatch"
      /\ UNCHANGED <<entry, monitor, pending, job, worker, child, files, permits>>
      /\ UNCHANGED <<scope, change, docs, down, panicked>>
  BY DEF DispatchAdmits, PassesGate, registryVars, managerVars, runnerVars, hostVars
<1>2. ASSUME NEW error \in {"Cancelled", "Failed"}, Fails(a, error), UNCHANGED gate
      PROVE  ToolInv'
  <2> DEFINE t == [pc |-> "cleaning", error |-> error]
  <2>1. Good(entry[a], t, monitor[a], pending[a], job[a], worker[a], child[a], files[a])
    BY <1>1, FailsGood
  <2>2. task' = [task EXCEPT ![a] = t]
    BY <1>2 DEF Fails
  <2>3. /\ SlotsInv' /\ HostTypes' /\ NoPanic' /\ PermitInv' /\ FenceInv'
        /\ task'[a] = t /\ \A b \in Attempts \ {a} : task'[b] = task[b]
    BY <1>1, <1>2, <2>1, <2>2, TaskStepKeeps DEF HostTypes
  <2>4. GateInv'
    BY <1>1, <1>2, <2>3 DEF GateInv
  <2> QED BY <2>3, <2>4
<1>3. ASSUME gate = Nobody, gate' = a,
             task' = [task EXCEPT ![a].pc = IF entry[a].kind = "Restore" THEN "retire" ELSE "start"]
      PROVE  ToolInv'
  <2> DEFINE pc == IF entry[a].kind = "Restore" THEN "retire" ELSE "start"
             t == [task[a] EXCEPT !.pc = pc]
  <2>1. t \in TaskType /\ t.pc = pc
    BY SlotAt DEF TaskType
  <2>2. task' = [task EXCEPT ![a] = t]
    BY <1>3
  <2> HIDE DEF t
  <2>3. RegistryOk(entry[a], t, monitor[a], pending[a], files[a], worker[a])
    BY <1>1, <2>1, SlotAt DEF RegistryOk, Clean, Terminal
  <2>4. Good(entry[a], t, monitor[a], pending[a], job[a], worker[a], child[a], files[a])
    BY <2>1, <2>3, SlotAt DEF Good, Types
  <2>5. /\ SlotsInv' /\ HostTypes' /\ NoPanic' /\ PermitInv' /\ FenceInv'
        /\ task'[a] = t /\ \A b \in Attempts \ {a} : task'[b] = task[b]
    BY <1>1, <1>3, <2>2, <2>4, TaskStepKeeps DEF HostTypes
  <2>6. GateInv'
    BY <1>1, <1>3, <2>1, <2>5, GateFree DEF GateInv
  <2> QED BY <2>5, <2>6
<1> QED BY <1>2, <1>3 DEF DispatchAdmits, PassesGate

\* A restore retires the data document behind the gate, or gives the gate back.
LEMMA DispatchRetiresKeeps ==
    ASSUME ToolInv, NEW a \in Attempts, DispatchRetires(a)
    PROVE  ToolInv'
<1> USE DEF ToolInv
<1>1. /\ task[a].pc = "retire"
      /\ UNCHANGED <<entry, monitor, pending, job, worker, child, files, permits>>
      /\ UNCHANGED <<scope, change, down, panicked>>
  BY DEF DispatchRetires, registryVars, managerVars, runnerVars, hostVars
<1>2. CASE /\ docs' = docs \ {entry[a].conn} /\ UNCHANGED gate
           /\ task' = [task EXCEPT ![a].pc = "start"]
  <2> DEFINE t == [task[a] EXCEPT !.pc = "start"]
  <2>1. t \in TaskType /\ t.pc = "start"
    BY SlotAt DEF TaskType
  <2>2. task' = [task EXCEPT ![a] = t]
    BY <1>2
  <2> HIDE DEF t
  <2>3. RegistryOk(entry[a], t, monitor[a], pending[a], files[a], worker[a])
    BY <1>1, <2>1, SlotAt DEF RegistryOk, Clean, Terminal
  <2>4. Good(entry[a], t, monitor[a], pending[a], job[a], worker[a], child[a], files[a])
    BY <2>1, <2>3, SlotAt DEF Good, Types
  <2>5. docs' \subseteq docs /\ gate' \in Attempts \cup {Nobody, Global}
    BY <1>2 DEF HostTypes
  <2>6. /\ SlotsInv' /\ HostTypes' /\ NoPanic' /\ PermitInv' /\ FenceInv'
        /\ task'[a] = t /\ \A b \in Attempts \ {a} : task'[b] = task[b]
    BY <1>1, <2>2, <2>4, <2>5, TaskStepKeeps
  <2>7. GateInv'
    BY <1>1, <1>2, <2>1, <2>6 DEF GateInv
  <2> QED BY <2>6, <2>7
<1>3. CASE Fails(a, "Cleanup") /\ gate' = Nobody /\ UNCHANGED docs
  <2> DEFINE t == [pc |-> "cleaning", error |-> "Cleanup"]
  <2>1. Good(entry[a], t, monitor[a], pending[a], job[a], worker[a], child[a], files[a])
    BY <1>1, FailsGood
  <2>2. task' = [task EXCEPT ![a] = t]
    BY <1>3 DEF Fails
  <2>3. /\ SlotsInv' /\ HostTypes' /\ NoPanic' /\ PermitInv' /\ FenceInv'
        /\ task'[a] = t /\ \A b \in Attempts \ {a} : task'[b] = task[b]
    BY <1>1, <1>3, <2>1, <2>2, TaskStepKeeps
  <2>4. GateInv'
    BY <1>1, <1>3, <2>3, GateAlone DEF GateInv
  <2> QED BY <2>3, <2>4
<1> QED BY <1>2, <1>3 DEF DispatchRetires

\* The admission is given up, or becomes the job's permit.
LEMMA DispatchStartsKeeps ==
    ASSUME ToolInv, NEW a \in Attempts, DispatchStarts(a)
    PROVE  ToolInv'
<1> USE DEF ToolInv
<1>1. /\ task[a].pc = "start" /\ gate' = Nobody
      /\ UNCHANGED <<monitor, scope, child, files, change, docs, down, panicked>>
  BY DEF DispatchStarts
<1>2. /\ gate = a /\ change.at.pc = "idle"
      /\ \A b \in Attempts \ {a} : task[b].pc \notin {"retire", "start"}
  BY <1>1, GateAlone
<1>3. /\ ~entry[a].job /\ entry[a].phase \in {"Queued", "Cancelling"}
      /\ job[a] = NoJob /\ worker[a] = NoWorker /\ child[a] = NoChild /\ ~files[a].published
      /\ monitor[a].pc \notin {"none", "cleaning", "cleaned", "uncleaned", "retire", "publish", "archive", "done"}
      /\ entry[a].kind \in Kinds /\ entry[a].conn \in Conns
  BY <1>1, SlotAt DEF RegistryOk, JobOk, Terminal
<1>4. CASE /\ Fails(a, "Cancelled") /\ UNCHANGED <<entry, pending, permits, job, worker>>
  <2> DEFINE t == [pc |-> "cleaning", error |-> "Cancelled"]
  <2>1. Good(entry[a], t, monitor[a], pending[a], job[a], worker[a], child[a], files[a])
    BY <1>1, FailsGood
  <2>2. task' = [task EXCEPT ![a] = t]
    BY <1>4 DEF Fails
  <2>3. /\ SlotsInv' /\ HostTypes' /\ NoPanic' /\ PermitInv' /\ FenceInv'
        /\ task'[a] = t /\ \A b \in Attempts \ {a} : task'[b] = task[b]
    BY <1>1, <1>4, <2>1, <2>2, TaskStepKeeps
  <2>4. GateInv'
    BY <1>1, <1>2, <1>4, <2>3 DEF GateInv
  <2> QED BY <2>3, <2>4
<1>5. CASE /\ Fails(a, "Failed") /\ entry' = [entry EXCEPT ![a].held = FALSE]
           /\ DropsAdmission(a) /\ UNCHANGED <<job, worker>>
  <2> DEFINE t == [pc |-> "cleaning", error |-> "Failed"]
             e == [entry[a] EXCEPT !.held = FALSE]
  <2>1. /\ e \in EntryType /\ e.phase = entry[a].phase /\ e.job = entry[a].job
        /\ e.kind = entry[a].kind /\ e.conn = entry[a].conn /\ e.cancel = entry[a].cancel
        /\ e.cleanup = entry[a].cleanup /\ ~e.held /\ e.effect = entry[a].effect
    BY SlotAt DEF EntryType
  <2>2. t \in TaskType /\ NoPending \in PendingType /\ NoPending.state = "none"
    BY DEF TaskType, PendingType, NoPending
  <2>3. Put(a, e, t, monitor[a], NoPending, job[a], worker[a], child[a], files[a])
    BY <1>1, <1>5, SlotKept DEF Put, Fails, DropsAdmission, SlotsInv, Slots
  <2>4. permits' = IF pending[a].state = "none" THEN permits ELSE permits - 1
    BY <1>5 DEF DropsAdmission
  <2> HIDE DEF e
  <2>5. Good(e, t, monitor[a], NoPending, job[a], worker[a], child[a], files[a])
    <3>1. RegistryOk(e, t, monitor[a], NoPending, files[a], worker[a])
      BY <1>1, <1>3, <2>1, <2>2, SlotAt DEF RegistryOk, Clean, Terminal
    <3>2. JobOk(e, job[a], worker[a], child[a], files[a])
      BY <1>3, <2>1 DEF JobOk
    <3>3. ShownOk(e, monitor[a], job[a], worker[a])
      BY <1>3, <2>1 DEF ShownOk
    <3> QED BY <2>1, <2>2, <3>1, <3>2, <3>3, SlotAt DEF Good, Types
  <2>6. /\ SlotsInv'
        /\ entry'[a] = e /\ task'[a] = t /\ pending'[a] = NoPending /\ job'[a] = job[a]
        /\ \A b \in Attempts \ {a} :
              /\ entry'[b] = entry[b] /\ task'[b] = task[b]
              /\ pending'[b] = pending[b] /\ job'[b] = job[b]
    BY <2>3, <2>5, PutKeepsSlots
  <2>7. HostTypes' /\ NoPanic'
    BY <1>1 DEF HostTypes, NoPanic
  <2>8. PermitInv'
    <3>1. a \in Owners <=> pending[a].state # "none"
      BY <1>3 DEF Owners, Owns, NoJob
    <3>2. Owners' = Owners \ {a}
      BY <1>3, <2>2, <2>6 DEF Owners, Owns, NoJob
    <3>3. CASE a \in Owners
      BY <2>4, <3>1, <3>2, <3>3, PermitBack
    <3>4. CASE a \notin Owners
      BY <2>4, <3>1, <3>2, <3>4, PermitKept
    <3> QED BY <3>3, <3>4
  <2>9. GateInv'
    BY <1>1, <1>2, <2>1, <2>6 DEF GateInv
  <2>10. FenceInv'
    BY <1>1, <1>2 DEF FenceInv, Closing
  <2> QED BY <2>6, <2>7, <2>8, <2>9, <2>10
<1>6. CASE /\ task' = [task EXCEPT ![a].pc = "idle"]
           /\ entry' = [entry EXCEPT ![a].held = FALSE, ![a].job = TRUE]
           /\ pending' = [pending EXCEPT ![a] = NoPending] /\ pending[a].state = "open"
           /\ job' = [job EXCEPT ![a] = [NoJob EXCEPT !.phase = "Queued", !.active = TRUE,
                                                     !.permit = TRUE]]
           /\ worker' = [worker EXCEPT ![a] = [pc |-> "preflight", result |-> "none"]]
           /\ UNCHANGED permits
  <2> DEFINE t == [task[a] EXCEPT !.pc = "idle"]
             e == [entry[a] EXCEPT !.held = FALSE, !.job = TRUE]
             j == [NoJob EXCEPT !.phase = "Queued", !.active = TRUE, !.permit = TRUE]
             w == [pc |-> "preflight", result |-> "none"]
  <2>1. /\ e \in EntryType /\ e.phase = entry[a].phase /\ e.job
        /\ e.kind = entry[a].kind /\ e.conn = entry[a].conn /\ e.cancel = entry[a].cancel
        /\ e.cleanup = entry[a].cleanup /\ ~e.held /\ e.effect = entry[a].effect
    BY SlotAt DEF EntryType
  <2>2. NoPending \in PendingType /\ NoPending.state = "none"
    BY DEF PendingType, NoPending
  <2>3. t \in TaskType /\ t.pc = "idle"
    BY SlotAt DEF TaskType
  <2>4. /\ j \in JobType /\ j.phase = "Queued" /\ j.outcome = "Open" /\ ~j.signal /\ j.active
        /\ j.permit /\ j.reaper = "none" /\ ~j.dispatched /\ ~j.effects
    BY DEF NoJob, JobType, Phases
  <2>5. w \in WorkerType
    BY DEF WorkerType
  <2>6. Put(a, e, t, monitor[a], NoPending, j, w, child[a], files[a])
    <3>1. entry' = [entry EXCEPT ![a] = e]
      BY <1>6 DEF SlotsInv, Slots, EntryType
    <3>2. task' = [task EXCEPT ![a] = t]
      BY <1>6
    <3> QED BY <1>1, <1>6, <3>1, <3>2, SlotKept DEF Put, SlotsInv
  <2> HIDE DEF e, t, j
  <2>7. Good(e, t, monitor[a], NoPending, j, w, child[a], files[a])
    <3>1. RegistryOk(e, t, monitor[a], NoPending, files[a], w)
      BY <1>1, <1>3, <2>1, <2>2, <2>3, SlotAt DEF RegistryOk, Clean, Terminal, Phases
    <3>2. JobOk(e, j, w, child[a], files[a])
      BY <1>3, <2>1, <2>4, ToolJobsAssumption DEF JobOk, ClaimOk, ChildOk, ReaperOk, ResultOk,
          WorkPhases, Kept, NoChild
    <3>3. ShownOk(e, monitor[a], j, w)
      BY <1>3, <2>1 DEF ShownOk, Terminal
    <3> QED BY <2>1, <2>2, <2>3, <2>4, <2>5, <3>1, <3>2, <3>3, SlotAt DEF Good, Types
  <2>8. /\ SlotsInv'
        /\ entry'[a] = e /\ task'[a] = t /\ pending'[a] = NoPending /\ job'[a] = j
        /\ \A b \in Attempts \ {a} :
              /\ entry'[b] = entry[b] /\ task'[b] = task[b]
              /\ pending'[b] = pending[b] /\ job'[b] = job[b]
    BY <2>6, <2>7, PutKeepsSlots
  <2>9. HostTypes' /\ NoPanic'
    BY <1>1 DEF HostTypes, NoPanic
  <2>10. PermitInv'
    <3>1. Owners' = Owners
      BY <1>6, <2>4, <2>8 DEF Owners, Owns
    <3> QED BY <1>6, <3>1, PermitKept
  <2>11. GateInv'
    BY <1>1, <1>2, <2>1, <2>3, <2>8 DEF GateInv
  <2>12. FenceInv'
    BY <1>1, <1>2 DEF FenceInv, Closing
  <2> QED BY <2>8, <2>9, <2>10, <2>11, <2>12
<1> QED BY <1>4, <1>5, <1>6 DEF DispatchStarts, Startable

----------------------------------------------------------------------------
(* What shares the gate: data documents, connection changes and shutdown.  *)

\* The slots are not touched at all.
LEMMA SlotsKept ==
    ASSUME ToolInv,
           UNCHANGED <<entry, task, monitor, pending, job, worker, child, files, permits>>
    PROVE  SlotsInv' /\ PermitInv' /\ \A s : InUse(s)' = InUse(s)
<1> USE DEF ToolInv
<1>1. SlotsInv'
  BY DEF SlotsInv, Slots, GoodAt
<1>2. PermitInv'
  BY PermitKept DEF Owners
<1>3. \A s : InUse(s)' = InUse(s)
  BY DEF InUse, InScope, Live, Held
<1> QED BY <1>1, <1>2, <1>3

\* A document opens only where no restore is under way.
LEMMA OpenDocumentKeeps ==
    ASSUME ToolInv, NEW c \in Conns, OpenDocument(c)
    PROVE  ToolInv'
<1> USE DEF ToolInv
<1>1. /\ UNCHANGED <<entry, task, monitor, pending, job, worker, child, files, permits>>
      /\ UNCHANGED <<scope, gate, change, down, panicked>>
      /\ docs' = docs \cup {c} /\ gate = Nobody /\ ~RestoreInProgress(c)
  BY DEF OpenDocument, registryVars, managerVars, runnerVars, hostVars
<1>2. SlotsInv' /\ PermitInv' /\ \A s : InUse(s)' = InUse(s)
  BY <1>1, SlotsKept
<1>3. HostTypes' /\ NoPanic'
  BY <1>1 DEF HostTypes, NoPanic
<1>4. ASSUME NEW a \in Attempts, entry[a].kind = "Restore", job[a].active
      PROVE  entry[a].conn # c
  <2>1. entry[a].job /\ worker[a].pc # "done"
    BY <1>4, SlotAt DEF JobOk, NoJob
  <2>2. entry[a].phase \in Phases /\ entry[a].cleanup # "Complete"
    BY <2>1, SlotAt DEF RegistryOk
  <2> QED BY <1>1, <1>4, <2>2 DEF RestoreInProgress, On, Phases, Terminal, Reviewable
<1>5. GateInv'
  BY <1>1, <1>4, GateFree DEF GateInv
<1>6. FenceInv'
  BY <1>1, <1>2 DEF FenceInv, Closing
<1> QED BY <1>2, <1>3, <1>5, <1>6

\* The user closes a data document.
LEMMA CloseDocumentKeeps ==
    ASSUME ToolInv, NEW c \in Conns, CloseDocument(c)
    PROVE  ToolInv'
<1> USE DEF ToolInv
<1>1. /\ UNCHANGED <<entry, task, monitor, pending, job, worker, child, files, permits>>
      /\ UNCHANGED <<scope, gate, change, down, panicked>> /\ docs' \subseteq docs
  BY DEF CloseDocument, registryVars, managerVars, runnerVars, hostVars
<1>2. SlotsInv' /\ PermitInv' /\ \A s : InUse(s)' = InUse(s)
  BY <1>1, SlotsKept
<1>3. HostTypes' /\ NoPanic'
  BY <1>1 DEF HostTypes, NoPanic
<1>4. GateInv'
  BY <1>1 DEF GateInv
<1>5. FenceInv'
  BY <1>1, <1>2 DEF FenceInv, Closing
<1> QED BY <1>2, <1>3, <1>4, <1>5

\* A change takes the free gate.
LEMMA ChangeBeginsKeeps ==
    ASSUME ToolInv, NEW s \in Scopes, ChangeBegins(s)
    PROVE  ToolInv'
<1> USE DEF ToolInv
<1>1. /\ UNCHANGED <<entry, task, monitor, pending, job, worker, child, files, permits>>
      /\ UNCHANGED <<scope, down, panicked>> /\ docs' \subseteq docs
      /\ gate = Nobody /\ gate' = Global /\ change.at.pc = "idle" /\ change.n < MaxChanges
      /\ change' = [n |-> change.n + 1, at |-> [Unchanging EXCEPT !.pc = "checked", !.scope = s]]
  BY DEF ChangeBegins, registryVars, managerVars, runnerVars, hostVars
<1>2. /\ change'.n = change.n + 1 /\ change'.at.pc = "checked"
      /\ change' \in [n : 0..MaxChanges,
                      at : [pc : {"idle", "checked", "waiting", "work"},
                            scope : Scopes, waits : SUBSET Attempts, waited : BOOLEAN]]
  <2> DEFINE at == [Unchanging EXCEPT !.pc = "checked", !.scope = s]
  <2>1. Unchanging \in [pc : {"idle", "checked", "waiting", "work"}, scope : Scopes,
                        waits : SUBSET Attempts, waited : BOOLEAN]
    BY DEF Unchanging, Scopes
  <2>2. /\ at.pc = "checked"
        /\ at \in [pc : {"idle", "checked", "waiting", "work"}, scope : Scopes,
                  waits : SUBSET Attempts, waited : BOOLEAN]
    BY <2>1
  <2> HIDE DEF at
  <2>3. change' = [n |-> change.n + 1, at |-> at]
    BY <1>1 DEF at
  <2>4. change.n + 1 \in 0..MaxChanges
    BY <1>1, ToolJobsAssumption DEF HostTypes
  <2> QED BY <2>2, <2>3, <2>4
<1>3. SlotsInv' /\ PermitInv' /\ \A x : InUse(x)' = InUse(x)
  BY <1>1, SlotsKept
<1>4. HostTypes' /\ NoPanic'
  BY <1>1, <1>2 DEF HostTypes, NoPanic
<1>5. GateInv'
  BY <1>1, <1>2, GateFree DEF GateInv
<1>6. FenceInv'
  BY <1>1, <1>2, ToolJobsAssumption DEF FenceInv, Closing, HostTypes
<1> QED BY <1>3, <1>4, <1>5, <1>6

\* A teardown tells the jobs and the admissions of a scope, and ends none.
LEMMA TeardownKeeps ==
    ASSUME ToolInv, NEW s \in Scopes, Teardown(s),
           UNCHANGED <<entry, task, monitor, worker, child, files, permits>>
    PROVE  /\ SlotsInv' /\ PermitInv' /\ \A x : InUse(x)' = InUse(x)
           /\ \A a \in Attempts : job'[a].active = job[a].active
           /\ scope' \in [Scopes -> [closing : Nat, generation : Nat]]
           /\ \A x \in Scopes : scope'[x].closing =
                IF x = s THEN scope[x].closing + 1 ELSE scope[x].closing
<1> USE DEF ToolInv
<1>1. \A a \in Attempts : job'[a] = job[a] \/ job'[a] = CancelEntry(job[a])
  BY DEF Teardown
<1>2. \A a \in Attempts : \/ pending'[a] = pending[a]
                          \/ pending[a].state # "none"
                             /\ pending'[a] = [pending[a] EXCEPT !.state = "cancelled"]
  BY DEF Teardown, Held
<1>3. ASSUME NEW a \in Attempts
      PROVE  /\ job'[a] \in JobType /\ job'[a].active = job[a].active
             /\ job'[a].permit = job[a].permit /\ job'[a].reaper = job[a].reaper
  BY <1>1, <1>3, SlotAt, CancelEntryKeeps
<1>4. ASSUME NEW a \in Attempts
      PROVE  pending'[a] \in PendingType /\ (pending'[a].state = "none" <=> pending[a].state = "none")
  BY <1>2, <1>4, SlotAt DEF PendingType
<1>5. Slots'
  <2>1. job' \in [Attempts -> JobType]
    BY <1>3 DEF Teardown
  <2>2. pending' \in [Attempts -> PendingType]
    BY <1>4 DEF Teardown
  <2> QED BY <2>1, <2>2 DEF SlotsInv, Slots
<1>6. ASSUME NEW a \in Attempts PROVE GoodAt(a)'
  <2>1. Good(entry[a], task[a], monitor[a], pending[a], job'[a], worker[a], child[a], files[a])
    <3>1. Good(entry[a], task[a], monitor[a], pending[a], job[a], worker[a], child[a], files[a])
      BY <1>6 DEF SlotsInv, GoodAt
    <3>2. Good(entry[a], task[a], monitor[a], pending[a], CancelEntry(job[a]), worker[a],
               child[a], files[a])
      BY <3>1, CancelEntryGood
    <3> QED BY <1>1, <1>6, <3>1, <3>2
  <2>2. RegistryOk(entry[a], task[a], monitor[a], pending'[a], files[a], worker[a])
    BY <1>4, <1>6, SlotAt DEF RegistryOk
  <2>3. Good(entry[a], task[a], monitor[a], pending'[a], job'[a], worker[a], child[a], files[a])
    BY <1>4, <1>6, <2>1, <2>2 DEF Good, Types
  <2> QED BY <2>3 DEF GoodAt
<1>7. SlotsInv'
  BY <1>5, <1>6 DEF SlotsInv
<1>8. PermitInv'
  <2>1. Owners' = Owners
    BY <1>3, <1>4 DEF Owners, Owns
  <2> QED BY <2>1, PermitKept
<1>9. \A x : InUse(x)' = InUse(x)
  BY <1>3, <1>4 DEF InUse, InScope, Live, Held
<1>10. /\ scope' \in [Scopes -> [closing : Nat, generation : Nat]]
       /\ \A x \in Scopes : scope'[x].closing =
            IF x = s THEN scope[x].closing + 1 ELSE scope[x].closing
  BY DEF Teardown, HostTypes
<1> QED BY <1>3, <1>7, <1>8, <1>9, <1>10

\* The change waits for whoever its fence met.
LEMMA ChangeFencesKeeps ==
    ASSUME ToolInv, ChangeFences
    PROVE  ToolInv'
<1> USE DEF ToolInv
<1>1. /\ UNCHANGED <<entry, task, monitor, worker, child, files, permits>>
      /\ UNCHANGED <<gate, docs, down, panicked>>
      /\ change.at.pc = "checked" /\ Teardown(change.at.scope)
      /\ change' = [change EXCEPT !.at.pc = "waiting", !.at.waits = InUse(change.at.scope)]
  BY DEF ChangeFences, InUse, registryVars, managerVars, runnerVars, hostVars
<1>2. change.at.scope \in Scopes
  BY DEF HostTypes
<1>3. /\ SlotsInv' /\ PermitInv' /\ \A x : InUse(x)' = InUse(x)
      /\ \A a \in Attempts : job'[a].active = job[a].active
      /\ scope' \in [Scopes -> [closing : Nat, generation : Nat]]
      /\ \A x \in Scopes : scope'[x].closing =
            IF x = change.at.scope THEN scope[x].closing + 1 ELSE scope[x].closing
  BY <1>1, <1>2, TeardownKeeps
<1>4. /\ change'.at.pc = "waiting" /\ change'.at.scope = change.at.scope
      /\ change'.at.waits = InUse(change.at.scope) /\ change'.n = change.n
      /\ change' \in [n : 0..MaxChanges,
                      at : [pc : {"idle", "checked", "waiting", "work"},
                            scope : Scopes, waits : SUBSET Attempts, waited : BOOLEAN]]
  BY <1>1 DEF HostTypes, InUse, InScope
<1>5. HostTypes' /\ NoPanic'
  BY <1>1, <1>3, <1>4 DEF HostTypes, NoPanic
<1>6. GateInv'
  BY <1>1, <1>3, <1>4 DEF GateInv
<1>7. FenceInv'
  BY <1>1, <1>3, <1>4 DEF FenceInv, Closing
<1> QED BY <1>3, <1>5, <1>6, <1>7

\* Behind a wait that ended by itself nobody uses the scope.
LEMMA ChangeWaitedKeeps ==
    ASSUME ToolInv, NEW waited \in BOOLEAN, ChangeWaited(waited)
    PROVE  ToolInv'
<1> USE DEF ToolInv
<1>1. /\ UNCHANGED <<entry, task, monitor, pending, job, worker, child, files, permits>>
      /\ UNCHANGED <<scope, gate, docs, down, panicked>>
      /\ change.at.pc = "waiting" /\ (waited => \A a \in change.at.waits : Done(a))
      /\ change' = [change EXCEPT !.at.pc = "work", !.at.waits = {}, !.at.waited = waited]
  BY DEF ChangeWaited, registryVars, managerVars, runnerVars, hostVars
<1>2. /\ change'.at.pc = "work" /\ change'.at.scope = change.at.scope
      /\ change'.at.waited = waited /\ change'.n = change.n
      /\ change' \in [n : 0..MaxChanges,
                      at : [pc : {"idle", "checked", "waiting", "work"},
                            scope : Scopes, waits : SUBSET Attempts, waited : BOOLEAN]]
  BY <1>1 DEF HostTypes
<1>3. SlotsInv' /\ PermitInv' /\ \A s : InUse(s)' = InUse(s)
  BY <1>1, SlotsKept
<1>4. HostTypes' /\ NoPanic'
  BY <1>1, <1>2 DEF HostTypes, NoPanic
<1>5. GateInv'
  BY <1>1, <1>2 DEF GateInv
<1>6. waited => InUse(change.at.scope) = {}
  <2>1. InUse(change.at.scope) \subseteq change.at.waits
    BY <1>1 DEF FenceInv
  <2>2. \A a \in InUse(change.at.scope) : ~Done(a)
    BY DEF InUse, Live, Held, Done
  <2> QED BY <1>1, <2>1, <2>2
<1>7. FenceInv'
  BY <1>1, <1>2, <1>3, <1>6 DEF FenceInv, Closing
<1> QED BY <1>3, <1>4, <1>5, <1>7

\* The fence of the change goes down, and the gate is free again.
LEMMA ChangeEndsKeeps ==
    ASSUME ToolInv, ChangeEnds
    PROVE  ToolInv'
<1> USE DEF ToolInv
<1>1. /\ UNCHANGED <<entry, task, monitor, pending, job, worker, child, files, permits>>
      /\ UNCHANGED <<docs, down, panicked>>
      /\ change.at.pc = "work" /\ gate' = Nobody
      /\ change' = [change EXCEPT !.at = Unchanging]
      /\ scope' = [scope EXCEPT ![change.at.scope].closing = @ - 1]
  BY DEF ChangeEnds, registryVars, managerVars, runnerVars, hostVars
<1>2. change.at.scope \in Scopes /\ scope[change.at.scope].closing >= 1
  BY <1>1 DEF HostTypes, FenceInv, Closing
<1>3. /\ scope' \in [Scopes -> [closing : Nat, generation : Nat]]
      /\ \A s \in Scopes : scope'[s].closing =
            IF s = change.at.scope THEN scope[s].closing - 1 ELSE scope[s].closing
  BY <1>1, <1>2 DEF HostTypes
<1>4. /\ change'.at.pc = "idle" /\ change'.n = change.n
      /\ change' \in [n : 0..MaxChanges,
                      at : [pc : {"idle", "checked", "waiting", "work"},
                            scope : Scopes, waits : SUBSET Attempts, waited : BOOLEAN]]
  BY <1>1 DEF HostTypes, Unchanging, Scopes
<1>5. SlotsInv' /\ PermitInv'
  BY <1>1, SlotsKept
<1>6. HostTypes' /\ NoPanic'
  BY <1>1, <1>3, <1>4 DEF HostTypes, NoPanic
<1>7. GateInv'
  <2>1. \A a \in Attempts : task[a].pc \notin {"retire", "start"}
    BY <1>1, GateAlone
  <2> QED BY <1>1, <1>4, <2>1 DEF GateInv
<1>8. FenceInv'
  BY <1>1, <1>2, <1>3, <1>4 DEF FenceInv, Closing, HostTypes
<1> QED BY <1>5, <1>6, <1>7, <1>8

\* Shutdown cancels every attempt at once.
LEMMA ShutdownClosesKeeps ==
    ASSUME ToolInv, ShutdownCloses
    PROVE  ToolInv'
<1> USE DEF ToolInv
<1>1. /\ UNCHANGED <<task, monitor, pending, permits, scope, worker, child, files>>
      /\ UNCHANGED <<gate, change, panicked>>
      /\ down = "up" /\ down' = "closed" /\ docs' = {}
      /\ entry' = [a \in Attempts |-> CancelledEntry(entry[a], job[a])]
      /\ job' = [a \in Attempts |-> CancelledJob(entry[a], job[a])]
  BY DEF ShutdownCloses, registryVars, managerVars, runnerVars, hostVars
<1>2. ASSUME NEW a \in Attempts
      PROVE  /\ entry'[a].conn = entry[a].conn /\ entry'[a].kind = entry[a].kind
             /\ job'[a].active = job[a].active /\ job'[a].permit = job[a].permit
             /\ job'[a].reaper = job[a].reaper
  BY <1>1, <1>2, SlotAt, CancelledKeeps
<1>3. ASSUME NEW a \in Attempts PROVE GoodAt(a)'
  <2>1. Good(entry[a], task[a], monitor[a], pending[a], job[a], worker[a], child[a], files[a])
    BY <1>3 DEF SlotsInv, GoodAt
  <2>2. Good(CancelledEntry(entry[a], job[a]), task[a], monitor[a], pending[a],
             CancelledJob(entry[a], job[a]), worker[a], child[a], files[a])
    BY <2>1, CancelledGood
  <2> QED BY <1>1, <1>3, <2>2 DEF GoodAt
<1>4. SlotsInv'
  <2>1. \A a \in Attempts : entry'[a] \in EntryType /\ job'[a] \in JobType
    BY <1>3 DEF GoodAt, Good, Types
  <2>2. Slots'
    BY <1>1, <2>1 DEF SlotsInv, Slots
  <2> QED BY <1>3, <2>2 DEF SlotsInv
<1>5. HostTypes' /\ NoPanic'
  BY <1>1 DEF HostTypes, NoPanic
<1>6. PermitInv'
  <2>1. Owners' = Owners
    BY <1>1, <1>2 DEF Owners, Owns
  <2> QED BY <1>1, <2>1, PermitKept
<1>7. GateInv'
  BY <1>1 DEF GateInv
<1>8. \A s : InUse(s)' = InUse(s)
  BY <1>1, <1>2 DEF InUse, InScope, Live, Held
<1>9. FenceInv'
  BY <1>1, <1>8 DEF FenceInv, Closing
<1> QED BY <1>4, <1>5, <1>6, <1>7, <1>9

\* Shutdown fences every scope and tears down the jobs.
LEMMA ShutdownFencesKeeps ==
    ASSUME ToolInv, ShutdownFences
    PROVE  ToolInv'
<1> USE DEF ToolInv
<1>1. /\ UNCHANGED <<entry, task, monitor, worker, child, files, permits>>
      /\ UNCHANGED <<gate, change, docs, panicked>>
      /\ down = "closed" /\ down' = "fenced" /\ Teardown(Global)
  BY DEF ShutdownFences, registryVars, managerVars, runnerVars, hostVars
<1>2. /\ SlotsInv' /\ PermitInv' /\ \A x : InUse(x)' = InUse(x)
      /\ \A a \in Attempts : job'[a].active = job[a].active
      /\ scope' \in [Scopes -> [closing : Nat, generation : Nat]]
      /\ \A x \in Scopes : scope'[x].closing =
            IF x = Global THEN scope[x].closing + 1 ELSE scope[x].closing
  BY <1>1, TeardownKeeps DEF Scopes
<1>3. HostTypes' /\ NoPanic'
  BY <1>1, <1>2 DEF HostTypes, NoPanic
<1>4. GateInv'
  BY <1>1, <1>2 DEF GateInv
<1>5. FenceInv'
  BY <1>1, <1>2 DEF FenceInv, Closing
<1> QED BY <1>2, <1>3, <1>4, <1>5

----------------------------------------------------------------------------
(* The invariant and what follows from it.                                 *)

\* The initial state is in order.
LEMMA InitTool == Init => ToolInv
<1> SUFFICES ASSUME Init PROVE ToolInv
  OBVIOUS
<1>1. /\ NoEntry \in EntryType /\ NoJob \in JobType /\ NoWorker \in WorkerType
      /\ NoChild \in ChildType /\ NoFiles \in FilesType /\ NoPending \in PendingType
      /\ [pc |-> "idle", error |-> "none"] \in TaskType
      /\ [pc |-> "none", seen |-> "none", dispatched |-> FALSE] \in MonitorType
  BY DEF NoEntry, NoJob, NoWorker, NoChild, NoFiles, NoPending, Scopes, EntryType, JobType,
      WorkerType, ChildType, FilesType, PendingType, TaskType, MonitorType
<1>2. Slots
  BY <1>1 DEF Init, Slots
<1>3. ASSUME NEW a \in Attempts PROVE GoodAt(a)
  <2>1. /\ entry[a] = NoEntry /\ task[a] = [pc |-> "idle", error |-> "none"]
        /\ monitor[a] = [pc |-> "none", seen |-> "none", dispatched |-> FALSE]
        /\ pending[a] = NoPending /\ job[a] = NoJob /\ worker[a] = NoWorker
        /\ child[a] = NoChild /\ files[a] = NoFiles
    BY DEF Init
  <2>2. JobOk(entry[a], job[a], worker[a], child[a], files[a])
    BY <2>1 DEF JobOk, NoEntry, NoFiles
  <2>3. RegistryOk(entry[a], task[a], monitor[a], pending[a], files[a], worker[a])
    <3>1. /\ entry[a].phase = "none" /\ ~entry[a].held /\ ~entry[a].job /\ ~entry[a].cancel
          /\ entry[a].cleanup = "Pending" /\ task[a].pc = "idle" /\ monitor[a].pc = "none"
          /\ pending[a].state = "none" /\ ~files[a].private
      BY <2>1 DEF NoEntry, NoFiles, NoPending
    <3> QED BY <2>1, <3>1 DEF RegistryOk, Terminal
  <2>4. ShownOk(entry[a], monitor[a], job[a], worker[a])
    BY <2>1 DEF ShownOk, NoEntry
  <2> QED BY <1>1, <2>1, <2>2, <2>3, <2>4 DEF GoodAt, Good, Types
<1>4. HostTypes /\ NoPanic
  <2>1. Unchanging \in [pc : {"idle", "checked", "waiting", "work"}, scope : Scopes,
                        waits : SUBSET Attempts, waited : BOOLEAN]
    BY DEF Unchanging, Scopes
  <2>2. change \in [n : 0..MaxChanges,
                    at : [pc : {"idle", "checked", "waiting", "work"},
                          scope : Scopes, waits : SUBSET Attempts, waited : BOOLEAN]]
    BY <2>1, ToolJobsAssumption DEF Init
  <2>3. scope \in [Scopes -> [closing : Nat, generation : Nat]]
    BY DEF Init
  <2> QED BY <2>2, <2>3 DEF Init, HostTypes, NoPanic
<1>5. PermitInv
  <2>1. Owners = {}
    BY DEF Init, Owners, Owns, NoPending, NoJob
  <2> QED BY <2>1, FS_EmptySet, ToolJobsAssumption DEF Init, PermitInv
<1>6. GateInv
  BY DEF Init, GateInv, Unchanging, NoJob, NoEntry
<1>7. FenceInv
  BY DEF Init, FenceInv, Closing, Unchanging
<1> QED BY <1>2, <1>3, <1>4, <1>5, <1>6, <1>7 DEF ToolInv, SlotsInv

\* Every step of one attempt keeps the invariant.
LEMMA AttemptStep ==
    ASSUME ToolInv, NEW a \in Attempts,
           \/ UserStep(a) \/ TaskStep(a) \/ WorkerStep(a) \/ MonitorStep(a)
           \/ ProcessStopped(a) \/ ReaperEnds(a) \/ MonitorOverdue(a)
           \/ \E state \in {"ok", "err"} : ChildExits(a, state)
    PROVE  ToolInv'
<1>1. CASE UserStep(a)
  <2>1. CASE \E c \in Conns, k \in Kinds : Begin(a, c, k)
    BY <2>1, BeginKeeps
  <2>2. CASE AwaitConfirmation(a) \/ Dispatch(a)
    BY <2>2, AwaitConfirmationMoves, DispatchMoves, RegIsPlain, PlainKeeps DEF ToolInv
  <2>3. CASE Cancel(a) \/ Release(a)
    BY <2>3, CancelMoves, ReleaseMoves, PlainKeeps
  <2> QED BY <1>1, <2>1, <2>2, <2>3 DEF UserStep
<1>2. CASE TaskStep(a)
  <2>1. CASE DispatchAdmits(a) \/ DispatchRetires(a) \/ DispatchStarts(a)
    BY <2>1, DispatchAdmitsKeeps, DispatchRetiresKeeps, DispatchStartsKeeps
  <2>2. CASE PrepareAdmits(a) \/ PrepareReady(a) \/ PrepareFails(a) \/ TaskCleans(a) \/ TaskFinishes(a)
    <3>1. RegMove(a)
      BY <2>2, PrepareAdmitsMoves, PrepareReadyMoves, PrepareFailsMoves, TaskCleansMoves,
         TaskFinishesMoves
    <3> QED BY <3>1, RegIsPlain, PlainKeeps DEF ToolInv
  <2> QED BY <1>2, <2>1, <2>2 DEF TaskStep
<1>3. CASE MonitorStep(a) \/ MonitorOverdue(a)
  <2>1. RegMove(a)
    BY <1>3, MonitorCancelsMoves, MonitorFinishesMoves, MonitorCleansMoves, MonitorFinishedMoves,
       MonitorEndsMoves, MonitorObservesMoves, MonitorRetiresMoves, MonitorPublishesMoves,
       MonitorArchivesMoves, MonitorOverdueMoves DEF MonitorStep
  <2> QED BY <2>1, RegIsPlain, PlainKeeps DEF ToolInv
<1>4. CASE \/ WorkerStep(a) \/ ProcessStopped(a) \/ ReaperEnds(a)
           \/ \E state \in {"ok", "err"} : ChildExits(a, state)
  BY <1>4, WorkerMoves, PlainKeeps
<1> QED BY <1>1, <1>2, <1>3, <1>4

\* A step that changes nothing keeps the invariant.
LEMMA StutterTool ==
    ASSUME ToolInv, UNCHANGED vars
    PROVE  ToolInv'
<1> USE DEF ToolInv
<1>1. /\ UNCHANGED <<entry, task, monitor, pending, job, worker, child, files, permits>>
      /\ UNCHANGED <<scope, gate, change, docs, down, panicked>>
  BY DEF vars
<1>2. SlotsInv' /\ PermitInv' /\ \A s : InUse(s)' = InUse(s)
  BY <1>1, SlotsKept
<1>3. HostTypes' /\ NoPanic'
  BY <1>1 DEF HostTypes, NoPanic
<1>4. GateInv'
  BY <1>1 DEF GateInv
<1>5. FenceInv'
  BY <1>1, <1>2 DEF FenceInv, Closing
<1> QED BY <1>2, <1>3, <1>4, <1>5

\* Every step keeps the invariant.
LEMMA NextTool ==
    ASSUME ToolInv, [Next]_vars
    PROVE  ToolInv'
<1>1. CASE UNCHANGED vars
  BY <1>1, StutterTool
<1>2. CASE \E a \in Attempts :
            \/ UserStep(a) \/ TaskStep(a) \/ WorkerStep(a) \/ MonitorStep(a)
            \/ ProcessStopped(a) \/ ReaperEnds(a) \/ MonitorOverdue(a)
            \/ \E state \in {"ok", "err"} : ChildExits(a, state)
  BY <1>2, AttemptStep
<1>3. CASE ChangeStep
  BY <1>3, ChangeFencesKeeps, ChangeWaitedKeeps, ChangeEndsKeeps DEF ChangeStep
<1>4. CASE HostStep
  BY <1>4, OpenDocumentKeeps, CloseDocumentKeeps, ChangeBeginsKeeps, ShutdownClosesKeeps,
     ShutdownFencesKeeps DEF HostStep
<1> QED BY <1>1, <1>2, <1>3, <1>4 DEF Next

\* The invariant holds in every reachable state.
LEMMA ToolAlways == Spec => []ToolInv
<1>1. Init => ToolInv
  BY InitTool
<1>2. ToolInv /\ [Next]_vars => ToolInv'
  BY NextTool
<1> QED BY <1>1, <1>2, PTL DEF Spec

\* Disjoint sets count one by one.
LEMMA UnionCardinality ==
    ASSUME NEW S, NEW T, IsFiniteSet(S), IsFiniteSet(T), S \cap T = {}
    PROVE  /\ IsFiniteSet(S \cup T)
           /\ Cardinality(S \cup T) = Cardinality(S) + Cardinality(T)
<1>1. /\ IsFiniteSet(S \cup T)
      /\ Cardinality(S \cup T) = Cardinality(S) + Cardinality(T) - Cardinality(S \cap T)
  BY FS_Union
<1>2. Cardinality(S \cap T) = 0
  BY FS_EmptySet
<1>3. Cardinality(S) \in Nat /\ Cardinality(T) \in Nat
  BY FS_CardinalityType
<1> QED BY <1>1, <1>2, <1>3

\* The owners are the admissions, the jobs with a permit and the reapers, and
\* nobody is two of them.
LEMMA PermitsAddUp == ToolInv => PermitsHeld
<1> SUFFICES ASSUME ToolInv PROVE PermitsHeld
  OBVIOUS
<1> DEFINE Jobs == {a \in Attempts : job[a].active /\ job[a].permit}
           Reapers == {a \in Attempts : job[a].reaper = "running"}
<1>1. ASSUME NEW a \in Attempts
      PROVE  /\ job[a].permit => job[a].active /\ job[a].reaper # "running"
             /\ pending[a].state # "none" => ~job[a].permit /\ job[a].reaper = "none"
  BY <1>1, SlotAt DEF ToolInv, RegistryOk, JobOk, ReaperOk, NoJob
<1>2. Owners = Held \cup (Jobs \cup Reapers)
  BY <1>1 DEF Owners, Owns, Held
<1>3. Held \cap (Jobs \cup Reapers) = {} /\ Jobs \cap Reapers = {}
  BY <1>1 DEF Held
<1>4. IsFiniteSet(Held) /\ IsFiniteSet(Jobs) /\ IsFiniteSet(Reapers)
  BY <1>2, FS_Subset DEF ToolInv, PermitInv
<1> HIDE DEF Jobs, Reapers
<1>5. Cardinality(Jobs \cup Reapers) = Cardinality(Jobs) + Cardinality(Reapers)
      /\ IsFiniteSet(Jobs \cup Reapers)
  BY <1>3, <1>4, UnionCardinality
<1>6. Cardinality(Owners) = Cardinality(Held) + Cardinality(Jobs \cup Reapers)
  BY <1>2, <1>3, <1>4, <1>5, UnionCardinality
<1>7. Cardinality(Held) \in Nat /\ Cardinality(Jobs) \in Nat /\ Cardinality(Reapers) \in Nat
  BY <1>4, FS_CardinalityType
<1>8. permits = Cardinality(Held) + Cardinality(Jobs) + Cardinality(Reapers)
  BY <1>5, <1>6, <1>7 DEF ToolInv, PermitInv
<1> QED BY <1>8 DEF PermitsHeld, Jobs, Reapers

\* The invariant has every variable in its type.
LEMMA ToolTypes == ToolInv => TypeOK
<1> SUFFICES ASSUME ToolInv PROVE TypeOK
  OBVIOUS
<1>1. ASSUME NEW s \in Scopes PROVE scope[s].closing \in 0..(MaxChanges + 1)
  BY <1>1, ToolJobsAssumption DEF ToolInv, FenceInv, Closing, HostTypes
<1>2. scope \in [Scopes -> [closing : 0..(MaxChanges + 1), generation : Nat]]
  BY <1>1 DEF ToolInv, HostTypes
<1> QED BY <1>2 DEF ToolInv, SlotsInv, Slots, HostTypes, PermitInv, TypeOK

\* A cleanup shown as complete left nothing behind.
LEMMA ToolComplete == ToolInv => CompleteLeavesNothing
<1> SUFFICES ASSUME ToolInv, NEW a \in Attempts, entry[a].cleanup = "Complete"
             PROVE  /\ ~files[a].private /\ Done(a) /\ job[a].reaper # "running"
                    /\ worker[a].pc \in {"none", "done"} /\ child[a].state # "running"
  BY DEF CompleteLeavesNothing
<1>1. ~files[a].private /\ pending[a].state = "none" /\ (entry[a].job => worker[a].pc = "done")
  BY SlotAt DEF ToolInv, RegistryOk, Clean
<1>2. CASE entry[a].job
  BY <1>1, <1>2, SlotAt DEF ToolInv, JobOk, ChildOk, ReaperOk, Done
<1>3. CASE ~entry[a].job
  BY <1>1, <1>3, SlotAt DEF ToolInv, JobOk, NoJob, NoWorker, NoChild, Done
<1> QED BY <1>2, <1>3

\* However cancellation, late commit, cleanup and the end of the work race, the
\* manager's mutex is not poisoned, reaper permits add up to their owners, and
\* an attempt shown as cleaned up has left nothing behind.
THEOREM ToolJobsCorrect == Spec => []JobsInv
<1>1. ToolInv => JobsInv
  BY ToolTypes, PermitsAddUp, ToolComplete DEF ToolInv, JobsInv
<1> QED BY <1>1, ToolAlways, PTL

\* A job ends Completed exactly when its archive was published or its restore
\* committed, and only then with its effects.
THEOREM OutcomeAlwaysTrue == Spec => []OutcomeTrue
<1>1. ToolInv => OutcomeTrue
  <2> SUFFICES ASSUME ToolInv, NEW a \in Attempts, job[a].phase \in Terminal
               PROVE  /\ (job[a].phase = "Completed") <=> (files[a].published \/ Committed(a))
                      /\ job[a].effects <=> job[a].phase = "Completed"
    BY DEF OutcomeTrue
  <2>1. entry[a].job /\ worker[a].pc = "done"
    BY SlotAt DEF ToolInv, JobOk, ClaimOk, WorkPhases, NoJob, Terminal
  <2> QED BY <2>1, SlotAt DEF ToolInv, JobOk, Committed, Kept
<1> QED BY <1>1, ToolAlways, PTL

\* A change that waited for the fence works on connections that no admission,
\* job or process uses until it ends.
THEOREM ToolFenceAlwaysQuiet == Spec => []JobFenceQuiet
<1>1. ToolInv => JobFenceQuiet
  <2> SUFFICES ASSUME ToolInv, change.at.pc = "work", change.at.waited
               PROVE  /\ InUse(change.at.scope) = {}
                      /\ \A a \in InScope(change.at.scope) : child[a].state # "running"
    BY DEF JobFenceQuiet, InUse
  <2>1. InUse(change.at.scope) = {}
    BY DEF ToolInv, FenceInv
  <2>2. ASSUME NEW a \in Attempts, child[a].state = "running" PROVE job[a].active
    BY <2>2, SlotAt DEF ToolInv, JobOk, ChildOk, NoChild
  <2> QED BY <2>1, <2>2 DEF InUse, Live, InScope
<1> QED BY <1>1, ToolAlways, PTL

\* What the user is told of a restore that ended is what it did.
THEOREM EffectAlwaysTold == Spec => []EffectTold
<1>1. ToolInv => EffectTold
  <2> SUFFICES ASSUME ToolInv, NEW a \in Attempts, entry[a].job, entry[a].phase \in Terminal
               PROVE  /\ entry[a].effect = "Succeeded" <=> files[a].published \/ Committed(a)
                      /\ entry[a].effect = "NotStarted" =>
                            child[a].stage # "restore" \/ child[a].state = "none"
    BY DEF EffectTold
  <2>1. /\ job[a].phase \in Terminal
        /\ entry[a].effect = ShownEffect(job[a].phase, job[a].dispatched)
    BY SlotAt DEF ToolInv, ShownOk
  <2>2. worker[a].pc = "done"
    BY <2>1, SlotAt DEF ToolInv, JobOk, ClaimOk, WorkPhases, Terminal
  <2>3. /\ job[a].phase = "Completed" <=> files[a].published \/ Committed(a)
        /\ job[a].dispatched <=> child[a].stage = "restore" /\ child[a].state # "none"
    BY <2>2, SlotAt DEF ToolInv, JobOk, Committed, Kept
  <2> QED BY <2>1, <2>3 DEF ShownEffect
<1> QED BY <1>1, ToolAlways, PTL

\* The end of an attempt, in the manager's job and in what the user is shown, is
\* what happened to the archive or to the database.
THEOREM EndAlwaysTold == Spec => []EndTold
<1>1. OutcomeTrue /\ EffectTold => EndTold  BY DEF EndTold
<1> QED BY <1>1, OutcomeAlwaysTrue, EffectAlwaysTold, PTL

\* No data document of a connection is live while a restore runs on it.
THEOREM RestoreAlwaysExclusive == Spec => []RestoreExclusive
<1>1. ToolInv => RestoreExclusive
  <2> SUFFICES ASSUME ToolInv, NEW a \in Attempts,
                      child[a] = [stage |-> "restore", state |-> "running"]
               PROVE  entry[a].conn \notin docs
    BY DEF RestoreExclusive
  <2>1. child[a].stage = "restore" /\ child[a].state = "running"
    OBVIOUS
  <2>2. job[a].active /\ entry[a].kind = "Restore"
    BY <2>1, SlotAt DEF ToolInv, JobOk, ChildOk, NoChild
  <2> QED BY <2>2 DEF ToolInv, GateInv
<1> QED BY <1>1, ToolAlways, PTL

----------------------------------------------------------------------------
(* The end that the registry shows.                                        *)

EndKept == \A a \in Attempts : entry[a].phase \in Terminal =>
                entry'[a].phase \in {entry[a].phase, "none"}

\* A step that writes one entry keeps its end, or finds none there.
LEMMA OneEntry ==
    ASSUME SlotsInv, NEW a \in Attempts, NEW e, entry' = [entry EXCEPT ![a] = e],
           entry[a].phase \in Terminal => e.phase \in {entry[a].phase, "none"}
    PROVE  EndKept
  BY DEF EndKept, SlotsInv, Slots

\* While a task runs no end is shown.
LEMMA TaskBeforeEnd ==
    ASSUME SlotsInv, NEW a \in Attempts, task[a].pc # "idle"
    PROVE  entry[a].phase \notin Terminal
  BY SlotAt DEF RegistryOk, Terminal

\* The user's steps leave the end of an attempt that has one.
LEMMA UserKeepsEnd ==
    ASSUME SlotsInv, NEW a \in Attempts, UserStep(a)
    PROVE  EndKept
<1>1. ASSUME NEW c \in Conns, NEW k \in Kinds, Begin(a, c, k) PROVE EndKept
  <2>1. entry[a].phase = "none"
    BY <1>1 DEF Begin
  <2>2. PICK e : entry' = [entry EXCEPT ![a] = e]
    BY <1>1 DEF Begin
  <2> QED BY <2>1, <2>2, OneEntry DEF Terminal
<1>2. CASE AwaitConfirmation(a) \/ Dispatch(a)
  <2>1. entry[a].phase \notin Terminal
    BY <1>2 DEF AwaitConfirmation, Dispatch, Reviewable, Terminal
  <2>2. PICK e : entry' = [entry EXCEPT ![a] = e]
    BY <1>2 DEF AwaitConfirmation, Dispatch
  <2> QED BY <2>1, <2>2, OneEntry
<1>3. CASE Cancel(a)
  <2>1. entry[a].phase \in Terminal => CancelledEntry(entry[a], job[a]) = entry[a]
    BY DEF CancelledEntry
  <2>2. entry' = [entry EXCEPT ![a] = CancelledEntry(entry[a], job[a])]
    BY <1>3 DEF Cancel
  <2> QED BY <2>1, <2>2, OneEntry
<1>4. CASE Release(a)
  BY <1>4, OneEntry DEF Release, NoEntry
<1> QED BY <1>1, <1>2, <1>3, <1>4 DEF UserStep

\* A task's steps leave the end of an attempt that has one.
LEMMA TaskKeepsEnd ==
    ASSUME SlotsInv, NEW a \in Attempts, TaskStep(a)
    PROVE  EndKept
<1>1. entry[a].phase \notin Terminal
  BY TaskBeforeEnd DEF TaskStep, PrepareAdmits, PrepareReady, PrepareFails, DispatchAdmits,
      DispatchRetires, DispatchStarts, TaskCleans, TaskFinishes
<1>2. CASE UNCHANGED entry
  BY <1>2 DEF EndKept
<1>3. CASE \E e : entry' = [entry EXCEPT ![a] = e]
  BY <1>1, <1>3, OneEntry
<1>4. CASE PrepareReady(a)
  BY <1>2, <1>3, <1>4 DEF PrepareReady
<1>5. CASE DispatchStarts(a)
  <2>1. \/ UNCHANGED entry
        \/ entry' = [entry EXCEPT ![a].held = FALSE]
        \/ entry' = [entry EXCEPT ![a].held = FALSE, ![a].job = TRUE]
    BY <1>5 DEF DispatchStarts
  <2>2. CASE entry' = [entry EXCEPT ![a].held = FALSE, ![a].job = TRUE]
    <3>1. entry' = [entry EXCEPT ![a] = [entry[a] EXCEPT !.held = FALSE, !.job = TRUE]]
      BY <2>2, SlotAt DEF SlotsInv, Slots, EntryType
    <3> QED BY <1>3, <3>1
  <2>3. CASE entry' = [entry EXCEPT ![a].held = FALSE]
    BY <1>3, <2>3
  <2> QED BY <1>2, <2>1, <2>2, <2>3
<1>6. CASE TaskCleans(a)
  BY <1>2, <1>3, <1>6 DEF TaskCleans, CleansResources, KeepsResources
<1>7. CASE TaskFinishes(a)
  BY <1>3, <1>7 DEF TaskFinishes
<1>8. CASE PrepareAdmits(a) \/ PrepareFails(a) \/ DispatchAdmits(a) \/ DispatchRetires(a)
  BY <1>2, <1>8 DEF PrepareAdmits, PrepareFails, DispatchAdmits, DispatchRetires
<1> QED BY <1>4, <1>5, <1>6, <1>7, <1>8 DEF TaskStep

\* A late snapshot does not cover the end: once it is shown, the monitor sees
\* the same end again.
LEMMA MonitorKeepsEnd ==
    ASSUME SlotsInv, NEW a \in Attempts, MonitorStep(a) \/ MonitorOverdue(a)
    PROVE  EndKept
<1>1. CASE UNCHANGED entry
  BY <1>1 DEF EndKept
<1>2. CASE MonitorCancels(a)
  <2>1. entry[a].phase \notin Terminal /\ \E e : entry' = [entry EXCEPT ![a] = e]
    BY <1>2 DEF MonitorCancels, TeardownSeen
  <2> QED BY <2>1, OneEntry
<1>3. CASE MonitorFinished(a)
  <2>1. entry[a].phase \notin Terminal
    BY <1>3, SlotAt DEF MonitorFinished, RegistryOk, Terminal
  <2>2. \E e : entry' = [entry EXCEPT ![a] = e]
    BY <1>3 DEF MonitorFinished
  <2> QED BY <2>1, <2>2, OneEntry
<1>4. CASE MonitorPublishes(a)
  <2>1. entry[a].phase \in Terminal => monitor[a].seen = entry[a].phase
    BY <1>4, SlotAt DEF MonitorPublishes, ShownOk, RegistryOk
  <2> DEFINE e == [entry[a] EXCEPT !.phase = monitor[a].seen,
                                   !.effect = ShownEffect(monitor[a].seen, monitor[a].dispatched)]
  <2>2. entry' = [entry EXCEPT ![a] = e]
    BY <1>4 DEF MonitorPublishes, SlotsInv, Slots, EntryType
  <2>3. e.phase = monitor[a].seen
    BY SlotAt DEF EntryType
  <2> HIDE DEF e
  <2> QED BY <2>1, <2>2, <2>3, OneEntry
<1>5. CASE \/ MonitorCleans(a) \/ MonitorObserves(a) \/ MonitorRetires(a)
           \/ MonitorArchives(a) \/ MonitorOverdue(a)
  <2>1. PICK held, retired, cleanup :
            \/ UNCHANGED entry
            \/ entry' = [entry EXCEPT ![a].held = held]
            \/ entry' = [entry EXCEPT ![a].retired = retired]
            \/ entry' = [entry EXCEPT ![a].cleanup = cleanup]
    BY <1>5 DEF MonitorCleans, CleansResources, KeepsResources, MonitorObserves, MonitorRetires,
        MonitorArchives, MonitorOverdue
  <2>2. \A b \in Attempts : entry'[b].phase = entry[b].phase
    BY <2>1 DEF SlotsInv, Slots, EntryType
  <2> QED BY <2>2 DEF EndKept
<1>6. CASE MonitorFinishes(a) \/ MonitorEnds(a)
  BY <1>1, <1>6 DEF MonitorFinishes, MonitorEnds
<1> QED BY <1>2, <1>3, <1>4, <1>5, <1>6 DEF MonitorStep

\* The runner never writes an entry of the registry.
LEMMA WorkerKeepsEntries ==
    ASSUME NEW a, \/ WorkerStep(a) \/ ProcessStopped(a) \/ ReaperEnds(a)
                  \/ \E state \in {"ok", "err"} : ChildExits(a, state)
    PROVE  UNCHANGED entry
  BY DEF WorkerStep, WorkerPreflight, WorkerRunning, ProcessSpawns, ProcessCancelled,
      ProcessExited, WorkerReaped, WorkerExited, FinalizeBackup, FinalizeRestore,
      ClaimPublication, Publish, Judge, PublishTerminal, ProcessStopped, ReaperEnds, ChildExits,
      registryVars

\* The host's steps leave the end of an attempt that has one.
LEMMA HostKeepsEnd ==
    ASSUME SlotsInv, ChangeStep \/ HostStep
    PROVE  EndKept
<1>1. CASE ShutdownCloses
  BY <1>1 DEF ShutdownCloses, EndKept, CancelledEntry
<1>2. CASE UNCHANGED entry
  BY <1>2 DEF EndKept
<1>3. ShutdownCloses \/ UNCHANGED entry
  BY DEF ChangeStep, HostStep, ChangeFences, ChangeWaited, ChangeEnds, OpenDocument,
      CloseDocument, ChangeBegins, ShutdownFences, registryVars
<1> QED BY <1>1, <1>2, <1>3

\* What the registry shows of an attempt that ended does not change again until
\* the attempt is released.
THEOREM EndAlwaysStays == Spec => EndStays
<1>1. ToolInv /\ [Next]_vars => EndKept
  <2> SUFFICES ASSUME ToolInv, [Next]_vars PROVE EndKept
    OBVIOUS
  <2>1. CASE UNCHANGED vars
    BY <2>1 DEF vars, EndKept
  <2>2. CASE ChangeStep \/ HostStep
    BY <2>2, HostKeepsEnd DEF ToolInv
  <2>3. ASSUME NEW a \in Attempts, UserStep(a) \/ TaskStep(a) \/ MonitorStep(a) \/ MonitorOverdue(a)
        PROVE  EndKept
    BY <2>3, UserKeepsEnd, TaskKeepsEnd, MonitorKeepsEnd DEF ToolInv
  <2>4. ASSUME NEW a \in Attempts,
               \/ WorkerStep(a) \/ ProcessStopped(a) \/ ReaperEnds(a)
               \/ \E state \in {"ok", "err"} : ChildExits(a, state)
        PROVE  EndKept
    <3>1. UNCHANGED entry
      BY <2>4, WorkerKeepsEntries
    <3> QED BY <3>1 DEF EndKept
  <2> QED BY <2>1, <2>2, <2>3, <2>4 DEF Next
<1> QED BY <1>1, ToolAlways, PTL DEF Spec, EndStays, EndKept

----------------------------------------------------------------------------
(* Whom a change can be waiting for.  It found the attempts of its scope    *)
(* settled under the gate, so one that it meets at its fence began since    *)
(* and has not passed the gate: it has no job, holds no private file, and   *)
(* its task is on its way out or does not know yet that it must go.         *)

Tame(t, p, j, f) ==
    /\ ~j.active
    /\ \/ t.pc = "idle" /\ p.state = "none"
       \/ t.pc = "prepare" /\ ~f.private
       \/ t.pc = "cleaning" /\ t.error # "Cleanup" /\ ~f.private
       \/ t.pc = "cleaned" /\ p.state = "none"

TameAt(a) == Tame(task[a], pending[a], job[a], files[a])

WaitInv ==
    /\ change.at.pc \in {"checked", "waiting"} =>
        \A a \in InScope(change.at.scope) \cup change.at.waits : TameAt(a)
    /\ change.at.pc = "waiting" => \A a \in change.at.waits : pending[a].state # "open"

\* The slots of every attempt but one are left alone.
OthersKept(a) ==
    \A b \in Attempts \ {a} :
        /\ entry'[b] = entry[b] /\ task'[b] = task[b] /\ pending'[b] = pending[b]
        /\ job'[b] = job[b] /\ files'[b] = files[b]

\* A step of one attempt that leaves the change keeps the wait as it is, when the
\* attempt stays on its connection, or leaves all, and as tame as it was.
LEMMA WaitOne ==
    ASSUME ToolInv, WaitInv, NEW a \in Attempts, change' = change, OthersKept(a),
           entry'[a].conn = entry[a].conn \/ entry'[a].conn = Global,
           change.at.pc \in {"checked", "waiting"} /\ TameAt(a) => TameAt(a)',
           pending'[a].state = "open" => pending[a].state = "open"
    PROVE  WaitInv'
<1>1. \A b \in Attempts : b # a =>
        TameAt(b)' = TameAt(b) /\ pending'[b] = pending[b] /\ entry'[b] = entry[b]
  BY DEF TameAt, OthersKept
<1>2. change.at.scope \in Scopes /\ change.at.waits \subseteq Attempts
  BY DEF ToolInv, HostTypes
<1>3. \A b \in Attempts : b \in InScope(change.at.scope)' => b \in InScope(change.at.scope)
  BY <1>1, <1>2 DEF InScope, Scopes
<1> QED BY <1>1, <1>2, <1>3 DEF WaitInv, InScope

\* A step that keeps those slots keeps the wait.
LEMMA WaitKept ==
    ASSUME WaitInv, UNCHANGED <<entry, task, pending, job, files, change>>
    PROVE  WaitInv'
  BY DEF WaitInv, InScope, TameAt

\* Under the gate of a change a task can only leave: a prepare that passes was
\* cancelled, and its cleanup finds no file.
LEMMA TaskKeepsWait ==
    ASSUME ToolInv, WaitInv, NEW a \in Attempts, TaskStep(a)
    PROVE  WaitInv'
<1> USE DEF ToolInv
<1>0. change' = change /\ Slots
  BY SlotAt DEF TaskStep, PrepareAdmits, PrepareReady, PrepareFails, DispatchAdmits,
      DispatchRetires, DispatchStarts, TaskCleans, TaskFinishes, hostVars, SlotsInv
<1>1. change.at.pc \in {"checked", "waiting"} => gate # Nobody
  BY ToolJobsAssumption DEF GateInv
<1>2. CASE PrepareAdmits(a)
  <2>1. /\ UNCHANGED <<entry, pending, job, files>> /\ task[a].pc = "prepare"
        /\ \A b \in Attempts \ {a} : task'[b] = task[b]
        /\ ~entry[a].cancel => gate = Nobody
        /\ entry[a].cancel => task'[a] = [pc |-> "cleaning", error |-> "Cancelled"]
    BY <1>2, <1>0 DEF PrepareAdmits, PassesGate, Fails, managerVars, runnerVars, Slots, TaskType
  <2>2. change.at.pc \in {"checked", "waiting"} /\ TameAt(a) => TameAt(a)'
    BY <1>1, <2>1 DEF Tame, TameAt
  <2>3. OthersKept(a)
    BY <2>1 DEF OthersKept
  <2> QED BY <1>0, <2>1, <2>2, <2>3, WaitOne
<1>3. CASE TaskCleans(a)
  <2>1. /\ entry'[a].conn = entry[a].conn /\ task[a].pc = "cleaning" /\ job' = job
        /\ pending'[a].state = "open" => pending[a].state = "open"
        /\ \/ task'[a].pc = "cleaned" /\ pending'[a].state = "none"
           \/ task[a].error = "Cleanup" \/ files[a].private
    BY <1>3, <1>0 DEF TaskCleans, CleansResources, KeepsResources, DropsAdmission, NoPending,
        Slots, EntryType, TaskType
  <2>2. OthersKept(a)
    BY <1>3, <1>0 DEF TaskCleans, CleansResources, KeepsResources, DropsAdmission, Slots, OthersKept
  <2>3. TameAt(a) => TameAt(a)'
    BY <2>1 DEF Tame, TameAt
  <2> QED BY <1>0, <2>1, <2>2, <2>3, WaitOne
<1>4. CASE TaskFinishes(a)
  <2>1. /\ UNCHANGED <<pending, job, files>> /\ task[a].pc \in {"cleaned", "uncleaned"}
        /\ task'[a].pc = "idle" /\ entry'[a].conn = entry[a].conn
        /\ \A b \in Attempts \ {a} : entry'[b] = entry[b] /\ task'[b] = task[b]
    BY <1>4, <1>0 DEF TaskFinishes, Finished, managerVars, runnerVars, Slots, EntryType
  <2>2. OthersKept(a)
    BY <2>1 DEF OthersKept
  <2>3. TameAt(a) => TameAt(a)'
    BY <2>1 DEF Tame, TameAt
  <2> QED BY <1>0, <2>1, <2>2, <2>3, WaitOne
<1>5. CASE \/ PrepareReady(a) \/ PrepareFails(a) \/ DispatchAdmits(a) \/ DispatchRetires(a)
  <2>1. ~TameAt(a)
    BY <1>5 DEF Tame, TameAt, PrepareReady, PrepareFails, DispatchAdmits, DispatchRetires
  <2>2. UNCHANGED <<pending, job>> /\ entry'[a].conn = entry[a].conn
    BY <1>5, <1>0 DEF PrepareReady, PrepareFails, DispatchAdmits, DispatchRetires, managerVars,
        Slots, EntryType
  <2>3. OthersKept(a)
    BY <1>5, <1>0, <2>2 DEF PrepareReady, PrepareFails, DispatchAdmits, DispatchRetires, Fails,
        runnerVars, Slots, OthersKept
  <2> QED BY <1>0, <2>1, <2>2, <2>3, WaitOne
<1>6. CASE DispatchStarts(a)
  <2>1. ~TameAt(a)
    BY <1>6 DEF Tame, TameAt, DispatchStarts
  <2>2. entry'[a].conn = entry[a].conn
    <3>1. \/ entry' = entry
          \/ entry' = [entry EXCEPT ![a].held = FALSE]
          \/ entry' = [entry EXCEPT ![a].held = FALSE, ![a].job = TRUE]
      BY <1>6 DEF DispatchStarts
    <3> QED BY <3>1, <1>0 DEF Slots, EntryType
  <2>4. pending'[a].state = "open" => pending[a].state = "open"
    <3>1. pending' = pending \/ pending' = [pending EXCEPT ![a] = NoPending]
      BY <1>6 DEF DispatchStarts, DropsAdmission
    <3> QED BY <3>1, <1>0 DEF NoPending, Slots
  <2>3. OthersKept(a)
    BY <1>6, <1>0 DEF DispatchStarts, DropsAdmission, Fails, Slots, OthersKept
  <2> QED BY <1>0, <2>1, <2>2, <2>3, <2>4, WaitOne
<1> QED BY <1>2, <1>3, <1>4, <1>5, <1>6 DEF TaskStep

\* A monitor cleans up and shows; it takes nothing on.
LEMMA MonitorKeepsWait ==
    ASSUME ToolInv, WaitInv, NEW a \in Attempts, MonitorStep(a) \/ MonitorOverdue(a)
    PROVE  WaitInv'
<1> USE DEF ToolInv
<1>0. Slots /\ change' = change /\ UNCHANGED <<task, job>>
  BY DEF MonitorStep, MonitorCancels, MonitorFinishes, MonitorCleans, MonitorFinished, MonitorEnds,
      MonitorObserves, MonitorRetires, MonitorPublishes, MonitorArchives, MonitorOverdue,
      hostVars, managerVars, SlotsInv
<1>1. CASE MonitorCleans(a)
  <2>1. /\ entry'[a].conn = entry[a].conn
        /\ files'[a].private => files[a].private
        /\ pending'[a].state \in {"none", pending[a].state}
    BY <1>0, <1>1 DEF MonitorCleans, CleansResources, KeepsResources, DropsAdmission, NoPending,
        Slots, EntryType, FilesType
  <2>2. OthersKept(a)
    BY <1>0, <1>1 DEF MonitorCleans, CleansResources, KeepsResources, DropsAdmission, Slots, OthersKept
  <2>3. TameAt(a) => TameAt(a)'
    BY <1>0, <2>1 DEF Tame, TameAt
  <2> QED BY <1>0, <2>1, <2>2, <2>3, WaitOne
<1>2. CASE MonitorArchives(a)
  <2>1. /\ entry'[a].conn = entry[a].conn /\ pending' = pending
        /\ files'[a].private => files[a].private
    BY <1>0, <1>2 DEF MonitorArchives, managerVars, Slots, EntryType, FilesType
  <2>2. OthersKept(a)
    BY <1>0, <1>2 DEF MonitorArchives, managerVars, Slots, OthersKept
  <2>3. TameAt(a) => TameAt(a)'
    BY <1>0, <2>1 DEF Tame, TameAt
  <2> QED BY <1>0, <2>1, <2>2, <2>3, WaitOne
<1>3. CASE \/ MonitorCancels(a) \/ MonitorFinishes(a) \/ MonitorFinished(a) \/ MonitorEnds(a)
           \/ MonitorObserves(a) \/ MonitorRetires(a) \/ MonitorPublishes(a) \/ MonitorOverdue(a)
  <2>1. UNCHANGED <<pending, files>>
    BY <1>3 DEF MonitorCancels, MonitorFinishes, MonitorFinished, MonitorEnds, MonitorObserves,
        MonitorRetires, MonitorPublishes, MonitorOverdue, managerVars, runnerVars
  <2>2. \A b \in Attempts : entry'[b].conn = entry[b].conn /\ (b # a => entry'[b] = entry[b])
    <3>1. CASE MonitorFinishes(a) \/ MonitorEnds(a)
      BY <3>1 DEF MonitorFinishes, MonitorEnds
    <3>2. CASE MonitorCancels(a)
      <4>1. CancelledEntry(entry[a], job[a]).conn = entry[a].conn
        BY <1>0 DEF CancelledEntry, Slots, EntryType
      <4> HIDE DEF CancelledEntry
      <4> QED BY <1>0, <3>2, <4>1 DEF MonitorCancels, Slots
    <3>5. CASE MonitorFinished(a)
      <4>1. Finished(entry[a], "Cancelled", monitor[a].pc = "cleaned").conn = entry[a].conn
        BY <1>0 DEF Finished, Slots, EntryType
      <4> QED BY <1>0, <3>5, <4>1 DEF MonitorFinished, Slots
    <3>3. CASE MonitorObserves(a)
      BY <1>0, <3>3 DEF MonitorObserves, Slots, EntryType
    <3>4. CASE MonitorRetires(a) \/ MonitorPublishes(a) \/ MonitorOverdue(a)
      BY <1>0, <3>4 DEF MonitorRetires, MonitorPublishes, MonitorOverdue, Slots, EntryType
    <3> QED BY <1>3, <3>1, <3>2, <3>3, <3>4, <3>5
  <2>3. OthersKept(a) /\ TameAt(a)' = TameAt(a)
    BY <1>0, <2>1, <2>2 DEF OthersKept, TameAt
  <2> QED BY <1>0, <2>1, <2>2, <2>3, WaitOne
<1> QED BY <1>1, <1>2, <1>3 DEF MonitorStep

\* An attempt whose job runs is none that a change waits for.
LEMMA WorkerKeepsWait ==
    ASSUME ToolInv, WaitInv, NEW a \in Attempts,
           \/ WorkerStep(a) \/ ProcessStopped(a) \/ ReaperEnds(a)
           \/ \E state \in {"ok", "err"} : ChildExits(a, state)
    PROVE  WaitInv'
<1> USE DEF ToolInv
<1>1. PICK j, w, c, f : Work(a, j, w, c, f)
  BY WorkerWorks DEF WorkMove
<1>2. job[a].active /\ Slots
  BY <1>1, SlotAt DEF Work, JobOk, NoWorker, SlotsInv
<1>3. UNCHANGED <<entry, task, pending, change>> /\ ~TameAt(a)
  BY <1>1, <1>2 DEF Work, TameAt, Tame
<1>4. OthersKept(a)
  BY <1>1, <1>2 DEF Work, OthersKept, Slots
<1> QED BY <1>3, <1>4, WaitOne

\* What has begun since the gate was taken waits for it in its prepare; what was
\* not settled by then is in no scope of the change.
LEMMA UserKeepsWait ==
    ASSUME ToolInv, WaitInv, NEW a \in Attempts, UserStep(a)
    PROVE  WaitInv'
<1> USE DEF ToolInv
<1>0. Slots
  BY DEF SlotsInv
<1>1. ASSUME NEW c \in Conns, NEW k \in Kinds, Begin(a, c, k) PROVE WaitInv'
  <2>1. entry[a].phase = "none" /\ ~files[a].private /\ ~job[a].active
    BY <1>1, SlotAt DEF Begin, RegistryOk, NoEntry, JobOk, NoJob
  <2>2. /\ task'[a].pc = "prepare" /\ UNCHANGED <<job, files>>
        /\ change'.at.waits = change.at.waits \ {a} /\ change'.at.pc = change.at.pc
        /\ change'.at.scope = change.at.scope
        /\ change.at.waits \subseteq Attempts
    BY <1>0, <1>1 DEF Begin, runnerVars, HostTypes, Slots, TaskType
  <2>3. TameAt(a)'
    BY <2>1, <2>2 DEF TameAt, Tame
  <2>4. OthersKept(a)
    BY <1>0, <1>1 DEF Begin, runnerVars, OthersKept, Slots
  <2>5. \A b \in Attempts : b # a =>
            /\ TameAt(b)' = TameAt(b) /\ pending'[b] = pending[b]
            /\ b \in InScope(change.at.scope)' => b \in InScope(change.at.scope)
    <3>1. change'.at.scope = change.at.scope
      BY <2>2
    <3> QED BY <2>4, <3>1 DEF OthersKept, TameAt, InScope
  <2> HIDE DEF TameAt
  <2> QED BY <2>2, <2>3, <2>5 DEF WaitInv, InScope
<1>2. CASE AwaitConfirmation(a)
  <2>1. /\ UNCHANGED <<task, pending, job, files, change>>
        /\ entry' = [entry EXCEPT ![a].phase = "AwaitingConfirmation"]
    BY <1>2 DEF AwaitConfirmation, managerVars, runnerVars, hostVars
  <2>2. entry'[a].conn = entry[a].conn /\ OthersKept(a) /\ TameAt(a)' = TameAt(a)
    BY <1>0, <2>1 DEF Slots, EntryType, OthersKept, TameAt
  <2> QED BY <2>1, <2>2, WaitOne
<1>3. CASE Dispatch(a)
  <2>1. /\ UNCHANGED <<pending, job, files, change>> /\ pending[a].state = "open"
        /\ entry' = [entry EXCEPT ![a].phase = "Queued"] /\ entry[a].phase \in Reviewable
        /\ task' = [task EXCEPT ![a].pc = "dispatch"]
    BY <1>3 DEF Dispatch, Current, managerVars, runnerVars, hostVars
  <2>2. task[a].pc = "idle"
    BY <2>1, SlotAt DEF RegistryOk, Reviewable
  <2>3. ~TameAt(a)
    BY <2>1, <2>2 DEF Tame, TameAt
  <2>4. entry'[a].conn = entry[a].conn /\ OthersKept(a)
    BY <1>0, <2>1 DEF Slots, EntryType, OthersKept
  <2> QED BY <2>1, <2>3, <2>4, WaitOne
<1>4. CASE Cancel(a)
  <2>1. CancelledEntry(entry[a], job[a]).conn = entry[a].conn
    BY <1>0 DEF CancelledEntry, Slots, EntryType
  <2>2. CancelledJob(entry[a], job[a]).active = job[a].active
    BY <1>0 DEF CancelledJob, CancelEntry, Slots, JobType
  <2>3. /\ UNCHANGED <<task, pending, files, change>>
        /\ entry' = [entry EXCEPT ![a] = CancelledEntry(entry[a], job[a])]
        /\ job' = [job EXCEPT ![a] = CancelledJob(entry[a], job[a])]
    BY <1>4 DEF Cancel, runnerVars, hostVars
  <2>4. entry'[a].conn = entry[a].conn /\ job'[a].active = job[a].active /\ OthersKept(a)
    BY <1>0, <2>1, <2>2, <2>3 DEF Slots, OthersKept
  <2>5. TameAt(a) => TameAt(a)'
    BY <2>3, <2>4 DEF Tame, TameAt
  <2> QED BY <2>3, <2>4, <2>5, WaitOne
<1>5. CASE Release(a)
  <2>1. /\ UNCHANGED <<task, pending, change>> /\ entry'[a].conn = Global
        /\ ~job'[a].active /\ ~files'[a].private /\ OthersKept(a)
    BY <1>0, <1>5 DEF Release, hostVars, NoEntry, NoJob, NoFiles, Slots, OthersKept
  <2>2. TameAt(a) => TameAt(a)'
    BY <2>1 DEF Tame, TameAt
  <2> QED BY <2>1, <2>2, WaitOne
<1> QED BY <1>1, <1>2, <1>3, <1>4, <1>5 DEF UserStep

\* A fence cancels admissions and jobs; it starts none.
LEMMA TeardownTame ==
    ASSUME Slots, NEW s \in Scopes, Teardown(s)
    PROVE  \A a \in Attempts :
                /\ job'[a].active = job[a].active
                /\ pending'[a].state = "none" <=> pending[a].state = "none"
                /\ pending'[a].state = "open" => pending[a].state = "open" /\ a \notin InScope(s)
<1> SUFFICES ASSUME NEW a \in Attempts
             PROVE  /\ job'[a].active = job[a].active
                    /\ pending'[a].state = "none" <=> pending[a].state = "none"
                    /\ pending'[a].state = "open" => pending[a].state = "open" /\ a \notin InScope(s)
  OBVIOUS
<1>1. job'[a].active = job[a].active
  <2>1. job'[a] = IF a \in InScope(s) THEN CancelEntry(job[a]) ELSE job[a]
    BY DEF Teardown
  <2>2. CancelEntry(job[a]).active = job[a].active
    BY DEF CancelEntry, Slots, JobType
  <2> QED BY <2>1, <2>2
<1>2. pending'[a] = IF a \in InScope(s) \cap Held THEN [pending[a] EXCEPT !.state = "cancelled"] ELSE pending[a]
  BY DEF Teardown
<1>3. pending[a] \in PendingType /\ (a \in Held <=> pending[a].state # "none")
  BY DEF Slots, Held
<1> QED BY <1>1, <1>2, <1>3 DEF PendingType

\* A settled attempt is tame.
LEMMA SettledTame ==
    ASSUME SlotsInv, NEW a \in Attempts, ~Busy(a), Settled(a)
    PROVE  TameAt(a)
<1>1. task[a].pc = "idle"
  BY DEF Settled
<1>2. CASE entry[a].phase = "none"
  <2>1. entry[a] = NoEntry
    BY <1>2, SlotAt DEF RegistryOk
  <2>2. pending[a].state = "none" /\ ~job[a].active
    BY <2>1, SlotAt DEF RegistryOk, JobOk, NoEntry, NoJob
  <2> QED BY <1>1, <2>2 DEF TameAt, Tame
<1>3. CASE entry[a].cleanup = "Complete"
  <2>1. pending[a].state = "none" /\ ~job[a].active
    BY <1>3, SlotAt DEF RegistryOk, Clean, JobOk, NoJob
  <2> QED BY <1>1, <2>1 DEF TameAt, Tame
<1> QED BY <1>2, <1>3 DEF Busy

\* The change itself, and what else the host does.
LEMMA HostKeepsWait ==
    ASSUME ToolInv, WaitInv, ChangeStep \/ HostStep
    PROVE  WaitInv'
<1> USE DEF ToolInv
<1>0. Slots /\ change.at.scope \in Scopes /\ change.at.waits \subseteq Attempts
  BY DEF SlotsInv, HostTypes
<1>1. CASE ChangeFences
  <2>1. /\ Teardown(change.at.scope) /\ UNCHANGED <<entry, task, files>> /\ change.at.pc = "checked"
        /\ change'.at.scope = change.at.scope
        /\ change'.at.waits = InScope(change.at.scope) \cap (Live(Attempts) \cup Held)
    BY <1>1, <1>0 DEF ChangeFences, registryVars, runnerVars, HostTypes
  <2>2. \A a \in Attempts :
            /\ job'[a].active = job[a].active
            /\ pending'[a].state = "none" <=> pending[a].state = "none"
            /\ pending'[a].state = "open" => a \notin InScope(change.at.scope)
    BY <1>0, <2>1, TeardownTame
  <2>3. \A a \in InScope(change.at.scope) : a \in Attempts /\ TameAt(a)
    BY <2>1 DEF WaitInv, InScope
  <2>4. \A a \in InScope(change.at.scope) : TameAt(a)'
    BY <2>1, <2>2, <2>3 DEF TameAt, Tame
  <2>5. InScope(change.at.scope)' = InScope(change.at.scope)
    BY <2>1 DEF InScope
  <2> HIDE DEF TameAt
  <2> QED BY <2>1, <2>2, <2>3, <2>4, <2>5 DEF WaitInv, InScope
<1>2. ASSUME NEW waited \in BOOLEAN, ChangeWaited(waited) PROVE WaitInv'
  BY <1>2 DEF ChangeWaited, WaitInv, HostTypes
<1>3. CASE ChangeEnds
  BY <1>3 DEF ChangeEnds, WaitInv, HostTypes, Unchanging
<1>4. ASSUME NEW s \in Scopes, ChangeBegins(s) PROVE WaitInv'
  <2>1. /\ ConnectionSettled(s) /\ UNCHANGED <<entry, task, pending, job, files>>
        /\ change'.at.pc = "checked" /\ change'.at.scope = s /\ change'.at.waits = {}
    BY <1>4 DEF ChangeBegins, registryVars, managerVars, runnerVars, Unchanging
  <2>2. \A a \in InScope(s) : TameAt(a)
    BY <2>1, SettledTame DEF ConnectionSettled, InScope
  <2> QED BY <2>1, <2>2 DEF WaitInv, InScope, TameAt
<1>5. CASE ShutdownCloses
  <2>1. /\ UNCHANGED <<task, pending, files, change>>
        /\ entry' = [a \in Attempts |-> CancelledEntry(entry[a], job[a])]
        /\ job' = [a \in Attempts |-> CancelledJob(entry[a], job[a])]
    BY <1>5 DEF ShutdownCloses, runnerVars
  <2>2. \A a \in Attempts : /\ CancelledEntry(entry[a], job[a]).conn = entry[a].conn
                             /\ CancelledJob(entry[a], job[a]).active = job[a].active
    BY <1>0 DEF CancelledEntry, CancelledJob, CancelEntry, Slots, JobType, EntryType
  <2>3. \A a \in Attempts : entry'[a].conn = entry[a].conn /\ job'[a].active = job[a].active
    BY <2>1, <2>2
  <2>4. \A s \in Scopes : InScope(s)' = InScope(s)
    BY <2>3 DEF InScope
  <2>5. \A a \in Attempts : TameAt(a)' = TameAt(a)
    BY <2>1, <2>3 DEF TameAt, Tame
  <2> HIDE DEF TameAt
  <2> QED BY <1>0, <2>1, <2>4, <2>5 DEF WaitInv, InScope
<1>6. CASE ShutdownFences
  <2>1. Teardown(Global) /\ Global \in Scopes /\ UNCHANGED <<entry, task, files, change>>
    BY <1>6 DEF ShutdownFences, registryVars, runnerVars, Scopes
  <2>2. \A a \in Attempts :
            /\ job'[a].active = job[a].active
            /\ pending'[a].state = "none" <=> pending[a].state = "none"
            /\ pending'[a].state = "open" => pending[a].state = "open"
    BY <1>0, <2>1, TeardownTame
  <2>3. \A a \in Attempts : TameAt(a) => TameAt(a)'
    BY <2>1, <2>2 DEF TameAt, Tame
  <2>4. InScope(change.at.scope)' = InScope(change.at.scope)
    BY <2>1 DEF InScope
  <2> HIDE DEF TameAt
  <2> QED BY <1>0, <2>1, <2>2, <2>3, <2>4 DEF WaitInv, InScope
<1>7. ASSUME NEW c \in Conns, OpenDocument(c) \/ CloseDocument(c) PROVE WaitInv'
  <2>1. UNCHANGED <<entry, task, pending, job, files, change>>
    BY <1>7 DEF OpenDocument, CloseDocument, registryVars, managerVars, runnerVars
  <2> QED BY <2>1, WaitKept
<1> QED BY <1>1, <1>2, <1>3, <1>4, <1>5, <1>6, <1>7 DEF ChangeStep, HostStep

\* While a change waits at its fence, holding the gate that the tasks it waits for
\* need, each of them passes the gate, is about to be cancelled, or ends with a
\* cleanup that cannot fail.
THEOREM FenceNeverStuck == Spec => []FenceNotStuck
<1>1. Init => WaitInv
  BY DEF Init, WaitInv, Unchanging
<1>2. ToolInv /\ WaitInv /\ [Next]_vars => WaitInv'
  <2> SUFFICES ASSUME ToolInv, WaitInv, [Next]_vars PROVE WaitInv'
    OBVIOUS
  <2>1. CASE UNCHANGED vars
    BY <2>1, WaitKept DEF vars
  <2>2. CASE ChangeStep \/ HostStep
    BY <2>2, HostKeepsWait
  <2>3. ASSUME NEW a \in Attempts,
               \/ UserStep(a) \/ TaskStep(a) \/ WorkerStep(a) \/ MonitorStep(a)
               \/ ProcessStopped(a) \/ ReaperEnds(a) \/ MonitorOverdue(a)
               \/ \E state \in {"ok", "err"} : ChildExits(a, state)
        PROVE  WaitInv'
    BY <2>3, UserKeepsWait, TaskKeepsWait, WorkerKeepsWait, MonitorKeepsWait
  <2> QED BY <2>1, <2>2, <2>3 DEF Next
<1>3. ToolInv /\ WaitInv => FenceNotStuck
  <2> SUFFICES ASSUME ToolInv, WaitInv, change.at.pc = "waiting", NEW a \in change.at.waits
               PROVE  \/ Done(a)
                      \/ task[a].pc = "prepare" /\ (PassesGate(a) \/ TeardownSeen(a))
                      \/ task[a].pc = "cleaning" /\ task[a].error # "Cleanup" /\ ~files[a].private
    BY DEF FenceNotStuck
  <2>1. a \in Attempts /\ TameAt(a) /\ pending[a].state # "open"
    BY DEF WaitInv, ToolInv, HostTypes
  <2>2. ASSUME task[a].pc = "prepare", pending[a].state = "cancelled", ~entry[a].cancel
        PROVE  TeardownSeen(a)
    <3>1. entry[a].phase \in {"Preparing", "Queued", "Cancelling"}
      BY <2>1, <2>2, SlotAt DEF ToolInv, RegistryOk
    <3>2. monitor[a].pc = "loop"
      BY <2>1, <2>2, <3>1, SlotAt DEF ToolInv, RegistryOk, Terminal, MonitorType
    <3> QED BY <2>2, <3>1, <3>2 DEF TeardownSeen, Terminal
  <2>3. pending[a].state \in {"none", "cancelled"}
    BY <2>1, SlotAt DEF ToolInv, PendingType
  <2> QED BY <2>1, <2>2, <2>3 DEF TameAt, Tame, Done, PassesGate
<1> QED BY <1>1, <1>2, <1>3, ToolAlways, PTL DEF Spec

=============================================================================
