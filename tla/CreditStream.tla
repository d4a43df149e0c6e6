---------------------------- MODULE CreditStream ----------------------------
(***************************************************************************)
(* What one query session promises the host it streams to, without its     *)
(* locks, wakeups and mailbox: executions run one at a time, at most        *)
(* Window row batches are ever unacknowledged, the terminal event of an     *)
(* execution is sent only when none is, and a closed session stays closed. *)
(* QueryOutbox is shown to implement this specification.                   *)
(***************************************************************************)
EXTENDS Naturals

CONSTANT Window

VARIABLES
    phase,    \* what the session is doing, as its host can tell
    unacked   \* number of row batches sent and not acknowledged

streamVars == <<phase, unacked>>

Phases == {"idle", "running", "settling", "closed"}

StreamInit ==
    /\ phase = "idle"
    /\ unacked = 0

\* An execution is admitted only when no other one is unsettled.
Begin ==
    /\ phase = "idle"
    /\ phase' = "running"
    /\ UNCHANGED unacked

\* A row batch leaves only while the window has room.
Emit ==
    /\ phase = "running"
    /\ unacked < Window
    /\ unacked' = unacked + 1
    /\ UNCHANGED phase

\* One acknowledgement may cover several batches.
Acknowledge ==
    /\ unacked' \in 0..(unacked - 1)
    /\ UNCHANGED phase

\* The terminal event follows the acknowledgement of every row.
Finish ==
    /\ phase = "running"
    /\ unacked = 0
    /\ phase' = "settling"
    /\ UNCHANGED unacked

\* The execution settles when its terminal event is acknowledged.
Settle ==
    /\ phase = "settling"
    /\ phase' = "idle"
    /\ UNCHANGED unacked

Close ==
    /\ phase # "closed"
    /\ phase' = "closed"
    /\ UNCHANGED unacked

StreamNext == Begin \/ Emit \/ Acknowledge \/ Finish \/ Settle \/ Close

StreamSpec == StreamInit /\ [][StreamNext]_streamVars
=============================================================================
