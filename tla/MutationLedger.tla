--------------------------- MODULE MutationLedger ---------------------------
(***************************************************************************)
(* What the grid promises about the changes a user applies: each apply     *)
(* takes effect at most once and as a whole, the user is told the truth    *)
(* about it, and one that was stopped in time has no effect for ever.      *)
(* Only the loss of the connection may leave the outcome open.             *)
(***************************************************************************)

CONSTANT Applies

VARIABLES
    committed,   \* applies whose changes are durable in the database
    stopped,     \* applies that a cancel or a teardown met before their COMMIT
    told         \* what the user was told of each

ledgerVars == <<committed, stopped, told>>

(* "lost": the connection is gone, and nobody claims to know the outcome. *)
Told == {"nothing", "ok", "refused", "lost"}

LedgerInit ==
    /\ committed = {}
    /\ stopped = {}
    /\ told = [r \in Applies |-> "nothing"]

(* A stop is accepted until the changes are durable. *)
Stop(r) ==
    /\ r \notin committed
    /\ stopped' = stopped \cup {r}
    /\ UNCHANGED <<committed, told>>

(* A COMMIT that was sent may still arrive after the connection was lost. *)
Commit(r) ==
    /\ r \notin stopped /\ told[r] \in {"nothing", "lost"}
    /\ committed' = committed \cup {r}
    /\ UNCHANGED <<stopped, told>>

Tell(r, a) ==
    /\ told[r] = "nothing"
    /\ a = "ok" => r \in committed
    /\ a = "refused" => r \notin committed
    /\ told' = [told EXCEPT ![r] = a]
    /\ UNCHANGED <<committed, stopped>>

LedgerNext ==
    \E r \in Applies :
        Stop(r) \/ Commit(r) \/ \E a \in Told \ {"nothing"} : Tell(r, a)

LedgerSpec == LedgerInit /\ [][LedgerNext]_ledgerVars
=============================================================================
