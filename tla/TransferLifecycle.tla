------------------------- MODULE TransferLifecycle --------------------------
(***************************************************************************)
(* What the transfer list promises its readers about one background        *)
(* transfer: the life cycle of BackgroundTransferState                     *)
(* (crates/hapcli-sftp/src/transfer_manager.rs).                           *)
(*                                                                         *)
(* A run registers a transfer and later reports its result, once.  While   *)
(* the transfer is live its state moves freely; a finished one changes     *)
(* only by the report of a run that is still out, by a new registration,   *)
(* or by being forgotten.  Nothing but a run's own report says Completed.  *)
(* TransferManager implements this module.                                 *)
(***************************************************************************)
EXTENDS Naturals

CONSTANTS Transfers     \* transfer ids

VARIABLES
    state,              \* what the list shows for an id, "absent" for nothing
    running             \* runs of an id that have registered and not reported

Live == {"Pending", "Active", "Paused"}

\* BackgroundTransferState::is_finished
Finished == {"Completed", "Cancelled", "Error"}

LifecycleInit ==
    /\ state = [t \in Transfers |-> "absent"]
    /\ running = [t \in Transfers |-> 0]

\* A run registers: Pending, or Cancelled when the session is being released.
Enter(t) ==
    /\ \E s \in {"Pending", "Cancelled"} : state' = [state EXCEPT ![t] = s]
    /\ running' = [running EXCEPT ![t] = @ + 1]

\* A live transfer starts, makes progress, pauses, resumes or is interrupted.
Move(t) ==
    /\ state[t] \in Live
    /\ \E s \in {"Active", "Paused", "Error"}
                \union (IF state[t] = "Paused" THEN {"Pending"} ELSE {}) :
          state' = [state EXCEPT ![t] = s]
    /\ UNCHANGED running

\* The session is released: whatever is live is cancelled.
Sweep ==
    /\ state' = [t \in Transfers |-> IF state[t] \in Live THEN "Cancelled" ELSE state[t]]
    /\ UNCHANGED running

\* A run reports its result; a forgotten transfer stays forgotten.
Leave(t) ==
    /\ running[t] > 0
    /\ running' = [running EXCEPT ![t] = @ - 1]
    /\ \/ state[t] = "absent" /\ UNCHANGED state
       \/ state[t] # "absent" /\ \E s \in Finished : state' = [state EXCEPT ![t] = s]

\* Finished transfers are forgotten after a while.
Forget ==
    /\ \E old \in SUBSET {t \in Transfers : state[t] \in Finished} :
          state' = [t \in Transfers |-> IF t \in old THEN "absent" ELSE state[t]]
    /\ UNCHANGED running

LifecycleNext ==
    \/ \E t \in Transfers : Enter(t) \/ Move(t) \/ Leave(t)
    \/ Sweep
    \/ Forget

LifecycleSpec == LifecycleInit /\ [][LifecycleNext]_<<state, running>>
=============================================================================
