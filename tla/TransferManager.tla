-------------------------- MODULE TransferManager ---------------------------
(***************************************************************************)
(* The SFTP transfer manager (crates/hapcli-sftp/src/transfer_manager.rs)  *)
(* together with the runs that use it, as native_plugin_scp_result starts  *)
(* them (crates/hapcli-plugin-host-api/src/scp.rs).                        *)
(*                                                                         *)
(* A run registers a control for its transfer id, shows the transfer in    *)
(* the list of background transfers, may queue for a permit, moves its     *)
(* data between checks of the control, reports the result and drops its    *)
(* guards.  Meanwhile an operator cancels, pauses, resumes, interrupts or  *)
(* changes the limit, the progress task delivers updates late, readers     *)
(* wait for a transfer to finish, and the session may be shut down.        *)
(*                                                                         *)
(* A step is one lock section or one atomic access.  A write to the list   *)
(* and the notify_waiters after it are one step: a reader that comes       *)
(* between them finds the write itself.                                    *)
(***************************************************************************)
EXTENDS Integers, FiniteSets

CONSTANTS
    Runs,           \* calls of native_plugin_scp_result, each made at most once
    Transfers,      \* transfer ids; two runs may be given the same one
    Nodes,          \* nodes that own transfers
    Permits,        \* MAX_SFTP_CONCURRENT_TRANSFERS, the size of the semaphore
    DefaultLimit,   \* DEFAULT_SFTP_CONCURRENT_TRANSFERS
    CallSets,       \* bound: the sets of public calls that meet in one behaviour
    None            \* no transfer, no node

ASSUME TransferManagerAssumption ==
    /\ IsFiniteSet(Runs)
    /\ Permits \in Nat \ {0}
    /\ DefaultLimit \in 1..Permits
    /\ None \notin Transfers \union Nodes

VARIABLES
    calls,          \* the public calls somebody makes in this behaviour
    controls,       \* controls: the registered control of each id
    table,          \* background_transfers: the state listed for each id
    run,            \* program counter and locals of each run
    progress,       \* ids with an update still in a progress channel
    operator,       \* the operator's call in progress
    reader,         \* a wait_background_transfer_finished call
    limit,          \* max_concurrent_transfers
    active,         \* active_count
    semaphore,      \* permits left in the semaphore
    shutdown,       \* shutdown_state
    stopper         \* program counter of shutdown_session_transfers

vars == <<calls, controls, table, run, progress, operator, reader, limit, active,
          semaphore, shutdown, stopper>>

-----------------------------------------------------------------------------
\* RegisteredTransferControl; an id without owners is not in the map.
Controls == [owners : Nat, node : Nodes \union {None}, cancelled : BOOLEAN,
             paused : BOOLEAN, interrupted : BOOLEAN]

NoControl == [owners |-> 0, node |-> None, cancelled |-> FALSE, paused |-> FALSE,
              interrupted |-> FALSE]

\* The three states is_finished answers true for.
Finished == {"Completed", "Cancelled", "Error"}

Unfinished == {"Pending", "Active", "Paused"}

IsLive(t) == table[t] \in Unfinished

\* Where a run is in native_plugin_scp_result and in the functions it calls.
Places == {"idle", "owned", "read", "queued", "limit", "asleep", "acquire", "count",
           "start", "nested", "check", "chunk", "unnest", "report", "drop", "notify",
           "permit", "release", "done"}

RunStates == [at : Places, id : Transfers \union {None}, saw : BOOLEAN,
              permit : BOOLEAN, woken : BOOLEAN, result : Finished \union {"none"}]

NoRun == [at |-> "idle", id |-> None, saw |-> FALSE, permit |-> FALSE,
          woken |-> FALSE, result |-> "none"]

\* The operator's second half: a table write for one id, further ids to interrupt,
\* or the notification that follows a new limit.
Operators == [call : {"none", "pause", "resume", "interrupt", "limit"},
              id : Transfers \union {None}, more : SUBSET Transfers]

NoCall == [call |-> "none", id |-> None, more |-> {}]

Readers == [at : {"idle", "look", "asleep"}, id : Transfers \union {None}, woken : BOOLEAN]

NoReader == [at |-> "idle", id |-> None, woken |-> FALSE]

Init ==
    /\ calls \in CallSets
    /\ controls = [t \in Transfers |-> NoControl]
    /\ table = [t \in Transfers |-> "absent"]
    /\ run = [k \in Runs |-> NoRun]
    /\ progress = {}
    /\ operator = NoCall
    /\ reader = NoReader
    /\ limit = DefaultLimit
    /\ active = 0
    /\ semaphore = Permits
    /\ shutdown = "RUNNING"
    /\ stopper = "idle"

-----------------------------------------------------------------------------
(* Helpers *)

\* Run k goes to a place, its locals unchanged.
Goto(k, place) == run' = [run EXCEPT ![k].at = place]

\* A write of state s to the listed transfer t, with background_notify.
SetState(t, s) ==
    /\ table' = [table EXCEPT ![t] = s]
    /\ reader' = [reader EXCEPT !.woken = @ \/ reader.at # "idle"]

\* The same when the transfer is listed and not finished, otherwise nothing.
SetLive(t, s) ==
    IF IsLive(t) THEN SetState(t, s) ELSE UNCHANGED <<table, reader>>

\* cleanup_background_transfers: finished entries past their retention disappear;
\* which of them are old enough is open.  Nobody is notified.
Cleaned(list) ==
    {[t \in Transfers |-> IF t \in old THEN "absent" ELSE list[t]] :
        old \in SUBSET {t \in Transfers : list[t] \in Finished}}

\* availability_notify.notify_waiters: every run whose Notified future exists.
NotifyAvailability ==
    run' = [k \in Runs |->
              IF run[k].at \in {"limit", "asleep"} THEN [run[k] EXCEPT !.woken = TRUE]
                                                   ELSE run[k]]

\* Faulty RegisterOwned: a new control ignores the shutdown.
RegisterOwnedLate(t, n) ==
    LET old == controls[t]
    IN  controls' = [controls EXCEPT ![t] =
            IF old.owners > 0
            THEN [old EXCEPT !.owners = old.owners + 1,
                             !.node = IF old.node = None THEN n ELSE old.node]
            ELSE [NoControl EXCEPT !.owners = 1, !.node = n]]

\* register_owned: a nested owner shares the control; a new control is cancelled
\* at birth once the shutdown has begun.
RegisterOwned(t, n) ==
    LET old == controls[t]
    IN  controls' = [controls EXCEPT ![t] =
            IF old.owners > 0
            THEN [old EXCEPT !.owners = old.owners + 1,
                             !.node = IF old.node = None THEN n ELSE old.node]
            ELSE [NoControl EXCEPT !.owners = 1, !.node = n,
                                   !.cancelled = shutdown # "RUNNING"]]

\* Faulty Unregister: the first owner that leaves removes the control.
UnregisterEarly(t) == controls' = [controls EXCEPT ![t] = NoControl]

\* unregister: the last owner removes the control.
Unregister(t) ==
    LET old == controls[t]
    IN  controls' = [controls EXCEPT ![t] =
            IF old.owners > 1 THEN [old EXCEPT !.owners = old.owners - 1] ELSE NoControl]

-----------------------------------------------------------------------------
(* A run *)

\* register_for_node, before the paths are parsed.
Begin(k, t, n) ==
    /\ run[k].at = "idle"
    /\ RegisterOwned(t, n)
    /\ run' = [run EXCEPT ![k].at = "owned", ![k].id = t]
    /\ UNCHANGED <<calls, table, progress, operator, reader, limit, active, semaphore,
                   shutdown, stopper>>

\* A missing path or an unknown method: the guard is dropped on the way out.
BadArguments(k) ==
    /\ run[k].at = "owned"
    /\ Goto(k, "release")
    /\ UNCHANGED <<calls, controls, table, progress, operator, reader, limit, active,
                   semaphore, shutdown, stopper>>

\* register_background_transfer cleans the list and reads shutdown_state ...
ReadShutdown(k) ==
    /\ run[k].at = "owned"
    /\ table' \in Cleaned(table)
    /\ run' = [run EXCEPT ![k].at = "read", ![k].saw = shutdown = "RUNNING"]
    /\ UNCHANGED <<calls, controls, progress, operator, reader, limit, active, semaphore,
                   shutdown, stopper>>

\* ... and inserts the snapshot in a later lock section.
InsertSnapshot(k) ==
    /\ run[k].at = "read"
    /\ SetState(run[k].id, IF run[k].saw THEN "Pending" ELSE "Cancelled")
    /\ run' = [run EXCEPT ![k].at = "queued", ![k].saw = FALSE]
    /\ UNCHANGED <<calls, controls, progress, operator, limit, active, semaphore, shutdown,
                   stopper>>

\* acquire_permit creates its Notified future before it compares.
Listen(k) ==
    /\ "queue" \in calls
    /\ run[k].at = "queued"
    /\ run' = [run EXCEPT ![k].at = "limit", ![k].woken = FALSE]
    /\ UNCHANGED <<calls, controls, table, progress, operator, reader, limit, active,
                   semaphore, shutdown, stopper>>

\* Below the limit the loop ends, otherwise the run sleeps.
CompareLimit(k) ==
    /\ run[k].at = "limit"
    /\ IF active < limit
       THEN run' = [run EXCEPT ![k].at = "acquire", ![k].woken = FALSE]
       ELSE Goto(k, "asleep")
    /\ UNCHANGED <<calls, controls, table, progress, operator, reader, limit, active,
                   semaphore, shutdown, stopper>>

\* A notified run starts the loop again, with a new future.
WakeRun(k) ==
    /\ run[k].at = "asleep"
    /\ run[k].woken
    /\ run' = [run EXCEPT ![k].at = "limit", ![k].woken = FALSE]
    /\ UNCHANGED <<calls, controls, table, progress, operator, reader, limit, active,
                   semaphore, shutdown, stopper>>

\* semaphore.acquire_owned ...
TakePermit(k) ==
    /\ run[k].at = "acquire"
    /\ semaphore > 0
    /\ semaphore' = semaphore - 1
    /\ run' = [run EXCEPT ![k].at = "count", ![k].permit = TRUE]
    /\ UNCHANGED <<calls, controls, table, progress, operator, reader, limit, active,
                   shutdown, stopper>>

\* ... and active_count.fetch_add after it.
CountPermit(k) ==
    /\ run[k].at = "count"
    /\ active' = active + 1
    /\ Goto(k, "start")
    /\ UNCHANGED <<calls, controls, table, progress, operator, reader, limit, semaphore,
                   shutdown, stopper>>

\* mark_background_transfer_active: a plugin's transfer comes here at once, one that
\* queued comes with its permit.
MarkActive(k) ==
    /\ run[k].at \in {"queued", "start"}
    /\ SetLive(run[k].id, "Active")
    /\ Goto(k, "nested")
    /\ UNCHANGED <<calls, controls, progress, operator, limit, active, semaphore, shutdown,
                   stopper>>

\* The transfer function registers the same id once more, without a node.
RegisterNested(k) ==
    /\ run[k].at = "nested"
    /\ RegisterOwned(run[k].id, None)
    /\ Goto(k, "check")
    /\ UNCHANGED <<calls, table, progress, operator, reader, limit, active, semaphore,
                   shutdown, stopper>>

\* What check_control answers for a control; "wait" while it is paused.
Verdict(control) ==
    CASE control.owners = 0   -> "Ok"
      [] control.cancelled    -> "Cancelled"
      [] control.interrupted  -> "Error"
      [] control.paused       -> "wait"
      [] OTHER                -> "Ok"

\* Faulty CheckControl: a paused transfer looks at nothing but the pause.
CheckControlPaused(k) ==
    /\ run[k].at = "check"
    /\ ~controls[run[k].id].paused
    /\ LET verdict == Verdict(controls[run[k].id])
       IN  run' = [run EXCEPT ![k].at = IF verdict = "Ok" THEN "chunk" ELSE "unnest",
                              ![k].result = IF verdict = "Ok" THEN "none" ELSE verdict]
    /\ UNCHANGED <<calls, controls, table, progress, operator, reader, limit, active,
                   semaphore, shutdown, stopper>>

\* check_control between two pieces of data; a paused transfer looks again every
\* 100 ms, at the cancellation and the interruption too.
CheckControl(k) ==
    /\ run[k].at = "check"
    /\ Verdict(controls[run[k].id]) # "wait"
    /\ LET verdict == Verdict(controls[run[k].id])
       IN  run' = [run EXCEPT ![k].at = IF verdict = "Ok" THEN "chunk" ELSE "unnest",
                              ![k].result = IF verdict = "Ok" THEN "none" ELSE verdict]
    /\ UNCHANGED <<calls, controls, table, progress, operator, reader, limit, active,
                   semaphore, shutdown, stopper>>

\* A piece of data was moved, and a progress update sent.
MoveChunk(k) ==
    /\ run[k].at = "chunk"
    /\ progress' = progress \union {run[k].id}
    /\ Goto(k, "check")
    /\ UNCHANGED <<calls, controls, table, operator, reader, limit, active, semaphore,
                   shutdown, stopper>>

\* The last piece was moved, or the channel or a file failed.
EndData(k) ==
    /\ run[k].at = "chunk"
    /\ \E result \in {"Completed", "Error"} :
          run' = [run EXCEPT ![k].at = "unnest", ![k].result = result]
    /\ UNCHANGED <<calls, controls, table, progress, operator, reader, limit, active,
                   semaphore, shutdown, stopper>>

\* The transfer function returns and drops its own guard.
DropNested(k) ==
    /\ run[k].at = "unnest"
    /\ Unregister(run[k].id)
    /\ Goto(k, "report")
    /\ UNCHANGED <<calls, table, progress, operator, reader, limit, active, semaphore,
                   shutdown, stopper>>

\* finish_background_transfer: the result is written whatever the state was, except
\* over the cancellation of a shutdown.
Report(k) ==
    /\ run[k].at = "report"
    /\ \/ /\ table[run[k].id] = "absent"
          /\ UNCHANGED <<table, reader>>
       \/ /\ table[run[k].id] # "absent"
          /\ SetState(run[k].id, IF shutdown # "RUNNING" /\ table[run[k].id] = "Cancelled"
                                 THEN "Cancelled" ELSE run[k].result)
    /\ Goto(k, IF run[k].permit THEN "drop" ELSE "release")
    /\ UNCHANGED <<calls, controls, progress, operator, limit, active, semaphore, shutdown,
                   stopper>>

\* SftpTransferPermit::drop counts down ...
DropPermit(k) ==
    /\ run[k].at = "drop"
    /\ active' = IF active = 0 THEN 0 ELSE active - 1
    /\ Goto(k, "notify")
    /\ UNCHANGED <<calls, controls, table, progress, operator, reader, limit, semaphore,
                   shutdown, stopper>>

\* Faulty NotifyDrop: the runs asleep are not told.
NotifyDropSilently(k) ==
    /\ run[k].at = "notify"
    /\ Goto(k, "permit")
    /\ UNCHANGED <<calls, controls, table, progress, operator, reader, limit, active,
                   semaphore, shutdown, stopper>>

\* ... notifies ...
NotifyDrop(k) ==
    /\ run[k].at = "notify"
    /\ run' = [j \in Runs |->
                 IF j = k THEN [run[j] EXCEPT !.at = "permit"]
                 ELSE IF run[j].at \in {"limit", "asleep"}
                      THEN [run[j] EXCEPT !.woken = TRUE] ELSE run[j]]
    /\ UNCHANGED <<calls, controls, table, progress, operator, reader, limit, active,
                   semaphore, shutdown, stopper>>

\* Faulty ReleasePermit: the semaphore does not get the permit back.
ReleasePermitLeaking(k) ==
    /\ run[k].at = "permit"
    /\ run' = [run EXCEPT ![k].at = "release", ![k].permit = FALSE]
    /\ UNCHANGED <<calls, controls, table, progress, operator, reader, limit, active,
                   semaphore, shutdown, stopper>>

\* ... and its field, the semaphore's permit, is dropped last.
ReleasePermit(k) ==
    /\ run[k].at = "permit"
    /\ semaphore' = semaphore + 1
    /\ run' = [run EXCEPT ![k].at = "release", ![k].permit = FALSE]
    /\ UNCHANGED <<calls, controls, table, progress, operator, reader, limit, active,
                   shutdown, stopper>>

\* SftpTransferGuard::drop of the run's own registration.
DropGuard(k) ==
    /\ run[k].at = "release"
    /\ Unregister(run[k].id)
    /\ run' = [run EXCEPT ![k] = [NoRun EXCEPT !.at = "done"]]
    /\ UNCHANGED <<calls, table, progress, operator, reader, limit, active, semaphore,
                   shutdown, stopper>>

\* Faulty DeliverProgress: an update revives a finished transfer.
DeliverProgressLate(t) ==
    /\ t \in progress
    /\ progress' = progress \ {t}
    /\ IF table[t] = "absent" THEN UNCHANGED <<table, reader>> ELSE SetState(t, "Active")
    /\ UNCHANGED <<calls, controls, run, operator, limit, active, semaphore, shutdown, stopper>>

\* The spawned progress task: update_background_transfer_progress, as late as it likes.
DeliverProgress(t) ==
    /\ t \in progress
    /\ progress' = progress \ {t}
    /\ SetLive(t, "Active")
    /\ UNCHANGED <<calls, controls, run, operator, limit, active, semaphore, shutdown, stopper>>

-----------------------------------------------------------------------------
(* The operator: user interface, reconnect and settings *)

Registered(t) == controls[t].owners > 0

\* cancel, and cancel_all as its repetition.
Cancel(t) ==
    /\ "cancel" \in calls
    /\ Registered(t)
    /\ controls' = [controls EXCEPT ![t].cancelled = TRUE]
    /\ UNCHANGED <<calls, table, run, progress, operator, reader, limit, active, semaphore,
                   shutdown, stopper>>

\* pause and resume set the control first ...
SetPause(t, call) ==
    /\ "pause" \in calls
    /\ operator = NoCall
    /\ Registered(t)
    /\ controls' = [controls EXCEPT ![t].paused = call = "pause"]
    /\ operator' = [NoCall EXCEPT !.call = call, !.id = t]
    /\ UNCHANGED <<calls, table, run, progress, reader, limit, active, semaphore, shutdown,
                   stopper>>

\* interrupt sets the reason, if the id has a control, and goes on in any case.
InterruptControl(t, more) ==
    /\ controls' = [controls EXCEPT ![t].interrupted = @ \/ Registered(t)]
    /\ operator' = [call |-> "interrupt", id |-> t, more |-> more]
    /\ UNCHANGED <<calls, table, run, progress, reader, limit, active, semaphore, shutdown,
                   stopper>>

Interrupt(t) == "interrupt" \in calls /\ operator = NoCall /\ InterruptControl(t, {})

\* interrupt_node lists the node's ids under the lock and interrupts them one by one.
InterruptNode(n) ==
    LET owned == {t \in Transfers : Registered(t) /\ controls[t].node = n}
    IN  /\ "interrupt" \in calls
        /\ operator = NoCall
        /\ owned # {}
        /\ operator' = [call |-> "interrupt", id |-> None, more |-> owned]
        /\ UNCHANGED <<calls, controls, table, run, progress, reader, limit, active, semaphore,
                       shutdown, stopper>>

InterruptNext ==
    /\ operator.call = "interrupt"
    /\ operator.id = None
    /\ \E t \in operator.more : InterruptControl(t, operator.more \ {t})

\* ... and the three of them write the list in a lock section of its own.
WriteTable ==
    /\ operator.id # None
    /\ CASE operator.call = "pause" -> SetLive(operator.id, "Paused")
         [] operator.call = "resume" ->
                IF table[operator.id] = "Paused" THEN SetState(operator.id, "Pending")
                                                 ELSE UNCHANGED <<table, reader>>
         [] OTHER -> SetLive(operator.id, "Error")
    /\ operator' = IF operator.more = {} THEN NoCall ELSE [operator EXCEPT !.id = None]
    /\ UNCHANGED <<calls, controls, run, progress, limit, active, semaphore, shutdown, stopper>>

\* Faulty Clamp: nothing is clamped.
ClampNothing(n) == n

\* max.clamp(1, MAX_SFTP_CONCURRENT_TRANSFERS)
Clamp(n) == IF n < 1 THEN 1 ELSE IF n > Permits THEN Permits ELSE n

\* set_max_concurrent stores the clamped limit ...
StoreLimit(n) ==
    /\ "limit" \in calls
    /\ operator = NoCall
    /\ limit' = Clamp(n)
    /\ operator' = [NoCall EXCEPT !.call = "limit"]
    /\ UNCHANGED <<calls, controls, table, run, progress, reader, active, semaphore,
                   shutdown, stopper>>

\* ... and notifies.
NotifyLimit ==
    /\ operator.call = "limit"
    /\ NotifyAvailability
    /\ operator' = NoCall
    /\ UNCHANGED <<calls, controls, table, progress, reader, limit, active, semaphore, shutdown,
                   stopper>>

OperatorStep == InterruptNext \/ WriteTable \/ NotifyLimit

-----------------------------------------------------------------------------
(* Readers of the list *)

\* list_background_transfers.
List ==
    /\ "list" \in calls
    /\ table' \in Cleaned(table) \ {table}
    /\ UNCHANGED <<calls, controls, run, progress, operator, reader, limit, active, semaphore,
                   shutdown, stopper>>

\* wait_background_transfer_finished creates its future ...
Watch(t) ==
    /\ "watch" \in calls
    /\ reader.at = "idle"
    /\ reader' = [at |-> "look", id |-> t, woken |-> FALSE]
    /\ UNCHANGED <<calls, controls, table, run, progress, operator, limit, active, semaphore,
                   shutdown, stopper>>

\* ... looks the transfer up, and returns or sleeps.
Look ==
    /\ reader.at = "look"
    /\ table' \in Cleaned(table)
    /\ reader' = IF table'[reader.id] \in Unfinished
                 THEN [reader EXCEPT !.at = "asleep"] ELSE NoReader
    /\ UNCHANGED <<calls, controls, run, progress, operator, limit, active, semaphore, shutdown,
                   stopper>>

\* A notified reader starts again with a new future.
WakeReader ==
    /\ reader.at = "asleep"
    /\ reader.woken
    /\ reader' = [reader EXCEPT !.at = "look", !.woken = FALSE]
    /\ UNCHANGED <<calls, controls, table, run, progress, operator, limit, active, semaphore,
                   shutdown, stopper>>

ReaderStep == Look \/ WakeReader

-----------------------------------------------------------------------------
(* shutdown_session_transfers *)

\* The compare_exchange; a second caller changes nothing.
BeginShutdown ==
    /\ "shutdown" \in calls
    /\ shutdown = "RUNNING"
    /\ shutdown' = "SHUTTING_DOWN"
    /\ stopper' = "cancel"
    /\ UNCHANGED <<calls, controls, table, run, progress, operator, reader, limit, active,
                   semaphore>>

\* Every control in the map is cancelled.
CancelControls ==
    /\ stopper = "cancel"
    /\ controls' = [t \in Transfers |->
                      [controls[t] EXCEPT !.cancelled = @ \/ Registered(t)]]
    /\ stopper' = "sweep"
    /\ UNCHANGED <<calls, table, run, progress, operator, reader, limit, active, semaphore,
                   shutdown>>

\* Faulty SweepTable: the readers of the cancelled transfers are not told.
SweepTableSilently ==
    /\ stopper = "sweep"
    /\ table' = [t \in Transfers |-> IF IsLive(t) THEN "Cancelled" ELSE table[t]]
    /\ stopper' = "drain"
    /\ UNCHANGED <<calls, controls, run, progress, operator, reader, limit, active, semaphore,
                   shutdown>>

\* Every listed transfer that is not finished is cancelled.
SweepTable ==
    /\ stopper = "sweep"
    /\ table' = [t \in Transfers |-> IF IsLive(t) THEN "Cancelled" ELSE table[t]]
    /\ reader' = [reader EXCEPT !.woken = @ \/ reader.at # "idle"]
    /\ stopper' = "drain"
    /\ UNCHANGED <<calls, controls, run, progress, operator, limit, active, semaphore, shutdown>>

\* The map is empty, or the grace period is over.
EndShutdown ==
    /\ stopper = "drain"
    /\ shutdown' = "STOPPED"
    /\ stopper' = "done"
    /\ UNCHANGED <<calls, controls, table, run, progress, operator, reader, limit, active,
                   semaphore>>

StopperStep == CancelControls \/ SweepTable \/ EndShutdown

-----------------------------------------------------------------------------
RunStep(k) ==
    \/ BadArguments(k) \/ ReadShutdown(k) \/ InsertSnapshot(k)
    \/ Listen(k) \/ CompareLimit(k) \/ WakeRun(k)
    \/ TakePermit(k) \/ CountPermit(k) \/ MarkActive(k) \/ RegisterNested(k)
    \/ CheckControl(k) \/ MoveChunk(k) \/ EndData(k) \/ DropNested(k) \/ Report(k)
    \/ DropPermit(k) \/ NotifyDrop(k) \/ ReleasePermit(k) \/ DropGuard(k)

Next ==
    \/ \E k \in Runs : RunStep(k) \/ \E t \in Transfers, n \in Nodes : Begin(k, t, n)
    \/ \E t \in Transfers :
          \/ DeliverProgress(t) \/ Cancel(t) \/ Interrupt(t) \/ Watch(t)
          \/ \E call \in {"pause", "resume"} : SetPause(t, call)
    \/ \E n \in Nodes : InterruptNode(n)
    \/ \E n \in 0..(Permits + 1) : StoreLimit(n)
    \/ OperatorStep \/ List \/ ReaderStep
    \/ BeginShutdown \/ StopperStep

Spec == Init /\ [][Next]_vars

\* A run that was started, a reader, the operator's call and the shutdown keep
\* being polled; the semaphore serves its waiters in order.  Nobody is obliged to
\* call, and a run may move data as long as it likes while nobody stops it.
FairSpec ==
    /\ Spec
    /\ \A k \in Runs : WF_vars(RunStep(k)) /\ SF_vars(TakePermit(k))
    /\ WF_vars(OperatorStep) /\ WF_vars(ReaderStep) /\ WF_vars(StopperStep)

-----------------------------------------------------------------------------
(* Properties *)

\* Every field of SftpTransferManager and every local keeps its type.
TypeOK ==
    /\ calls \in CallSets
    /\ controls \in [Transfers -> Controls]
    /\ table \in [Transfers -> Finished \union Unfinished \union {"absent"}]
    /\ run \in [Runs -> RunStates]
    /\ progress \in SUBSET Transfers
    /\ operator \in Operators
    /\ reader \in Readers
    /\ limit \in 1..Permits
    /\ active \in Nat
    /\ semaphore \in Nat
    /\ shutdown \in {"RUNNING", "SHUTTING_DOWN", "STOPPED"}
    /\ stopper \in {"idle", "cancel", "sweep", "drain", "done"}

\* Runs that own a permit of the semaphore, and runs that active_count counts.
Holding == {k \in Runs : run[k].permit}

Counted == {k \in Holding : run[k].at \notin {"count", "notify", "permit"}}

\* Runs that own a registration through a guard, once or twice.
Owners(t) == {k \in Runs : run[k].id = t}

NestedOwners(t) == {k \in Owners(t) : run[k].at \in {"check", "chunk", "unnest"}}

\* active_count, raised after the semaphore's permit is taken and lowered before it
\* is given back, counts exactly the runs between the two, and the semaphore has
\* exactly the permits nobody holds: acquire_permit and the drop of a permit may be
\* interleaved in any way without leaking one, and although several runs may pass
\* the comparison with the limit together, never more than Permits are counted.
PermitsCounted ==
    /\ active = Cardinality(Counted)
    /\ semaphore = Permits - Cardinality(Holding)
    /\ semaphore >= 0

\* owner_count is the number of guards that will be dropped: the control stays in
\* the map until the last run that works under the id is gone, so that a cancel
\* finds it, and it does not outlive that run.
ControlsOwned ==
    \A t \in Transfers :
        controls[t].owners = Cardinality(Owners(t)) + Cardinality(NestedOwners(t))

\* No lost wake-up in acquire_permit: a run sleeps un-notified below the limit only
\* while somebody who made room is about to call notify_waiters.
SleeperHasReason ==
    \A k \in Runs :
        run[k].at = "asleep" /\ ~run[k].woken /\ active < limit =>
            operator.call = "limit" \/ \E j \in Runs : run[j].at = "notify"

\* No lost wake-up in wait_background_transfer_finished: a reader that sleeps
\* un-notified waits for a transfer that is still listed and not finished.
ReaderHasReason ==
    reader.at = "asleep" /\ ~reader.woken => IsLive(reader.id)

\* "A producer racing final session shutdown must not start new work": once the
\* shutdown has gone through the controls, no control that is not cancelled exists,
\* whether it was registered before, during or after.
LateWorkIsCancelled ==
    stopper \in {"sweep", "drain", "done"} =>
        \A t \in Transfers : Registered(t) => controls[t].cancelled

\* Runs that have shown their transfer in the list and not reported its result.
Reporting(t) ==
    {k \in Owners(t) : run[k].at \notin {"owned", "read", "drop", "notify", "permit",
                                         "release"}}

Lifecycle == INSTANCE TransferLifecycle
    WITH state <- table, running <- [t \in Transfers |-> Cardinality(Reporting(t))]

\* The manager implements the life cycle its readers rely on: a finished transfer
\* stays as it is until a run that is still out reports, no update, mark, pause or
\* interruption arriving late revives it, and only a run's own report completes it.
LifecycleKept == Lifecycle!LifecycleSpec

\* A shutdown leaves nothing running: after it has stopped, every run, queued,
\* paused or started late, ends at its next check, and the list shows only finished
\* transfers - also one whose registration read the state before the shutdown and
\* was listed Pending after the sweep.
ShutdownDrains ==
    shutdown = "STOPPED" ~>
        \A t \in Transfers : ~Registered(t) /\ ~IsLive(t)
=============================================================================
