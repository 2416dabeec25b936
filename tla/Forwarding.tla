----------------------------- MODULE Forwarding -----------------------------
(***************************************************************************)
(* Port forwarding of one session: ForwardingManager, the forwards it owns *)
(* and the registry that hands managers out                                *)
(* (crates/hapcli-forwarding/src: manager.rs, registry.rs, local.rs,       *)
(* dynamic.rs, remote.rs).                                                 *)
(*                                                                         *)
(* A manager keeps running forwards and stopped rules in two maps.  Every  *)
(* operation takes an entry out of one map, waits for a listener, for the  *)
(* server or for connections to drain, and puts an entry into a map        *)
(* afterwards, so the operations of several tasks meet in between.  A      *)
(* running forward is an object: whoever owns it last drops it, and        *)
(* dropping it stops it.                                                   *)
(*                                                                         *)
(* Local and dynamic forwards have the same control flow and are one kind. *)
(* A step is one access to a map, or the synchronous code between two      *)
(* awaits.                                                                 *)
(***************************************************************************)
EXTENDS Naturals, FiniteSets

CONSTANTS
    Tasks,          \* callers of the registry and of its managers
    Rules,          \* ids of forwarding rules
    RemoteRules,    \* the rules whose listener is on the server
    Ports,          \* bind addresses with their port
    PortOf,         \* the bind port of each rule
    Connections,    \* SSH connections a session runs over, one after the other
    CallSets,       \* bound: the sets of public calls that meet in one behaviour
    MaxManagers,    \* bound: managers created for the session
    MaxForwards     \* bound: forwards opened in a behaviour

ASSUME ForwardingAssumption ==
    /\ RemoteRules \subseteq Rules
    /\ "none" \notin Rules
    /\ PortOf \in [Rules -> Ports]
    /\ MaxManagers \in Nat \ {0}
    /\ MaxForwards \in Nat
    /\ 0 \notin Connections

VARIABLES
    calls,          \* the public calls somebody makes in this behaviour
    current,        \* the session's manager in ForwardingRegistry.managers, 0 for none
    managers,       \* managers created so far
    connection,     \* ssh_connection of each manager
    active,         \* local_forwards, dynamic_forwards and remote_forwards
    stopped,        \* stopped_forwards, by status
    router,         \* targets of each manager's RemoteForwardRouter
    forwards,       \* forwards opened so far
    rule,           \* the rule of each forward
    listening,      \* forwards whose listener exists, here or on the server
    told,           \* forwards that were told to stop, or dropped
    task,           \* program counter and locals of each task
    shutdown,       \* shutdown_state of the registry
    kept            \* history: rules of each manager nobody deleted or cleared

vars == <<calls, current, managers, connection, active, stopped, router, forwards, rule,
          listening, told, task, shutdown, kept>>

-----------------------------------------------------------------------------
Managers == 1..MaxManagers

Forwards == 1..MaxForwards

\* What a task does with the rule or the forward it works on.
Operations == {"none", "create", "restart", "restore", "stop", "delete", "suspend", "clear"}

\* Where it is: in create_forward (check, open, insert), in the stop of one
\* forward (halt, cancel, drain), or between two items of a list.
Places == {"idle", "check", "open", "insert", "halt", "cancel", "drain",
           "next", "register"}

TaskStates == [at : Places, op : Operations, manager : Managers \union {0},
               rule : Rules \union {"none"}, forward : Forwards \union {0},
               batch : SUBSET Forwards, list : SUBSET Rules, target : Connections \union {0},
               after : {"done", "register", "forget", "stopped"}]

Idle == [at |-> "idle", op |-> "none", manager |-> 0, rule |-> "none", forward |-> 0,
         batch |-> {}, list |-> {}, target |-> 0, after |-> "done"]

\* The session has been registered with one of its connections.
Init ==
    /\ calls \in CallSets
    /\ current = 1
    /\ managers = 1
    /\ \E c \in Connections : connection = [m \in Managers |-> IF m = 1 THEN c ELSE 0]
    /\ active = [m \in Managers |-> [r \in Rules |-> 0]]
    /\ stopped = [m \in Managers |-> [r \in Rules |-> "none"]]
    /\ router = [m \in Managers |-> [p \in Ports |-> 0]]
    /\ forwards = 0
    /\ rule = [f \in Forwards |-> "none"]
    /\ listening = {}
    /\ told = {}
    /\ task = [k \in Tasks |-> Idle]
    /\ shutdown = "RUNNING"
    /\ kept = [m \in Managers |-> {}]

-----------------------------------------------------------------------------
(* Helpers *)

IsRemote(f) == rule[f] \in RemoteRules

\* The forwards in a manager's maps.
Running(m) == {active[m][r] : r \in Rules} \ {0}

\* RemoteForwardRouter::unregister for the remote ones among some forwards of m: by
\* port, whoever registered it.
Unroute(m, fs) ==
    LET ports == {PortOf[rule[f]] : f \in {g \in fs : IsRemote(g)}}
    IN  router' = [router EXCEPT ![m] = [p \in Ports |-> IF p \in ports THEN 0 ELSE @[p]]]

\* Dropping forwards, or sending them their shutdown and unregistering them.
Tell(m, fs) ==
    /\ told' = told \union fs
    /\ Unroute(m, fs)

\* Faulty Put: the forward that was in the map is forgotten and keeps running.
PutBeside(m, r, f) ==
    /\ active' = [active EXCEPT ![m][r] = f]
    /\ kept' = [kept EXCEPT ![m] = @ \union {r}]
    /\ UNCHANGED <<told, router>>

\* DashMap::insert of a running forward; a forward that was there is dropped.
Put(m, r, f) ==
    /\ active' = [active EXCEPT ![m][r] = f]
    /\ Tell(m, {active[m][r]} \ {0})
    /\ kept' = [kept EXCEPT ![m] = @ \union {r}]

Finish(k) == task' = [task EXCEPT ![k] = Idle]

\* The operation of task k is over for its rule: done, or on to the next item.
Proceed(k) ==
    IF task[k].op \in {"restore", "suspend", "clear"}
    THEN task' = [task EXCEPT ![k].at = "next", ![k].forward = 0,
                              ![k].rule = "none"]
    ELSE Finish(k)

-----------------------------------------------------------------------------
(* create_forward *)

\* A caller got the manager from the registry and creates a forward.
Create(k, r) ==
    /\ task[k].at = "idle"
    /\ current # 0
    /\ task' = [task EXCEPT ![k] = [Idle EXCEPT !.at = "check", !.op = "create",
                                                !.manager = current, !.rule = r]]
    /\ UNCHANGED <<calls, current, managers, connection, active, stopped, router, forwards,
                   rule, listening, told, shutdown, kept>>

\* restart_forward takes the rule out of the stopped map first.
Restart(k, r) ==
    /\ "restart" \in calls
    /\ task[k].at = "idle"
    /\ current # 0
    /\ stopped[current][r] # "none"
    /\ stopped' = [stopped EXCEPT ![current][r] = "none"]
    /\ task' = [task EXCEPT ![k] = [Idle EXCEPT !.at = "check", !.op = "restart",
                                                !.manager = current, !.rule = r]]
    /\ UNCHANGED <<calls, current, managers, connection, active, router, forwards, rule,
                   listening, told, shutdown, kept>>

HasRule(m, r) == active[m][r] # 0 \/ stopped[m][r] # "none"

\* Faulty GiveUp: a restart that fails loses its rule.
GiveUpSilently(k) ==
    /\ UNCHANGED <<calls, current, managers, connection, active, router, forwards, rule,
                   listening, told, shutdown, kept, stopped>>
    /\ Proceed(k)

\* create_forward failed: a restarted rule is stopped again, a restored one is
\* suspended again.
GiveUp(k) ==
    /\ stopped' = CASE task[k].op = "restart" ->
                          [stopped EXCEPT ![task[k].manager][task[k].rule] = "Stopped"]
                    [] task[k].op = "restore" ->
                          [stopped EXCEPT ![task[k].manager][task[k].rule] = "Suspended"]
                    [] OTHER -> stopped
    /\ Proceed(k)
    /\ UNCHANGED <<calls, current, managers, connection, active, router, forwards, rule,
                   listening, told, shutdown, kept>>

AlreadyExists(k) ==
    /\ task[k].at = "check"
    /\ HasRule(task[k].manager, task[k].rule)
    /\ GiveUp(k)

CheckRule(k) ==
    /\ task[k].at = "check"
    /\ ~HasRule(task[k].manager, task[k].rule)
    /\ task' = [task EXCEPT ![k].at = "open"]
    /\ UNCHANGED <<calls, current, managers, connection, active, stopped, router, forwards,
                   rule, listening, told, shutdown, kept>>

\* The port is in use by a listener of the same kind.
PortTaken(r) ==
    \E f \in listening : /\ PortOf[rule[f]] = PortOf[r]
                         /\ IsRemote(f) <=> r \in RemoteRules

\* LocalForward::start binds and spawns the listener; RemoteForward::start asks the
\* server and registers the router target.
OpenForward(k) ==
    LET f == forwards + 1
        r == task[k].rule
        m == task[k].manager
    IN  /\ task[k].at = "open"
        /\ forwards < MaxForwards
        /\ ~PortTaken(r)
        /\ forwards' = f
        /\ rule' = [rule EXCEPT ![f] = r]
        /\ listening' = listening \union {f}
        /\ router' = IF r \in RemoteRules THEN [router EXCEPT ![m][PortOf[r]] = f]
                                          ELSE router
        /\ task' = [task EXCEPT ![k].at = "insert", ![k].forward = f]
        /\ UNCHANGED <<calls, current, managers, connection, active, stopped, told, shutdown, kept>>

\* The address is in use, the rule is invalid, or the connection is gone.
OpenFails(k) == task[k].at = "open" /\ GiveUp(k)

InsertForward(k) ==
    /\ task[k].at = "insert"
    /\ Put(task[k].manager, task[k].rule, task[k].forward)
    /\ Proceed(k)
    /\ UNCHANGED <<calls, current, managers, connection, stopped, forwards, rule,
                   listening, shutdown>>

-----------------------------------------------------------------------------
(* Stopping one forward *)

\* Task k, continuing as t, has forward f in its hands.  A local listener is told at
\* once.  A remote forward is first cancelled on the server when one rule is
\* stopped or deleted, and closed to new channels first in a bulk stop.
Take(k, f, t) ==
    /\ task' = [task EXCEPT ![k] = [t EXCEPT !.forward = f, !.rule = rule[f],
                                    !.at = IF IsRemote(f) THEN "cancel" ELSE "halt"]]
    /\ Tell(t.manager, IF IsRemote(f) /\ t.op \in {"stop", "delete"} THEN {} ELSE {f})

\* stop_forward and delete_forward of a running rule.
StopForward(k, r, op) ==
    /\ op \in calls
    /\ task[k].at = "idle"
    /\ current # 0
    /\ active[current][r] # 0
    /\ active' = [active EXCEPT ![current][r] = 0]
    /\ Take(k, active[current][r], [Idle EXCEPT !.op = op, !.manager = current])
    /\ kept' = IF op = "delete" THEN [kept EXCEPT ![current] = @ \ {r}] ELSE kept
    /\ UNCHANGED <<calls, current, managers, connection, stopped, forwards, rule,
                   listening, shutdown>>

\* delete_forward of a stopped rule.
DeleteStopped(r) ==
    /\ "delete" \in calls
    /\ current # 0
    /\ active[current][r] = 0
    /\ stopped[current][r] # "none"
    /\ stopped' = [stopped EXCEPT ![current][r] = "none"]
    /\ kept' = [kept EXCEPT ![current] = @ \ {r}]
    /\ UNCHANGED <<calls, current, managers, connection, active, router, forwards, rule,
                   listening, told, task, shutdown>>

\* update_stopped_forward: an edited rule is Stopped.
UpdateStopped(r) ==
    /\ "update" \in calls
    /\ current # 0
    /\ active[current][r] = 0
    /\ stopped[current][r] = "Suspended"
    /\ stopped' = [stopped EXCEPT ![current][r] = "Stopped"]
    /\ UNCHANGED <<calls, current, managers, connection, active, router, forwards, rule,
                   listening, told, task, shutdown, kept>>

\* A listener task that was told, or whose sender was dropped, ends with its
\* connections; stop aborts it after the grace period.
ListenerEnds(f) ==
    /\ f \in listening \intersect told
    /\ ~IsRemote(f)
    /\ listening' = listening \ {f}
    /\ UNCHANGED <<calls, current, managers, connection, active, stopped, router, forwards,
                   rule, told, task, shutdown, kept>>

\* Faulty Record: the stopped rule keeps the status it was running with.
RecordActive(k) ==
    stopped' = IF task[k].op \in {"stop", "suspend"}
               THEN [stopped EXCEPT ![task[k].manager][task[k].rule] = "Active"] ELSE stopped

\* What is left of the stopped forward: a Stopped or Suspended rule, or nothing.
Record(k) ==
    stopped' = CASE task[k].op = "stop" ->
                       [stopped EXCEPT ![task[k].manager][task[k].rule] = "Stopped"]
                 [] task[k].op = "suspend" ->
                       [stopped EXCEPT ![task[k].manager][task[k].rule] = "Suspended"]
                 [] OTHER -> stopped

\* LocalForward::stop returns when the listener is gone.
Halted(k) ==
    /\ task[k].at = "halt"
    /\ task[k].forward \notin listening
    /\ Record(k)
    /\ Proceed(k)
    /\ UNCHANGED <<calls, current, managers, connection, active, router, forwards, rule,
                   listening, told, shutdown, kept>>

\* Faulty CancelOnServer: finish_stop leaves the router target to the drop.
CancelLeavingTarget(k) ==
    /\ task[k].at = "cancel"
    /\ listening' = listening \ {task[k].forward}
    /\ told' = told \union {task[k].forward}
    /\ task' = [task EXCEPT ![k].at = "drain"]
    /\ UNCHANGED <<calls, current, managers, connection, active, stopped, router, forwards,
                   rule, shutdown, kept>>

\* cancel_on_server is answered, and finish_stop tells the forward.
CancelOnServer(k) ==
    /\ task[k].at = "cancel"
    /\ listening' = listening \ {task[k].forward}
    /\ Tell(task[k].manager, {task[k].forward})
    /\ task' = [task EXCEPT ![k].at = "drain"]
    /\ UNCHANGED <<calls, current, managers, connection, active, stopped, forwards, rule,
                   shutdown, kept>>

\* It fails: stop and delete put the forward back and return the error.  The server's
\* listener may be gone with its connection, or still be there.
CancelFails(k) ==
    /\ task[k].at = "cancel"
    /\ task[k].op \in {"stop", "delete"}
    /\ Put(task[k].manager, task[k].rule, task[k].forward)
    /\ listening' \in {listening, listening \ {task[k].forward}}
    /\ Finish(k)
    /\ UNCHANGED <<calls, current, managers, connection, stopped, forwards, rule, shutdown>>

\* stop_best_effort goes on after an error or its timeout.
CancelGivenUp(k) ==
    /\ task[k].at = "cancel"
    /\ task[k].op \in {"suspend", "clear"}
    /\ listening' \in {listening, listening \ {task[k].forward}}
    /\ Tell(task[k].manager, {task[k].forward})
    /\ task' = [task EXCEPT ![k].at = "drain"]
    /\ UNCHANGED <<calls, current, managers, connection, active, stopped, forwards, rule,
                   shutdown, kept>>

\* finish_stop waited for the connections; the forward is dropped, which unregisters
\* its port once more.
Drained(k) ==
    /\ task[k].at = "drain"
    /\ Unroute(task[k].manager, {task[k].forward})
    /\ Record(k)
    /\ Proceed(k)
    /\ UNCHANGED <<calls, current, managers, connection, active, forwards, rule,
                   listening, told, shutdown, kept>>

-----------------------------------------------------------------------------
(* Operations on all forwards of a manager *)

\* Task k takes every running forward of manager m, continuing as t.
DrainManager(k, m, t) ==
    /\ active' = [active EXCEPT ![m] = [r \in Rules |-> 0]]
    /\ task' = [task EXCEPT ![k] = [t EXCEPT !.at = "next", !.manager = m,
                                             !.batch = Running(m)]]
    /\ kept' = IF t.op = "clear"
               THEN [kept EXCEPT ![m] = {r \in @ : active[m][r] = 0}] ELSE kept

\* suspend_session.
SuspendSession(k) ==
    /\ "suspend" \in calls
    /\ task[k].at = "idle"
    /\ current # 0
    /\ DrainManager(k, current, [Idle EXCEPT !.op = "suspend"])
    /\ UNCHANGED <<calls, current, managers, connection, stopped, router, forwards, rule,
                   listening, told, shutdown>>

\* restore_session over connection c: register_or_rebind suspends first when the
\* manager runs over another connection.
RestoreSession(k, c) ==
    /\ "restore" \in calls
    /\ task[k].at = "idle"
    /\ current # 0
    /\ IF connection[current] # c
       THEN DrainManager(k, current, [Idle EXCEPT !.op = "suspend", !.target = c,
                                                  !.after = "register"])
       ELSE /\ task' = [task EXCEPT ![k] = [Idle EXCEPT !.at = "register", !.target = c,
                                                        !.op = "restore"]]
            /\ UNCHANGED <<active, kept>>
    /\ UNCHANGED <<calls, current, managers, connection, stopped, router, forwards, rule,
                   listening, told, shutdown>>

\* stop_all_forwards_for_session.
StopAllForSession(k) ==
    /\ "clear" \in calls
    /\ task[k].at = "idle"
    /\ current # 0
    /\ DrainManager(k, current, [Idle EXCEPT !.op = "clear"])
    /\ UNCHANGED <<calls, current, managers, connection, stopped, router, forwards, rule,
                   listening, told, shutdown>>

\* stop_all of the registry clears the map after the forwards have stopped.
StopAll(k) ==
    /\ "stop_all" \in calls
    /\ task[k].at = "idle"
    /\ current # 0
    /\ DrainManager(k, current, [Idle EXCEPT !.op = "clear", !.after = "forget"])
    /\ UNCHANGED <<calls, current, managers, connection, stopped, router, forwards, rule,
                   listening, told, shutdown>>

\* remove, alone or (c # 0) as the first half of register_for_reconnect_restore.
RemoveManager(k, c) ==
    /\ "remove" \in calls
    /\ task[k].at = "idle"
    /\ current # 0
    /\ connection[current] # c
    /\ current' = 0
    /\ DrainManager(k, current,
                    [Idle EXCEPT !.op = "clear", !.target = c,
                                 !.after = IF c = 0 THEN "done" ELSE "register"])
    /\ UNCHANGED <<calls, managers, connection, stopped, router, forwards, rule,
                   listening, told, shutdown>>

\* shutdown: the compare_exchange, and every manager removed and drained before the
\* grace period starts.
Shutdown(k) ==
    /\ "shutdown" \in calls
    /\ task[k].at = "idle"
    /\ shutdown = "RUNNING"
    /\ shutdown' = "SHUTTING_DOWN"
    /\ current' = 0
    /\ IF current = 0
       THEN /\ task' = [task EXCEPT ![k] = [Idle EXCEPT !.at = "next", !.op = "clear",
                                                        !.after = "stopped"]]
            /\ UNCHANGED <<active, kept>>
       ELSE DrainManager(k, current, [Idle EXCEPT !.op = "clear", !.after = "stopped"])
    /\ UNCHANGED <<calls, managers, connection, stopped, router, forwards, rule,
                   listening, told>>

\* The grace period is over: the batch is dropped, with the forward being stopped.
GracePeriodEnds(k) ==
    /\ task[k].at # "idle"
    /\ task[k].after = "stopped"
    /\ shutdown' = "STOPPED"
    /\ IF task[k].manager = 0
       THEN UNCHANGED <<told, router>>
       ELSE Tell(task[k].manager, task[k].batch \union ({task[k].forward} \ {0}))
    /\ Finish(k)
    /\ UNCHANGED <<calls, current, managers, connection, active, stopped, forwards, rule,
                   listening, kept>>

\* The next forward of the batch; local and dynamic ones before remote ones.
NextForward(k) ==
    /\ task[k].at = "next"
    /\ task[k].op \in {"suspend", "clear"}
    /\ \E f \in task[k].batch :
          /\ IsRemote(f) => \A g \in task[k].batch : IsRemote(g)
          /\ Take(k, f, [task[k] EXCEPT !.batch = @ \ {f}])
    /\ UNCHANGED <<calls, current, managers, connection, active, stopped, forwards, rule,
                   listening, shutdown, kept>>

\* The batch is done.
EndBatch(k) ==
    /\ task[k].at = "next"
    /\ task[k].op \in {"suspend", "clear"}
    /\ task[k].batch = {}
    /\ current' = IF task[k].after = "forget" THEN 0 ELSE current
    /\ shutdown' = IF task[k].after = "stopped" THEN "STOPPED" ELSE shutdown
    /\ IF task[k].after = "register"
       THEN task' = [task EXCEPT ![k] = [Idle EXCEPT
                        !.at = "register", !.target = task[k].target,
                        !.op = IF task[k].op = "suspend" THEN "restore" ELSE "none"]]
       ELSE Finish(k)
    /\ UNCHANGED <<calls, managers, connection, active, stopped, router, forwards, rule,
                   listening, told, kept>>

\* register: the manager of the session gets connection c, or is created.
RegisterWith(c) ==
    LET m == IF current = 0 THEN managers + 1 ELSE current
    IN  /\ m \in Managers
        /\ current' = m
        /\ managers' = IF current = 0 THEN m ELSE managers
        /\ connection' = [connection EXCEPT ![m] = c]

Register(c) ==
    /\ "register" \in calls
    /\ RegisterWith(c)
    /\ UNCHANGED <<calls, active, stopped, router, forwards, rule, listening, told, task,
                   shutdown, kept>>

\* The second half of restore_session (restore_saved_forwards lists the stopped
\* rules) and of register_for_reconnect_restore (nothing is restored).
RegisterAfter(k) ==
    /\ task[k].at = "register"
    /\ RegisterWith(task[k].target)
    /\ IF task[k].op = "restore"
       THEN task' = [task EXCEPT ![k] = [Idle EXCEPT
                        !.at = "next", !.op = "restore", !.manager = current',
                        !.list = {r \in Rules : stopped[current'][r] # "none"}]]
       ELSE Finish(k)
    /\ UNCHANGED <<calls, active, stopped, router, forwards, rule, listening, told,
                   shutdown, kept>>

\* The next rule of the list, whether it is still stopped or not.
NextRule(k) ==
    /\ task[k].at = "next"
    /\ task[k].op = "restore"
    /\ \E r \in task[k].list :
          /\ stopped' = [stopped EXCEPT ![task[k].manager][r] = "none"]
          /\ task' = [task EXCEPT ![k].at = "check", ![k].rule = r, ![k].list = @ \ {r}]
    /\ UNCHANGED <<calls, current, managers, connection, active, router, forwards, rule,
                   listening, told, shutdown, kept>>

EndRestore(k) ==
    /\ task[k].at = "next"
    /\ task[k].op = "restore"
    /\ task[k].list = {}
    /\ Finish(k)
    /\ UNCHANGED <<calls, current, managers, connection, active, stopped, router, forwards,
                   rule, listening, told, shutdown, kept>>

\* Whoever else held a manager that is no longer registered lets it go, and its
\* forwards are dropped with it.
DropManager(m) ==
    /\ m # current
    /\ \A k \in Tasks : task[k].manager # m
    /\ Running(m) # {}
    /\ active' = [active EXCEPT ![m] = [r \in Rules |-> 0]]
    /\ Tell(m, Running(m))
    /\ kept' = [kept EXCEPT ![m] = {}]
    /\ UNCHANGED <<calls, current, managers, connection, stopped, forwards, rule,
                   listening, task, shutdown>>

-----------------------------------------------------------------------------
TaskStep(k) ==
    \/ AlreadyExists(k) \/ CheckRule(k) \/ OpenForward(k)
    \/ OpenFails(k) \/ InsertForward(k)
    \/ Halted(k) \/ CancelOnServer(k) \/ CancelFails(k) \/ CancelGivenUp(k) \/ Drained(k)
    \/ NextForward(k) \/ EndBatch(k) \/ GracePeriodEnds(k)
    \/ RegisterAfter(k) \/ NextRule(k) \/ EndRestore(k)

Call(k) ==
    \/ \E r \in Rules : \/ Create(k, r) \/ Restart(k, r)
                        \/ \E op \in {"stop", "delete"} : StopForward(k, r, op)
    \/ \E c \in Connections : RestoreSession(k, c)
    \/ \E c \in Connections \union {0} : RemoveManager(k, c)
    \/ SuspendSession(k) \/ StopAllForSession(k) \/ StopAll(k) \/ Shutdown(k)

Next ==
    \/ \E k \in Tasks : Call(k) \/ TaskStep(k)
    \/ \E r \in Rules : DeleteStopped(r) \/ UpdateStopped(r)
    \/ \E f \in Forwards : ListenerEnds(f)
    \/ \E c \in Connections : Register(c)
    \/ \E m \in Managers : DropManager(m)

Spec == Init /\ [][Next]_vars

-----------------------------------------------------------------------------
(* Properties *)

\* The maps, the router and the locals of every task keep their types.
TypeOK ==
    /\ calls \in CallSets
    /\ current \in Managers \union {0}
    /\ managers \in 0..MaxManagers
    /\ connection \in [Managers -> Connections \union {0}]
    /\ active \in [Managers -> [Rules -> Forwards \union {0}]]
    /\ stopped \in [Managers -> [Rules -> {"none", "Stopped", "Suspended"}]]
    /\ router \in [Managers -> [Ports -> Forwards \union {0}]]
    /\ forwards \in 0..MaxForwards
    /\ rule \in [Forwards -> Rules \union {"none"}]
    /\ listening \in SUBSET Forwards
    /\ told \in SUBSET Forwards
    /\ task \in [Tasks -> TaskStates]
    /\ shutdown \in {"RUNNING", "SHUTTING_DOWN", "STOPPED"}
    /\ kept \in [Managers -> SUBSET Rules]

\* Where a forward is: a place in a map, or a task that has it in its hands.
Owners(f) ==
    {place \in Managers \X Rules : active[place[1]][place[2]] = f}
        \union {k \in Tasks : task[k].forward = f \/ f \in task[k].batch}

\* A forward that was opened and not told to stop has exactly one owner, which can
\* stop it: whatever creates, stops, suspends, restores and bulk stops overtake each
\* other on one rule, no forward is in two places, and none is in no map and no task's
\* hands without having been told to stop or dropped.  A dropped remote forward only
\* unregisters its target; its listener on the server is not cancelled by the drop.
RunningIsOwned ==
    \A f \in 1..forwards : f \notin told => Cardinality(Owners(f)) = 1

\* A router target never belongs to a forward that was told to stop or dropped: from
\* then on no channel the server opens is connected to its target.
TargetIsLive ==
    \A m \in Managers, p \in Ports : router[m][p] # 0 => router[m][p] \notin told

\* Rule r is on its way through task k, to be started, stopped or put back.
InHands(k, m, r) ==
    /\ task[k].manager = m
    /\ \/ task[k].rule = r /\ task[k].op # "create"
       \/ \E f \in task[k].batch : rule[f] = r

\* A rule that was created and that nobody deleted or cleared is never lost: it is
\* listed as running or stopped, or a task will list it - also when its restart, its
\* restore or its cancellation on the server fails.
RuleNotLost ==
    \A m \in Managers : \A r \in kept[m] :
        HasRule(m, r) \/ \E k \in Tasks : InHands(k, m, r)
=============================================================================
