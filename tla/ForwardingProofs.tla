------------------------- MODULE ForwardingProofs ---------------------------
(***************************************************************************)
(* Theorems about Forwarding for any tasks, rules, ports and connections,  *)
(* any number of managers and forwards, and any set of public calls.       *)
(***************************************************************************)
EXTENDS Forwarding, FiniteSetTheorems, TLAPS

-----------------------------------------------------------------------------
(* The inductive invariant *)

\* What the place of a task says about its locals: it has a rule from the check to the
\* insertion of a new forward and while it stops an old one, a forward from its opening
\* to its insertion and from its removal to its end, and a batch only while it suspends
\* or clears a manager.  A forward whose stop is awaited has been told.
Placed(t) ==
    /\ t.at = "idle" => t = Idle
    /\ t.at \in {"check", "open", "insert"} =>
          t.op \in {"create", "restart", "restore"} /\ t.rule \in Rules
    /\ t.at = "insert" => t.forward # 0 /\ rule[t.forward] = t.rule
    /\ t.at \in {"halt", "cancel", "drain"} =>
          /\ t.op \in {"stop", "delete", "suspend", "clear"}
          /\ t.forward # 0 /\ t.rule = rule[t.forward]
    /\ t.at \in {"halt", "drain"} => t.forward \in told
    /\ t.at \notin {"insert", "halt", "cancel", "drain"} => t.forward = 0
    /\ t.at = "next" => t.op \in {"restore", "suspend", "clear"} /\ t.rule = "none"
    /\ t.at = "register" => t.op \in {"restore", "none"} /\ t.manager = 0
    /\ t.at \notin {"idle", "next", "register"} => t.manager # 0
    /\ t.at = "next" /\ t.manager = 0 => t.op = "clear" /\ t.batch = {}
    /\ t.batch # {} => t.op \in {"suspend", "clear"}
    /\ t.after = "stopped" => t.op = "clear"

Opened == 1..forwards

\* Only forwards that were opened are anywhere, and they have a rule.
OpenedOnly ==
    /\ \A m \in Managers, r \in Rules : active[m][r] \in Opened \union {0}
    /\ \A m \in Managers, p \in Ports : router[m][p] \in Opened \union {0}
    /\ \A k \in Tasks : task[k].forward \in Opened \union {0} /\ task[k].batch \subseteq Opened
    /\ told \subseteq Opened
    /\ \A f \in Opened : rule[f] \in Rules

\* A running forward is listed under its rule.
ListedByRule == \A m \in Managers, r \in Rules : active[m][r] # 0 => rule[active[m][r]] = r

\* The first part of the invariant, which the types rest on.
Typed ==
    /\ TypeOK
    /\ OpenedOnly
    /\ ListedByRule
    /\ \A k \in Tasks : Placed(task[k])

\* The forwards task k has in its hands.
Hand(k) == task[k].batch \union ({task[k].forward} \ {0})

InMap(m, f) == \E r \in Rules : active[m][r] = f

\* No forward, told or not, is in two places.
OwnedOnce ==
    /\ \A f \in Opened, m, n \in Managers : InMap(m, f) /\ InMap(n, f) => m = n
    /\ \A f \in Opened, m \in Managers, k \in Tasks : ~(InMap(m, f) /\ f \in Hand(k))
    /\ \A f \in Opened, j, k \in Tasks : f \in Hand(j) /\ f \in Hand(k) => j = k

\* A forward that was not told is somewhere.
Owned ==
    \A f \in Opened \ told : (\E m \in Managers : InMap(m, f)) \/ (\E k \in Tasks : f \in Hand(k))

\* A router target is not told, has the port it is registered under, and is with the
\* manager of that router: telling it will unregister this target.
Routed ==
    \A m \in Managers, p \in Ports : router[m][p] # 0 =>
        LET f == router[m][p]
        IN  /\ f \notin told
            /\ IsRemote(f) /\ PortOf[rule[f]] = p
            /\ \A n \in Managers : InMap(n, f) => n = m
            /\ \A k \in Tasks : f \in Hand(k) => task[k].manager = m

\* The second part of the invariant.
Ownership == OwnedOnce /\ Owned /\ Routed

\* Task k will list rule r again.  A task that creates, deletes or clears does not count,
\* which makes this stronger than InHands.
Keeps(k, m, r) ==
    /\ task[k].manager = m
    /\ \/ task[k].rule = r /\ task[k].op \in {"restart", "restore", "stop", "suspend"}
       \/ task[k].op = "suspend" /\ \E f \in task[k].batch : rule[f] = r

\* The third part of the invariant.
RuleKept ==
    \A m \in Managers : \A r \in kept[m] :
        HasRule(m, r) \/ \E k \in Tasks : Keeps(k, m, r)

-----------------------------------------------------------------------------
(* Types *)

\* No task, no forward and nothing told at the start.
LEMMA TypedInit == Init => Typed
BY ForwardingAssumption
   DEF Init, Typed, TypeOK, OpenedOnly, ListedByRule, Opened, Placed, Managers, Forwards,
       TaskStates, Idle, Places, Operations

\* Task k alone moves, to a place with the locals of that place.
Stepped(k) ==
    /\ task' \in [Tasks -> TaskStates]
    /\ \A j \in Tasks \ {k} : task'[j] = task[j]
    /\ Placed(task[k])'

\* One task gets new locals.
LEMMA ReplaceSteps ==
  ASSUME Typed, NEW k \in Tasks, NEW t \in TaskStates, Placed(t)', task' = [task EXCEPT ![k] = t]
  PROVE  Stepped(k)
BY DEF Typed, TypeOK, Stepped, Placed

\* A task takes one forward, of a map or of its batch.
LEMMA TakeSteps ==
  ASSUME Typed, NEW k \in Tasks, NEW f \in Opened, NEW t \in TaskStates, Take(k, f, t),
         t.op \in {"stop", "delete", "suspend", "clear"}, t.manager # 0,
         t.batch # {} => t.op \in {"suspend", "clear"},
         t.after = "stopped" => t.op = "clear", UNCHANGED rule
  PROVE  Stepped(k)
<1>p. PICK place \in Places : place = IF IsRemote(f) THEN "cancel" ELSE "halt"
  BY DEF Places
<1>n. PICK new : new = [t EXCEPT !.forward = f, !.rule = rule[f], !.at = place]
  OBVIOUS
<1>1. f \in Forwards /\ rule[f] \in Rules /\ f # 0
  BY ForwardingAssumption DEF Typed, TypeOK, OpenedOnly, Opened, Forwards
<1>2. new \in TaskStates
  BY <1>1, <1>n DEF TaskStates, Places
<1>3. /\ new.forward = f /\ new.rule = rule[f] /\ new.at = place
      /\ new.op = t.op /\ new.manager = t.manager /\ new.batch = t.batch /\ new.after = t.after
  BY <1>n DEF TaskStates
<1>4. place \in {"halt", "cancel"} /\ (place = "halt" => f \in told')
  BY <1>p DEF Take, Tell
<1>5. Placed(new)'
  BY <1>1, <1>3, <1>4 DEF Placed
<1> QED
  BY <1>p, <1>n, <1>2, <1>5, ReplaceSteps DEF Take

\* A task takes all forwards of a manager.
LEMMA DrainSteps ==
  ASSUME Typed, NEW k \in Tasks, NEW m \in Managers, NEW t \in TaskStates, DrainManager(k, m, t),
         t.op \in {"suspend", "clear"}, t.rule = "none", t.forward = 0,
         t.after = "stopped" => t.op = "clear"
  PROVE  Stepped(k)
<1>n. PICK new : new = [t EXCEPT !.at = "next", !.manager = m, !.batch = Running(m)]
  OBVIOUS
<1>1. Running(m) \in SUBSET Forwards
  BY DEF Running, Typed, TypeOK
<1>2. m # 0
  BY ForwardingAssumption DEF Managers
<1>3. new \in TaskStates
  BY <1>1, <1>n DEF TaskStates, Places
<1>4. /\ new.forward = 0 /\ new.rule = "none" /\ new.at = "next"
      /\ new.op = t.op /\ new.manager = m /\ new.after = t.after
  BY <1>n DEF TaskStates
<1>5. Placed(new)'
  BY <1>2, <1>4 DEF Placed
<1> QED
  BY <1>n, <1>3, <1>5, ReplaceSteps DEF DrainManager

\* The public calls.
LEMMA CallSteps ==
  ASSUME Typed, NEW k \in Tasks, Call(k)
  PROVE  Stepped(k)
<1> USE DEF Typed, TypeOK
<1>m. current # 0 => current \in Managers
  OBVIOUS
<1>i. Idle \in TaskStates
  BY DEF Idle, TaskStates, Places, Operations
<1>1. ASSUME NEW r \in Rules, Create(k, r)
      PROVE  Stepped(k)
  <2> DEFINE t == [Idle EXCEPT !.at = "check", !.op = "create", !.manager = current, !.rule = r]
  <2>1. t \in TaskStates
    BY <1>1, <1>m DEF Create, Idle, TaskStates, Places, Operations
  <2>2. Placed(t)'
    BY <1>1, <1>m DEF Create, Idle, Placed
  <2> QED
    BY <1>1, <2>1, <2>2, ReplaceSteps DEF Create
<1>2. ASSUME NEW r \in Rules, Restart(k, r)
      PROVE  Stepped(k)
  <2> DEFINE t == [Idle EXCEPT !.at = "check", !.op = "restart", !.manager = current, !.rule = r]
  <2>1. t \in TaskStates
    BY <1>2, <1>m DEF Restart, Idle, TaskStates, Places, Operations
  <2>2. Placed(t)'
    BY <1>2, <1>m DEF Restart, Idle, Placed
  <2> QED
    BY <1>2, <2>1, <2>2, ReplaceSteps DEF Restart
<1>3. ASSUME NEW r \in Rules, NEW op \in {"stop", "delete"}, StopForward(k, r, op)
      PROVE  Stepped(k)
  <2> DEFINE t == [Idle EXCEPT !.op = op, !.manager = current]
  <2>1. current \in Managers /\ current # 0
    BY <1>3, <1>m DEF StopForward
  <2>2. t \in TaskStates
    BY <2>1 DEF Idle, TaskStates, Places, Operations
  <2>3. t.op = op /\ t.manager = current /\ t.batch = {} /\ t.after = "done"
    BY DEF Idle
  <2>4. active[current][r] \in Opened
    BY <1>3, <2>1 DEF StopForward, OpenedOnly
  <2> QED
    BY <1>3, <2>1, <2>2, <2>3, <2>4, TakeSteps DEF StopForward
<1>5. ASSUME NEW c \in Connections, RestoreSession(k, c)
      PROVE  Stepped(k)
  <2>1. CASE connection[current] # c
    <3> DEFINE t == [Idle EXCEPT !.op = "suspend", !.target = c, !.after = "register"]
    <3>1. t \in TaskStates
      BY DEF Idle, TaskStates, Places, Operations
    <3>2. t.op = "suspend" /\ t.rule = "none" /\ t.forward = 0 /\ t.after = "register"
      BY DEF Idle
    <3> QED
      BY <1>5, <1>m, <2>1, <3>1, <3>2, DrainSteps DEF RestoreSession
  <2>2. CASE connection[current] = c
    <3> DEFINE t == [Idle EXCEPT !.at = "register", !.target = c, !.op = "restore"]
    <3>1. t \in TaskStates
      BY DEF Idle, TaskStates, Places, Operations
    <3>2. Placed(t)'
      BY DEF Idle, Placed
    <3> QED
      BY <1>5, <2>2, <3>1, <3>2, ReplaceSteps DEF RestoreSession
  <2> QED
    BY <2>1, <2>2
<1>6. ASSUME NEW c \in Connections \union {0}, RemoveManager(k, c)
      PROVE  Stepped(k)
  <2>0. PICK after \in {"done", "register"} : after = IF c = 0 THEN "done" ELSE "register"
    OBVIOUS
  <2> DEFINE t == [Idle EXCEPT !.op = "clear", !.target = c, !.after = after]
  <2>1. t \in TaskStates
    BY DEF Idle, TaskStates, Places, Operations
  <2>2. t.op = "clear" /\ t.rule = "none" /\ t.forward = 0
    BY DEF Idle
  <2> QED
    BY <1>6, <1>m, <2>0, <2>1, <2>2, DrainSteps DEF RemoveManager
<1>7. CASE SuspendSession(k)
  <2> DEFINE t == [Idle EXCEPT !.op = "suspend"]
  <2>1. t \in TaskStates
    BY DEF Idle, TaskStates, Places, Operations
  <2>2. t.op = "suspend" /\ t.rule = "none" /\ t.forward = 0 /\ t.after = "done"
    BY DEF Idle
  <2> QED
    BY <1>7, <1>m, <2>1, <2>2, DrainSteps DEF SuspendSession
<1>8. CASE StopAllForSession(k)
  <2> DEFINE t == [Idle EXCEPT !.op = "clear"]
  <2>1. t \in TaskStates
    BY DEF Idle, TaskStates, Places, Operations
  <2>2. t.op = "clear" /\ t.rule = "none" /\ t.forward = 0
    BY DEF Idle
  <2> QED
    BY <1>8, <1>m, <2>1, <2>2, DrainSteps DEF StopAllForSession
<1>9. CASE StopAll(k)
  <2> DEFINE t == [Idle EXCEPT !.op = "clear", !.after = "forget"]
  <2>1. t \in TaskStates
    BY DEF Idle, TaskStates, Places, Operations
  <2>2. t.op = "clear" /\ t.rule = "none" /\ t.forward = 0
    BY DEF Idle
  <2> QED
    BY <1>9, <1>m, <2>1, <2>2, DrainSteps DEF StopAll
<1>10. CASE Shutdown(k)
  <2>1. CASE current # 0
    <3> DEFINE t == [Idle EXCEPT !.op = "clear", !.after = "stopped"]
    <3>1. t \in TaskStates
      BY DEF Idle, TaskStates, Places, Operations
    <3>2. t.op = "clear" /\ t.rule = "none" /\ t.forward = 0
      BY DEF Idle
    <3> QED
      BY <1>10, <1>m, <2>1, <3>1, <3>2, DrainSteps DEF Shutdown
  <2>2. CASE current = 0
    <3> DEFINE t == [Idle EXCEPT !.at = "next", !.op = "clear", !.after = "stopped"]
    <3>1. t \in TaskStates
      BY DEF Idle, TaskStates, Places, Operations
    <3>2. Placed(t)'
      BY DEF Idle, Placed
    <3> QED
      BY <1>10, <2>2, <3>1, <3>2, ReplaceSteps DEF Shutdown
  <2> QED
    BY <2>1, <2>2
<1> QED
  BY <1>1, <1>2, <1>3, <1>5, <1>6, <1>7, <1>8, <1>9, <1>10 DEF Call

\* A task is done, with a call or with one item of a list.
LEMMA ProceedSteps ==
  ASSUME Typed, NEW k \in Tasks, task[k].at \notin {"idle", "next", "register"}, Proceed(k)
  PROVE  Stepped(k)
<1>1. task[k] \in TaskStates /\ Placed(task[k])
  BY DEF Typed, TypeOK
<1>2. CASE task[k].op \in {"restore", "suspend", "clear"}
  <2>n. PICK new : new = [task[k] EXCEPT !.at = "next", !.forward = 0, !.rule = "none"]
    OBVIOUS
  <2>1. new \in TaskStates
    BY <1>1, <2>n DEF TaskStates, Places
  <2>2. /\ new.forward = 0 /\ new.rule = "none" /\ new.at = "next"
        /\ new.op = task[k].op /\ new.manager = task[k].manager /\ new.batch = task[k].batch
        /\ new.after = task[k].after
    BY <1>1, <2>n DEF TaskStates
  <2>3. Placed(new)'
    BY <1>1, <1>2, <2>2 DEF Placed
  <2>4. task' = [task EXCEPT ![k] = new]
    BY <1>1, <1>2, <2>n DEF Proceed, Typed, TypeOK
  <2> QED
    BY <2>1, <2>3, <2>4, ReplaceSteps
<1>3. CASE task[k].op \notin {"restore", "suspend", "clear"}
  <2>1. Idle \in TaskStates /\ Placed(Idle)'
    BY DEF Idle, TaskStates, Places, Operations, Placed
  <2> QED
    BY <1>3, <2>1, ReplaceSteps DEF Proceed, Finish
<1> QED
  BY <1>2, <1>3

\* A task goes on to another place and keeps its other locals.
LEMMA GotoType ==
  ASSUME NEW t \in TaskStates, NEW p \in Places, NEW new, new = [t EXCEPT !.at = p]
  PROVE  /\ new \in TaskStates /\ new.at = p
         /\ new.op = t.op /\ new.manager = t.manager /\ new.batch = t.batch
         /\ new.rule = t.rule /\ new.forward = t.forward /\ new.after = t.after
BY DEF TaskStates

\* The steps of a call.
LEMMA TaskStepSteps ==
  ASSUME Typed, NEW k \in Tasks, TaskStep(k)
  PROVE  Stepped(k)
<1>0. /\ task \in [Tasks -> TaskStates] /\ task[k] \in TaskStates /\ Placed(task[k])
      /\ Idle \in TaskStates /\ Placed(Idle)'
  BY DEF Typed, TypeOK, Idle, TaskStates, Places, Operations, Placed
<1>1. CASE AlreadyExists(k) \/ OpenFails(k) \/ InsertForward(k) \/ Halted(k) \/ Drained(k)
  BY <1>1, ProceedSteps DEF AlreadyExists, OpenFails, GiveUp, InsertForward, Halted, Drained
<1>2. CASE CheckRule(k)
  <2>n. PICK new : new = [task[k] EXCEPT !.at = "open"]
    OBVIOUS
  <2>1. /\ new \in TaskStates /\ new.at = "open"
        /\ new.op = task[k].op /\ new.manager = task[k].manager /\ new.batch = task[k].batch
        /\ new.rule = task[k].rule /\ new.forward = task[k].forward /\ new.after = task[k].after
    BY <1>0, <2>n, GotoType DEF Places
  <2>2. Placed(new)'
    BY <1>0, <1>2, <2>1 DEF CheckRule, Placed
  <2>3. task' = [task EXCEPT ![k] = new]
    BY <1>0, <1>2, <2>n DEF CheckRule
  <2> QED
    BY <2>1, <2>2, <2>3, ReplaceSteps
<1>3. CASE OpenForward(k)
  <2>f. PICK f \in Forwards : f = forwards + 1
    BY <1>3, ForwardingAssumption DEF OpenForward, Typed, TypeOK, Forwards
  <2>n. PICK new : new = [task[k] EXCEPT !.at = "insert", !.forward = f]
    OBVIOUS
  <2>1. new \in TaskStates
    BY <1>0, <2>n DEF TaskStates, Places
  <2>2. /\ new.forward = f /\ new.rule = task[k].rule /\ new.at = "insert"
        /\ new.op = task[k].op /\ new.manager = task[k].manager /\ new.batch = task[k].batch
        /\ new.after = task[k].after
    BY <1>0, <2>n DEF TaskStates
  <2>3. rule'[f] = task[k].rule /\ f # 0
    BY <1>3, <2>f DEF OpenForward, Typed, TypeOK, Forwards
  <2>4. Placed(new)'
    BY <1>0, <1>3, <2>2, <2>3 DEF OpenForward, Placed
  <2>5. task' = [task EXCEPT ![k] = new]
    BY <1>0, <1>3, <2>f, <2>n DEF OpenForward
  <2> QED
    BY <2>1, <2>4, <2>5, ReplaceSteps
<1>4. CASE CancelOnServer(k) \/ CancelGivenUp(k)
  <2>n. PICK new : new = [task[k] EXCEPT !.at = "drain"]
    OBVIOUS
  <2>1. task[k].at = "cancel" /\ task[k].forward \in told' /\ rule' = rule
    BY <1>4 DEF CancelOnServer, CancelGivenUp, Tell
  <2>2. /\ new \in TaskStates /\ new.at = "drain"
        /\ new.op = task[k].op /\ new.manager = task[k].manager /\ new.batch = task[k].batch
        /\ new.rule = task[k].rule /\ new.forward = task[k].forward /\ new.after = task[k].after
    BY <1>0, <2>n, GotoType DEF Places
  <2>3. Placed(new)'
    BY <1>0, <2>1, <2>2 DEF Placed
  <2>4. task' = [task EXCEPT ![k] = new]
    BY <1>0, <1>4, <2>n DEF CancelOnServer, CancelGivenUp
  <2> QED
    BY <2>2, <2>3, <2>4, ReplaceSteps
<1>5. CASE CancelFails(k) \/ EndRestore(k) \/ GracePeriodEnds(k)
  BY <1>0, <1>5, ReplaceSteps DEF CancelFails, EndRestore, GracePeriodEnds, Finish
<1>6. CASE NextForward(k)
  <2>1. PICK f \in task[k].batch : Take(k, f, [task[k] EXCEPT !.batch = @ \ {f}])
    BY <1>6 DEF NextForward
  <2>n. PICK t : t = [task[k] EXCEPT !.batch = task[k].batch \ {f}]
    OBVIOUS
  <2>2. f \in Opened
    BY <1>6 DEF NextForward, Typed, OpenedOnly
  <2>3. t \in TaskStates
    BY <1>0, <2>n DEF TaskStates
  <2>4. /\ t.op = task[k].op /\ t.manager = task[k].manager /\ t.after = task[k].after
        /\ t.batch = task[k].batch \ {f}
    BY <1>0, <2>n DEF TaskStates
  <2>5. /\ t.op \in {"suspend", "clear"} /\ t.manager # 0
        /\ (t.after = "stopped" => t.op = "clear")
    BY <1>0, <1>6, <2>1, <2>4 DEF NextForward, Placed
  <2> QED
    BY <1>6, <2>1, <2>n, <2>2, <2>3, <2>4, <2>5, TakeSteps DEF NextForward
<1>7. CASE EndBatch(k)
  <2>1. CASE task[k].after = "register"
    <3>o. PICK op \in {"restore", "none"} : op = IF task[k].op = "suspend" THEN "restore" ELSE "none"
      OBVIOUS
    <3>n. PICK new : new = [Idle EXCEPT !.at = "register", !.target = task[k].target, !.op = op]
      OBVIOUS
    <3>1. new \in TaskStates
      BY <1>0, <3>n, ZenonT(30) DEF Idle, TaskStates, Places, Operations
    <3>2. Placed(new)'
      BY <3>n DEF Idle, Placed
    <3> QED
      BY <1>7, <2>1, <3>o, <3>n, <3>1, <3>2, ReplaceSteps DEF EndBatch
  <2>2. CASE task[k].after # "register"
    BY <1>0, <1>7, <2>2, ReplaceSteps DEF EndBatch, Finish
  <2> QED
    BY <2>1, <2>2
<1>8. CASE RegisterAfter(k)
  <2>1. CASE task[k].op = "restore"
    <3>m. PICK m \in Managers : m = current'
      BY <1>8 DEF RegisterAfter, RegisterWith
    <3>n. PICK new : new = [Idle EXCEPT !.at = "next", !.op = "restore", !.manager = m,
                                        !.list = {r \in Rules : stopped[m][r] # "none"}]
      OBVIOUS
    <3>1. new \in TaskStates
      BY <3>n DEF Idle, TaskStates, Places, Operations
    <3>2. Placed(new)'
      BY <3>n, ForwardingAssumption DEF Idle, Placed, Managers
    <3> QED
      BY <1>8, <2>1, <3>m, <3>n, <3>1, <3>2, ReplaceSteps DEF RegisterAfter
  <2>2. CASE task[k].op # "restore"
    BY <1>0, <1>8, <2>2, ReplaceSteps DEF RegisterAfter, Finish
  <2> QED
    BY <2>1, <2>2
<1>9. CASE NextRule(k)
  <2>1. PICK r \in task[k].list :
           task' = [task EXCEPT ![k].at = "check", ![k].rule = r, ![k].list = @ \ {r}]
    BY <1>9 DEF NextRule
  <2>n. PICK new : new = [task[k] EXCEPT !.at = "check", !.rule = r, !.list = task[k].list \ {r}]
    OBVIOUS
  <2>2. r \in Rules
    BY <1>0, <2>1 DEF TaskStates
  <2>3. new \in TaskStates
    BY <1>0, <2>2, <2>n DEF TaskStates, Places
  <2>4. /\ new.forward = task[k].forward /\ new.rule = r /\ new.at = "check"
        /\ new.op = task[k].op /\ new.manager = task[k].manager /\ new.batch = task[k].batch
        /\ new.after = task[k].after
    BY <1>0, <2>n DEF TaskStates
  <2>5. Placed(new)'
    BY <1>0, <1>9, <2>2, <2>4 DEF NextRule, Placed
  <2>6. task' = [task EXCEPT ![k] = new]
    BY <1>0, <2>1, <2>n
  <2> QED
    BY <2>3, <2>5, <2>6, ReplaceSteps
<1> QED
  BY <1>1, <1>2, <1>3, <1>4, <1>5, <1>6, <1>7, <1>8, <1>9 DEF TaskStep

-----------------------------------------------------------------------------
(* What the steps do to the forwards *)

\* The router of manager m loses the targets of the forwards in fs, and nothing comes
\* in.
Cleared(m, fs) ==
    /\ router' \in [Managers -> [Ports -> Forwards \union {0}]]
    /\ \A n \in Managers, p \in Ports : router'[n][p] \in {router[n][p], 0}
    /\ \A f \in fs : m \in Managers /\ (IsRemote(f) => router'[m][PortOf[rule[f]]] = 0)

\* Task k tells forwards in its hands, and lets some go that are told by then.
Lets(k, fs) ==
    /\ fs \subseteq Hand(k)
    /\ Hand(k)' \subseteq Hand(k)
    /\ Hand(k) \ Hand(k)' \subseteq told'
    /\ Hand(k)' # {} => task'[k].manager = task[k].manager
    /\ told' = told \union fs
    /\ Cleared(task[k].manager, fs)
    /\ UNCHANGED <<active, forwards, rule>>

\* Task k opens a forward.
Opens(k, f) ==
    /\ f = forwards + 1 /\ f \in Forwards /\ forwards' = f
    /\ task[k].rule \in Rules /\ rule' = [rule EXCEPT ![f] = task[k].rule]
    /\ Hand(k) = {} /\ Hand(k)' = {f}
    /\ task[k].manager \in Managers /\ task'[k].manager = task[k].manager
    /\ router' = IF IsRemote(f)' THEN [router EXCEPT ![task[k].manager][PortOf[task[k].rule]] = f]
                                 ELSE router
    /\ UNCHANGED <<active, told>>

\* Task k puts its only forward into the map; the one that was there is dropped.
Returns(k) ==
    LET m == task[k].manager
        r == task[k].rule
        f == task[k].forward
    IN  /\ m \in Managers /\ r \in Rules /\ f \in Opened /\ rule[f] = r
        /\ Hand(k) = {f} /\ Hand(k)' = {}
        /\ active' = [active EXCEPT ![m][r] = f]
        /\ told' = told \union ({active[m][r]} \ {0})
        /\ Cleared(m, {active[m][r]} \ {0})
        /\ UNCHANGED <<forwards, rule>>

\* The forwards in fs leave the map of manager m; some of them are told.
Leave(m, fs, some) ==
    /\ m \in Managers /\ fs \subseteq Opened /\ some \subseteq fs
    /\ active' \in [Managers -> [Rules -> Forwards \union {0}]]
    /\ \A n \in Managers \ {m} : active'[n] = active[n]
    /\ \A r \in Rules : IF active[m][r] \in fs THEN active'[m][r] = 0
                                               ELSE active'[m][r] = active[m][r]
    /\ \A f \in fs : \E r \in Rules : active[m][r] = f
    /\ told' = told \union some
    /\ Cleared(m, some)
    /\ UNCHANGED <<forwards, rule>>

\* Task k takes them.
Takes(k, m, fs, some) ==
    /\ Leave(m, fs, some)
    /\ Hand(k) = {} /\ Hand(k)' = fs
    /\ task'[k].manager = m

\* Nobody takes them.
Drops(m, fs) ==
    /\ Leave(m, fs, fs)
    /\ \A k \in Tasks : task[k].manager # m
    /\ UNCHANGED task

\* Unregistering clears the targets, whoever registered them.
LEMMA UnrouteClears ==
  ASSUME Typed, NEW m \in Managers, NEW fs \in SUBSET Opened, Unroute(m, fs)
  PROVE  Cleared(m, fs)
<1>1. \A f \in fs : IsRemote(f) => PortOf[rule[f]] \in Ports
  BY ForwardingAssumption DEF IsRemote
<1> QED
  BY <1>1 DEF Unroute, Cleared, Typed, TypeOK

\* Nothing is cleared when the router does not change.
LEMMA RouterKept ==
  ASSUME Typed, NEW m, UNCHANGED router
  PROVE  Cleared(m, {})
BY DEF Cleared, Typed, TypeOK

\* What a task has in its hands was opened.
LEMMA HandOpened ==
  ASSUME Typed, NEW k \in Tasks
  PROVE  Hand(k) \subseteq Opened
BY DEF Typed, OpenedOnly, Hand

\* A task that goes on to its next item, or is done, keeps its batch alone.
LEMMA ProceedHand ==
  ASSUME Typed, NEW k \in Tasks, Proceed(k)
  PROVE  /\ Hand(k)' = task[k].batch
         /\ Hand(k)' # {} => task'[k].manager = task[k].manager
<1>1. task[k] \in TaskStates /\ Placed(task[k]) /\ task \in [Tasks -> TaskStates]
  BY DEF Typed, TypeOK
<1>2. CASE task[k].op \in {"restore", "suspend", "clear"}
  <2>1. /\ task'[k].batch = task[k].batch /\ task'[k].forward = 0
        /\ task'[k].manager = task[k].manager
    BY <1>1, <1>2 DEF Proceed, TaskStates
  <2> QED
    BY <2>1 DEF Hand
<1>3. CASE task[k].op \notin {"restore", "suspend", "clear"}
  BY <1>1, <1>3 DEF Proceed, Finish, Idle, Hand, Placed
<1> QED
  BY <1>2, <1>3

\* The steps of a call.
LEMMA TaskStepEffects ==
  ASSUME Typed, NEW k \in Tasks, TaskStep(k)
  PROVE  \/ \E fs : Lets(k, fs)
         \/ \E f : Opens(k, f)
         \/ Returns(k)
<1>0. /\ task \in [Tasks -> TaskStates] /\ task[k] \in TaskStates /\ Placed(task[k])
      /\ 0 \notin Opened /\ Hand(k) \subseteq Opened
  BY HandOpened DEF Typed, TypeOK, Opened
<1>q. ASSUME Hand(k)' = Hand(k), Hand(k) # {} => task'[k].manager = task[k].manager,
             UNCHANGED <<active, forwards, rule, told, router>>
      PROVE  Lets(k, {})
  BY <1>q, RouterKept DEF Lets
<1>1. CASE AlreadyExists(k) \/ OpenFails(k)
  <2>1. Proceed(k) /\ UNCHANGED <<active, forwards, rule, told, router>>
    BY <1>1 DEF AlreadyExists, OpenFails, GiveUp
  <2>2. Hand(k) = task[k].batch
    BY <1>0, <1>1 DEF AlreadyExists, OpenFails, Placed, Hand
  <2> QED
    BY <1>q, <2>1, <2>2, ProceedHand
<1>2. CASE CheckRule(k) \/ NextRule(k)
  <2>1. task'[k].batch = task[k].batch /\ task'[k].forward = task[k].forward
            /\ task'[k].manager = task[k].manager
    <3>1. CASE CheckRule(k)
      BY <1>0, <3>1 DEF CheckRule, TaskStates
    <3>2. CASE NextRule(k)
      <4>1. PICK r : task' = [task EXCEPT ![k].at = "check", ![k].rule = r, ![k].list = @ \ {r}]
        BY <3>2 DEF NextRule
      <4> QED
        BY <1>0, <4>1 DEF TaskStates
    <3> QED
      BY <1>2, <3>1, <3>2
  <2> QED
    BY <1>2, <2>1, <1>q DEF CheckRule, NextRule, Hand
<1>3. CASE OpenForward(k)
  <2>1. /\ task[k].manager \in Managers /\ task[k].rule \in Rules /\ task[k].batch = {}
        /\ task[k].forward = 0
    BY <1>0, <1>3 DEF OpenForward, Placed, TaskStates
  <2>f. PICK f \in Forwards : f = forwards + 1
    BY <1>3, ForwardingAssumption DEF OpenForward, Typed, TypeOK, Forwards
  <2>2. task'[k].batch = {} /\ task'[k].forward = f /\ task'[k].manager = task[k].manager
    BY <1>0, <1>3, <2>1, <2>f DEF OpenForward, TaskStates
  <2>3. Hand(k) = {} /\ Hand(k)' = {f}
    BY <2>1, <2>2 DEF Hand, Forwards
  <2>4. IsRemote(f)' <=> task[k].rule \in RemoteRules
    BY <1>3, <2>f DEF OpenForward, IsRemote, Typed, TypeOK
  <2>5. Opens(k, f)
    BY <1>3, <2>1, <2>f, <2>2, <2>3, <2>4 DEF OpenForward, Opens
  <2> QED
    BY <2>5
<1>4. CASE InsertForward(k) \/ CancelFails(k)
  <2>1. /\ task[k].manager \in Managers /\ task[k].rule \in Rules /\ task[k].batch = {}
        /\ task[k].forward \in Opened /\ rule[task[k].forward] = task[k].rule
    BY <1>0, <1>4 DEF InsertForward, CancelFails, Placed, TaskStates, Typed, OpenedOnly
  <2>2. Hand(k)' = {}
    <3>1. CASE InsertForward(k)
      BY <3>1, <2>1, ProceedHand DEF InsertForward
    <3>2. CASE CancelFails(k)
      BY <1>0, <3>2 DEF CancelFails, Finish, Idle, Hand
    <3> QED
      BY <1>4, <3>1, <3>2
  <2>3. Put(task[k].manager, task[k].rule, task[k].forward) /\ UNCHANGED <<forwards, rule>>
    BY <1>4 DEF InsertForward, CancelFails
  <2>4. {active[task[k].manager][task[k].rule]} \ {0} \in SUBSET Opened
    BY <2>1 DEF Typed, OpenedOnly
  <2>5. Returns(k)
    BY <1>0, <2>1, <2>2, <2>3, <2>4, UnrouteClears DEF Returns, Put, Tell, Hand
  <2> QED
    BY <2>5
<1>5. CASE Halted(k)
  <2>1. task[k].forward \in told
    BY <1>0, <1>5 DEF Halted, Placed
  <2>2. Lets(k, {})
    BY <1>5, <2>1, ProceedHand, RouterKept DEF Halted, Lets, Hand
  <2> QED
    BY <2>2
<1>6. CASE Drained(k)
  <2>1. task[k].forward \in told /\ task[k].forward \in Hand(k) /\ task[k].manager \in Managers
    BY <1>0, <1>6 DEF Drained, Placed, Hand, TaskStates
  <2>2. Cleared(task[k].manager, {task[k].forward})
    BY <1>0, <1>6, <2>1, UnrouteClears DEF Drained
  <2>3. Lets(k, {task[k].forward})
    BY <1>6, <2>1, <2>2, ProceedHand DEF Drained, Lets, Hand
  <2> QED
    BY <2>3
<1>7. CASE CancelOnServer(k) \/ CancelGivenUp(k)
  <2>1. task[k].forward \in Hand(k) /\ task[k].manager \in Managers
    BY <1>0, <1>7 DEF CancelOnServer, CancelGivenUp, Placed, Hand, TaskStates
  <2>2. task'[k].batch = task[k].batch /\ task'[k].forward = task[k].forward
            /\ task'[k].manager = task[k].manager
    BY <1>0, <1>7 DEF CancelOnServer, CancelGivenUp, TaskStates
  <2>3. /\ Tell(task[k].manager, {task[k].forward}) /\ UNCHANGED <<active, forwards, rule>>
    BY <1>7 DEF CancelOnServer, CancelGivenUp
  <2>4. Cleared(task[k].manager, {task[k].forward})
    BY <1>0, <2>1, <2>3, UnrouteClears DEF Tell
  <2>5. Lets(k, {task[k].forward})
    BY <2>1, <2>2, <2>3, <2>4 DEF Tell, Lets, Hand
  <2> QED
    BY <2>5
<1>8. CASE NextForward(k)
  <2>1. PICK f \in task[k].batch : Take(k, f, [task[k] EXCEPT !.batch = @ \ {f}])
    BY <1>8 DEF NextForward
  <2>2. task[k].manager \in Managers /\ task[k].op \in {"suspend", "clear"} /\ task[k].forward = 0
    BY <1>0, <1>8, <2>1 DEF NextForward, Placed, TaskStates
  <2>3. /\ task'[k].batch = task[k].batch \ {f} /\ task'[k].forward = f
        /\ task'[k].manager = task[k].manager
    BY <1>0, <2>1 DEF Take, TaskStates
  <2>4. Tell(task[k].manager, {f})
    BY <1>0, <2>1, <2>2 DEF Take, TaskStates
  <2>5. f \in Opened /\ f # 0
    BY <1>0, <2>1 DEF Hand
  <2>6. Hand(k)' = Hand(k) /\ f \in Hand(k)
    BY <2>1, <2>2, <2>3, <2>5 DEF Hand
  <2>7. Cleared(task[k].manager, {f})
    BY <2>2, <2>4, <2>5, UnrouteClears DEF Tell
  <2>8. Lets(k, {f})
    BY <1>8, <2>3, <2>4, <2>6, <2>7 DEF NextForward, Lets, Tell
  <2> QED
    BY <2>8
<1>9. CASE EndBatch(k) \/ RegisterAfter(k) \/ EndRestore(k)
  <2>1. Hand(k) = {}
    BY <1>0, <1>9 DEF EndBatch, RegisterAfter, EndRestore, Placed, Hand
  <2>2. Hand(k)' = {}
    <3>1. CASE Finish(k)
      BY <1>0, <3>1 DEF Finish, Idle, Hand
    <3>2. CASE EndBatch(k) /\ task[k].after = "register"
      BY <1>0, <3>2, ZenonT(30) DEF EndBatch, Idle, Hand
    <3>3. CASE RegisterAfter(k) /\ task[k].op = "restore"
      BY <1>0, <3>3, ZenonT(30) DEF RegisterAfter, Idle, Hand
    <3> QED
      BY <1>9, <3>1, <3>2, <3>3 DEF EndBatch, RegisterAfter, EndRestore
  <2>3. UNCHANGED <<active, forwards, rule, told, router>>
    BY <1>9 DEF EndBatch, RegisterAfter, EndRestore
  <2> QED
    BY <1>q, <2>1, <2>2, <2>3
<1>10. CASE GracePeriodEnds(k)
  <2>1. Hand(k)' = {}
    BY <1>0, <1>10 DEF GracePeriodEnds, Finish, Idle, Hand
  <2>2. CASE task[k].manager = 0
    <3>1. Hand(k) = {}
      BY <1>0, <1>10, <2>2 DEF GracePeriodEnds, Placed, Hand
    <3> QED
      BY <1>10, <1>q, <2>1, <2>2, <3>1 DEF GracePeriodEnds
  <2>3. CASE task[k].manager # 0
    <3>1. task[k].manager \in Managers
      BY <1>0, <2>3 DEF TaskStates
    <3>2. Tell(task[k].manager, Hand(k))
      BY <1>10, <2>3 DEF GracePeriodEnds, Hand
    <3>3. Cleared(task[k].manager, Hand(k))
      BY <1>0, <3>1, <3>2, UnrouteClears DEF Tell
    <3>4. Lets(k, Hand(k))
      BY <1>10, <2>1, <3>2, <3>3 DEF GracePeriodEnds, Tell, Lets
    <3> QED
      BY <3>4
  <2> QED
    BY <2>2, <2>3
<1> QED
  BY <1>1, <1>2, <1>3, <1>4, <1>5, <1>6, <1>7, <1>8, <1>9, <1>10 DEF TaskStep

\* A manager is drained into the batch of a task.
LEMMA DrainTakes ==
  ASSUME Typed, NEW k \in Tasks, task[k].at = "idle", NEW m \in Managers,
         NEW t \in TaskStates, t.forward = 0, DrainManager(k, m, t),
         UNCHANGED <<router, told, forwards, rule>>
  PROVE  Takes(k, m, Running(m), {})
<1>1. Hand(k) = {}
  BY DEF Typed, Placed, Idle, Hand
<1>2. task'[k].batch = Running(m) /\ task'[k].forward = 0 /\ task'[k].manager = m
  BY DEF DrainManager, Typed, TypeOK, TaskStates
<1>3. Hand(k)' = Running(m)
  BY <1>2 DEF Hand
<1>4. Running(m) \subseteq Opened
  BY DEF Running, Typed, OpenedOnly
<1>5. /\ \A r \in Rules : active[m][r] \in Running(m) \/ active[m][r] = 0
      /\ \A f \in Running(m) : \E r \in Rules : active[m][r] = f
  BY DEF Running
<1>6. /\ active' \in [Managers -> [Rules -> Forwards \union {0}]]
      /\ \A n \in Managers \ {m} : active'[n] = active[n]
      /\ \A r \in Rules : active'[m][r] = 0
  BY DEF DrainManager, Typed, TypeOK
<1>7. Leave(m, Running(m), {})
  BY <1>4, <1>5, <1>6, RouterKept DEF Leave
<1> QED
  BY <1>1, <1>2, <1>3, <1>7 DEF Takes

\* The public calls.
LEMMA CallEffects ==
  ASSUME Typed, NEW k \in Tasks, Call(k)
  PROVE  \/ Lets(k, {})
         \/ \E m, fs, some : Takes(k, m, fs, some)
<1>0. /\ task \in [Tasks -> TaskStates] /\ 0 \notin Opened
      /\ (current # 0 => current \in Managers)
  BY DEF Typed, TypeOK, Opened
<1>q. ASSUME Hand(k) = {}, Hand(k)' = {}, UNCHANGED <<active, forwards, rule, told, router>>
      PROVE  Lets(k, {})
  BY <1>q, RouterKept DEF Lets
<1>i. task[k].at = "idle" => Hand(k) = {}
  BY DEF Typed, Placed, Idle, Hand
<1>1. ASSUME NEW r \in Rules, Create(k, r) \/ Restart(k, r)
      PROVE  Lets(k, {})
  <2>1. Hand(k)' = {}
    BY <1>0, <1>1, ZenonT(30) DEF Create, Restart, Idle, Hand
  <2> QED
    BY <1>1, <1>i, <1>q, <2>1 DEF Create, Restart
<1>2. ASSUME NEW r \in Rules, NEW op \in {"stop", "delete"}, StopForward(k, r, op)
      PROVE  \E m, fs, some : Takes(k, m, fs, some)
  <2>m. PICK m \in Managers : m = current
    BY <1>0, <1>2 DEF StopForward
  <2>f. PICK f \in Opened : f = active[m][r]
    BY <1>2, <2>m DEF StopForward, Typed, OpenedOnly
  <2>s. PICK some \in SUBSET {f} : some = IF IsRemote(f) /\ op \in {"stop", "delete"} THEN {} ELSE {f}
    OBVIOUS
  <2>1. Take(k, f, [Idle EXCEPT !.op = op, !.manager = m])
    BY <1>2, <2>m, <2>f DEF StopForward
  <2>2. task'[k].batch = {} /\ task'[k].forward = f /\ task'[k].manager = m
    BY <1>0, <2>1 DEF Take, Idle
  <2>3. Hand(k)' = {f} /\ Hand(k) = {}
    BY <1>0, <1>2, <1>i, <2>2 DEF StopForward, Hand
  <2>4. Tell(m, some)
    BY <2>1, <2>s DEF Take, Idle
  <2>5. Cleared(m, some)
    BY <2>4, UnrouteClears DEF Tell
  <2>6. \A q \in Rules : active[m][q] = f => q = r
    BY <1>0, <2>f DEF Typed, ListedByRule
  <2>7. active' = [active EXCEPT ![m][r] = 0]
    BY <1>2, <2>m DEF StopForward
  <2>8. /\ active' \in [Managers -> [Rules -> Forwards \union {0}]]
        /\ \A n \in Managers \ {m} : active'[n] = active[n]
        /\ \A q \in Rules : IF active[m][q] \in {f} THEN active'[m][q] = 0
                                                  ELSE active'[m][q] = active[m][q]
    BY <2>f, <2>6, <2>7 DEF Typed, TypeOK
  <2>9. Leave(m, {f}, some)
    BY <1>2, <2>f, <2>4, <2>5, <2>8 DEF StopForward, Leave, Tell
  <2>10. Takes(k, m, {f}, some)
    BY <2>2, <2>3, <2>9 DEF Takes
  <2> QED
    BY <2>10
<1>3. ASSUME NEW t \in TaskStates, t.forward = 0, task[k].at = "idle", current # 0,
             DrainManager(k, current, t), UNCHANGED <<router, told, forwards, rule>>
      PROVE  \E m, fs, some : Takes(k, m, fs, some)
  BY <1>0, <1>3, DrainTakes
<1>4. ASSUME NEW c \in Connections, RestoreSession(k, c)
      PROVE  Lets(k, {}) \/ \E m, fs, some : Takes(k, m, fs, some)
  <2>1. CASE connection[current] # c
    <3> DEFINE t == [Idle EXCEPT !.op = "suspend", !.target = c, !.after = "register"]
    <3>1. t \in TaskStates /\ t.forward = 0
      BY DEF Idle, TaskStates, Places, Operations
    <3> QED
      BY <1>3, <1>4, <2>1, <3>1 DEF RestoreSession
  <2>2. CASE connection[current] = c
    <3>1. Hand(k)' = {}
      BY <1>0, <1>4, <2>2 DEF RestoreSession, Idle, Hand
    <3> QED
      BY <1>4, <1>i, <1>q, <2>2, <3>1 DEF RestoreSession
  <2> QED
    BY <2>1, <2>2
<1>5. ASSUME NEW c \in Connections \union {0}, RemoveManager(k, c)
      PROVE  \E m, fs, some : Takes(k, m, fs, some)
  <2>0. PICK after \in {"done", "register"} : after = IF c = 0 THEN "done" ELSE "register"
    OBVIOUS
  <2> DEFINE t == [Idle EXCEPT !.op = "clear", !.target = c, !.after = after]
  <2>1. t \in TaskStates /\ t.forward = 0
    BY DEF Idle, TaskStates, Places, Operations
  <2> QED
    BY <1>3, <1>5, <2>0, <2>1 DEF RemoveManager
<1>6. CASE SuspendSession(k)
  <2> DEFINE t == [Idle EXCEPT !.op = "suspend"]
  <2>1. t \in TaskStates /\ t.forward = 0
    BY DEF Idle, TaskStates, Places, Operations
  <2> QED
    BY <1>3, <1>6, <2>1 DEF SuspendSession
<1>7. CASE StopAllForSession(k)
  <2> DEFINE t == [Idle EXCEPT !.op = "clear"]
  <2>1. t \in TaskStates /\ t.forward = 0
    BY DEF Idle, TaskStates, Places, Operations
  <2> QED
    BY <1>3, <1>7, <2>1 DEF StopAllForSession
<1>8. CASE StopAll(k)
  <2> DEFINE t == [Idle EXCEPT !.op = "clear", !.after = "forget"]
  <2>1. t \in TaskStates /\ t.forward = 0
    BY DEF Idle, TaskStates, Places, Operations
  <2> QED
    BY <1>3, <1>8, <2>1 DEF StopAll
<1>9. CASE Shutdown(k)
  <2>1. CASE current # 0
    <3> DEFINE t == [Idle EXCEPT !.op = "clear", !.after = "stopped"]
    <3>1. t \in TaskStates /\ t.forward = 0
      BY DEF Idle, TaskStates, Places, Operations
    <3> QED
      BY <1>3, <1>9, <2>1, <3>1 DEF Shutdown
  <2>2. CASE current = 0
    <3>1. Hand(k)' = {}
      BY <1>0, <1>9, <2>2 DEF Shutdown, Idle, Hand
    <3> QED
      BY <1>9, <1>i, <1>q, <2>2, <3>1 DEF Shutdown
  <2> QED
    BY <2>1, <2>2
<1> QED
  BY <1>1, <1>2, <1>4, <1>5, <1>6, <1>7, <1>8, <1>9 DEF Call

\* A manager nobody holds any more is dropped.
LEMMA DropEffects ==
  ASSUME Typed, NEW m \in Managers, DropManager(m)
  PROVE  Drops(m, Running(m))
<1>1. Running(m) \in SUBSET Opened
  BY DEF Running, Typed, OpenedOnly
<1>2. Cleared(m, Running(m))
  BY <1>1, UnrouteClears DEF DropManager, Tell
<1>3. /\ \A r \in Rules : active[m][r] \in Running(m) \/ active[m][r] = 0
      /\ \A f \in Running(m) : \E r \in Rules : active[m][r] = f
  BY DEF Running
<1>4. /\ active' \in [Managers -> [Rules -> Forwards \union {0}]]
      /\ \A n \in Managers \ {m} : active'[n] = active[n]
      /\ \A r \in Rules : active'[m][r] = 0
  BY DEF DropManager, Typed, TypeOK
<1> QED
  BY <1>1, <1>2, <1>3, <1>4 DEF DropManager, Tell, Drops, Leave

\* Nothing happens to a forward or to a task.
Leaves == UNCHANGED <<active, forwards, rule, told, router, task>>

\* The kinds of steps there are, as far as the forwards are concerned.
LEMMA StepKinds ==
  ASSUME Typed, [Next]_vars
  PROVE  \/ \E k \in Tasks : /\ Stepped(k)
                             /\ \/ \E fs : Lets(k, fs)
                                \/ \E f : Opens(k, f)
                                \/ Returns(k)
                                \/ \E m, fs, some : Takes(k, m, fs, some)
         \/ \E m, fs : Drops(m, fs)
         \/ Leaves
<1>1. ASSUME NEW k \in Tasks, Call(k)
      PROVE  Stepped(k) /\ ((\E fs : Lets(k, fs)) \/ \E m, fs, some : Takes(k, m, fs, some))
  BY <1>1, CallSteps, CallEffects
<1>2. ASSUME NEW k \in Tasks, TaskStep(k)
      PROVE  Stepped(k) /\ ((\E fs : Lets(k, fs)) \/ (\E f : Opens(k, f)) \/ Returns(k))
  BY <1>2, TaskStepSteps, TaskStepEffects
<1>3. ASSUME NEW m \in Managers, DropManager(m)
      PROVE  \E n, fs : Drops(n, fs)
  BY <1>3, DropEffects
<1>4. CASE \/ \E r \in Rules : DeleteStopped(r) \/ UpdateStopped(r)
           \/ \E f \in Forwards : ListenerEnds(f)
           \/ \E c \in Connections : Register(c)
           \/ UNCHANGED vars
  BY <1>4 DEF DeleteStopped, UpdateStopped, ListenerEnds, Register, Leaves, vars
<1> QED
  BY <1>1, <1>2, <1>3, <1>4 DEF Next

\* The types of everything but the forwards and the tasks.
PlainTypes ==
    /\ calls \in CallSets
    /\ current \in Managers \union {0}
    /\ managers \in 0..MaxManagers
    /\ connection \in [Managers -> Connections \union {0}]
    /\ stopped \in [Managers -> [Rules -> {"none", "Stopped", "Suspended"}]]
    /\ listening \in SUBSET Forwards
    /\ shutdown \in {"RUNNING", "SHUTTING_DOWN", "STOPPED"}
    /\ kept \in [Managers -> SUBSET Rules]

\* register.
LEMMA RegisterTypes ==
  ASSUME Typed, NEW c \in Connections \union {0}, RegisterWith(c)
  PROVE  /\ current' \in Managers
         /\ managers' \in 0..MaxManagers
         /\ connection' \in [Managers -> Connections \union {0}]
BY ForwardingAssumption DEF RegisterWith, Managers, Typed, TypeOK

\* The types of the maps of rules and of the registry are kept.
LEMMA PlainNext ==
  ASSUME Typed, [Next]_vars
  PROVE  PlainTypes'
<1> USE DEF PlainTypes
<1>0. TypeOK /\ PlainTypes
  BY DEF Typed, TypeOK
<1>1. ASSUME NEW k \in Tasks, Call(k)
      PROVE  PlainTypes'
  <2>1. ASSUME NEW r \in Rules, Create(k, r) \/ Restart(k, r)
        PROVE  PlainTypes'
    BY <1>0, <2>1 DEF Create, Restart
  <2>2. ASSUME NEW r \in Rules, NEW op \in {"stop", "delete"}, StopForward(k, r, op)
        PROVE  PlainTypes'
    BY <1>0, <2>2 DEF StopForward
  <2>3. ASSUME NEW m, NEW t, DrainManager(k, m, t)
        PROVE  kept' \in [Managers -> SUBSET Rules]
    BY <1>0, <2>3 DEF DrainManager
  <2>4. ASSUME NEW c \in Connections \union {0}, RestoreSession(k, c) \/ RemoveManager(k, c)
        PROVE  PlainTypes'
    BY <1>0, <2>3, <2>4 DEF RestoreSession, RemoveManager
  <2>5. CASE SuspendSession(k) \/ StopAllForSession(k) \/ StopAll(k)
    BY <1>0, <2>3, <2>5 DEF SuspendSession, StopAllForSession, StopAll
  <2>6. CASE Shutdown(k)
    BY <1>0, <2>3, <2>6 DEF Shutdown
  <2> QED
    BY <1>1, <2>1, <2>2, <2>4, <2>5, <2>6 DEF Call
<1>2. ASSUME NEW k \in Tasks, TaskStep(k)
      PROVE  PlainTypes'
  <2>0. task[k] \in TaskStates
    BY DEF Typed, TypeOK
  <2>1. ASSUME NEW m, NEW r, NEW v \in {"none", "Stopped", "Suspended"},
               stopped' = [stopped EXCEPT ![m][r] = v]
        PROVE  stopped' \in [Managers -> [Rules -> {"none", "Stopped", "Suspended"}]]
    BY <1>0, <2>1
  <2>2. CASE AlreadyExists(k) \/ OpenFails(k)
    <3>1. /\ GiveUp(k)
          /\ \/ stopped' = stopped
             \/ stopped' = [stopped EXCEPT ![task[k].manager][task[k].rule] = "Stopped"]
             \/ stopped' = [stopped EXCEPT ![task[k].manager][task[k].rule] = "Suspended"]
      BY <2>2 DEF AlreadyExists, OpenFails, GiveUp
    <3>2. stopped' \in [Managers -> [Rules -> {"none", "Stopped", "Suspended"}]]
      BY <1>0, <2>1, <3>1
    <3> QED
      BY <1>0, <3>1, <3>2 DEF GiveUp
  <2>3. CASE CheckRule(k) \/ OpenForward(k) \/ EndRestore(k)
    BY <1>0, <2>3, ForwardingAssumption DEF CheckRule, OpenForward, EndRestore, TypeOK, Forwards
  <2>4. CASE InsertForward(k) \/ CancelFails(k)
    <3>1. kept' = [kept EXCEPT ![task[k].manager] = @ \union {task[k].rule}]
      BY <2>4 DEF InsertForward, CancelFails, Put
    <3>2. task[k].rule \in Rules
      BY <2>0, <2>4 DEF InsertForward, CancelFails, Typed, Placed, OpenedOnly, TypeOK
    <3>3. kept' \in [Managers -> SUBSET Rules]
      BY <1>0, <3>1, <3>2
    <3> QED
      BY <1>0, <2>4, <3>3 DEF InsertForward, CancelFails
  <2>5. CASE Halted(k) \/ Drained(k)
    <3>1. \/ stopped' = stopped
          \/ stopped' = [stopped EXCEPT ![task[k].manager][task[k].rule] = "Stopped"]
          \/ stopped' = [stopped EXCEPT ![task[k].manager][task[k].rule] = "Suspended"]
      BY <2>5 DEF Halted, Drained, Record
    <3>2. stopped' \in [Managers -> [Rules -> {"none", "Stopped", "Suspended"}]]
      BY <1>0, <2>1, <3>1
    <3> QED
      BY <1>0, <2>5, <3>2 DEF Halted, Drained
  <2>6. CASE CancelOnServer(k) \/ CancelGivenUp(k) \/ NextForward(k)
    BY <1>0, <2>6 DEF CancelOnServer, CancelGivenUp, NextForward
  <2>7. CASE EndBatch(k) \/ GracePeriodEnds(k)
    BY <1>0, <2>7 DEF EndBatch, GracePeriodEnds
  <2>8. CASE RegisterAfter(k)
    <3>1. task[k].target \in Connections \union {0}
      BY <2>0 DEF TaskStates
    <3> QED
      BY <1>0, <2>8, <3>1, RegisterTypes DEF RegisterAfter
  <2>9. CASE NextRule(k)
    <3>1. PICK r : stopped' = [stopped EXCEPT ![task[k].manager][r] = "none"]
      BY <2>9 DEF NextRule
    <3>2. stopped' \in [Managers -> [Rules -> {"none", "Stopped", "Suspended"}]]
      BY <2>1, <3>1
    <3> QED
      BY <1>0, <2>9, <3>2 DEF NextRule
  <2> QED
    BY <1>2, <2>2, <2>3, <2>4, <2>5, <2>6, <2>7, <2>8, <2>9 DEF TaskStep
<1>3. ASSUME NEW r \in Rules, DeleteStopped(r) \/ UpdateStopped(r)
      PROVE  PlainTypes'
  <2>1. /\ stopped' \in [Managers -> [Rules -> {"none", "Stopped", "Suspended"}]]
        /\ kept' \in [Managers -> SUBSET Rules]
    <3>1. CASE DeleteStopped(r)
      BY <1>0, <3>1 DEF DeleteStopped
    <3>2. CASE UpdateStopped(r)
      BY <1>0, <3>2 DEF UpdateStopped
    <3> QED
      BY <1>3, <3>1, <3>2
  <2> QED
    BY <1>0, <1>3, <2>1 DEF DeleteStopped, UpdateStopped
<1>4. ASSUME NEW f \in Forwards, ListenerEnds(f)
      PROVE  PlainTypes'
  BY <1>0, <1>4 DEF ListenerEnds
<1>5. ASSUME NEW c \in Connections, Register(c)
      PROVE  PlainTypes'
  BY <1>0, <1>5, RegisterTypes DEF Register
<1>6. ASSUME NEW m \in Managers, DropManager(m)
      PROVE  PlainTypes'
  BY <1>0, <1>6 DEF DropManager
<1>7. CASE UNCHANGED vars
  BY <1>0, <1>7 DEF vars
<1> QED
  BY <1>1, <1>2, <1>3, <1>4, <1>5, <1>6, <1>7 DEF Next

\* Every step keeps the types, the places and the listing.
LEMMA TypedNext == Typed /\ [Next]_vars => Typed'
<1> SUFFICES ASSUME Typed, [Next]_vars PROVE Typed'
  OBVIOUS
<1> DEFINE Kept == /\ forwards <= forwards' /\ forwards' \in 0..MaxForwards
                   /\ told \subseteq told' /\ told' \subseteq Opened'
                   /\ \A f \in Opened : rule'[f] = rule[f]
                   /\ \A f \in Opened' : rule'[f] \in Rules
                   /\ rule' \in [Forwards -> Rules \union {"none"}]
                   /\ active' \in [Managers -> [Rules -> Forwards \union {0}]]
                   /\ \A m \in Managers, r \in Rules : active'[m][r] \in Opened' \union {0}
                   /\ router' \in [Managers -> [Ports -> Forwards \union {0}]]
                   /\ \A m \in Managers, p \in Ports : router'[m][p] \in Opened' \union {0}
                   /\ ListedByRule'
<1>0. /\ TypeOK /\ OpenedOnly /\ ListedByRule /\ PlainTypes'
      /\ Opened \subseteq Forwards /\ 0 \notin Opened /\ forwards \in Nat
      /\ (\A j \in Tasks : task[j] \in TaskStates /\ Placed(task[j]))
  BY PlainNext, ForwardingAssumption DEF Typed, TypeOK, Opened, Forwards
<1>1. ASSUME NEW k \in Tasks, Stepped(k), Kept, Hand(k)' \subseteq Opened'
      PROVE  Typed'
  <2>1. Opened \subseteq Opened'
    BY <1>0, <1>1 DEF Opened
  <2>2. \A j \in Tasks : Placed(task[j])'
    <3> SUFFICES ASSUME NEW j \in Tasks \ {k} PROVE Placed(task[j])'
      BY <1>1 DEF Stepped
    <3>1. task'[j] = task[j] /\ Placed(task[j])
      BY <1>0, <1>1 DEF Stepped
    <3>2. task[j].forward \in Opened \union {0}
      BY <1>0 DEF OpenedOnly
    <3> QED
      BY <1>1, <3>1, <3>2 DEF Placed
  <2>3. task'[k].forward \in Opened' \union {0} /\ task'[k].batch \subseteq Opened'
    BY <1>1 DEF Hand
  <2>4. \A j \in Tasks : task'[j].forward \in Opened' \union {0} /\ task'[j].batch \subseteq Opened'
    BY <1>0, <1>1, <2>1, <2>3 DEF Stepped, OpenedOnly
  <2>5. OpenedOnly'
    BY <1>1, <2>4 DEF OpenedOnly
  <2>6. told' \in SUBSET Forwards
    BY <1>1, <1>0, ForwardingAssumption DEF Opened, Forwards
  <2>7. TypeOK'
    BY <1>0, <1>1, <2>6 DEF TypeOK, PlainTypes, Stepped
  <2> QED
    BY <1>1, <2>2, <2>5, <2>7 DEF Typed
<1>2. ASSUME NEW m, NEW fs, NEW some, Leave(m, fs, some)
      PROVE  Kept
  <2>1. Opened' = Opened
    BY <1>2 DEF Leave, Opened
  <2>2. ListedByRule'
    BY <1>0, <1>2 DEF Leave, ListedByRule
  <2>3. /\ \A n \in Managers, r \in Rules : active'[n][r] \in Opened \union {0}
        /\ \A n \in Managers, p \in Ports : router'[n][p] \in Opened \union {0}
    <3>1. ASSUME NEW n \in Managers, NEW r \in Rules
          PROVE  active'[n][r] \in Opened \union {0}
      BY <1>0, <1>2 DEF Leave, OpenedOnly
    <3>2. ASSUME NEW n \in Managers, NEW p \in Ports
          PROVE  router'[n][p] \in Opened \union {0}
      BY <1>0, <1>2 DEF Leave, Cleared, OpenedOnly
    <3> QED
      BY <3>1, <3>2
  <2> QED
    BY <1>0, <1>2, <2>1, <2>2, <2>3 DEF Leave, Cleared, OpenedOnly, TypeOK
<1>3. ASSUME NEW k \in Tasks, Stepped(k), NEW fs, Lets(k, fs)
      PROVE  Typed'
  <2>1. Opened' = Opened
    BY <1>3 DEF Lets, Opened
  <2>2. ListedByRule'
    BY <1>0, <1>3 DEF Lets, ListedByRule
  <2>3. Hand(k) \subseteq Opened
    BY HandOpened
  <2>4. \A n \in Managers, p \in Ports : router'[n][p] \in Opened \union {0}
    BY <1>0, <1>3 DEF Lets, Cleared, OpenedOnly
  <2>5. Kept
    BY <1>0, <1>3, <2>1, <2>2, <2>3, <2>4 DEF Lets, Cleared, OpenedOnly, TypeOK
  <2> QED
    BY <1>1, <1>3, <2>1, <2>3, <2>5 DEF Lets
<1>4. ASSUME NEW k \in Tasks, Stepped(k), NEW f, Opens(k, f)
      PROVE  Typed'
  <2>1. Opened' = Opened \union {f} /\ f \notin Opened
    BY <1>0, <1>4 DEF Opens, Opened
  <2>2. \A g \in Opened : rule'[g] = rule[g]
    BY <1>0, <1>4, <2>1 DEF Opens, TypeOK
  <2>3. ListedByRule'
    BY <1>0, <1>4, <2>2 DEF Opens, ListedByRule, OpenedOnly
  <2>4. /\ router' \in [Managers -> [Ports -> Forwards \union {0}]]
        /\ \A n \in Managers, p \in Ports : router'[n][p] \in Opened' \union {0}
    <3>1. CASE IsRemote(f)'
      <4>1. /\ router' = [router EXCEPT ![task[k].manager][PortOf[task[k].rule]] = f]
            /\ f \in Forwards
        BY <1>4, <3>1 DEF Opens
      <4>2. router \in [Managers -> [Ports -> Forwards \union {0}]]
        BY <1>0 DEF TypeOK
      <4>3. router' \in [Managers -> [Ports -> Forwards \union {0}]]
        BY <4>1, <4>2
      <4>4. \A n \in Managers, p \in Ports : router'[n][p] \in {router[n][p], f}
        BY <4>1, <4>2
      <4> QED
        BY <1>0, <2>1, <4>3, <4>4 DEF OpenedOnly
    <3>2. CASE ~IsRemote(f)'
      BY <1>0, <1>4, <2>1, <3>2 DEF Opens, OpenedOnly, TypeOK
    <3> QED
      BY <3>1, <3>2
  <2>5. /\ \A g \in Opened' : rule'[g] \in Rules
        /\ rule' \in [Forwards -> Rules \union {"none"}]
    BY <1>0, <1>4, <2>1 DEF Opens, OpenedOnly, TypeOK
  <2>6. forwards <= forwards' /\ forwards' \in 0..MaxForwards
    BY <1>0, <1>4, ForwardingAssumption DEF Opens, Forwards
  <2>7. Kept
    BY <1>0, <1>4, <2>1, <2>2, <2>3, <2>4, <2>5, <2>6 DEF Opens, OpenedOnly, TypeOK
  <2> QED
    BY <1>1, <1>4, <2>1, <2>7 DEF Opens
<1>5. ASSUME NEW k \in Tasks, Stepped(k), Returns(k)
      PROVE  Typed'
  <2>1. Opened' = Opened
    BY <1>5 DEF Returns, Opened
  <2>2. /\ active' \in [Managers -> [Rules -> Forwards \union {0}]]
        /\ \A n \in Managers, r \in Rules : active'[n][r] \in Opened \union {0}
        /\ ListedByRule'
    BY <1>0, <1>5 DEF Returns, OpenedOnly, TypeOK, ListedByRule
  <2>3. \A n \in Managers, p \in Ports : router'[n][p] \in Opened \union {0}
    BY <1>0, <1>5 DEF Returns, Cleared, OpenedOnly
  <2>4. told \subseteq told' /\ told' \subseteq Opened
    BY <1>0, <1>5 DEF Returns, OpenedOnly
  <2>5. Kept
    BY <1>0, <1>5, <2>1, <2>2, <2>3, <2>4 DEF Returns, Cleared, OpenedOnly, TypeOK
  <2> QED
    BY <1>1, <1>5, <2>5 DEF Returns
<1>6. ASSUME NEW k \in Tasks, Stepped(k), NEW m, NEW fs, NEW some, Takes(k, m, fs, some)
      PROVE  Typed'
  <2>0. Kept
    BY <1>2, <1>6 DEF Takes
  <2>1. Kept /\ Opened' = Opened
    BY <1>6, <2>0 DEF Takes, Leave, Opened
  <2> QED
    BY <1>1, <1>6, <2>1 DEF Takes, Leave
<1>7. ASSUME NEW m, NEW fs, Drops(m, fs)
      PROVE  Typed'
  <2>1. Kept /\ Opened' = Opened
    BY <1>2, <1>7 DEF Drops, Leave, Opened
  <2>2. \A j \in Tasks : Placed(task[j])'
    <3> TAKE j \in Tasks
    <3>1. task'[j] = task[j] /\ Placed(task[j]) /\ task[j].forward \in Opened \union {0}
      BY <1>0, <1>7 DEF Drops, OpenedOnly
    <3> QED
      BY <2>1, <3>1 DEF Placed
  <2>3. OpenedOnly' /\ TypeOK'
    BY <1>0, <1>7, <2>1 DEF Drops, OpenedOnly, TypeOK, PlainTypes
  <2> QED
    BY <2>1, <2>2, <2>3 DEF Typed
<1>8. CASE Leaves
  <2>1. Opened' = Opened
    BY <1>8 DEF Leaves, Opened
  <2>2. \A j \in Tasks : Placed(task[j])'
    BY <1>0, <1>8 DEF Leaves, Placed
  <2> QED
    BY <1>0, <1>8, <2>1, <2>2 DEF Leaves, Typed, TypeOK, PlainTypes, OpenedOnly, ListedByRule
<1> QED
  BY <1>3, <1>4, <1>5, <1>6, <1>7, <1>8, StepKinds

\* The first part of the inductive invariant.
LEMMA TypedAlways == Spec => []Typed
BY TypedInit, TypedNext, PTL DEF Spec

\* Type correctness of port forwarding: the maps of a manager, its router and the
\* locals of every operation under way keep their types, whatever operations meet.
THEOREM TypeCorrect == Spec => []TypeOK
<1>1. Typed => TypeOK
  BY DEF Typed
<1> QED
  BY <1>1, TypedAlways, PTL

-----------------------------------------------------------------------------
(* Owners *)

\* Every step keeps the owners apart, leaves no untold forward without one, and no
\* told one in a router.
LEMMA OwnershipNext ==
  ASSUME Typed, Typed', Ownership, [Next]_vars
  PROVE  Ownership'
<1> USE DEF Ownership
<1>0. /\ 0 \notin Opened /\ told \subseteq Opened
      /\ \A j \in Tasks : Hand(j) \subseteq Opened
      /\ \A m \in Managers, p \in Ports : router[m][p] \in Opened \union {0}
  BY HandOpened DEF Opened, Typed, OpenedOnly
<1>j. ASSUME NEW k \in Tasks, Stepped(k), NEW j \in Tasks, j # k
      PROVE  Hand(j)' = Hand(j) /\ task'[j].manager = task[j].manager
  BY <1>j DEF Stepped, Hand
<1>1. ASSUME NEW k \in Tasks, Stepped(k), NEW fs, Lets(k, fs)
      PROVE  Ownership'
  <2>0. /\ Opened' = Opened /\ Hand(k)' \subseteq Hand(k)
        /\ told' = told \union fs /\ fs \subseteq Hand(k)
        /\ Hand(k) \ Hand(k)' \subseteq told'
        /\ (Hand(k)' # {} => task'[k].manager = task[k].manager)
        /\ rule' = rule
    BY <1>1 DEF Lets, Opened
  <2>1. \A m \in Managers, f \in Opened : InMap(m, f)' <=> InMap(m, f)
    BY <1>1 DEF Lets, InMap
  <2>2. OwnedOnce'
    BY <1>1, <1>j, <2>0, <2>1 DEF OwnedOnce
  <2>3. Owned'
    BY <1>1, <1>j, <2>0, <2>1 DEF Owned
  <2>4. Routed'
    <3> SUFFICES ASSUME NEW m \in Managers, NEW p \in Ports, NEW f \in Opened, router'[m][p] = f
                 PROVE  /\ f \notin told'
                        /\ IsRemote(f)' /\ PortOf[rule'[f]] = p
                        /\ \A n \in Managers : InMap(n, f)' => n = m
                        /\ \A j \in Tasks : f \in Hand(j)' => task'[j].manager = m
      BY <1>0, <2>0 DEF Routed, Typed, OpenedOnly
    <3>1. router[m][p] = f
      BY <1>0, <1>1 DEF Lets, Cleared
    <3>2. /\ f \notin told /\ IsRemote(f) /\ PortOf[rule[f]] = p
          /\ \A n \in Managers : InMap(n, f) => n = m
          /\ \A j \in Tasks : f \in Hand(j) => task[j].manager = m
      BY <1>0, <3>1 DEF Routed
    <3>3. f \notin fs
      BY <1>0, <1>1, <2>0, <3>2 DEF Lets, Cleared
    <3> QED
      BY <1>1, <1>j, <2>0, <2>1, <3>2, <3>3 DEF IsRemote
  <2> QED
    BY <2>2, <2>3, <2>4
<1>2. ASSUME NEW k \in Tasks, Stepped(k), NEW f, Opens(k, f)
      PROVE  Ownership'
  <2>0. /\ Opened' = Opened \union {f} /\ f \notin Opened /\ f # 0
        /\ told' = told /\ Hand(k) = {} /\ Hand(k)' = {f}
        /\ task'[k].manager = task[k].manager /\ task[k].manager \in Managers
        /\ task[k].rule \in Rules
    BY <1>2, ForwardingAssumption DEF Opens, Opened, Forwards, Typed, TypeOK
  <2>r. rule'[f] = task[k].rule /\ \A g \in Opened : rule'[g] = rule[g]
    BY <1>2, <2>0, ForwardingAssumption DEF Opens, Opened, Forwards, Typed, TypeOK
  <2>1. /\ \A m \in Managers, g \in Opened : InMap(m, g)' <=> InMap(m, g)
        /\ \A m \in Managers : ~InMap(m, f)'
    BY <1>2, <2>0 DEF Opens, InMap, Typed, OpenedOnly
  <2>2. OwnedOnce'
    BY <1>0, <1>2, <1>j, <2>0, <2>1 DEF OwnedOnce
  <2>3. Owned'
    BY <1>0, <1>2, <1>j, <2>0, <2>1 DEF Owned
  <2>4. Routed'
    <3> SUFFICES ASSUME NEW m \in Managers, NEW p \in Ports, NEW g \in Opened', router'[m][p] = g
                 PROVE  /\ g \notin told'
                        /\ IsRemote(g)' /\ PortOf[rule'[g]] = p
                        /\ \A n \in Managers : InMap(n, g)' => n = m
                        /\ \A j \in Tasks : g \in Hand(j)' => task'[j].manager = m
      BY <1>0, <2>0 DEF Routed, Typed, OpenedOnly
    <3>1. CASE g = f
      <4>1. router \in [Managers -> [Ports -> Forwards \union {0}]] /\ router[m][p] # f
        BY <1>0, <2>0 DEF Typed, TypeOK
      <4>2. IsRemote(f)' /\ m = task[k].manager /\ p = PortOf[task[k].rule]
        BY <1>2, <3>1, <4>1 DEF Opens
      <4> QED
        BY <1>0, <1>2, <1>j, <2>0, <2>r, <2>1, <3>1, <4>2
    <3>2. CASE g # f
      <4>0. router \in [Managers -> [Ports -> Forwards \union {0}]]
        BY DEF Typed, TypeOK
      <4>1. router[m][p] = g /\ g \in Opened
        BY <1>2, <2>0, <3>2, <4>0 DEF Opens
      <4>2. /\ g \notin told /\ IsRemote(g) /\ PortOf[rule[g]] = p
            /\ \A n \in Managers : InMap(n, g) => n = m
            /\ \A j \in Tasks : g \in Hand(j) => task[j].manager = m
        BY <1>0, <4>1 DEF Routed
      <4> QED
        BY <1>2, <1>j, <2>0, <2>r, <2>1, <3>2, <4>1, <4>2 DEF IsRemote
    <3> QED
      BY <3>1, <3>2
  <2> QED
    BY <2>2, <2>3, <2>4
<1>3. ASSUME NEW k \in Tasks, Stepped(k), Returns(k)
      PROVE  Ownership'
  <2>m. PICK m \in Managers : m = task[k].manager
    BY <1>3 DEF Returns
  <2>r. PICK r \in Rules : r = task[k].rule
    BY <1>3 DEF Returns
  <2>f. PICK f \in Opened : f = task[k].forward
    BY <1>3 DEF Returns
  <2>o. PICK old : old = active[m][r]
    OBVIOUS
  <2>0. /\ Opened' = Opened /\ rule' = rule /\ rule[f] = r
        /\ told' = told \union ({old} \ {0}) /\ Hand(k) = {f} /\ Hand(k)' = {}
        /\ active' = [active EXCEPT ![m][r] = f]
        /\ Cleared(m, {old} \ {0})
    BY <1>3, <2>m, <2>r, <2>f, <2>o DEF Returns, Opened
  <2>a. /\ active' \in [Managers -> [Rules -> Forwards \union {0}]]
        /\ active'[m][r] = f
        /\ \A n \in Managers, q \in Rules : n # m \/ q # r => active'[n][q] = active[n][q]
    BY <2>0 DEF Typed, TypeOK
  <2>1. \A n \in Managers \ {m}, g \in Opened : InMap(n, g)' <=> InMap(n, g)
    BY <2>a DEF InMap
  <2>3. \A n \in Managers : ~InMap(n, f)
    BY <2>0 DEF OwnedOnce
  <2>2. \A g \in Opened : InMap(m, g)' <=> (g = f \/ (InMap(m, g) /\ g # old))
    <3> TAKE g \in Opened
    <3>1. ASSUME NEW q \in Rules, active[m][q] = old, old # 0
          PROVE  q = r
      BY <2>o, <3>1 DEF Typed, ListedByRule
    <3>2. ASSUME NEW q \in Rules, active'[m][q] = g, g # f
          PROVE  active[m][q] = g /\ g # old
      BY <1>0, <2>a, <3>1, <3>2
    <3>3. ASSUME NEW q \in Rules, active[m][q] = g, g # old
          PROVE  active'[m][q] = g
      BY <2>a, <2>o, <3>3
    <3> QED
      BY <2>a, <3>2, <3>3 DEF InMap
  <2>4. OwnedOnce'
    BY <1>0, <1>3, <1>j, <2>0, <2>1, <2>2, <2>3 DEF OwnedOnce
  <2>5. Owned'
    BY <1>0, <1>3, <1>j, <2>0, <2>1, <2>2, <2>3 DEF Owned
  <2>6. Routed'
    <3> SUFFICES ASSUME NEW n \in Managers, NEW p \in Ports, NEW g \in Opened, router'[n][p] = g
                 PROVE  /\ g \notin told'
                        /\ IsRemote(g)' /\ PortOf[rule'[g]] = p
                        /\ \A i \in Managers : InMap(i, g)' => i = n
                        /\ \A j \in Tasks : g \in Hand(j)' => task'[j].manager = n
      BY <1>0, <2>0 DEF Routed, Typed, OpenedOnly
    <3>1. router[n][p] = g
      BY <1>0, <2>0 DEF Cleared
    <3>2. /\ g \notin told /\ IsRemote(g) /\ PortOf[rule[g]] = p
          /\ \A i \in Managers : InMap(i, g) => i = n
          /\ \A j \in Tasks : g \in Hand(j) => task[j].manager = n
      BY <1>0, <3>1 DEF Routed
    <3>3. g = f => n = m
      BY <2>m, <2>0, <3>2
    <3>4. g # old
      <4> SUFFICES ASSUME g = old PROVE FALSE
        OBVIOUS
      <4>1. InMap(m, g)
        BY <2>o DEF InMap
      <4>2. n = m /\ g # 0
        BY <1>0, <3>2, <4>1
      <4>3. router'[m][p] = 0
        BY <2>0, <3>2, <4>2 DEF Cleared
      <4> QED
        BY <1>0, <4>2, <4>3
    <3> QED
      BY <1>3, <1>j, <2>0, <2>1, <2>2, <3>2, <3>3, <3>4 DEF IsRemote
  <2> QED
    BY <2>4, <2>5, <2>6
<1>4. ASSUME NEW m, NEW fs, NEW some, Leave(m, fs, some)
      PROVE  /\ m \in Managers /\ Opened' = Opened /\ rule' = rule
             /\ told' = told \union some /\ some \subseteq fs /\ fs \subseteq Opened
             /\ \A n \in Managers, g \in Opened : InMap(n, g)' <=> InMap(n, g) /\ ~(n = m /\ g \in fs)
             /\ \A g \in fs : InMap(m, g)
             /\ \A n \in Managers, p \in Ports : router'[n][p] \in {router[n][p], 0}
             /\ \A g \in some : IsRemote(g) => router'[m][PortOf[rule[g]]] = 0
  <2>1. \A n \in Managers, g \in Opened : InMap(n, g)' <=> InMap(n, g) /\ ~(n = m /\ g \in fs)
    BY <1>0, <1>4 DEF Leave, InMap
  <2> QED
    BY <1>4, <2>1 DEF Leave, InMap, Cleared, Opened
<1>5. ASSUME NEW m, NEW fs, NEW some, Leave(m, fs, some),
             NEW n \in Managers, NEW p \in Ports, NEW g \in Opened, router'[n][p] = g
      PROVE  /\ router[n][p] = g /\ g \notin told'
             /\ IsRemote(g)' /\ PortOf[rule'[g]] = p
             /\ \A i \in Managers : InMap(i, g) => i = n
             /\ \A j \in Tasks : g \in Hand(j) => task[j].manager = n
  <2>1. router[n][p] = g
    BY <1>0, <1>4, <1>5
  <2>2. /\ g \notin told /\ IsRemote(g) /\ PortOf[rule[g]] = p
        /\ \A i \in Managers : InMap(i, g) => i = n
        /\ \A j \in Tasks : g \in Hand(j) => task[j].manager = n
    BY <1>0, <2>1 DEF Routed
  <2>3. g \notin some
    BY <1>0, <1>4, <1>5, <2>2
  <2> QED
    BY <1>4, <1>5, <2>1, <2>2, <2>3 DEF IsRemote
<1>6. ASSUME NEW k \in Tasks, Stepped(k), NEW m, NEW fs, NEW some, Takes(k, m, fs, some)
      PROVE  Ownership'
  <2>0. Leave(m, fs, some) /\ Hand(k) = {} /\ Hand(k)' = fs /\ task'[k].manager = m
    BY <1>6 DEF Takes
  <2>1. OwnedOnce'
    BY <1>4, <1>6, <1>j, <2>0 DEF OwnedOnce
  <2>2. Owned'
    BY <1>4, <1>6, <1>j, <2>0 DEF Owned
  <2>3. Routed'
    <3> SUFFICES ASSUME NEW n \in Managers, NEW p \in Ports, NEW g \in Opened, router'[n][p] = g
                 PROVE  /\ g \notin told'
                        /\ IsRemote(g)' /\ PortOf[rule'[g]] = p
                        /\ \A i \in Managers : InMap(i, g)' => i = n
                        /\ \A j \in Tasks : g \in Hand(j)' => task'[j].manager = n
      BY <1>0, <1>4, <2>0 DEF Routed, Typed, OpenedOnly
    <3>1. /\ g \notin told' /\ IsRemote(g)' /\ PortOf[rule'[g]] = p
          /\ \A i \in Managers : InMap(i, g) => i = n
          /\ \A j \in Tasks : g \in Hand(j) => task[j].manager = n
      BY <1>5, <2>0
    <3> QED
      BY <1>4, <1>6, <1>j, <2>0, <3>1
  <2> QED
    BY <2>1, <2>2, <2>3
<1>7. ASSUME NEW m, NEW fs, Drops(m, fs)
      PROVE  Ownership'
  <2>0. Leave(m, fs, fs) /\ \A j \in Tasks : Hand(j)' = Hand(j) /\ task'[j] = task[j]
    BY <1>7 DEF Drops, Hand
  <2>1. OwnedOnce'
    BY <1>4, <2>0 DEF OwnedOnce
  <2>2. Owned'
    BY <1>4, <2>0 DEF Owned
  <2>3. Routed'
    <3> SUFFICES ASSUME NEW n \in Managers, NEW p \in Ports, NEW g \in Opened, router'[n][p] = g
                 PROVE  /\ g \notin told'
                        /\ IsRemote(g)' /\ PortOf[rule'[g]] = p
                        /\ \A i \in Managers : InMap(i, g)' => i = n
                        /\ \A j \in Tasks : g \in Hand(j)' => task'[j].manager = n
      BY <1>0, <1>4, <2>0 DEF Routed, Typed, OpenedOnly
    <3>1. /\ g \notin told' /\ IsRemote(g)' /\ PortOf[rule'[g]] = p
          /\ \A i \in Managers : InMap(i, g) => i = n
          /\ \A j \in Tasks : g \in Hand(j) => task[j].manager = n
      BY <1>5, <2>0
    <3> QED
      BY <1>4, <2>0, <3>1
  <2> QED
    BY <2>1, <2>2, <2>3
<1>8. CASE Leaves
  <2>1. /\ Opened' = Opened /\ \A j \in Tasks : Hand(j)' = Hand(j)
        /\ \A m \in Managers, f \in Opened : InMap(m, f)' <=> InMap(m, f)
    BY <1>8 DEF Leaves, Opened, Hand, InMap
  <2>2. OwnedOnce' /\ Owned'
    BY <1>8, <2>1 DEF Leaves, OwnedOnce, Owned
  <2>3. Routed'
    BY <1>0, <1>8, <2>1 DEF Leaves, Routed, IsRemote
  <2> QED
    BY <2>2, <2>3
<1> QED
  BY <1>1, <1>2, <1>3, <1>6, <1>7, <1>8, StepKinds

\* The second part of the inductive invariant.
LEMMA OwnershipAlways == Spec => []Ownership
<1>1. Init => Ownership
  <2> SUFFICES ASSUME Init PROVE Ownership
    OBVIOUS
  <2>1. Opened = {}
    BY DEF Init, Opened
  <2>2. \A m \in Managers, p \in Ports : router[m][p] = 0
    BY DEF Init
  <2> QED
    BY <2>1, <2>2 DEF Ownership, OwnedOnce, Owned, Routed
<1>2. Typed /\ Typed' /\ Ownership /\ [Next]_vars => Ownership'
  BY OwnershipNext
<1> QED
  BY <1>1, <1>2, TypedAlways, PTL DEF Spec

\* Every forward that runs has exactly one owner: whatever create_forward,
\* stop_forward, delete_forward, suspend, restore, stop_all and shutdown overtake each
\* other, it is in one map under its rule or in the hands of one operation.
THEOREM EveryForwardIsOwned == Spec => []RunningIsOwned
<1>1. Typed /\ Ownership => RunningIsOwned
  <2> SUFFICES ASSUME Typed, Ownership, NEW f \in Opened, f \notin told
               PROVE  Cardinality(Owners(f)) = 1
    BY DEF RunningIsOwned, Opened
  <2>0. f # 0
    BY DEF Opened, Typed, TypeOK
  <2>1. \A k \in Tasks : f \in Hand(k) <=> task[k].forward = f \/ f \in task[k].batch
    BY <2>0 DEF Hand
  <2>2. ASSUME NEW x, Owners(f) = {x}
        PROVE  Cardinality(Owners(f)) = 1
    BY <2>2, FS_Singleton
  <2>3. ASSUME NEW m \in Managers, InMap(m, f)
        PROVE  Cardinality(Owners(f)) = 1
    <3>1. PICK r \in Rules : active[m][r] = f
      BY <2>3 DEF InMap
    <3>2. \A n \in Managers, q \in Rules : active[n][q] = f => n = m /\ q = r
      BY <2>0, <2>3, <3>1 DEF Ownership, OwnedOnce, InMap, Typed, ListedByRule
    <3>3. \A k \in Tasks : f \notin Hand(k)
      BY <2>3 DEF Ownership, OwnedOnce
    <3>4. \A place \in Managers \X Rules : active[place[1]][place[2]] = f <=> place = <<m, r>>
      BY <3>1, <3>2
    <3>5. Owners(f) = {<<m, r>>}
      BY <2>1, <3>3, <3>4 DEF Owners
    <3> QED
      BY <2>2, <3>5
  <2>4. ASSUME NEW k \in Tasks, f \in Hand(k)
        PROVE  Cardinality(Owners(f)) = 1
    <3>1. \A n \in Managers, q \in Rules : active[n][q] # f
      BY <2>4 DEF Ownership, OwnedOnce, InMap
    <3>2. \A j \in Tasks : f \in Hand(j) <=> j = k
      BY <2>4 DEF Ownership, OwnedOnce
    <3>3. \A place \in Managers \X Rules : active[place[1]][place[2]] # f
      BY <3>1
    <3>4. Owners(f) = {k}
      BY <2>1, <3>2, <3>3 DEF Owners
    <3> QED
      BY <2>2, <3>4
  <2> QED
    BY <2>3, <2>4 DEF Ownership, Owned
<1> QED
  BY <1>1, TypedAlways, OwnershipAlways, PTL

\* No router target of a manager belongs to a forward that was told to stop or
\* dropped, although targets are unregistered by port and not by forward.
THEOREM EveryTargetIsLive == Spec => []TargetIsLive
<1>1. Ownership => TargetIsLive
  BY DEF Ownership, Routed, TargetIsLive
<1> QED
  BY <1>1, OwnershipAlways, PTL

-----------------------------------------------------------------------------
(* Rules *)

\* A step of task k keeps every rule that is listed, or in the hands of k, or not
\* affected.
LEMMA RulesStay ==
  ASSUME Typed, Typed', RuleKept, NEW k \in Tasks, Stepped(k),
         \A f \in Opened : rule'[f] = rule[f],
         \A m \in Managers : \A r \in kept'[m] :
            \/ r \in kept[m] /\ ~HasRule(m, r) /\ ~Keeps(k, m, r)
            \/ HasRule(m, r)'
            \/ Keeps(k, m, r)'
  PROVE  RuleKept'
<1> SUFFICES ASSUME NEW m \in Managers, NEW r \in kept'[m],
                    r \in kept[m], ~HasRule(m, r), ~Keeps(k, m, r)
             PROVE  \E j \in Tasks : Keeps(j, m, r)'
  BY DEF RuleKept
<1>1. PICK j \in Tasks : Keeps(j, m, r)
  BY DEF RuleKept
<1>2. task'[j] = task[j] /\ task[j].batch \subseteq Opened
  BY <1>1 DEF Stepped, Typed, OpenedOnly
<1> QED
  BY <1>1, <1>2 DEF Keeps

\* A drained manager: a suspended rule is in the batch, a cleared one is not kept.
LEMMA DrainKeeps ==
  ASSUME Typed, Typed', RuleKept, NEW k \in Tasks, Stepped(k), task[k].at = "idle",
         NEW m \in Managers, NEW t \in TaskStates, DrainManager(k, m, t),
         t.op \in {"suspend", "clear"}, UNCHANGED <<stopped, rule>>
  PROVE  RuleKept'
<1>0. /\ active \in [Managers -> [Rules -> Forwards \union {0}]]
      /\ kept \in [Managers -> SUBSET Rules] /\ kept' \in [Managers -> SUBSET Rules]
  BY DEF Typed, TypeOK
<1>1. task'[k].manager = m /\ task'[k].op = t.op /\ task'[k].batch = Running(m)
  BY DEF DrainManager, Typed, TypeOK, TaskStates
<1>2. \A n \in Managers, r \in Rules : ~Keeps(k, n, r)
  BY DEF Keeps, Typed, Placed, Idle
<1>3. \A r \in Rules : active[m][r] # 0 =>
         active[m][r] \in Running(m) /\ rule[active[m][r]] = r
  BY DEF Running, Typed, ListedByRule
<1>4. ASSUME NEW n \in Managers, NEW r \in kept'[n]
      PROVE  \/ r \in kept[n] /\ ~HasRule(n, r) /\ ~Keeps(k, n, r)
             \/ HasRule(n, r)'
             \/ Keeps(k, n, r)'
  <2>1. r \in Rules /\ r \in kept[n]
    BY <1>0, <1>4 DEF DrainManager
  <2>2. CASE n # m
    BY <1>0, <1>2, <2>1, <2>2 DEF DrainManager, HasRule
  <2>3. CASE n = m /\ active[m][r] = 0
    BY <1>0, <1>2, <2>1, <2>3 DEF DrainManager, HasRule
  <2>4. CASE n = m /\ active[m][r] # 0
    <3>1. t.op # "clear"
      BY <1>0, <1>4, <2>4 DEF DrainManager
    <3> QED
      BY <1>1, <1>3, <2>1, <2>4, <3>1 DEF Keeps
  <2> QED
    BY <2>2, <2>3, <2>4
<1> QED
  BY <1>4, RulesStay

\* The public calls.
LEMMA CallKeeps ==
  ASSUME Typed, Typed', RuleKept, NEW k \in Tasks, Call(k)
  PROVE  RuleKept'
<1>0. /\ task \in [Tasks -> TaskStates] /\ Stepped(k)
      /\ (current # 0 => current \in Managers)
      /\ kept \in [Managers -> SUBSET Rules] /\ kept' \in [Managers -> SUBSET Rules]
      /\ active \in [Managers -> [Rules -> Forwards \union {0}]]
      /\ stopped \in [Managers -> [Rules -> {"none", "Stopped", "Suspended"}]]
  BY CallSteps DEF Typed, TypeOK
<1>i. task[k].at = "idle" => \A m \in Managers, r \in Rules : ~Keeps(k, m, r)
  BY DEF Keeps, Typed, Placed, Idle
<1>q. ASSUME task[k].at = "idle", UNCHANGED <<active, stopped, rule, kept>>
      PROVE  RuleKept'
  BY <1>0, <1>i, <1>q, RulesStay DEF HasRule
<1>1. ASSUME NEW r \in Rules, Create(k, r)
      PROVE  RuleKept'
  BY <1>1, <1>q DEF Create
<1>2. ASSUME NEW r \in Rules, Restart(k, r)
      PROVE  RuleKept'
  <2>m. PICK m \in Managers : m = current
    BY <1>0, <1>2 DEF Restart
  <2>1. task'[k].manager = m /\ task'[k].op = "restart" /\ task'[k].rule = r
    BY <1>0, <1>2, <2>m DEF Restart, Idle
  <2>2. stopped' = [stopped EXCEPT ![m][r] = "none"] /\ UNCHANGED <<active, rule, kept>>
    BY <1>2, <2>m DEF Restart
  <2>3. ASSUME NEW n \in Managers, NEW q \in kept'[n]
        PROVE  \/ q \in kept[n] /\ ~HasRule(n, q) /\ ~Keeps(k, n, q)
               \/ HasRule(n, q)'
               \/ Keeps(k, n, q)'
    <3>1. CASE n = m /\ q = r
      BY <2>1, <3>1 DEF Keeps
    <3>2. CASE n # m \/ q # r
      BY <1>0, <1>2, <1>i, <2>2, <2>3, <3>2 DEF Restart, HasRule
    <3> QED
      BY <3>1, <3>2
  <2> QED
    BY <1>0, <2>2, <2>3, RulesStay
<1>3. ASSUME NEW r \in Rules, NEW op \in {"stop", "delete"}, StopForward(k, r, op)
      PROVE  RuleKept'
  <2>m. PICK m \in Managers : m = current
    BY <1>0, <1>3 DEF StopForward
  <2>0. active[m][r] # 0 /\ rule[active[m][r]] = r
    BY <1>3, <2>m DEF StopForward, Typed, ListedByRule
  <2>1. task'[k].manager = m /\ task'[k].op = op /\ task'[k].rule = r
    BY <1>0, <1>3, <2>m, <2>0 DEF StopForward, Take, Idle
  <2>2. /\ active' = [active EXCEPT ![m][r] = 0] /\ UNCHANGED <<stopped, rule>>
        /\ kept' = IF op = "delete" THEN [kept EXCEPT ![m] = @ \ {r}] ELSE kept
    BY <1>3, <2>m DEF StopForward
  <2>3. ASSUME NEW n \in Managers, NEW q \in kept'[n]
        PROVE  \/ q \in kept[n] /\ ~HasRule(n, q) /\ ~Keeps(k, n, q)
               \/ HasRule(n, q)'
               \/ Keeps(k, n, q)'
    <3>0. q \in Rules /\ q \in kept[n]
      BY <1>0, <2>2, <2>3
    <3>1. CASE n = m /\ q = r
      <4>1. op # "delete"
        BY <1>0, <2>2, <2>3, <3>1
      <4> QED
        BY <2>1, <3>1, <4>1 DEF Keeps
    <3>2. CASE n # m \/ q # r
      BY <1>0, <1>3, <1>i, <2>2, <3>0, <3>2 DEF StopForward, HasRule
    <3> QED
      BY <3>1, <3>2
  <2> QED
    BY <1>0, <2>2, <2>3, RulesStay
<1>d. ASSUME NEW t \in TaskStates, t.op \in {"suspend", "clear"}, task[k].at = "idle", current # 0,
             DrainManager(k, current, t), UNCHANGED <<stopped, rule>>
      PROVE  RuleKept'
  BY <1>0, <1>d, DrainKeeps
<1>4. ASSUME NEW c \in Connections, RestoreSession(k, c)
      PROVE  RuleKept'
  <2>1. CASE connection[current] # c
    <3> DEFINE t == [Idle EXCEPT !.op = "suspend", !.target = c, !.after = "register"]
    <3>1. t \in TaskStates /\ t.op = "suspend"
      BY DEF Idle, TaskStates, Places, Operations
    <3> QED
      BY <1>d, <1>4, <2>1, <3>1 DEF RestoreSession
  <2>2. CASE connection[current] = c
    BY <1>4, <1>q, <2>2 DEF RestoreSession
  <2> QED
    BY <2>1, <2>2
<1>5. ASSUME NEW c \in Connections \union {0}, RemoveManager(k, c)
      PROVE  RuleKept'
  <2>0. PICK after \in {"done", "register"} : after = IF c = 0 THEN "done" ELSE "register"
    OBVIOUS
  <2> DEFINE t == [Idle EXCEPT !.op = "clear", !.target = c, !.after = after]
  <2>1. t \in TaskStates /\ t.op = "clear"
    BY DEF Idle, TaskStates, Places, Operations
  <2> QED
    BY <1>d, <1>5, <2>0, <2>1 DEF RemoveManager
<1>6. CASE SuspendSession(k)
  <2> DEFINE t == [Idle EXCEPT !.op = "suspend"]
  <2>1. t \in TaskStates /\ t.op = "suspend"
    BY DEF Idle, TaskStates, Places, Operations
  <2> QED
    BY <1>d, <1>6, <2>1 DEF SuspendSession
<1>7. CASE StopAllForSession(k)
  <2> DEFINE t == [Idle EXCEPT !.op = "clear"]
  <2>1. t \in TaskStates /\ t.op = "clear"
    BY DEF Idle, TaskStates, Places, Operations
  <2> QED
    BY <1>d, <1>7, <2>1 DEF StopAllForSession
<1>8. CASE StopAll(k)
  <2> DEFINE t == [Idle EXCEPT !.op = "clear", !.after = "forget"]
  <2>1. t \in TaskStates /\ t.op = "clear"
    BY DEF Idle, TaskStates, Places, Operations
  <2> QED
    BY <1>d, <1>8, <2>1 DEF StopAll
<1>9. CASE Shutdown(k)
  <2>1. CASE current # 0
    <3> DEFINE t == [Idle EXCEPT !.op = "clear", !.after = "stopped"]
    <3>1. t \in TaskStates /\ t.op = "clear"
      BY DEF Idle, TaskStates, Places, Operations
    <3> QED
      BY <1>d, <1>9, <2>1, <3>1 DEF Shutdown
  <2>2. CASE current = 0
    BY <1>9, <1>q, <2>2 DEF Shutdown
  <2> QED
    BY <2>1, <2>2
<1> QED
  BY <1>1, <1>2, <1>3, <1>4, <1>5, <1>6, <1>7, <1>8, <1>9 DEF Call

\* The steps of a call.
LEMMA TaskStepKeeps ==
  ASSUME Typed, Typed', RuleKept, NEW k \in Tasks, TaskStep(k)
  PROVE  RuleKept'
<1>0. /\ task \in [Tasks -> TaskStates] /\ task[k] \in TaskStates /\ Stepped(k) /\ Placed(task[k])
      /\ kept \in [Managers -> SUBSET Rules] /\ kept' \in [Managers -> SUBSET Rules]
      /\ active \in [Managers -> [Rules -> Forwards \union {0}]]
      /\ stopped \in [Managers -> [Rules -> {"none", "Stopped", "Suspended"}]]
      /\ 0 \notin Opened /\ task[k].batch \subseteq Opened
  BY TaskStepSteps DEF Typed, TypeOK, OpenedOnly, Opened
<1>q. ASSUME UNCHANGED <<active, stopped, kept>>,
             \A f \in Opened : rule'[f] = rule[f],
             \A m \in Managers, r \in Rules : Keeps(k, m, r) => Keeps(k, m, r)'
      PROVE  RuleKept'
  <2>1. ASSUME NEW m \in Managers, NEW r \in kept'[m]
        PROVE  \/ r \in kept[m] /\ ~HasRule(m, r) /\ ~Keeps(k, m, r)
               \/ HasRule(m, r)'
               \/ Keeps(k, m, r)'
    BY <1>0, <1>q, <2>1 DEF HasRule
  <2> QED
    BY <1>0, <1>q, <2>1, RulesStay
<1>s. ASSUME NEW m, NEW r, NEW v \in {"Stopped", "Suspended"},
             stopped' = [stopped EXCEPT ![m][r] = v] \/ stopped' = stopped,
             UNCHANGED <<active, rule, kept>>,
             \A n \in Managers, q \in Rules : Keeps(k, n, q) =>
                Keeps(k, n, q)' \/ (n = m /\ q = r /\ stopped' = [stopped EXCEPT ![m][r] = v])
      PROVE  RuleKept'
  <2>1. ASSUME NEW n \in Managers, NEW q \in kept'[n]
        PROVE  \/ q \in kept[n] /\ ~HasRule(n, q) /\ ~Keeps(k, n, q)
               \/ HasRule(n, q)'
               \/ Keeps(k, n, q)'
    <3>1. q \in Rules /\ q \in kept[n]
      BY <1>0, <1>s, <2>1
    <3>2. stopped[n][q] # "none" => stopped'[n][q] # "none"
      BY <1>0, <1>s, <3>1
    <3>3. HasRule(n, q) => HasRule(n, q)'
      BY <1>s, <3>2 DEF HasRule
    <3>4. n = m /\ q = r /\ stopped' = [stopped EXCEPT ![m][r] = v] => HasRule(n, q)'
      BY <1>0, <3>1 DEF HasRule
    <3> QED
      BY <1>s, <3>1, <3>3, <3>4
  <2> QED
    BY <1>0, <1>s, <2>1, RulesStay
<1>1. CASE AlreadyExists(k) \/ OpenFails(k)
  <2>1. /\ task[k].op \in {"create", "restart", "restore"} /\ task[k].batch = {}
        /\ GiveUp(k)
    BY <1>0, <1>1 DEF AlreadyExists, OpenFails, Placed
  <2>2. CASE task[k].op = "create"
    <3>1. \A m \in Managers, r \in Rules : ~Keeps(k, m, r)
      BY <2>1, <2>2 DEF Keeps
    <3>2. stopped' = stopped
      BY <2>1, <2>2 DEF GiveUp
    <3> QED
      BY <1>q, <2>1, <3>1, <3>2 DEF GiveUp
  <2>3. CASE task[k].op # "create"
    <3>1. PICK v \in {"Stopped", "Suspended"} :
             stopped' = [stopped EXCEPT ![task[k].manager][task[k].rule] = v]
      BY <2>1, <2>3 DEF GiveUp
    <3>2. \A m \in Managers, r \in Rules : Keeps(k, m, r) => m = task[k].manager /\ r = task[k].rule
      BY <2>1 DEF Keeps
    <3> QED
      BY <1>s, <2>1, <3>1, <3>2 DEF GiveUp
  <2> QED
    BY <2>2, <2>3
<1>2. CASE CheckRule(k) \/ OpenForward(k) \/ CancelOnServer(k) \/ CancelGivenUp(k)
  <2>1. /\ task'[k].manager = task[k].manager /\ task'[k].op = task[k].op
        /\ task'[k].rule = task[k].rule /\ task'[k].batch = task[k].batch
    BY <1>0, <1>2 DEF CheckRule, OpenForward, CancelOnServer, CancelGivenUp, TaskStates
  <2>2. \A f \in Opened : rule'[f] = rule[f]
    <3>1. CASE OpenForward(k)
      BY <3>1 DEF OpenForward, Opened, Typed, TypeOK
    <3>2. CASE ~OpenForward(k)
      BY <1>2, <3>2 DEF CheckRule, CancelOnServer, CancelGivenUp
    <3> QED
      BY <3>1, <3>2
  <2>3. \A m \in Managers, r \in Rules : Keeps(k, m, r) => Keeps(k, m, r)'
    BY <1>0, <2>1, <2>2 DEF Keeps
  <2> QED
    BY <1>2, <1>q, <2>2, <2>3 DEF CheckRule, OpenForward, CancelOnServer, CancelGivenUp
<1>3. CASE InsertForward(k) \/ CancelFails(k)
  <2>m. PICK m \in Managers : m = task[k].manager
    BY <1>0, <1>3 DEF InsertForward, CancelFails, Placed, TaskStates
  <2>r. PICK r \in Rules : r = task[k].rule
    BY <1>0, <1>3 DEF InsertForward, CancelFails, Placed, Typed, OpenedOnly
  <2>f. PICK f \in Opened : f = task[k].forward
    BY <1>0, <1>3 DEF InsertForward, CancelFails, Placed, Typed, OpenedOnly
  <2>1. /\ active' = [active EXCEPT ![m][r] = f] /\ UNCHANGED <<stopped, rule>>
        /\ kept' = [kept EXCEPT ![m] = @ \union {r}]
    BY <1>3, <2>m, <2>r, <2>f DEF InsertForward, CancelFails, Put
  <2>2. \A n \in Managers, q \in Rules : Keeps(k, n, q) => n = m /\ q = r
    BY <1>0, <1>3, <2>m, <2>r DEF InsertForward, CancelFails, Placed, Keeps
  <2>3. ASSUME NEW n \in Managers, NEW q \in kept'[n]
        PROVE  \/ q \in kept[n] /\ ~HasRule(n, q) /\ ~Keeps(k, n, q)
               \/ HasRule(n, q)'
               \/ Keeps(k, n, q)'
    <3>1. CASE n = m /\ q = r
      BY <1>0, <2>1, <3>1 DEF HasRule
    <3>2. CASE n # m \/ q # r
      <4>1. q \in Rules /\ q \in kept[n]
        BY <1>0, <2>1, <2>3, <3>2
      <4>2. active'[n][q] = active[n][q]
        BY <1>0, <2>1, <3>2, <4>1
      <4> QED
        BY <2>1, <2>2, <3>2, <4>1, <4>2 DEF HasRule
    <3> QED
      BY <3>1, <3>2
  <2> QED
    BY <1>0, <2>1, <2>3, RulesStay
<1>4. CASE Halted(k) \/ Drained(k)
  <2>1. /\ task[k].op \in {"stop", "delete", "suspend", "clear"}
        /\ Record(k) /\ Proceed(k) /\ UNCHANGED <<active, rule, kept>>
    BY <1>0, <1>4 DEF Halted, Drained, Placed
  <2>2. CASE task[k].op \in {"delete", "clear"}
    <3>1. \A m \in Managers, r \in Rules : ~Keeps(k, m, r)
      BY <2>2 DEF Keeps
    <3>2. stopped' = stopped
      BY <2>1, <2>2 DEF Record
    <3> QED
      BY <1>q, <2>1, <3>1, <3>2
  <2>3. CASE task[k].op \in {"stop", "suspend"}
    <3>1. PICK v \in {"Stopped", "Suspended"} :
             stopped' = [stopped EXCEPT ![task[k].manager][task[k].rule] = v]
      BY <2>1, <2>3 DEF Record
    <3>2. task[k].op = "suspend" =>
             /\ task'[k].manager = task[k].manager /\ task'[k].op = task[k].op
             /\ task'[k].batch = task[k].batch
      BY <1>0, <2>1 DEF Proceed, TaskStates
    <3>3. ASSUME NEW m \in Managers, NEW r \in Rules, Keeps(k, m, r)
          PROVE  Keeps(k, m, r)' \/ (m = task[k].manager /\ r = task[k].rule)
      BY <1>0, <2>1, <2>3, <3>2, <3>3 DEF Keeps
    <3> QED
      BY <1>s, <2>1, <3>1, <3>3
  <2> QED
    BY <2>1, <2>2, <2>3
<1>5. CASE NextForward(k)
  <2>1. PICK f \in task[k].batch : Take(k, f, [task[k] EXCEPT !.batch = @ \ {f}])
    BY <1>5 DEF NextForward
  <2>2. /\ task'[k].batch = task[k].batch \ {f} /\ task'[k].rule = rule[f]
        /\ task'[k].manager = task[k].manager /\ task'[k].op = task[k].op
    BY <1>0, <2>1 DEF Take, TaskStates
  <2>3. task[k].rule = "none" /\ task[k].op \in {"suspend", "clear"}
    BY <1>0, <1>5 DEF NextForward, Placed
  <2>4. ASSUME NEW m \in Managers, NEW r \in Rules, Keeps(k, m, r)
        PROVE  Keeps(k, m, r)'
    <3>1. /\ task[k].manager = m /\ task[k].op = "suspend"
          /\ \E g \in task[k].batch : rule[g] = r
      BY <2>3, <2>4, ForwardingAssumption DEF Keeps
    <3>2. PICK g \in task[k].batch : rule[g] = r
      BY <3>1
    <3>3. CASE g = f
      BY <2>2, <3>1, <3>2, <3>3 DEF Keeps
    <3>4. CASE g # f
      BY <1>5, <2>2, <3>1, <3>2, <3>4 DEF NextForward, Keeps
    <3> QED
      BY <3>3, <3>4
  <2> QED
    BY <1>5, <1>q, <2>4 DEF NextForward
<1>6. CASE EndBatch(k) \/ EndRestore(k) \/ GracePeriodEnds(k) \/ RegisterAfter(k)
  <2>1. \A m \in Managers, r \in Rules : ~Keeps(k, m, r)
    <3>1. CASE EndBatch(k) \/ EndRestore(k)
      BY <1>0, <3>1, ForwardingAssumption DEF EndBatch, EndRestore, Placed, Keeps
    <3>2. CASE GracePeriodEnds(k)
      BY <1>0, <3>2 DEF GracePeriodEnds, Placed, Keeps
    <3>3. CASE RegisterAfter(k)
      BY <1>0, <3>3, ForwardingAssumption DEF RegisterAfter, Placed, Keeps, Managers
    <3> QED
      BY <1>6, <3>1, <3>2, <3>3
  <2>2. UNCHANGED <<active, stopped, rule, kept>>
    BY <1>6 DEF EndBatch, EndRestore, GracePeriodEnds, RegisterAfter
  <2> QED
    BY <1>q, <2>1, <2>2
<1>7. CASE NextRule(k)
  <2>1. PICK r \in task[k].list :
           /\ stopped' = [stopped EXCEPT ![task[k].manager][r] = "none"]
           /\ task' = [task EXCEPT ![k].at = "check", ![k].rule = r, ![k].list = @ \ {r}]
    BY <1>7 DEF NextRule
  <2>m. PICK m \in Managers : m = task[k].manager
    BY <1>0, <1>7 DEF NextRule, Placed, TaskStates
  <2>2. task'[k].manager = m /\ task'[k].op = "restore" /\ task'[k].rule = r
    BY <1>0, <1>7, <2>1, <2>m DEF NextRule, TaskStates
  <2>3. \A n \in Managers, q \in Rules : ~Keeps(k, n, q)
    BY <1>0, <1>7, ForwardingAssumption DEF NextRule, Placed, Keeps
  <2>4. UNCHANGED <<active, rule, kept>>
    BY <1>7 DEF NextRule
  <2>5. ASSUME NEW n \in Managers, NEW q \in kept'[n]
        PROVE  \/ q \in kept[n] /\ ~HasRule(n, q) /\ ~Keeps(k, n, q)
               \/ HasRule(n, q)'
               \/ Keeps(k, n, q)'
    <3>1. CASE n = m /\ q = r
      BY <2>2, <3>1 DEF Keeps
    <3>2. CASE n # m \/ q # r
      <4>1. q \in Rules /\ q \in kept[n]
        BY <1>0, <2>4, <2>5
      <4>2. stopped'[n][q] = stopped[n][q]
        BY <1>0, <2>1, <2>m, <3>2, <4>1
      <4> QED
        BY <2>3, <2>4, <4>1, <4>2 DEF HasRule
    <3> QED
      BY <3>1, <3>2
  <2> QED
    BY <1>0, <2>4, <2>5, RulesStay
<1> QED
  BY <1>1, <1>2, <1>3, <1>4, <1>5, <1>6, <1>7 DEF TaskStep

\* No rule gets lost in any step.
LEMMA RuleKeptNext ==
  ASSUME Typed, Typed', RuleKept, [Next]_vars
  PROVE  RuleKept'
<1>0. /\ kept \in [Managers -> SUBSET Rules]
      /\ stopped \in [Managers -> [Rules -> {"none", "Stopped", "Suspended"}]]
      /\ active \in [Managers -> [Rules -> Forwards \union {0}]]
      /\ (current # 0 => current \in Managers)
  BY DEF Typed, TypeOK
<1>1. ASSUME UNCHANGED <<task, rule>>,
             \A m \in Managers : \A r \in kept'[m] : r \in kept[m] /\ (HasRule(m, r) => HasRule(m, r)')
      PROVE  RuleKept'
  BY <1>1 DEF RuleKept, Keeps
<1>2. ASSUME NEW r \in Rules, DeleteStopped(r)
      PROVE  RuleKept'
  <2>1. ASSUME NEW m \in Managers, NEW q \in kept'[m]
        PROVE  q \in kept[m] /\ (HasRule(m, q) => HasRule(m, q)')
    BY <1>0, <1>2, <2>1 DEF DeleteStopped, HasRule
  <2> QED
    BY <1>1, <1>2, <2>1 DEF DeleteStopped
<1>3. ASSUME NEW r \in Rules, UpdateStopped(r)
      PROVE  RuleKept'
  <2>1. ASSUME NEW m \in Managers, NEW q \in kept'[m]
        PROVE  q \in kept[m] /\ (HasRule(m, q) => HasRule(m, q)')
    BY <1>0, <1>3, <2>1 DEF UpdateStopped, HasRule
  <2> QED
    BY <1>1, <1>3, <2>1 DEF UpdateStopped
<1>4. ASSUME NEW m \in Managers, DropManager(m)
      PROVE  RuleKept'
  <2>1. ASSUME NEW n \in Managers, NEW q \in kept'[n]
        PROVE  q \in kept[n] /\ (HasRule(n, q) => HasRule(n, q)')
    BY <1>0, <1>4, <2>1 DEF DropManager, HasRule
  <2> QED
    BY <1>1, <1>4, <2>1 DEF DropManager
<1>5. CASE UNCHANGED <<task, rule, active, stopped, kept>>
  BY <1>1, <1>5 DEF HasRule
<1>6. CASE \/ \E f \in Forwards : ListenerEnds(f)
           \/ \E c \in Connections : Register(c)
           \/ UNCHANGED vars
  BY <1>5, <1>6 DEF ListenerEnds, Register, vars
<1> QED
  BY <1>2, <1>3, <1>4, <1>6, CallKeeps, TaskStepKeeps DEF Next

\* A rule that was created and neither deleted nor cleared is never lost: it is listed
\* as running or stopped, or an operation under way will list it, the failing ones of
\* restart_forward, restore_saved_forwards and stop_forward included.
THEOREM NoRuleIsLost == Spec => []RuleNotLost
<1>1. Init => RuleKept
  BY DEF Init, RuleKept
<1>2. Typed /\ Typed' /\ RuleKept /\ [Next]_vars => RuleKept'
  BY RuleKeptNext
<1>3. RuleKept => RuleNotLost
  BY DEF RuleKept, RuleNotLost, Keeps, InHands
<1> QED
  BY <1>1, <1>2, <1>3, TypedAlways, PTL DEF Spec

=============================================================================
