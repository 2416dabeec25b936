------------------------- MODULE ConnectionRegistry -------------------------
(***************************************************************************)
(* The pool of SSH connections (SshConnectionRegistry in                   *)
(* crates/hapcli-ssh/src/connection_registry.rs) and the connect paths of  *)
(* crates/hapcli-ssh/src/transport/client.rs that acquire and release its  *)
(* entries.                                                                *)
(*                                                                         *)
(* An entry counts the consumers that use it.  When the count drops to     *)
(* zero a shared entry becomes Idle and an idle timer is started; a        *)
(* dedicated entry is retired at once.  A tunnelled child holds its parent *)
(* through an ancestor consumer until the child is retired.                *)
(*                                                                         *)
(* The registry's methods are called from many threads and take one lock   *)
(* at a time, so a method is a sequence of steps.  An actor is a thread    *)
(* that runs one method at a time, or the idle-timer task of a connection; *)
(* call[a] is the step it takes next and todo[a] the steps after it.       *)
(*                                                                         *)
(* The idle generation is modelled by what it decides: timers[c] holds the *)
(* number of sleeping timer tasks that carry the current generation, and   *)
(* the actors that have read it and not spawned their task yet.  Bumping   *)
(* the generation empties both; a task with an old generation does nothing *)
(* when it wakes.                                                          *)
(***************************************************************************)
EXTENDS Naturals, Sequences, FiniteSets

CONSTANTS
    Conns,      \* connection ids; an id is given to one entry, once
    Dedicated,  \* the ids handed out by acquire_dedicated
    Keys,       \* pool keys of shared entries
    KeyOf,      \* the key of each shared id
    Hop,        \* the connection a dedicated child tunnels through
    Users,      \* consumers: terminals, SFTP views, nodes
    Threads,    \* threads that connect and close views
    Monitors    \* tasks that probe connections and threads that change settings

ASSUME ConnectionRegistryAssumption ==
    /\ Dedicated \subseteq Conns
    /\ KeyOf \in [Conns \ Dedicated -> Keys]
    /\ Hop \in [Dedicated -> Conns]
    /\ Conns # {}
    /\ Conns \intersect (Threads \union Monitors) = {}
    /\ Conns \intersect Users = {}
    /\ IsFiniteSet(Conns) /\ IsFiniteSet(Users)
    /\ IsFiniteSet(Threads) /\ IsFiniteSet(Monitors)

VARIABLES
    used,            \* ids that have been given to an entry
    registered,      \* ids present in by_id and by_key
    state,           \* ConnectionState
    consumers,       \* consumers Vec (a set: push is guarded by contains)
    refCount,        \* ref_count
    kept,            \* connections whose keep_alive is set
    timers,          \* idle timers of the current generation
    physical,        \* the transport in the physical slot
    tunnelled,       \* children whose parent ownership is committed
    lastStatus,      \* last_emitted_status
    call, todo       \* the actors

entryVars == <<consumers, refCount>>
poolVars == <<used, registered, tunnelled>>
vars == <<used, registered, state, consumers, refCount, kept, timers, physical,
          tunnelled, lastStatus, call, todo>>

-----------------------------------------------------------------------------
Actors == Threads \union Monitors \union Conns

\* The ancestor consumer of child d ("<id>:ancestor") is written d.
Consumers == Users \union Conns

States == {"Connecting", "Active", "Idle", "LinkDown", "Disconnected", "Error"}

\* Steps that a method schedules, and those only entered from the step before them.
TunnelSteps == {"tunnel", "handshake", "commit", "markChild"}

Queued == {"push", "pushExisting", "connect", "reuse", "dial", "shell", "childShell",
           "channel", "childChannel", "markActive", "remove", "unused", "bump", "arm", "idle",
           "keepIdle", "check", "cascade", "retire",
           "disconnect", "drop", "gone", "linkDown", "lose", "clear", "retime", "probe"}

QueuedCalls == [do : Queued, conn : Conns, user : Consumers]
                 \union [do : TunnelSteps, conn : Dedicated, user : Consumers]

Calls == QueuedCalls
           \union [do : {"none", "activate", "decrement"}, conn : Conns, user : Consumers]

Call(do, c, u) == [do |-> do, conn |-> c, user |-> u]

\* A step that concerns no consumer names the connection in its place.
Work(do, c) == Call(do, c, c)

NoCall == Work("none", CHOOSE c \in Conns : TRUE)

\* The actor's current step is done: it takes up the next one, or nothing.
Continue(a, s) ==
    LET rest == s \o todo[a]
    IN /\ call' = [call EXCEPT ![a] = IF rest = <<>> THEN NoCall ELSE Head(rest)]
       /\ todo' = [todo EXCEPT ![a] = IF rest = <<>> THEN <<>> ELSE Tail(rest)]

Return(a) == Continue(a, <<>>)

Resting(a) == call[a].do = "none"

\* Idle timers of one entry: the tasks asleep, the actors that start one, and whether
\* Idle was written with neither since the generation was last bumped (history).
Timers == [asleep : Nat, starting : SUBSET Actors, missed : BOOLEAN]

\* What cancel_idle_timer leaves.
NoTimers == [asleep |-> 0, starting |-> {}, missed |-> FALSE]

\* Registered connections that reach c through parent links: those in every set
\* that holds c and, with a connection, its children.
Descendants(c) ==
    LET children(S) == {d \in tunnelled : Hop[d] \in S}
    IN {d \in tunnelled \ {c} :
          \A S \in SUBSET Conns : c \in S /\ children(S) \subseteq S => d \in S}

\* The orders in which descendant_connection_infos may list a set.
Orders(S) ==
    {f \in [1 .. Cardinality(S) -> S] :
        \A i, j \in 1 .. Cardinality(S) : f[i] = f[j] => i = j}

Init ==
    /\ used = {}
    /\ registered = {}
    /\ state = [c \in Conns |-> "Connecting"]
    /\ consumers = [c \in Conns |-> {}]
    /\ refCount = [c \in Conns |-> 0]
    /\ kept = {}
    /\ timers = [c \in Conns |-> NoTimers]
    /\ physical = [c \in Conns |-> "none"]
    /\ tunnelled = {}
    /\ lastStatus = [c \in Conns |-> "none"]
    /\ call = [a \in Actors |-> NoCall]
    /\ todo = [a \in Actors |-> <<>>]

-----------------------------------------------------------------------------
(* Adding a consumer *)

\* No step of another actor may enter a section guarded by the entry's consumers
\* lock while an actor is inside it.
ConsumersUnlocked(c) ==
    \A a \in Actors : ~(call[a].do = "activate" /\ call[a].conn = c)

\* Faulty AddConsumer: a consumer that is on the list already is counted again.
AddConsumerTwice(c, u) ==
    /\ ConsumersUnlocked(c)
    /\ consumers' = [consumers EXCEPT ![c] = @ \union {u}]
    /\ refCount' = [refCount EXCEPT ![c] = @ + 1]

\* The part of acquire and acquire_consumer_for_connection under the lock.
AddConsumer(c, u) ==
    /\ ConsumersUnlocked(c)
    /\ consumers' = [consumers EXCEPT ![c] = @ \union {u}]
    /\ refCount' = [refCount EXCEPT ![c] = IF u \in consumers[c] THEN @ ELSE @ + 1]

\* acquire, first part: find or insert the entry of the key, cancel its idle
\* timer.  The caller goes on to connect with the handle.
Acquire(t, k, u) ==
    /\ Resting(t)
    /\ \E c \in Conns \ Dedicated :
        /\ KeyOf[c] = k
        /\ \/ c \in registered /\ UNCHANGED <<used, registered>>
           \/ /\ \A d \in registered \ Dedicated : KeyOf[d] # k
              /\ c \notin used
              /\ used' = used \union {c}
              /\ registered' = registered \union {c}
        /\ timers' = [timers EXCEPT ![c] = NoTimers]
        /\ Continue(t, <<Call("push", c, u), Call("connect", c, u)>>)
    /\ UNCHANGED <<state, entryVars, kept, physical, tunnelled, lastStatus>>

\* acquire, second part: the entry may have been retired meanwhile.
Push(t) ==
    /\ call[t].do = "push"
    /\ AddConsumer(call[t].conn, call[t].user)
    /\ Return(t)
    /\ UNCHANGED <<poolVars, state, kept, timers, physical, lastStatus>>

\* acquire_dedicated.  Without a parent the terminal connects by itself; with one,
\* connect_shell_with_dedicated_parent takes the ancestor consumer first and
\* releases the new entry when the parent is gone.
AcquireDedicated(t, c, u) ==
    /\ Resting(t)
    /\ c \notin used
    /\ used' = used \union {c}
    /\ registered' = registered \union {c}
    /\ consumers' = [consumers EXCEPT ![c] = {u}]
    /\ refCount' = [refCount EXCEPT ![c] = 1]
    /\ \/ Continue(t, <<Call("connect", c, u)>>)
       \/ /\ Hop[c] \in registered
          /\ Continue(t, <<Call("pushExisting", Hop[c], c), Call("tunnel", c, u)>>)
       \/ /\ Hop[c] \notin registered
          /\ Continue(t, <<Call("remove", c, u)>>)
    /\ UNCHANGED <<state, kept, timers, physical, tunnelled, lastStatus>>

\* acquire_consumer_for_connection on a registered entry, from
\* connect_shell_on_existing_connection.
Borrow(t, c, u) ==
    /\ Resting(t)
    /\ c \in registered
    /\ Continue(t, <<Call("pushExisting", c, u), Call("shell", c, u)>>)
    /\ UNCHANGED <<poolVars, state, entryVars, kept, timers, physical, lastStatus>>

\* Its locked section: the first consumer cancels the timer and, finding the entry
\* Idle with a transport, goes on to write Active.
PushExisting(t) ==
    LET c == call[t].conn
        first == call[t].user \notin consumers[c] /\ refCount[c] = 0
    IN /\ call[t].do = "pushExisting"
       /\ AddConsumer(c, call[t].user)
       /\ timers' = IF first THEN [timers EXCEPT ![c] = NoTimers] ELSE timers
       /\ IF first /\ state[c] = "Idle" /\ physical[c] # "none"
          THEN Continue(t, <<Work("activate", c)>>)
          ELSE Return(t)
       /\ UNCHANGED <<poolVars, state, kept, physical, lastStatus>>

Activate(t) ==
    LET c == call[t].conn
    IN /\ call[t].do = "activate"
       /\ state' = [state EXCEPT ![c] = "Active"]
       /\ Return(t)
       /\ UNCHANGED <<poolVars, entryVars, kept, timers, physical, lastStatus>>

-----------------------------------------------------------------------------
(* Connecting *)

\* mark_state: nothing happens to an entry that is no longer registered.
Mark(c, s) ==
    state' = IF c \in registered THEN [state EXCEPT ![c] = s] ELSE state

\* connect_shell_with_registry_acquisition and connect_existing_node_with_registry
\* read the slot: an open transport is reused, by a terminal for a channel; a closed
\* one is cleared and, as with an empty slot, a new one is set up.
Connect(t) ==
    LET c == call[t].conn
        u == call[t].user
    IN /\ call[t].do = "connect"
       /\ \/ /\ physical[c] = "open"
             /\ \/ Continue(t, <<Call("channel", c, u)>>)
                \/ c \notin Dedicated /\ Continue(t, <<Call("reuse", c, u)>>)
             /\ UNCHANGED physical
          \/ /\ physical[c] # "open"
             /\ physical' = [physical EXCEPT ![c] = "none"]
             /\ Continue(t, <<Call("dial", c, u)>>)
       /\ UNCHANGED <<poolVars, state, entryVars, kept, timers, lastStatus>>

\* A node stores the transport it read again, alive or dead by now, whatever has
\* become of the slot.
Reuse(t) ==
    LET c == call[t].conn
    IN /\ call[t].do = "reuse"
       /\ \E p \in {"open", "closed"} : physical' = [physical EXCEPT ![c] = p]
       /\ Continue(t, <<Work("markActive", c)>>)
       /\ UNCHANGED <<poolVars, state, entryVars, kept, timers, lastStatus>>

\* connect_authenticated_connection succeeds and the transport is stored.  A terminal
\* goes on to open a channel, a node is Active.
DialSucceeds(t) ==
    LET c == call[t].conn
        u == call[t].user
    IN /\ call[t].do = "dial"
       /\ physical' = [physical EXCEPT ![c] = "open"]
       /\ \/ Continue(t, <<Call("channel", c, u)>>)
          \/ c \notin Dedicated /\ Continue(t, <<Work("markActive", c)>>)
       /\ UNCHANGED <<poolVars, state, entryVars, kept, timers, lastStatus>>

\* It fails, or the setup is cancelled: the entry is marked unless cancelled, and
\* the consumer is released.
DialFails(t) ==
    LET c == call[t].conn
    IN /\ call[t].do = "dial"
       /\ Mark(c, "Error") \/ UNCHANGED state
       /\ Continue(t, <<Call("remove", c, call[t].user)>>)
       /\ UNCHANGED <<poolVars, entryVars, kept, timers, physical, lastStatus>>

\* connect_child_node_via_parent_with_registry reads the parent's slot ...
OpenTunnel(t) ==
    LET c == call[t].conn
    IN /\ call[t].do = "tunnel"
       /\ physical[Hop[c]] = "open"
       /\ Continue(t, <<Call("handshake", c, call[t].user)>>)
       /\ UNCHANGED <<poolVars, state, entryVars, kept, timers, physical, lastStatus>>

\* ... and authenticates through a channel of the transport it found there, which
\* may have left the slot meanwhile.
TunnelSucceeds(t) ==
    LET c == call[t].conn
    IN /\ call[t].do = "handshake"
       /\ physical[Hop[c]] # "closed"
       /\ physical' = [physical EXCEPT ![c] = "open"]
       /\ Continue(t, <<Call("commit", c, call[t].user)>>)
       /\ UNCHANGED <<poolVars, state, entryVars, kept, timers, lastStatus>>

\* Both guards release, the parent's first.
GuardsRelease(c, u) == <<Call("remove", Hop[c], c), Call("remove", c, u)>>

\* The parent has no open transport, the tunnel fails, or the setup is cancelled.
TunnelFails(t) ==
    LET c == call[t].conn
    IN /\ \/ call[t].do = "tunnel" /\ physical[Hop[c]] # "open"
          \/ call[t].do = "handshake"
       /\ Mark(c, "Error") \/ UNCHANGED state
       /\ Continue(t, GuardsRelease(c, call[t].user))
       /\ UNCHANGED <<poolVars, entryVars, kept, timers, physical, lastStatus>>

\* commit_child_registry_ownership: set_parent_connection_ownership under the
\* child's lifecycle lock ...
Commit(t) ==
    LET c == call[t].conn
        u == call[t].user
    IN /\ call[t].do = "commit"
       /\ tunnelled' = IF c \in registered THEN tunnelled \union {c} ELSE tunnelled
       /\ Continue(t, IF c \in registered THEN <<Call("markChild", c, u)>>
                      ELSE GuardsRelease(c, u) \o <<Work("clear", c)>>)
       /\ UNCHANGED <<used, registered, state, entryVars, kept, timers, physical,
                      lastStatus>>

\* Faulty MarkChild: the parent's guard is not disarmed and releases.
MarkChildWithGuardArmed(t) ==
    LET c == call[t].conn
        u == call[t].user
    IN /\ call[t].do = "markChild"
       /\ Mark(c, "Active")
       /\ Continue(t, <<Call("remove", Hop[c], c), Call("childShell", c, u)>>)
       /\ UNCHANGED <<poolVars, entryVars, kept, timers, physical, lastStatus>>

\* ... then mark_state.  A child found retired by either releases both consumers
\* and clears its transport.
MarkChild(t) ==
    LET c == call[t].conn
        u == call[t].user
    IN /\ call[t].do = "markChild"
       /\ Mark(c, "Active")
       /\ Continue(t, IF c \in registered THEN <<Call("childShell", c, u)>>
                      ELSE GuardsRelease(c, u) \o <<Work("clear", c)>>)
       /\ UNCHANGED <<poolVars, entryVars, kept, timers, physical, lastStatus>>

MarkActive(t) ==
    /\ call[t].do = "markActive"
    /\ Mark(call[t].conn, "Active")
    /\ Return(t)
    /\ UNCHANGED <<poolVars, entryVars, kept, timers, physical, lastStatus>>

\* The slot is read before a channel is opened: no transport releases the consumer;
\* connect_shell_on_existing_connection also reports a closed one as lost.
CheckShell(t) ==
    LET c == call[t].conn
        u == call[t].user
    IN /\ \/ /\ call[t].do \in {"shell", "childShell"}
             /\ physical[c] = "none"
             /\ Continue(t, <<Call("remove", c, u)>>)
          \/ /\ call[t].do = "shell"
             /\ physical[c] = "closed"
             /\ Continue(t, <<Work("linkDown", c), Call("remove", c, u)>>)
          \/ /\ call[t].do = "shell"
             /\ physical[c] = "open"
             /\ Continue(t, <<Call("channel", c, u)>>)
          \/ /\ call[t].do = "childShell"
             /\ physical[c] # "none"
             /\ Continue(t, <<Call("childChannel", c, u)>>)
       /\ UNCHANGED <<poolVars, state, entryVars, kept, timers, physical, lastStatus>>

\* open_shell_from_pooled succeeds on the transport read before: it is still in the
\* slot and open, or has left the slot and lives on.  The caller marks the entry
\* Active; a tunnelled child has been marked already.
ChannelOpens(t) ==
    LET c == call[t].conn
    IN /\ physical[c] # "closed"
       /\ \/ call[t].do = "channel" /\ Continue(t, <<Work("markActive", c)>>)
          \/ call[t].do = "childChannel" /\ Return(t)
       /\ UNCHANGED <<poolVars, state, entryVars, kept, timers, physical, lastStatus>>

\* It fails: a lost transport is reported, then the consumer is released; any other
\* failure, or cancelled setup, only releases it.
ChannelFails(t) ==
    LET c == call[t].conn
        u == call[t].user
    IN /\ call[t].do \in {"channel", "childChannel"}
       /\ \/ Continue(t, <<Work("linkDown", c), Call("remove", c, u)>>)
          \/ Continue(t, <<Call("remove", c, u)>>)
       /\ UNCHANGED <<poolVars, state, entryVars, kept, timers, physical, lastStatus>>

-----------------------------------------------------------------------------
(* Releasing a consumer *)

\* A view is closed: release(connection_id, consumer).
Release(t, c, u) ==
    /\ Resting(t)
    /\ u \in consumers[c]
    /\ Continue(t, <<Call("remove", c, u)>>)
    /\ UNCHANGED <<poolVars, state, entryVars, kept, timers, physical, lastStatus>>

\* The consumer is removed under the lock ...
Remove(t) ==
    LET c == call[t].conn
        u == call[t].user
    IN /\ call[t].do = "remove"
       /\ \/ /\ c \notin registered
             /\ Return(t)
             /\ UNCHANGED consumers
          \/ /\ c \in registered
             /\ ConsumersUnlocked(c)
             /\ consumers' = [consumers EXCEPT ![c] = @ \ {u}]
             /\ Continue(t, <<Work(IF u \in consumers[c] THEN "decrement" ELSE "unused", c)>>)
       /\ UNCHANGED <<poolVars, state, refCount, kept, timers, physical, lastStatus>>

\* ... and the count follows after the lock was given back (a saturating
\* subtraction) ...
Decrement(t) ==
    LET c == call[t].conn
    IN /\ call[t].do = "decrement"
       /\ refCount' = [refCount EXCEPT ![c] = IF @ = 0 THEN 0 ELSE @ - 1]
       /\ Continue(t, <<Work("unused", c)>>)
       /\ UNCHANGED <<poolVars, state, consumers, kept, timers, physical, lastStatus>>

\* Faulty CheckUnused: a dedicated entry is treated like a shared one.
CheckUnusedShared(t) ==
    LET c == call[t].conn
    IN /\ call[t].do = "unused"
       /\ IF refCount[c] # 0 THEN Return(t)
          ELSE Continue(t, <<Work(IF c \in kept THEN "keepIdle" ELSE "bump", c)>>)
       /\ UNCHANGED <<poolVars, state, entryVars, kept, timers, physical, lastStatus>>

\* ... then the count is read to decide what becomes of the entry.
CheckUnused(t) ==
    LET c == call[t].conn
    IN /\ call[t].do = "unused"
       /\ IF refCount[c] # 0 THEN Return(t)
          ELSE Continue(t, <<Work(IF c \in Dedicated THEN "retire"
                                  ELSE IF c \in kept THEN "keepIdle" ELSE "bump", c)>>)
       /\ UNCHANGED <<poolVars, state, entryVars, kept, timers, physical, lastStatus>>

\* A kept entry is Idle without a timer.
KeepIdle(t) ==
    LET c == call[t].conn
    IN /\ call[t].do = "keepIdle"
       /\ timers' = [timers EXCEPT ![c] = [NoTimers EXCEPT !.missed = c \notin kept]]
       /\ state' = [state EXCEPT ![c] = "Idle"]
       /\ Return(t)
       /\ UNCHANGED <<poolVars, entryVars, kept, physical, lastStatus>>

\* start_idle_timer_for_entry bumps the generation ...
BumpIdle(t) ==
    LET c == call[t].conn
    IN /\ call[t].do = "bump"
       /\ timers' = [timers EXCEPT ![c] = NoTimers]
       /\ Continue(t, <<Work("arm", c)>>)
       /\ UNCHANGED <<poolVars, state, entryVars, kept, physical, lastStatus>>

\* ... reads it back ...
ReadGeneration(t) ==
    LET c == call[t].conn
    IN /\ call[t].do = "arm"
       /\ timers' = [timers EXCEPT ![c].starting = @ \union {t}]
       /\ Continue(t, <<Work("idle", c)>>)
       /\ UNCHANGED <<poolVars, state, entryVars, kept, physical, lastStatus>>

\* ... marks the entry Idle whatever it was, and spawns the task with the generation it
\* read: one of the current generation sleeps from then on.
WriteIdle(t) ==
    LET c == call[t].conn
        timer == [timers[c] EXCEPT !.asleep = IF t \in timers[c].starting THEN @ + 1 ELSE @,
                                   !.starting = @ \ {t}]
    IN /\ call[t].do = "idle"
       /\ state' = [state EXCEPT ![c] = "Idle"]
       /\ timers' = [timers EXCEPT ![c] =
                        [timer EXCEPT !.missed = timer.asleep = 0 /\ timer.starting = {}]]
       /\ Return(t)
       /\ UNCHANGED <<poolVars, entryVars, kept, physical, lastStatus>>

\* Faulty Retire: the ancestor consumer is forgotten.
RetireForgettingParent(t) ==
    LET c == call[t].conn
    IN /\ call[t].do = "retire"
       /\ timers' = [timers EXCEPT ![c] = NoTimers]
       /\ registered' = registered \ {c}
       /\ tunnelled' = tunnelled \ {c}
       /\ Return(t)
       /\ UNCHANGED <<used, state, entryVars, kept, physical, lastStatus>>

\* Faulty Retire: the link to the parent is kept with the entry gone.
RetireKeepingLink(t) ==
    LET c == call[t].conn
    IN /\ call[t].do = "retire"
       /\ timers' = [timers EXCEPT ![c] = NoTimers]
       /\ registered' = registered \ {c}
       /\ IF c \in tunnelled THEN Continue(t, <<Call("remove", Hop[c], c)>>) ELSE Return(t)
       /\ UNCHANGED <<used, tunnelled, state, entryVars, kept, physical, lastStatus>>

\* retire_connection, under the entry's lifecycle lock; a committed child then
\* releases its ancestor consumer.
Retire(t) ==
    LET c == call[t].conn
    IN /\ call[t].do = "retire"
       /\ IF c \in registered
          THEN /\ timers' = [timers EXCEPT ![c] = NoTimers]
               /\ registered' = registered \ {c}
               /\ tunnelled' = tunnelled \ {c}
               /\ IF c \in tunnelled THEN Continue(t, <<Call("remove", Hop[c], c)>>)
                  ELSE Return(t)
          ELSE Return(t) /\ UNCHANGED <<timers, registered, tunnelled>>
       /\ UNCHANGED <<used, state, entryVars, kept, physical, lastStatus>>

-----------------------------------------------------------------------------
(* Keep-alive and idle timeout *)

\* set_keep_alive.
SetKeepAlive(t, c) ==
    /\ Resting(t)
    /\ c \in registered \ kept
    /\ kept' = kept \union {c}
    /\ timers' = [timers EXCEPT ![c] = NoTimers]
    /\ UNCHANGED <<poolVars, state, entryVars, physical, lastStatus, call, todo>>

ClearKeepAlive(t, c) ==
    /\ Resting(t)
    /\ c \in registered \intersect kept
    /\ kept' = kept \ {c}
    /\ Continue(t, IF state[c] = "Idle" /\ refCount[c] = 0
                   THEN <<Work("bump", c)>> ELSE <<>>)
    /\ UNCHANGED <<poolVars, state, entryVars, timers, physical, lastStatus>>

\* One call after the other, for every connection of a set.
ForEach(S, do) ==
    {[i \in 1 .. Cardinality(S) |-> Work(do, f[i])] : f \in Orders(S)}

\* set_idle_timeout: every entry's timer is cancelled and, where the entry is idle,
\* started again.
SetIdleTimeout(t) ==
    /\ Resting(t)
    /\ registered # {}
    /\ \E calls \in ForEach(registered, "retime") : Continue(t, calls)
    /\ UNCHANGED <<poolVars, state, entryVars, kept, timers, physical, lastStatus>>

\* Faulty Retime: the timer is cancelled and not started again.
RetimeCancelling(t) ==
    LET c == call[t].conn
    IN /\ call[t].do = "retime"
       /\ timers' = [timers EXCEPT ![c] = NoTimers]
       /\ Return(t)
       /\ UNCHANGED <<poolVars, state, entryVars, kept, physical, lastStatus>>

Retime(t) ==
    LET c == call[t].conn
    IN /\ call[t].do = "retime"
       /\ timers' = [timers EXCEPT ![c] = NoTimers]
       /\ Continue(t, IF state[c] = "Idle" /\ refCount[c] = 0 /\ c \notin kept
                      THEN <<Work("bump", c)>> ELSE <<>>)
       /\ UNCHANGED <<poolVars, state, entryVars, kept, physical, lastStatus>>

\* disconnect_if_idle_timeout: a task wakes up, finds its entry and the generation it
\* carries current ...
IdleTimeout(c) ==
    /\ Resting(c)
    /\ timers[c].asleep > 0
    /\ timers' = [timers EXCEPT ![c].asleep = @ - 1]
    /\ Continue(c, IF c \in registered THEN <<Work("check", c)>> ELSE <<>>)
    /\ UNCHANGED <<poolVars, state, entryVars, kept, physical, lastStatus>>

\* Faulty CheckTimeout: only an Active entry is disconnected.
CheckTimeoutActive(t) ==
    LET c == call[t].conn
    IN /\ call[t].do = "check"
       /\ Continue(t, IF refCount[c] = 0 /\ c \notin kept /\ state[c] = "Active"
                      THEN <<Work("cascade", c)>> ELSE <<>>)
       /\ UNCHANGED <<poolVars, state, entryVars, kept, timers, physical, lastStatus>>

\* ... goes on if the entry is unused, not kept and Idle ...
CheckTimeout(t) ==
    LET c == call[t].conn
    IN /\ call[t].do = "check"
       /\ Continue(t, IF refCount[c] = 0 /\ c \notin kept /\ state[c] = "Idle"
                      THEN <<Work("cascade", c)>> ELSE <<>>)
       /\ UNCHANGED <<poolVars, state, entryVars, kept, timers, physical, lastStatus>>

\* ... then disconnects the descendants it lists, deepest first, and c.
Cascade(t) ==
    LET c == call[t].conn
    IN /\ call[t].do = "cascade"
       /\ \E calls \in ForEach(Descendants(c), "disconnect") :
             Continue(t, calls \o <<Work("disconnect", c)>>)
       /\ UNCHANGED <<poolVars, state, entryVars, kept, timers, physical, lastStatus>>

\* disconnect_idle_timed_out_connection: cancel the timer ...
Disconnect(t) ==
    LET c == call[t].conn
    IN /\ call[t].do = "disconnect"
       /\ IF c \in registered /\ state[c] # "Disconnected"
          THEN /\ timers' = [timers EXCEPT ![c] = NoTimers]
               /\ Continue(t, <<Work("drop", c), Work("gone", c), Work("retire", c)>>)
          ELSE Return(t) /\ UNCHANGED timers
       /\ UNCHANGED <<poolVars, state, entryVars, kept, physical, lastStatus>>

\* ... drop the transport (clear_physical().await) ...
DropTransport(t) ==
    LET c == call[t].conn
    IN /\ call[t].do = "drop"
       /\ physical' = [physical EXCEPT ![c] = "none"]
       /\ Return(t)
       /\ UNCHANGED <<poolVars, state, entryVars, kept, timers, lastStatus>>

\* ... and mark the entry; retirement follows.
MarkGone(t) ==
    /\ call[t].do = "gone"
    /\ Mark(call[t].conn, "Disconnected")
    /\ Return(t)
    /\ UNCHANGED <<poolVars, entryVars, kept, timers, physical, lastStatus>>

-----------------------------------------------------------------------------
(* Losing and recovering the link *)

\* The network or the server ends the transport.
TransportDies(c) ==
    /\ physical[c] = "open"
    /\ physical' = [physical EXCEPT ![c] = "closed"]
    /\ UNCHANGED <<poolVars, state, entryVars, kept, timers, lastStatus, call, todo>>

\* probe_active_connections finds the connection dead: a closed transport, or
\* HEARTBEAT_FAIL_THRESHOLD timeouts on an open one.
HeartbeatDead(t, c) ==
    /\ Resting(t)
    /\ c \in registered
    /\ state[c] \in {"Active", "Idle"}
    /\ Continue(t, <<Work("linkDown", c)>>)
    /\ UNCHANGED <<poolVars, state, entryVars, kept, timers, physical, lastStatus>>

\* mark_transport_lost_cascade: mark_link_down_cascade marks the root and its
\* descendants and emits the status event unless the root's last one was the same;
\* then each marked connection's transport is cleared, one await after the other.
LinkDown(t) ==
    LET c == call[t].conn
        hit == {d \in {c} \union Descendants(c) :
                  d \in registered /\ state[d] \notin {"Disconnected", "Error"}}
    IN /\ call[t].do = "linkDown"
       /\ IF c \in registered
          THEN /\ state' = [d \in Conns |-> IF d \in hit THEN "LinkDown" ELSE state[d]]
               /\ IF hit # {} /\ lastStatus[c] # "link_down"
                  THEN lastStatus' = [lastStatus EXCEPT ![c] = "link_down"]
                  ELSE UNCHANGED lastStatus
               /\ \E calls \in ForEach(hit, "lose") : Continue(t, calls)
          ELSE Return(t) /\ UNCHANGED <<state, lastStatus>>
       /\ UNCHANGED <<poolVars, entryVars, kept, timers, physical>>

\* clear_physical: of a connection that the cascade still finds registered, or of
\* the child whose handle a failed commit holds.
ClearPhysical(t) ==
    LET c == call[t].conn
    IN /\ call[t].do \in {"lose", "clear"}
       /\ physical' = IF call[t].do = "lose" /\ c \notin registered THEN physical
                      ELSE [physical EXCEPT ![c] = "none"]
       /\ Return(t)
       /\ UNCHANGED <<poolVars, state, entryVars, kept, timers, lastStatus>>

\* probe_single_connection of a connection that is down ...
ProbeSingle(t, c) ==
    /\ Resting(t)
    /\ c \in registered
    /\ state[c] = "LinkDown"
    /\ Continue(t, <<Work("probe", c)>>)
    /\ UNCHANGED <<poolVars, state, entryVars, kept, timers, physical, lastStatus>>

\* ... answered: the state read before the probe decides that it has recovered ...
ProbeRecovers(t) ==
    LET c == call[t].conn
    IN /\ call[t].do = "probe"
       /\ physical[c] = "open"
       /\ Mark(c, "Active")
       /\ lastStatus' = IF c \in registered THEN [lastStatus EXCEPT ![c] = "connected"]
                        ELSE lastStatus
       /\ Return(t)
       /\ UNCHANGED <<poolVars, entryVars, kept, timers, physical>>

\* ... or not: a timeout and a failed retry mark it down again, without an event
\* and without a cascade; an error at once marks nothing.
ProbeFails(t) ==
    LET c == call[t].conn
    IN /\ call[t].do = "probe"
       /\ Mark(c, "LinkDown") \/ UNCHANGED state
       /\ Return(t)
       /\ UNCHANGED <<poolVars, entryVars, kept, timers, physical, lastStatus>>

-----------------------------------------------------------------------------
\* The steps inside a method, which its caller's thread or task goes on to take.
ActorStep(a) ==
    \/ Push(a) \/ PushExisting(a) \/ Activate(a)
    \/ Connect(a) \/ Reuse(a) \/ DialSucceeds(a) \/ DialFails(a)
    \/ OpenTunnel(a) \/ TunnelSucceeds(a) \/ TunnelFails(a) \/ Commit(a) \/ MarkChild(a)
    \/ MarkActive(a) \/ CheckShell(a) \/ ChannelOpens(a) \/ ChannelFails(a)
    \/ Remove(a) \/ Decrement(a) \/ CheckUnused(a) \/ KeepIdle(a) \/ BumpIdle(a)
    \/ ReadGeneration(a) \/ WriteIdle(a) \/ CheckTimeout(a) \/ Cascade(a)
    \/ Disconnect(a) \/ DropTransport(a) \/ MarkGone(a) \/ Retire(a)
    \/ Retime(a) \/ LinkDown(a) \/ ClearPhysical(a) \/ ProbeRecovers(a) \/ ProbeFails(a)

\* The calls a thread may start.
ThreadCall(t) ==
    \/ \E k \in Keys, u \in Users : Acquire(t, k, u)
    \/ \E c \in Dedicated, u \in Users : AcquireDedicated(t, c, u)
    \/ \E c \in Conns, u \in Users : Borrow(t, c, u) \/ Release(t, c, u)

MonitorCall(t) ==
    \/ \E c \in Conns : HeartbeatDead(t, c) \/ ProbeSingle(t, c)
    \/ \E c \in Conns : SetKeepAlive(t, c) \/ ClearKeepAlive(t, c)
    \/ SetIdleTimeout(t)

Next ==
    \/ \E t \in Threads : ThreadCall(t)
    \/ \E t \in Monitors : MonitorCall(t)
    \/ \E a \in Actors : ActorStep(a)
    \/ \E c \in Conns : IdleTimeout(c) \/ TransportDies(c)

Spec == Init /\ [][Next]_vars

\* A thread inside a method, and a spawned task, keep running, and a sleeping
\* timer wakes up.  No caller is obliged to call.
FairSpec ==
    /\ Spec
    /\ \A a \in Actors : WF_vars(ActorStep(a))
    /\ \A c \in Conns : WF_vars(IdleTimeout(c))

-----------------------------------------------------------------------------
(* Properties *)

\* Every field of an entry and every pending step keeps its type; only registered
\* dedicated children have a committed tunnel (retire_connection drops both).
TypeOK ==
    /\ used \subseteq Conns
    /\ registered \subseteq used
    /\ state \in [Conns -> States]
    /\ consumers \in [Conns -> SUBSET Consumers]
    /\ refCount \in [Conns -> Nat]
    /\ kept \subseteq Conns
    /\ timers \in [Conns -> Timers]
    /\ physical \in [Conns -> {"none", "open", "closed"}]
    /\ tunnelled \subseteq registered \intersect Dedicated
    /\ lastStatus \in [Conns -> {"none", "link_down", "connected"}]
    /\ call \in [Actors -> Calls]
    /\ todo \in [Actors -> Seq(QueuedCalls)]

\* Actors between taking a consumer off the list and adjusting the count.
Decrementing(c) == {a \in Actors : call[a].do = "decrement" /\ call[a].conn = c}

\* ref_count is the number of consumers plus the releases that have not adjusted
\* it yet, so it neither outlives the consumer set nor runs ahead of it, and the
\* saturating subtraction never saturates.
RefCountMatchesConsumers ==
    \A c \in Conns : refCount[c] = Cardinality(consumers[c]) + Cardinality(Decrementing(c))

\* A registered child whose tunnel was committed holds its parent: as long as the
\* parent is registered, the ancestor consumer is on its list and the parent cannot
\* be counted unused.
TunnelHoldsParent ==
    \A d \in tunnelled : Hop[d] \in registered => d \in consumers[Hop[d]]

\* Some actor still has to take a step that names connection c.
InFlight(c) ==
    \E a \in Actors :
        \/ call[a].do # "none" /\ c \in {call[a].conn, call[a].user}
        \/ \E i \in DOMAIN todo[a] : c \in {todo[a][i].conn, todo[a][i].user}

\* "A retired child cannot own the ancestor consumer acquired for its tunnel": once
\* nobody works on the child any more, its ancestor consumer is gone from the parent
\* unless the child is registered and committed.
RetiredChildOwnsNothing ==
    \A d \in Dedicated :
        d \in consumers[Hop[d]] /\ Hop[d] \in registered => d \in tunnelled \/ InFlight(d)

\* "Adding a consumer must not resurrect a dead transport": the write of Active that
\* ends acquire_consumer_for_connection never covers a LinkDown.
AddingConsumerResurrectsNothing ==
    [][\A t \in Threads :
         call[t].do = "activate" /\ ~UNCHANGED call[t] => state[call[t].conn] # "LinkDown"]_vars

\* Some actor still has to clear the transport of c after a cascade.
Losing(c) ==
    \E a \in Actors :
        \/ call[a].do = "lose" /\ call[a].conn = c
        \/ \E i \in DOMAIN todo[a] : todo[a][i].do = "lose" /\ todo[a][i].conn = c

\* "Tauri emits one connection_status_changed event for the root connection": a
\* cascade that brings down a root that is Active over an open transport, when the
\* cascades before it are over, emits the root's link_down event.
OutageAnnounced ==
    [][\A a \in Actors :
         LET c == call[a].conn
         IN /\ call[a].do = "linkDown"
            /\ state[c] = "Active" /\ physical[c] = "open" /\ ~Losing(c)
            /\ state'[c] = "LinkDown"
            => lastStatus[c] # "link_down"]_vars

\* The entry waits in the pool for its idle timeout.
Unused(c) == c \in registered /\ state[c] = "Idle" /\ refCount[c] = 0 /\ c \notin kept

\* An unused entry has a sleeping timer of the current generation, or somebody is
\* still at work on it: no order of releases, acquisitions, probes, timeouts and
\* changes of keep-alive and timeout takes the timer away for good.  What the code does
\* not exclude is a start that was overtaken: Idle written after the generation read
\* for it was bumped, or after the flag read for it was cleared (missed), which no later
\* start has made good.
IdleHasTimer ==
    \A c \in Conns :
        Unused(c) => timers[c].asleep > 0 \/ timers[c].missed \/ InFlight(c)

\* An unused entry does not stay: it is taken up again, goes down or is retired by
\* its timer, unless the timeout is set again and again or its start was overtaken.
IdleIsReclaimed ==
    \A c \in Conns :
        <>[](Unused(c) /\ ~timers[c].missed) => []<>(\E a \in Actors : call[a].do = "retime")

\* A dedicated entry whose last consumer is gone is retired: it is never left
\* registered once the release that emptied it is over.
DedicatedIsRetired ==
    \A c \in registered \intersect Dedicated : refCount[c] = 0 => InFlight(c)
=============================================================================
