----------------------------- MODULE NodeEvents -----------------------------
(***************************************************************************)
(* The node event emitter and its bounded mailbox (crates/hapcli-ssh/src/  *)
(* router/events.rs), with the operations of the node router               *)
(* (router/node_router.rs) and of the connection registry                  *)
(* (connection_registry.rs) that publish through it.                       *)
(*                                                                         *)
(* An operation is a sequence of steps that other threads interleave with: *)
(* changing the runtime entry or taking a generation from the sequencer,   *)
(* then dispatching the event, then calling the wake callback.  dispatch   *)
(* holds the lock of mailbox_listeners over its push and its wake; the     *)
(* receiver takes only the lock of the queue.                              *)
(***************************************************************************)
EXTENDS Integers, Sequences, SequencesExt, FiniteSets

CONSTANTS
    Nodes, Conns,   \* nodes of the tree, connections of the registry
    Threads,        \* callers of the router and the registry
    Capacity,       \* capacity of the mailbox
    Marks,          \* bound: the readiness a bind or a mark_state may announce
    MaxCalls,       \* bound: operations in one behaviour
    None            \* no node, no connection, no thread, no event

ASSUME NodeEventsAssumption ==
    /\ Capacity \in Nat \ {0}
    /\ Marks \subseteq {"Ready", "Connecting", "Error", "Disconnected"}
    /\ MaxCalls \in Nat
    /\ None \notin Nodes \union Conns \union Threads

VARIABLES
    calls,          \* operations begun so far
    todo,           \* the steps each thread has still to take
    bound,          \* runtime store: the connection of each node
    generation,     \* runtime store: the generation of each node
    sequence,       \* NodeEventSequencer: the generation of each node
    owner,          \* emitter: connection_nodes
    queue,          \* the mailbox's queue
    holder,         \* the thread between push and wake, which has mailbox_listeners
    subscribed,     \* the mailbox is in mailbox_listeners
    receiver,       \* the consumer sleeps or drains
    woken,          \* its wake callback was called
    unread,         \* history: reliable events queued and not received, in order
    latest,         \* history: the last event dispatched of a key, until received or evicted
    evicted         \* history: the keys whose last event was evicted

vars == <<calls, todo, bound, generation, sequence, owner, queue, holder, subscribed,
          receiver, woken, unread, latest, evicted>>

-----------------------------------------------------------------------------
(* Events *)

States == {"Ready", "Connecting", "Error", "Disconnected"}
Statuses == {"connected", "link_down", "disconnected"}
Reasons == {"", "bound", "mark", "user", "link down", "lost", "idle timeout"}

\* NodeStateEvent.  A status event is about a connection and carries the millisecond
\* instead of a generation.
Event(kind, about, gen, value, reason) ==
    [kind |-> kind, about |-> about, gen |-> gen, value |-> value, reason |-> reason]

Events == [kind : {"status", "state", "sftp", "terminal", "shared"}, about : Nodes \union Conns,
           gen : Nat, value : States \union Statuses \union {"true", "false"}, reason : Reasons]

ASSUME NoneIsNoEvent == None \notin Events

\* node_event_coalesce_key
Key(e) == <<e.about, e.kind>>

Keys == (Conns \X {"status"}) \union (Nodes \X {"state", "sftp", "terminal", "shared"})

\* node_event_requires_reliable_delivery
Reliable(e) ==
    \/ e.kind = "status" /\ e.value \in {"link_down", "disconnected"}
    \/ e.kind = "state" /\ e.value \in {"Error", "Disconnected"}
    \/ e.kind = "shared"

Level(e) == ~Reliable(e)

-----------------------------------------------------------------------------
(* Steps of an operation *)

Step(op, node, conn, kind, value, reason) ==
    [op |-> op, node |-> node, conn |-> conn, kind |-> kind, value |-> value,
     reason |-> reason, event |-> None]

\* runtime store: the node's entry changes and an event comes of it, to be dispatched
Publish(n, kind, value, reason) == Step("publish", n, None, kind, value, reason)
\* emitter.emit_*: the event of whatever node owns the connection
Emit(c, kind, value, reason) == Step("emit", None, c, kind, value, reason)
\* emitter.emit_connection_status_changed
Status(c, value) == Step("status", None, c, "status", value, "")
BindRuntime(n, c) == Step("bind", n, c, "", "", "")
DetachRuntime(n) == Step("detach", n, None, "", "", "")
RegisterConn(n, c) == Step("register", n, c, "", "", "")
UnregisterConn(c) == Step("unregister", None, c, "", "", "")

\* A fresh tree, or a node and its connection after a bind_connection whose event the
\* consumer has read.
Init ==
    /\ calls = 0
    /\ todo = [t \in Threads |-> <<>>]
    /\ \/ /\ bound = [n \in Nodes |-> None]
          /\ generation = [n \in Nodes |-> 0]
          /\ owner = [c \in Conns |-> None]
       \/ \E n \in Nodes, c \in Conns :
             /\ bound = [m \in Nodes |-> IF m = n THEN c ELSE None]
             /\ generation = [m \in Nodes |-> IF m = n THEN 1 ELSE 0]
             /\ owner = [d \in Conns |-> IF d = c THEN n ELSE None]
    /\ sequence = generation
    /\ queue = <<>>
    /\ holder = None
    /\ subscribed = TRUE
    /\ receiver = "asleep"
    /\ woken = FALSE
    /\ unread = <<>>
    /\ latest = [k \in Keys |-> None]
    /\ evicted = {}

mailbox == <<queue, holder, subscribed, receiver, woken, unread, latest, evicted>>

-----------------------------------------------------------------------------
(* Operations *)

\* A thread outside an operation may begin one.
MayStart(t) == todo[t] = <<>> /\ calls < MaxCalls

Start(t, steps) ==
    /\ calls' = calls + 1
    /\ todo' = [todo EXCEPT ![t] = steps]
    /\ UNCHANGED <<bound, generation, sequence, owner, mailbox>>

\* NodeRouter::bind_connection
BindConnection(t, n, c) ==
    \E s \in Marks :
        Start(t, <<BindRuntime(n, c), RegisterConn(n, c), Emit(c, "state", s, "bound")>>)

\* NodeRouter::disconnect_node_runtime; the emitter keeps the connection's node.
DisconnectNodeRuntime(t, n) ==
    Start(t, <<Publish(n, "sftp", "false", ""), Publish(n, "state", "Disconnected", "user")>>)

\* NodeRouter::prepare_node_connection_attempt reads the node's connection first, then
\* detaches it; it publishes nothing.
PrepareConnectionAttempt(t, n) ==
    Start(t, <<DetachRuntime(n)>> \o (IF bound[n] = None THEN <<>> ELSE <<UnregisterConn(bound[n])>>))

\* NodeRouter::bind_terminal_endpoint
BindTerminalEndpoint(t, n) == Start(t, <<Publish(n, "terminal", "true", "")>>)

\* NodeRouter::mark_sftp_ready_from_listing
MarkSftpReadyFromListing(t, n) == Start(t, <<Publish(n, "sftp", "true", "")>>)

\* NodeRouter::acquire_sftp that created the session.
AcquireSftp(t, n) ==
    Start(t, <<Publish(n, "sftp", "true", ""), Publish(n, "shared", "true", "")>>)

\* NodeRouter::invalidate_and_reacquire_sftp: a session that was there is revoked, and
\* the new one announced unless its rebuild fails.
InvalidateSftp(t, n) ==
    LET revoked == <<Publish(n, "sftp", "false", ""), Publish(n, "shared", "false", "")>>
        rebuilt == <<Publish(n, "sftp", "true", ""), Publish(n, "shared", "true", "")>>
    IN  \E first \in {revoked, <<>>}, second \in {rebuilt, <<>>} : Start(t, first \o second)

\* SshConnectionRegistry::mark_state and start_idle_timer_for_entry
MarkState(t, c) == \E s \in Marks : Start(t, <<Emit(c, "state", s, "mark")>>)

\* mark_transport_lost_cascade: mark_link_down_cascade announces the outage, or finds
\* it announced or the connection down already; the last event comes in any case.
TransportLost(t, c) ==
    LET announced == <<Status(c, "link_down"), Emit(c, "state", "Error", "link down")>>
    IN  \E first \in {announced, <<>>} :
           Start(t, first \o <<Emit(c, "state", "Error", "lost")>>)

\* A probe that finds a LinkDown connection alive.
ProbeRecovers(t, c) == Start(t, <<Status(c, "connected")>>)

\* disconnect_idle_timed_out_cascade of a connection without children.
IdleTimeout(t, c) ==
    Start(t, <<Status(c, "disconnected"), Emit(c, "sftp", "false", ""),
               Emit(c, "state", "Disconnected", "idle timeout"), UnregisterConn(c)>>)

-----------------------------------------------------------------------------
(* Steps *)

\* The thread's next step is op; it goes on with the rest.
Take(t, op) == todo[t] # <<>> /\ Head(todo[t]).op = op

Rest(t) == todo' = [todo EXCEPT ![t] = Tail(@)]

\* The step turns into the dispatch of an event.
Then(t, event) ==
    todo' = [todo EXCEPT ![t] =
               <<[Head(@) EXCEPT !.op = "dispatch", !.event = event]>> \o Tail(@)]

\* NodeRuntimeStore::bind_connection
BindStep(t) ==
    /\ Take(t, "bind")
    /\ bound' = [bound EXCEPT ![Head(todo[t]).node] = Head(todo[t]).conn]
    /\ generation' = [generation EXCEPT ![Head(todo[t]).node] = @ + 1]
    /\ Rest(t)
    /\ UNCHANGED <<calls, sequence, owner, mailbox>>

\* NodeRuntimeStore::disconnect_node, its event dropped.
DetachStep(t) ==
    /\ Take(t, "detach")
    /\ bound' = [bound EXCEPT ![Head(todo[t]).node] = None]
    /\ generation' = [generation EXCEPT ![Head(todo[t]).node] = @ + 1]
    /\ Rest(t)
    /\ UNCHANGED <<calls, sequence, owner, mailbox>>

\* set_sftp_ready, shared_sftp_session_changed, bind_terminal_endpoint, disconnect_node:
\* the event carries the generation of the runtime entry; disconnect_node also takes
\* the node's connection away.
PublishStep(t) ==
    /\ Take(t, "publish")
    /\ LET step == Head(todo[t])
       IN  /\ generation' = [generation EXCEPT ![step.node] = @ + 1]
           /\ bound' = [bound EXCEPT ![step.node] = IF step.kind = "state" THEN None ELSE @]
           /\ Then(t, Event(step.kind, step.node, generation[step.node] + 1, step.value,
                            step.reason))
    /\ UNCHANGED <<calls, sequence, owner, mailbox>>

\* Faulty EmitStep: an unregistered connection has an event, too.
EmitStepUnowned(t) ==
    /\ Take(t, "emit")
    /\ LET step == Head(todo[t])
           node == owner[step.conn]
       IN  /\ sequence' = [n \in Nodes |-> IF n = node THEN sequence[n] + 1 ELSE sequence[n]]
           /\ Then(t, Event(step.kind, node, IF node = None THEN 0 ELSE sequence[node] + 1,
                            step.value, step.reason))
    /\ UNCHANGED <<calls, bound, generation, owner, mailbox>>

\* emit_connection_state_changed, emit_sftp_ready: the owner is looked up and the
\* sequencer gives a generation; an unregistered connection has no event.
EmitStep(t) ==
    /\ Take(t, "emit")
    /\ LET step == Head(todo[t])
           node == owner[step.conn]
       IN  \/ /\ node = None
              /\ Rest(t)
              /\ UNCHANGED sequence
           \/ /\ node # None
              /\ sequence' = [sequence EXCEPT ![node] = @ + 1]
              /\ Then(t, Event(step.kind, node, sequence[node] + 1, step.value, step.reason))
    /\ UNCHANGED <<calls, bound, generation, owner, mailbox>>

\* Two status events may or may not fall into the same millisecond.
StatusStep(t) ==
    /\ Take(t, "status")
    /\ \E ms \in {0, 1} : Then(t, Event("status", Head(todo[t]).conn, ms, Head(todo[t]).value, ""))
    /\ UNCHANGED <<calls, bound, generation, sequence, owner, mailbox>>

\* NodeEventEmitter::register and unregister
RegisterStep(t) ==
    /\ \/ /\ Take(t, "register")
          /\ owner' = [owner EXCEPT ![Head(todo[t]).conn] = Head(todo[t]).node]
       \/ /\ Take(t, "unregister")
          /\ owner' = [owner EXCEPT ![Head(todo[t]).conn] = None]
    /\ Rest(t)
    /\ UNCHANGED <<calls, bound, generation, sequence, mailbox>>

-----------------------------------------------------------------------------
(* The mailbox *)

\* The first event of a queue that satisfies a test, removed.
Without(q, Test(_)) ==
    IF \E i \in DOMAIN q : Test(q[i]) THEN RemoveAt(q, SelectInSeq(q, Test)) ELSE q

\* Faulty Coalesced: the kind of the event is not compared.
CoalescedKinds(q, e) ==
    IF Reliable(e) THEN q ELSE Without(q, LAMBDA x : Level(x) /\ x.about = e.about)

\* Faulty Coalesced: nothing is replaced.
CoalescedNever(q, e) == q

\* A level event takes the place of the level event of its key.
Coalesced(q, e) ==
    IF Reliable(e) THEN q ELSE Without(q, LAMBDA x : Level(x) /\ Key(x) = Key(e))

\* Faulty Evicted: the oldest event goes, whatever it is.
EvictedOldest(q) == IF Len(q) >= Capacity THEN Tail(q) ELSE q

\* A full queue loses its first level event, if there is one.
Evicted(q) == IF Len(q) >= Capacity THEN Without(q, Level) ELSE q

\* The event evicted from q, if any.
Victim(q) ==
    IF Len(q) >= Capacity /\ \E i \in DOMAIN q : Level(q[i])
    THEN q[SelectInSeq(q, Level)] ELSE None

\* dispatch to the mailbox: an exact duplicate is dropped; else coalesce, evict, push.
Dispatch(t) ==
    /\ Take(t, "dispatch")
    /\ holder = None
    /\ LET e == Head(todo[t]).event
           q == Coalesced(queue, e)
       IN  \/ /\ ~subscribed \/ Contains(queue, e)
              /\ Rest(t)
              /\ latest' = IF subscribed THEN [latest EXCEPT ![Key(e)] = e] ELSE latest
              /\ evicted' = IF subscribed THEN evicted \ {Key(e)} ELSE evicted
              /\ UNCHANGED <<queue, holder, unread>>
           \/ /\ subscribed /\ ~Contains(queue, e)
              /\ queue' = Append(Evicted(q), e)
              /\ holder' = t
              /\ unread' = IF Reliable(e) THEN Append(unread, e) ELSE unread
              /\ latest' = [k \in Keys |-> IF k = Key(e) THEN e
                                          ELSE IF latest[k] = Victim(q) THEN None
                                          ELSE latest[k]]
              /\ evicted' = {k \in Keys \ {Key(e)} :
                               k \in evicted \/ (latest[k] # None /\ latest[k] = Victim(q))}
              /\ todo' = [todo EXCEPT ![t] = <<[Head(@) EXCEPT !.op = "wake"]>> \o Tail(@)]
    /\ UNCHANGED <<calls, bound, generation, sequence, owner, subscribed, receiver, woken>>

\* Faulty Wake: only a reliable event wakes the consumer.
WakeReliable(t) ==
    /\ Take(t, "wake")
    /\ woken' = (woken \/ Reliable(Head(todo[t]).event))
    /\ holder' = None
    /\ Rest(t)
    /\ UNCHANGED <<calls, bound, generation, sequence, owner, queue, subscribed, receiver,
                   unread, latest, evicted>>

\* The callback, after the queue's lock was released.
Wake(t) ==
    /\ Take(t, "wake")
    /\ woken' = TRUE
    /\ holder' = None
    /\ Rest(t)
    /\ UNCHANGED <<calls, bound, generation, sequence, owner, queue, subscribed, receiver,
                   unread, latest, evicted>>

\* NodeEventSubscription::drop
Unsubscribe ==
    /\ subscribed
    /\ holder = None
    /\ subscribed' = FALSE
    /\ UNCHANGED <<calls, todo, bound, generation, sequence, owner, queue, holder, receiver,
                   woken, unread, latest, evicted>>

\* The consumer wakes, as late as it likes ...
ReceiverWakes ==
    /\ receiver = "asleep"
    /\ woken
    /\ woken' = FALSE
    /\ receiver' = "draining"
    /\ UNCHANGED <<calls, todo, bound, generation, sequence, owner, queue, holder, subscribed,
                   unread, latest, evicted>>

\* ... takes one event after the other (try_recv) ...
TryRecv ==
    /\ receiver = "draining"
    /\ queue # <<>>
    /\ queue' = Tail(queue)
    /\ unread' = IF Reliable(Head(queue)) THEN Tail(unread) ELSE unread
    /\ latest' = [k \in Keys |-> IF latest[k] = Head(queue) THEN None ELSE latest[k]]
    /\ UNCHANGED <<calls, todo, bound, generation, sequence, owner, holder, subscribed, receiver,
                   woken, evicted>>

\* ... and sleeps again when there is none left.
TryRecvEmpty ==
    /\ receiver = "draining"
    /\ queue = <<>>
    /\ receiver' = "asleep"
    /\ UNCHANGED <<calls, todo, bound, generation, sequence, owner, queue, holder, subscribed,
                   woken, unread, latest, evicted>>

-----------------------------------------------------------------------------
RouterCall(t) ==
    /\ MayStart(t)
    /\ \E n \in Nodes :
          \/ \E c \in Conns : BindConnection(t, n, c)
          \/ DisconnectNodeRuntime(t, n)
          \/ PrepareConnectionAttempt(t, n)
          \/ BindTerminalEndpoint(t, n)
          \/ MarkSftpReadyFromListing(t, n)
          \/ AcquireSftp(t, n)
          \/ InvalidateSftp(t, n)

RegistryCall(t) ==
    /\ MayStart(t)
    /\ \E c \in Conns :
          \/ MarkState(t, c)
          \/ TransportLost(t, c)
          \/ ProbeRecovers(t, c)
          \/ IdleTimeout(t, c)

Continue(t) ==
    \/ BindStep(t) \/ DetachStep(t) \/ PublishStep(t) \/ EmitStep(t) \/ StatusStep(t)
    \/ RegisterStep(t) \/ Dispatch(t) \/ Wake(t)

Next ==
    \/ \E t \in Threads : RouterCall(t) \/ RegistryCall(t) \/ Continue(t)
    \/ Unsubscribe \/ ReceiverWakes \/ TryRecv \/ TryRecvEmpty

Spec == Init /\ [][Next]_vars

-----------------------------------------------------------------------------
(* Properties *)

\* Types of the variables; the lock is held exactly by a thread about to wake.
TypeOK ==
    /\ calls \in 0..MaxCalls
    /\ bound \in [Nodes -> Conns \union {None}]
    /\ generation \in [Nodes -> Nat]
    /\ sequence \in [Nodes -> Nat]
    /\ owner \in [Conns -> Nodes \union {None}]
    /\ queue \in Seq(Events)
    /\ holder \in Threads \union {None}
    /\ \A t \in Threads : holder = t <=> Take(t, "wake")
    /\ subscribed \in BOOLEAN
    /\ receiver \in {"asleep", "draining"}
    /\ woken \in BOOLEAN

\* How many of the first i events of a queue must not be dropped.
ReliableUpTo(q, i) == Cardinality({j \in DOMAIN q : j <= i /\ Reliable(q[j])})

\* Errors, disconnects and revocations of a session reach the consumer in the order of
\* their dispatch, however full the mailbox is and however late it is read (dispatch,
\* "rather than being silently discarded"): the reliable events of the queue, in order,
\* are those not received yet.  Only an event equal to one still in the queue is left
\* out, as is the second outage of a connection within a millisecond.
ReliableKept ==
    /\ Len(unread) = ReliableUpTo(queue, Len(queue))
    /\ \A i \in DOMAIN queue :
          Reliable(queue[i]) => queue[i] = unread[ReliableUpTo(queue, i)]

\* The mailbox holds at most one level event of a key, and grows past its capacity only
\* by what must not be dropped, with at most one level event among it.
MailboxBounded ==
    /\ \A i, j \in DOMAIN queue :
          Level(queue[i]) /\ Level(queue[j]) /\ Key(queue[i]) = Key(queue[j]) => i = j
    /\ \/ Len(queue) <= Capacity
       \/ \A i, j \in DOMAIN queue : Level(queue[i]) /\ Level(queue[j]) => i = j

\* The last event of a kind dispatched about a node is the last one the consumer hears
\* of that kind: it is in the queue behind all others of the kind, or was received and
\* none of them is left behind it, whatever coalescing and the check for duplicates took
\* out of the queue.  Not so after it was evicted from a full mailbox, and not so for
\* status events, whose millisecond makes a second outage a duplicate of the first.
\* The order is that of the dispatches, which need not be that of the generations.
LatestSurvives ==
    \A k \in Keys : k[2] # "status" =>
        \/ k \in evicted
        \/ /\ latest[k] = None
           /\ \A i \in DOMAIN queue : Key(queue[i]) # k
        \/ \E i \in DOMAIN queue :
              /\ queue[i] = latest[k]
              /\ \A j \in DOMAIN queue : j > i => Key(queue[j]) # k

\* "Move replacements to the back so per-node generations remain ordered across different
\* event kinds in the shared mailbox": of two queued events about a node the later one
\* has no smaller generation.
GenerationsOrdered ==
    \A i, j \in DOMAIN queue :
        i < j /\ queue[i].about = queue[j].about /\ queue[i].about \in Nodes
            => queue[i].gen <= queue[j].gen

\* A consumer that went to sleep over an empty mailbox is woken for whatever comes:
\* its callback was called, or a dispatcher is about to.
NoLostWake == receiver = "asleep" /\ queue # <<>> => woken \/ holder # None

=============================================================================
