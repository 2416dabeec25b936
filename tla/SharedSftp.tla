----------------------------- MODULE SharedSftp -----------------------------
(***************************************************************************)
(* The shared SFTP channel of one pooled SSH connection: the fields        *)
(* `physical`, `sftp` and `sftp_generation` of ConnectionEntry and the     *)
(* methods of SshConnectionHandle that use them                            *)
(* (crates/hapcli-ssh/src/connection_registry.rs).                         *)
(*                                                                         *)
(* Many callers (the file-manager thread, the IDE, plugins) share one SFTP *)
(* session per connection.  The first caller that finds the slot Empty     *)
(* installs an Initializing marker, opens the channel without holding the  *)
(* lock and then publishes the session; the others wait on the marker's    *)
(* Notify.  Losing the transport, or invalidating the channel, empties the *)
(* slot and bumps a generation that capability holders compare.            *)
(*                                                                         *)
(* A step is one critical section of the `sftp` mutex, or one access to    *)
(* shared state outside it.  No critical section reads `sftp_generation`   *)
(* more than once, so a section is one step even though clear_physical     *)
(* bumps the generation without holding the mutex.                         *)
(***************************************************************************)
EXTENDS Naturals, FiniteSets

CONSTANTS
    Clients,        \* tasks that call acquire_sftp / acquire_existing_sftp_generation
    ClearTasks,     \* tasks that call clear_physical
    MaxTickets,     \* bound: creations of a session attempted in a behaviour
    MaxTransports,  \* bound: physical transports stored in a behaviour
    MaxGeneration   \* bound: the generation counter

ASSUME SharedSftpAssumption ==
    /\ MaxTickets \in Nat
    /\ MaxTransports \in Nat
    /\ MaxGeneration \in Nat

VARIABLES
    physical,       \* the transport in the entry, 0 for None
    generation,     \* sftp_generation
    slot,           \* SharedSftpState
    sftpState,      \* sftp_state, the projection shown by the pool monitor
    task,           \* program counter and locals of each client
    clearing,       \* program counter and locals of each clear_physical call
    tickets,        \* creations started; a ticket names the Notify and the session
    transports,     \* transports stored so far
    grants,         \* history: what the acquire operations returned
    lost            \* history: transports whose clear_physical has completed

vars == <<physical, generation, slot, sftpState, task, clearing, tickets,
          transports, grants, lost>>

-----------------------------------------------------------------------------
\* A session is named by the ticket of the creation that opened it and knows
\* the transport its channel runs over.
Sessions == [ticket : Nat, transport : Nat]

NoSession == [ticket |-> 0, transport |-> 0]

Slots == [kind : {"Empty", "Initializing", "Ready"}, ticket : Nat,
          generation : Nat, session : Sessions]

EmptySlot == [kind |-> "Empty", ticket |-> 0, generation |-> 0, session |-> NoSession]

InitializingSlot(t) == [kind |-> "Initializing", ticket |-> t,
                        generation |-> generation, session |-> NoSession]

ReadySlot(s) == [kind |-> "Ready", ticket |-> 0, generation |-> 0, session |-> s]

Creating == {"open", "handshake", "failed"}

TaskStates == {"idle", "lookup", "cloned", "waiting", "open", "handshake", "failed",
               "announce"}

Tasks == [pc : TaskStates, ticket : Nat, transport : Nat]

At(pc, t, p) == [pc |-> pc, ticket |-> t, transport |-> p]

IdleTask == At("idle", 0, 0)

Grants == [session : Sessions, generation : Nat, via : {"acquire", "existing"}]

Init ==
    /\ physical = 1
    /\ generation = 0
    /\ slot = EmptySlot
    /\ sftpState = "default"
    /\ task = [c \in Clients |-> IdleTask]
    /\ clearing = [k \in ClearTasks |-> [pc |-> "idle", transport |-> 0]]
    /\ tickets = 0
    /\ transports = 1
    /\ grants = {}
    /\ lost = {}

-----------------------------------------------------------------------------
(* Waking *)

\* notify.notify_waiters() on the marker with ticket t: every task that has
\* already created its Notified future resumes its loop, a task that only holds a
\* clone of the Arc does not.
Woken(tasks, t) ==
    [c \in Clients |->
        IF tasks[c].pc = "waiting" /\ tasks[c].ticket = t
        THEN [tasks[c] EXCEPT !.pc = "lookup"] ELSE tasks[c]]

\* std::mem::replace(slot, Empty) and the notification of an Initializing marker.
EmptyAndNotify(tasks) ==
    /\ slot' = EmptySlot
    /\ task' = IF slot.kind = "Initializing" THEN Woken(tasks, slot.ticket) ELSE tasks

Grant(s, g, via) ==
    grants' = grants \union {[session |-> s, generation |-> g, via |-> via]}

-----------------------------------------------------------------------------
(* acquire_sftp_with_meta *)

AcquireSftp(c) ==
    /\ task[c].pc = "idle"
    /\ task' = [task EXCEPT ![c].pc = "lookup"]
    /\ UNCHANGED <<physical, generation, slot, sftpState, clearing, tickets,
                   transports, grants, lost>>

\* First critical section, Ready branch: the session is returned with whatever
\* generation is current.
LookupReady(c) ==
    /\ task[c].pc = "lookup"
    /\ slot.kind = "Ready"
    /\ Grant(slot.session, generation, "acquire")
    /\ task' = [task EXCEPT ![c] = IdleTask]
    /\ UNCHANGED <<physical, generation, slot, sftpState, clearing, tickets,
                   transports, lost>>

\* First critical section, Initializing branch: only the Arc<Notify> is cloned.
LookupInitializing(c) ==
    /\ task[c].pc = "lookup"
    /\ slot.kind = "Initializing"
    /\ task' = [task EXCEPT ![c] = At("cloned", slot.ticket, 0)]
    /\ UNCHANGED <<physical, generation, slot, sftpState, clearing, tickets,
                   transports, grants, lost>>

\* First critical section, Empty branch: this task becomes a creator.
LookupEmpty(c) ==
    /\ task[c].pc = "lookup"
    /\ slot.kind = "Empty"
    /\ tickets < MaxTickets
    /\ tickets' = tickets + 1
    /\ slot' = InitializingSlot(tickets + 1)
    /\ task' = [task EXCEPT ![c] = At("open", tickets + 1, 0)]
    /\ UNCHANGED <<physical, generation, sftpState, clearing, transports, grants, lost>>

\* notify.notified(), created after the mutex was released.
RegisterWaiter(c) ==
    /\ task[c].pc = "cloned"
    /\ task' = [task EXCEPT ![c].pc = "waiting"]
    /\ UNCHANGED <<physical, generation, slot, sftpState, clearing, tickets,
                   transports, grants, lost>>

\* SftpSession::new reads the physical transport and opens a channel on it; with
\* no transport it fails.
OpenChannel(c) ==
    /\ task[c].pc = "open"
    /\ task' = [task EXCEPT ![c] =
                  At(IF physical = 0 THEN "failed" ELSE "handshake",
                     task[c].ticket, physical)]
    /\ UNCHANGED <<physical, generation, slot, sftpState, clearing, tickets,
                   transports, grants, lost>>

\* The transport dies, is closed, or refuses the subsystem while the channel is
\* being opened.
HandshakeFails(c) ==
    /\ task[c].pc = "handshake"
    /\ task' = [task EXCEPT ![c].pc = "failed"]
    /\ UNCHANGED <<physical, generation, slot, sftpState, clearing, tickets,
                   transports, grants, lost>>

\* The guard of the branch that publishes: the marker found in the slot carries
\* the current generation.
MayPublish == slot.kind = "Initializing" /\ slot.generation = generation

\* Second critical section after a successful open.  A NodeRouter caller goes on
\* to mark the projection ready ("announce"), a direct caller returns.
PublishSession(c) ==
    /\ task[c].pc = "handshake"
    /\ MayPublish
    /\ LET s == [ticket |-> task[c].ticket, transport |-> task[c].transport]
       IN /\ slot' = ReadySlot(s)
          /\ Grant(s, slot.generation, "acquire")
    /\ \E next \in {IdleTask, At("announce", 0, 0)} :
          task' = Woken([task EXCEPT ![c] = next], slot.ticket)
    /\ UNCHANGED <<physical, generation, sftpState, clearing, tickets, transports, lost>>

\* Second critical section, another creator was faster: its session is returned.
AdoptReady(c) ==
    /\ task[c].pc = "handshake"
    /\ slot.kind = "Ready"
    /\ Grant(slot.session, generation, "acquire")
    /\ task' = [task EXCEPT ![c] = IdleTask]
    /\ UNCHANGED <<physical, generation, slot, sftpState, clearing, tickets,
                   transports, lost>>

\* Faulty RetryAcquire: the loop starts again without emptying the slot.
RetryAcquireKeepingMarker(c) ==
    /\ task[c].pc = "handshake"
    /\ slot.kind # "Ready"
    /\ ~MayPublish
    /\ task' = [task EXCEPT ![c] = At("lookup", 0, 0)]
    /\ UNCHANGED <<physical, generation, slot, sftpState, clearing, tickets,
                   transports, grants, lost>>

\* Second critical section, the slot was emptied or its marker is of an older
\* generation: the opened session is dropped and the loop starts again.
RetryAcquire(c) ==
    /\ task[c].pc = "handshake"
    /\ slot.kind # "Ready"
    /\ ~MayPublish
    /\ EmptyAndNotify([task EXCEPT ![c] = At("lookup", 0, 0)])
    /\ UNCHANGED <<physical, generation, sftpState, clearing, tickets,
                   transports, grants, lost>>

\* Faulty FailAcquire: an error leaves the marker in the slot.
FailAcquireKeepingMarker(c) ==
    /\ task[c].pc = "failed"
    /\ task' = [task EXCEPT ![c] = IdleTask]
    /\ UNCHANGED <<physical, generation, slot, sftpState, clearing, tickets,
                   transports, grants, lost>>

\* Second critical section after a failed open: a marker found in the slot is
\* removed, whoever installed it.
FailAcquire(c) ==
    /\ task[c].pc = "failed"
    /\ IF slot.kind = "Initializing"
       THEN EmptyAndNotify([task EXCEPT ![c] = IdleTask])
       ELSE task' = [task EXCEPT ![c] = IdleTask] /\ UNCHANGED slot
    /\ UNCHANGED <<physical, generation, sftpState, clearing, tickets,
                   transports, grants, lost>>

\* NodeRouter::acquire_sftp, after a session was created: mark_sftp_session.
MarkSftpSession(c) ==
    /\ task[c].pc = "announce"
    /\ sftpState' = "ready"
    /\ task' = [task EXCEPT ![c] = IdleTask]
    /\ UNCHANGED <<physical, generation, slot, clearing, tickets, transports,
                   grants, lost>>

\* acquire_existing_sftp_generation, called with the generation of an earlier
\* grant; a caller that gets None changes nothing.
AcquireExisting(c) ==
    /\ task[c].pc = "idle"
    /\ \E g \in grants : g.generation = generation
    /\ slot.kind = "Ready"
    /\ Grant(slot.session, generation, "existing")
    /\ UNCHANGED <<physical, generation, slot, sftpState, task, clearing, tickets,
                   transports, lost>>

-----------------------------------------------------------------------------
(* Operations that end the life of the shared session *)

\* clear_physical: the transport is dropped first ...
ClearTransport(k) ==
    /\ clearing[k].pc = "idle"
    /\ generation < MaxGeneration
    /\ clearing' = [clearing EXCEPT ![k] = [pc |-> "bump", transport |-> physical]]
    /\ physical' = 0
    /\ UNCHANGED <<generation, slot, sftpState, task, tickets, transports, grants, lost>>

\* ... then the generation is bumped, still without the sftp mutex ...
BumpGeneration(k) ==
    /\ clearing[k].pc = "bump"
    /\ clearing' = [clearing EXCEPT ![k].pc = "lock"]
    /\ generation' = generation + 1
    /\ UNCHANGED <<physical, slot, sftpState, task, tickets, transports, grants, lost>>

\* Faulty ClearSlot: the marker is dropped without notify_waiters.
ClearSlotSilently(k) ==
    /\ clearing[k].pc = "lock"
    /\ slot' = EmptySlot
    /\ sftpState' = "default"
    /\ lost' = lost \union ({clearing[k].transport} \ {0})
    /\ clearing' = [clearing EXCEPT ![k] = [pc |-> "idle", transport |-> 0]]
    /\ UNCHANGED <<physical, generation, task, tickets, transports, grants>>

\* ... and the slot is emptied once the mutex is obtained.
ClearSlot(k) ==
    /\ clearing[k].pc = "lock"
    /\ EmptyAndNotify(task)
    /\ sftpState' = "default"
    /\ lost' = lost \union ({clearing[k].transport} \ {0})
    /\ clearing' = [clearing EXCEPT ![k] = [pc |-> "idle", transport |-> 0]]
    /\ UNCHANGED <<physical, generation, tickets, transports, grants>>

\* invalidate_sftp: generation and slot change under the mutex; the projection is
\* reset only when there was something to invalidate.
InvalidateSftp ==
    /\ generation < MaxGeneration
    /\ generation' = generation + 1
    /\ EmptyAndNotify(task)
    /\ sftpState' = IF slot.kind = "Empty" THEN sftpState ELSE "default"
    /\ UNCHANGED <<physical, clearing, tickets, transports, grants, lost>>

\* Faulty ClearSftp: the generation goes back to the one before.
ClearSftpRollingBack ==
    /\ generation < MaxGeneration
    /\ generation' = generation - 1
    /\ EmptyAndNotify(task)
    /\ sftpState' = "default"
    /\ UNCHANGED <<physical, clearing, tickets, transports, grants, lost>>

\* clear_sftp: the same, with an unconditional reset of the projection.
ClearSftp ==
    /\ generation < MaxGeneration
    /\ generation' = generation + 1
    /\ EmptyAndNotify(task)
    /\ sftpState' = "default"
    /\ UNCHANGED <<physical, clearing, tickets, transports, grants, lost>>

\* set_physical: a reconnect stores a new transport.
SetPhysical ==
    /\ transports < MaxTransports
    /\ transports' = transports + 1
    /\ physical' = transports + 1
    /\ UNCHANGED <<generation, slot, sftpState, task, clearing, tickets, grants, lost>>

-----------------------------------------------------------------------------
ClientStep(c) ==
    \/ LookupReady(c) \/ LookupInitializing(c) \/ LookupEmpty(c)
    \/ RegisterWaiter(c) \/ OpenChannel(c) \/ HandshakeFails(c)
    \/ PublishSession(c) \/ AdoptReady(c) \/ RetryAcquire(c)
    \/ FailAcquire(c) \/ MarkSftpSession(c)

ClearStep(k) == BumpGeneration(k) \/ ClearSlot(k)

Next ==
    \/ \E c \in Clients : AcquireSftp(c) \/ ClientStep(c) \/ AcquireExisting(c)
    \/ \E k \in ClearTasks : ClearTransport(k) \/ ClearStep(k)
    \/ InvalidateSftp \/ ClearSftp \/ SetPhysical

Spec == Init /\ [][Next]_vars

\* A task that entered an operation keeps being polled: tokio runs every ready
\* task, and opening a channel ends in a session or an error.  Nobody is obliged
\* to start an operation.
FairSpec ==
    /\ Spec
    /\ \A c \in Clients : WF_vars(ClientStep(c))
    /\ \A k \in ClearTasks : WF_vars(ClearStep(k))

-----------------------------------------------------------------------------
(* Properties *)

\* The entry's SFTP fields and the locals of every task keep their types; the
\* generation, an AtomicU64 only ever incremented, never leaves the naturals.
TypeOK ==
    /\ physical \in Nat
    /\ generation \in Nat
    /\ slot \in Slots
    /\ sftpState \in {"default", "ready"}
    /\ task \in [Clients -> Tasks]
    /\ clearing \in [ClearTasks -> [pc : {"idle", "bump", "lock"}, transport : Nat]]
    /\ tickets \in Nat
    /\ transports \in Nat
    /\ grants \in SUBSET Grants
    /\ lost \in SUBSET Nat

\* An Initializing marker is never orphaned: the task that installed it is still
\* opening its channel and will come back to the slot, whatever clear_physical,
\* invalidate_sftp and other creators did to the slot meanwhile.  Without it every
\* later acquire_sftp_with_meta would wait for a Notify nobody fires.  (A creator is
\* never dropped half-way: no caller puts a timeout on acquire_sftp or aborts it.)
MarkerHasCreator ==
    slot.kind = "Initializing" =>
        \E c \in Clients : task[c].pc \in Creating /\ task[c].ticket = slot.ticket

\* A step that takes a marker out of the slot (publish, failure, retry, clear,
\* invalidate) resumes every task already waiting on that marker's Notify.
WakesOnRemoval ==
    \A c \in Clients :
        /\ task[c].pc = "waiting"
        /\ slot.kind = "Initializing"
        /\ task[c].ticket = slot.ticket
        /\ ~(slot'.kind = "Initializing" /\ slot'.ticket = slot.ticket)
        => task'[c].pc = "lookup"

\* The same, of every step of a behaviour.
MarkerRemovalWakes == [][WakesOnRemoval]_vars

\* acquire_existing_sftp_generation "never creates or substitutes a replacement
\* session": two grants of one generation, one of them obtained through it, name
\* one session.
ExistingNeverSubstituted ==
    \A a, b \in grants :
        a.via = "existing" /\ a.generation = b.generation => a.session = b.session

\* Once clear_physical has returned for a transport that was lost, no shared
\* session that runs over that transport is in the slot for SFTP callers to reuse.
NoSessionOverLostTransport ==
    slot.kind = "Ready" => slot.session.transport \notin lost

\* A task waiting on the marker that is in the slot is resumed eventually: its
\* creator publishes, fails or is pre-empted by a clear, and each of them notifies.
RegisteredWaiterResumes ==
    \A c \in Clients :
        (/\ task[c].pc = "waiting"
         /\ slot.kind = "Initializing"
         /\ task[c].ticket = slot.ticket) ~> (task[c].pc # "waiting")
=============================================================================
