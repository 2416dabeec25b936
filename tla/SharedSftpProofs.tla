-------------------------- MODULE SharedSftpProofs --------------------------
(***************************************************************************)
(* Theorems about SharedSftp for any number of clients and clear tasks and *)
(* any bounds.                                                             *)
(***************************************************************************)
EXTENDS SharedSftp, TLAPS

-----------------------------------------------------------------------------
(* Facts about the helper operators *)

\* Waking keeps the table of tasks well typed.
LEMMA WokenType ==
  ASSUME NEW tasks \in [Clients -> Tasks], NEW t
  PROVE  Woken(tasks, t) \in [Clients -> Tasks]
BY DEF Woken, Tasks, TaskStates

\* Waking touches only tasks that wait, so it never disturbs a creator.
LEMMA WokenKeeps ==
  ASSUME NEW tasks \in [Clients -> Tasks], NEW t, NEW c \in Clients,
         tasks[c].pc # "waiting"
  PROVE  Woken(tasks, t)[c] = tasks[c]
BY DEF Woken

\* Waking resumes a task that waits for the ticket.
LEMMA WokenResumes ==
  ASSUME NEW tasks \in [Clients -> Tasks], NEW t, NEW c \in Clients,
         tasks[c].pc = "waiting", tasks[c].ticket = t
  PROVE  Woken(tasks, t)[c].pc = "lookup"
BY DEF Woken, Tasks

\* Emptying the slot leaves an Empty slot and well-typed tasks, keeps every task
\* that does not wait, and resumes those that wait for the marker it removes.
LEMMA EmptyAndNotifyFacts ==
  ASSUME NEW tasks \in [Clients -> Tasks], EmptyAndNotify(tasks)
  PROVE  /\ slot' = EmptySlot
         /\ task' \in [Clients -> Tasks]
         /\ \A c \in Clients : tasks[c].pc # "waiting" => task'[c] = tasks[c]
         /\ \A c \in Clients :
              /\ slot.kind = "Initializing"
              /\ tasks[c].pc = "waiting"
              /\ tasks[c].ticket = slot.ticket
              => task'[c].pc = "lookup"
BY WokenType, WokenKeeps, WokenResumes DEF EmptyAndNotify

\* The constant slots are slots.
LEMMA SlotTypes ==
  /\ EmptySlot \in Slots
  /\ generation \in Nat => \A t \in Nat : InitializingSlot(t) \in Slots
  /\ \A s \in Sessions : ReadySlot(s) \in Slots
BY DEF EmptySlot, InitializingSlot, ReadySlot, Slots, NoSession, Sessions

\* Replacing one task by a task keeps the table well typed.
LEMMA TaskUpdate ==
  ASSUME task \in [Clients -> Tasks], NEW c \in Clients, NEW t \in Tasks
  PROVE  /\ [task EXCEPT ![c] = t] \in [Clients -> Tasks]
         /\ [task EXCEPT ![c] = t][c] = t
         /\ \A d \in Clients : d # c => [task EXCEPT ![c] = t][d] = task[d]
OBVIOUS

\* The tasks an operation leaves behind are tasks.
LEMMA TaskValues ==
  /\ IdleTask \in Tasks
  /\ \A pc \in TaskStates, t \in Nat, p \in Nat : At(pc, t, p) \in Tasks
BY DEF IdleTask, At, Tasks, TaskStates
-----------------------------------------------------------------------------
(* Type correctness *)

\* The initial state is well typed.
LEMMA InitTypeOK == Init => TypeOK
BY SlotTypes, TaskValues DEF Init, TypeOK

\* Every step of the specification keeps the types.
LEMMA NextTypeOK == TypeOK /\ [Next]_vars => TypeOK'
<1> SUFFICES ASSUME TypeOK, [Next]_vars PROVE TypeOK'
  OBVIOUS
<1> USE DEF TypeOK
<1>1. ASSUME NEW c \in Clients, AcquireSftp(c) PROVE TypeOK'
  BY <1>1 DEF AcquireSftp, Tasks, TaskStates
<1>2. ASSUME NEW c \in Clients, LookupReady(c) PROVE TypeOK'
  BY <1>2, TaskValues DEF LookupReady, Grant, Grants, Slots
<1>3. ASSUME NEW c \in Clients, LookupInitializing(c) PROVE TypeOK'
  <2>1. At("cloned", slot.ticket, 0) \in Tasks
    BY TaskValues DEF TaskStates, Slots
  <2>2. QED
    BY <1>3, <2>1 DEF LookupInitializing
<1>4. ASSUME NEW c \in Clients, LookupEmpty(c) PROVE TypeOK'
  <2>1. slot' \in Slots /\ tickets' \in Nat
    BY <1>4, SlotTypes DEF LookupEmpty
  <2>2. At("open", tickets + 1, 0) \in Tasks
    BY TaskValues DEF TaskStates
  <2>3. task' \in [Clients -> Tasks]
    BY <1>4, <2>2 DEF LookupEmpty
  <2>4. QED
    BY <1>4, <2>1, <2>3 DEF LookupEmpty
<1>5. ASSUME NEW c \in Clients, RegisterWaiter(c) PROVE TypeOK'
  BY <1>5 DEF RegisterWaiter, Tasks, TaskStates
<1>6. ASSUME NEW c \in Clients, OpenChannel(c) PROVE TypeOK'
  <2>1. At(IF physical = 0 THEN "failed" ELSE "handshake", task[c].ticket, physical)
           \in Tasks
    <3>1. task[c].ticket \in Nat
      BY DEF Tasks
    <3>2. QED
      BY <3>1, TaskValues DEF TaskStates
  <2>2. QED
    BY <1>6, <2>1 DEF OpenChannel
<1>7. ASSUME NEW c \in Clients, HandshakeFails(c) PROVE TypeOK'
  BY <1>7 DEF HandshakeFails, Tasks, TaskStates, Creating
<1>8. ASSUME NEW c \in Clients, PublishSession(c) PROVE TypeOK'
  <2> DEFINE s == [ticket |-> task[c].ticket, transport |-> task[c].transport]
  <2>1. s \in Sessions
    BY DEF Sessions, Tasks
  <2>2. slot' \in Slots
    BY <1>8, <2>1, SlotTypes DEF PublishSession
  <2>3. grants' \in SUBSET Grants
    BY <1>8, <2>1 DEF PublishSession, Grant, Grants, Slots
  <2>4. task' \in [Clients -> Tasks]
    <3>1. PICK next \in {IdleTask, At("announce", 0, 0)} :
                 task' = Woken([task EXCEPT ![c] = next], slot.ticket)
      BY <1>8 DEF PublishSession
    <3>2. next \in Tasks
      BY TaskValues DEF TaskStates
    <3>3. [task EXCEPT ![c] = next] \in [Clients -> Tasks]
      BY <3>2
    <3>4. QED
      BY <3>1, <3>3, WokenType
  <2>5. QED
    BY <1>8, <2>2, <2>3, <2>4 DEF PublishSession
<1>9. ASSUME NEW c \in Clients, AdoptReady(c) PROVE TypeOK'
  BY <1>9, TaskValues DEF AdoptReady, Grant, Grants, Slots
<1>10. ASSUME NEW c \in Clients, RetryAcquire(c) PROVE TypeOK'
  <2> DEFINE tasks == [task EXCEPT ![c] = At("lookup", 0, 0)]
  <2>0. At("lookup", 0, 0) \in Tasks
    BY TaskValues DEF TaskStates
  <2>1. tasks \in [Clients -> Tasks] /\ EmptyAndNotify(tasks)
    BY <1>10, <2>0 DEF RetryAcquire
  <2>2. slot' \in Slots /\ task' \in [Clients -> Tasks]
    <3> HIDE DEF tasks
    <3> QED BY <2>1, EmptyAndNotifyFacts, SlotTypes
  <2>3. QED
    BY <1>10, <2>2 DEF RetryAcquire
<1>11. ASSUME NEW c \in Clients, FailAcquire(c) PROVE TypeOK'
  <2> DEFINE tasks == [task EXCEPT ![c] = IdleTask]
  <2>1. tasks \in [Clients -> Tasks]
    BY TaskValues
  <2>2. CASE slot.kind = "Initializing"
    <3>1. EmptyAndNotify(tasks)
      BY <1>11, <2>2 DEF FailAcquire
    <3>2. slot' \in Slots /\ task' \in [Clients -> Tasks]
      <4> HIDE DEF tasks
      <4> QED BY <2>1, <3>1, EmptyAndNotifyFacts, SlotTypes
    <3>3. QED
      BY <1>11, <3>2 DEF FailAcquire
  <2>3. CASE slot.kind # "Initializing"
    BY <1>11, <2>1, <2>3 DEF FailAcquire
  <2>4. QED
    BY <2>2, <2>3
<1>12. ASSUME NEW c \in Clients, MarkSftpSession(c) PROVE TypeOK'
  BY <1>12, TaskValues DEF MarkSftpSession
<1>13. ASSUME NEW c \in Clients, AcquireExisting(c) PROVE TypeOK'
  BY <1>13 DEF AcquireExisting, Grant, Grants, Slots
<1>14. ASSUME NEW k \in ClearTasks, ClearTransport(k) PROVE TypeOK'
  BY <1>14 DEF ClearTransport
<1>15. ASSUME NEW k \in ClearTasks, BumpGeneration(k) PROVE TypeOK'
  BY <1>15 DEF BumpGeneration
<1>16. ASSUME NEW k \in ClearTasks, ClearSlot(k) PROVE TypeOK'
  <2>1. slot' \in Slots /\ task' \in [Clients -> Tasks]
    BY <1>16, EmptyAndNotifyFacts, SlotTypes DEF ClearSlot
  <2>2. lost' \in SUBSET Nat
    BY <1>16 DEF ClearSlot
  <2>3. QED
    BY <1>16, <2>1, <2>2 DEF ClearSlot
<1>17. CASE InvalidateSftp
  BY <1>17, EmptyAndNotifyFacts, SlotTypes DEF InvalidateSftp
<1>18. CASE ClearSftp
  BY <1>18, EmptyAndNotifyFacts, SlotTypes DEF ClearSftp
<1>19. CASE SetPhysical
  BY <1>19 DEF SetPhysical
<1>20. CASE UNCHANGED vars
  BY <1>20 DEF vars
<1>21. QED
  BY <1>1, <1>2, <1>3, <1>4, <1>5, <1>6, <1>7, <1>8, <1>9, <1>10, <1>11, <1>12,
     <1>13, <1>14, <1>15, <1>16, <1>17, <1>18, <1>19, <1>20
     DEF Next, ClientStep, ClearStep

\* Every reachable state of the shared SFTP slot is well typed.
THEOREM TypeCorrect == Spec => []TypeOK
BY InitTypeOK, NextTypeOK, PTL DEF Spec

-----------------------------------------------------------------------------
(* An Initializing marker always has a live creator *)

\* Every step keeps a creator for the marker in the slot: a creator leaves only
\* through a section that also takes the marker away.
LEMMA NextMarkerHasCreator ==
  TypeOK /\ MarkerHasCreator /\ [Next]_vars => MarkerHasCreator'
<1> SUFFICES ASSUME TypeOK, MarkerHasCreator, [Next]_vars,
                    slot'.kind = "Initializing"
             PROVE  \E d \in Clients : /\ task'[d].pc \in Creating
                                       /\ task'[d].ticket = slot'.ticket
  BY DEF MarkerHasCreator
<1>e. EmptySlot.kind # "Initializing"
  BY DEF EmptySlot
<1>n. "waiting" \notin Creating /\ "lookup" \notin Creating /\ "idle" \notin Creating
  BY DEF Creating
\* A step that keeps the marker and every creator keeps the property.
<1>k. ASSUME UNCHANGED slot,
             \A d \in Clients : task[d].pc \in Creating =>
                /\ task'[d].pc \in Creating
                /\ task'[d].ticket = task[d].ticket
      PROVE  \E d \in Clients : /\ task'[d].pc \in Creating
                                /\ task'[d].ticket = slot'.ticket
  BY <1>k DEF MarkerHasCreator
<1> USE DEF TypeOK
<1>1. ASSUME NEW c \in Clients, LookupEmpty(c)
      PROVE  \E d \in Clients : /\ task'[d].pc \in Creating
                                /\ task'[d].ticket = slot'.ticket
  <2>1. task'[c] = At("open", tickets + 1, 0) /\ slot'.ticket = tickets + 1
    BY <1>1 DEF LookupEmpty, InitializingSlot
  <2>2. QED
    BY <2>1 DEF At, Creating
<1>2. ASSUME NEW c \in Clients,
             \/ AcquireSftp(c) \/ LookupReady(c) \/ LookupInitializing(c)
             \/ RegisterWaiter(c) \/ OpenChannel(c) \/ HandshakeFails(c)
             \/ MarkSftpSession(c) \/ AcquireExisting(c)
      PROVE  \E d \in Clients : /\ task'[d].pc \in Creating
                                /\ task'[d].ticket = slot'.ticket
  <2>1. UNCHANGED slot
    BY <1>2 DEF AcquireSftp, LookupReady, LookupInitializing, RegisterWaiter,
                OpenChannel, HandshakeFails, MarkSftpSession, AcquireExisting
  <2>2. ASSUME NEW d \in Clients, task[d].pc \in Creating
        PROVE  task'[d].pc \in Creating /\ task'[d].ticket = task[d].ticket
    <3>1. CASE OpenChannel(c) \/ HandshakeFails(c)
      <4>1. task[c] \in Tasks
        OBVIOUS
      <4>2. CASE OpenChannel(c)
        BY <2>2, <4>1, <4>2 DEF OpenChannel, At, Creating
      <4>3. CASE HandshakeFails(c)
        BY <2>2, <4>1, <4>3 DEF HandshakeFails, Creating, Tasks
      <4>4. QED
        BY <3>1, <4>2, <4>3
    <3>2. CASE AcquireSftp(c) \/ LookupInitializing(c) \/ RegisterWaiter(c)
      BY <2>2, <3>2 DEF AcquireSftp, LookupInitializing, RegisterWaiter, Creating
    <3>3. CASE LookupReady(c) \/ MarkSftpSession(c) \/ AcquireExisting(c)
      BY <2>2, <3>3 DEF LookupReady, MarkSftpSession, AcquireExisting, Creating
    <3>4. QED
      BY <1>2, <3>1, <3>2, <3>3
  <2>3. QED
    BY <1>k, <2>1, <2>2
<1>3. ASSUME NEW c \in Clients, PublishSession(c) PROVE FALSE
  BY <1>3 DEF PublishSession, ReadySlot
<1>4. ASSUME NEW c \in Clients, AdoptReady(c) PROVE FALSE
  BY <1>4 DEF AdoptReady
<1>5. ASSUME NEW c \in Clients, RetryAcquire(c) PROVE FALSE
  BY <1>5, <1>e DEF RetryAcquire, EmptyAndNotify
<1>6. ASSUME NEW c \in Clients, FailAcquire(c) PROVE FALSE
  BY <1>6, <1>e DEF FailAcquire, EmptyAndNotify
<1>7. ASSUME NEW k \in ClearTasks, ClearSlot(k) PROVE FALSE
  BY <1>7, <1>e DEF ClearSlot, EmptyAndNotify
<1>8. ASSUME InvalidateSftp \/ ClearSftp PROVE FALSE
  BY <1>8, <1>e DEF InvalidateSftp, ClearSftp, EmptyAndNotify
<1>9. ASSUME \/ \E k \in ClearTasks : ClearTransport(k) \/ BumpGeneration(k)
             \/ SetPhysical
             \/ UNCHANGED vars
      PROVE  UNCHANGED <<slot, task>>
  BY <1>9 DEF ClearTransport, BumpGeneration, SetPhysical, vars
<1>10. QED
  BY <1>1, <1>2, <1>3, <1>4, <1>5, <1>6, <1>7, <1>8, <1>9, <1>k
     DEF Next, ClientStep, ClearStep

\* For any number of callers and clears, an Initializing marker in the shared slot
\* belongs to a task that is still opening its channel.
THEOREM MarkerAlwaysHasCreator == Spec => []MarkerHasCreator
<1>1. Init => MarkerHasCreator
  BY DEF Init, MarkerHasCreator, EmptySlot
<1>2. QED
  BY <1>1, TypeCorrect, NextMarkerHasCreator, PTL DEF Spec

-----------------------------------------------------------------------------
(* Removing a marker wakes its waiters *)

\* Every step that removes a marker resumes the tasks that wait on it.
LEMMA StepWakesOnRemoval == TypeOK /\ [Next]_vars => WakesOnRemoval
<1> SUFFICES ASSUME TypeOK, [Next]_vars, NEW d \in Clients,
                    task[d].pc = "waiting",
                    slot.kind = "Initializing",
                    task[d].ticket = slot.ticket,
                    ~(slot'.kind = "Initializing" /\ slot'.ticket = slot.ticket)
             PROVE  task'[d].pc = "lookup"
  BY DEF WakesOnRemoval
<1> USE DEF TypeOK
<1>1. ASSUME NEW c \in Clients, PublishSession(c) PROVE task'[d].pc = "lookup"
  <2>1. PICK next \in {IdleTask, At("announce", 0, 0)} :
               task' = Woken([task EXCEPT ![c] = next], slot.ticket)
    BY <1>1 DEF PublishSession
  <2>2. d # c
    BY <1>1 DEF PublishSession
  <2> DEFINE tasks == [task EXCEPT ![c] = next]
  <2>3. next \in Tasks
    BY TaskValues DEF TaskStates
  <2>4. tasks \in [Clients -> Tasks] /\ tasks[d] = task[d]
    BY <2>2, <2>3
  <2>5. task' = Woken(tasks, slot.ticket)
    BY <2>1
  <2>6. QED
    <3> HIDE DEF tasks
    <3> QED BY <2>4, <2>5, WokenResumes
<1>2. ASSUME NEW c \in Clients, RetryAcquire(c) PROVE task'[d].pc = "lookup"
  <2> DEFINE tasks == [task EXCEPT ![c] = At("lookup", 0, 0)]
  <2>1. d # c /\ EmptyAndNotify(tasks)
    BY <1>2 DEF RetryAcquire
  <2>2. At("lookup", 0, 0) \in Tasks
    BY TaskValues DEF TaskStates
  <2>3. tasks \in [Clients -> Tasks] /\ tasks[d] = task[d]
    BY <2>1, <2>2
  <2>4. QED
    <3> HIDE DEF tasks
    <3> QED BY <2>1, <2>3, EmptyAndNotifyFacts
<1>3. ASSUME NEW c \in Clients, FailAcquire(c) PROVE task'[d].pc = "lookup"
  <2> DEFINE tasks == [task EXCEPT ![c] = IdleTask]
  <2>1. d # c /\ EmptyAndNotify(tasks)
    BY <1>3 DEF FailAcquire
  <2>2. tasks \in [Clients -> Tasks] /\ tasks[d] = task[d]
    BY <2>1, TaskValues
  <2>3. QED
    <3> HIDE DEF tasks
    <3> QED BY <2>1, <2>2, EmptyAndNotifyFacts
<1>4. ASSUME \/ \E k \in ClearTasks : ClearSlot(k)
             \/ InvalidateSftp
             \/ ClearSftp
      PROVE  task'[d].pc = "lookup"
  <2>1. EmptyAndNotify(task)
    BY <1>4 DEF ClearSlot, InvalidateSftp, ClearSftp
  <2>2. QED
    BY <2>1, EmptyAndNotifyFacts
<1>5. ASSUME NEW c \in Clients, LookupReady(c) \/ LookupEmpty(c) \/ AdoptReady(c)
      PROVE  FALSE
  BY <1>5 DEF LookupReady, LookupEmpty, AdoptReady
<1>6. ASSUME NEW c \in Clients,
             \/ AcquireSftp(c) \/ LookupInitializing(c) \/ RegisterWaiter(c)
             \/ OpenChannel(c) \/ HandshakeFails(c) \/ MarkSftpSession(c)
             \/ AcquireExisting(c)
      PROVE  FALSE
  BY <1>6 DEF AcquireSftp, LookupInitializing, RegisterWaiter, OpenChannel,
              HandshakeFails, MarkSftpSession, AcquireExisting
<1>7. ASSUME \/ \E k \in ClearTasks : ClearTransport(k) \/ BumpGeneration(k)
             \/ SetPhysical
             \/ UNCHANGED vars
      PROVE  FALSE
  BY <1>7 DEF ClearTransport, BumpGeneration, SetPhysical, vars
<1>8. QED
  BY <1>1, <1>2, <1>3, <1>4, <1>5, <1>6, <1>7 DEF Next, ClientStep, ClearStep

\* In every behaviour, a step that takes a marker out of the slot resumes all tasks
\* already waiting on its Notify.
THEOREM RemovalAlwaysWakes == Spec => MarkerRemovalWakes
<1>1. TypeOK /\ [Next]_vars => [WakesOnRemoval]_vars
  BY StepWakesOnRemoval
<1>2. QED
  BY <1>1, TypeCorrect, PTL DEF Spec, MarkerRemovalWakes

-----------------------------------------------------------------------------
(* A generation names one session as long as it is bumped under the mutex *)

\* A grant of the current generation is a grant of the session in the slot.
CurrentGrantInSlot ==
    \A g \in grants :
        /\ g.generation =< generation
        /\ g.generation = generation => slot.kind = "Ready" /\ slot.session = g.session

GenerationNamesSession ==
    \A a, b \in grants : a.generation = b.generation => a.session = b.session

\* Granting the session in the slot under the current generation keeps both.
LEMMA GrantCurrent ==
  ASSUME TypeOK, CurrentGrantInSlot, GenerationNamesSession,
         NEW s, NEW via, Grant(s, generation, via),
         generation' = generation, slot'.kind = "Ready", slot'.session = s,
         slot.kind = "Ready" => slot.session = s
  PROVE  CurrentGrantInSlot' /\ GenerationNamesSession'
BY DEF TypeOK, Grants, CurrentGrantInSlot, GenerationNamesSession, Grant

\* A step that grants nothing keeps both if it leaves a Ready slot and the
\* generation alone, or moves to a later generation.
LEMMA GrantNothing ==
  ASSUME TypeOK, CurrentGrantInSlot, GenerationNamesSession,
         UNCHANGED grants,
         \/ generation' = generation /\ (slot.kind = "Ready" => slot' = slot)
         \/ generation' = generation + 1
  PROVE  CurrentGrantInSlot' /\ GenerationNamesSession'
BY DEF TypeOK, Grants, CurrentGrantInSlot, GenerationNamesSession

\* Every step but those of clear_physical keeps both.
LEMMA NextGenerationNamesSession ==
  ASSUME ClearTasks = {}
  PROVE  TypeOK /\ CurrentGrantInSlot /\ GenerationNamesSession /\ [Next]_vars
         => CurrentGrantInSlot' /\ GenerationNamesSession'
<1> SUFFICES ASSUME TypeOK, CurrentGrantInSlot, GenerationNamesSession, [Next]_vars
             PROVE  CurrentGrantInSlot' /\ GenerationNamesSession'
  OBVIOUS
<1>1. ASSUME NEW c \in Clients, LookupReady(c) \/ AdoptReady(c) \/ AcquireExisting(c)
      PROVE  CurrentGrantInSlot' /\ GenerationNamesSession'
  BY <1>1, GrantCurrent DEF LookupReady, AdoptReady, AcquireExisting
<1>2. ASSUME NEW c \in Clients, PublishSession(c)
      PROVE  CurrentGrantInSlot' /\ GenerationNamesSession'
  <2> DEFINE s == [ticket |-> task[c].ticket, transport |-> task[c].transport]
  <2>1. /\ Grant(s, generation, "acquire")
        /\ slot' = ReadySlot(s)
        /\ generation' = generation
        /\ slot.kind = "Initializing"
    BY <1>2 DEF PublishSession, MayPublish
  <2>2. slot'.kind = "Ready" /\ slot'.session = s
    BY <2>1 DEF ReadySlot
  <2>3. QED
    <3> HIDE DEF s
    <3> QED BY <2>1, <2>2, GrantCurrent
<1>3. ASSUME NEW c \in Clients,
             \/ AcquireSftp(c) \/ LookupInitializing(c) \/ LookupEmpty(c)
             \/ RegisterWaiter(c) \/ OpenChannel(c) \/ HandshakeFails(c)
             \/ RetryAcquire(c) \/ FailAcquire(c) \/ MarkSftpSession(c)
      PROVE  /\ UNCHANGED <<grants, generation>>
             /\ slot.kind = "Ready" => slot' = slot
  BY <1>3 DEF AcquireSftp, LookupInitializing, LookupEmpty, RegisterWaiter, OpenChannel,
              HandshakeFails, RetryAcquire, FailAcquire, MarkSftpSession
<1>4. ASSUME InvalidateSftp \/ ClearSftp
      PROVE  UNCHANGED grants /\ generation' = generation + 1
  BY <1>4 DEF InvalidateSftp, ClearSftp
<1>5. ASSUME SetPhysical \/ UNCHANGED vars
      PROVE  UNCHANGED <<grants, generation, slot>>
  BY <1>5 DEF SetPhysical, vars
<1>6. QED
  BY <1>1, <1>2, <1>3, <1>4, <1>5, GrantNothing DEF Next, ClientStep

\* As long as the shared session is only ended by invalidate_sftp and clear_sftp,
\* which bump the generation under the mutex, acquire_existing_sftp_generation never
\* returns a substitute.  (With clear_physical, which bumps it before taking the
\* mutex, it does: run sftp_generation.)
THEOREM ExistingNotSubstitutedUnderMutex ==
  ASSUME ClearTasks = {}
  PROVE  Spec => []ExistingNeverSubstituted
<1>1. Init => CurrentGrantInSlot /\ GenerationNamesSession
  BY DEF Init, CurrentGrantInSlot, GenerationNamesSession
<1>2. GenerationNamesSession => ExistingNeverSubstituted
  BY DEF GenerationNamesSession, ExistingNeverSubstituted
<1>3. QED
  BY <1>1, <1>2, TypeCorrect, NextGenerationNamesSession, PTL DEF Spec
=============================================================================
