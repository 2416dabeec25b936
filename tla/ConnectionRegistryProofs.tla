---------------------- MODULE ConnectionRegistryProofs ----------------------
(***************************************************************************)
(* Theorems about ConnectionRegistry for any connections, users, threads   *)
(* and monitors.                                                           *)
(***************************************************************************)
EXTENDS ConnectionRegistry, FiniteSetTheorems, SequenceTheorems, TLAPS

-----------------------------------------------------------------------------
(* Facts about calls *)

\* A call to a scheduled step is a queued call.
LEMMA CallType ==
  ASSUME NEW c \in Conns, NEW u \in Consumers
  PROVE  /\ \A do \in Queued : Call(do, c, u) \in QueuedCalls /\ Work(do, c) \in QueuedCalls
         /\ c \in Dedicated => \A do \in TunnelSteps : Call(do, c, u) \in QueuedCalls
         /\ \A do \in {"none", "activate", "decrement"} : Work(do, c) \in Calls
BY DEF Call, Work, QueuedCalls, Calls, Consumers

\* The resting call is a call.
LEMMA NoCallType == NoCall \in Calls /\ NoCall.do = "none"
<1>1. \E c \in Conns : TRUE
  BY ConnectionRegistryAssumption
<1> QED
  BY <1>1 DEF NoCall, Calls, Call, Work, Consumers

\* A call that is not queued, resting, activating or decrementing does not exist.
LEMMA CallFields ==
  ASSUME NEW x \in Calls
  PROVE  /\ x.conn \in Conns
         /\ x.user \in Consumers
         /\ x.do \in TunnelSteps => x.conn \in Dedicated
BY ConnectionRegistryAssumption DEF Calls, QueuedCalls, Queued, TunnelSteps

\* What an actor does next when it schedules queued calls: it is well typed, it is
\* not in the middle of a release, and no other actor is affected.
LEMMA ContinueQueued ==
  ASSUME TypeOK, NEW a \in Actors, NEW s \in Seq(QueuedCalls), Continue(a, s)
  PROVE  /\ call' \in [Actors -> Calls]
         /\ todo' \in [Actors -> Seq(QueuedCalls)]
         /\ call'[a].do # "decrement"
         /\ \A b \in Actors : b # a => call'[b] = call[b]
<1> DEFINE rest == s \o todo[a]
<1>1. rest \in Seq(QueuedCalls)
  BY DEF TypeOK
<1>2. CASE rest = <<>>
  BY <1>2, NoCallType, EmptySeq DEF Continue, TypeOK
<1>3. CASE rest # <<>>
  <2>1. Head(rest) \in QueuedCalls /\ Tail(rest) \in Seq(QueuedCalls)
    BY <1>1, <1>3, HeadTailProperties
  <2>2. Head(rest) \in Calls /\ Head(rest).do # "decrement"
    BY <2>1 DEF Calls, QueuedCalls, Queued, TunnelSteps
  <2> QED
    BY <1>3, <2>1, <2>2 DEF Continue, TypeOK
<1> QED
  BY <1>2, <1>3

\* When it schedules one call, that call is its next step.
LEMMA ContinueOne ==
  ASSUME TypeOK, NEW a \in Actors, NEW x \in Calls, Continue(a, <<x>>)
  PROVE  /\ call' = [call EXCEPT ![a] = x]
         /\ call' \in [Actors -> Calls]
         /\ todo' \in [Actors -> Seq(QueuedCalls)]
<1> DEFINE rest == <<x>> \o todo[a]
<1>1. todo[a] \in Seq(QueuedCalls)
  BY DEF TypeOK
<1>2. rest # <<>> /\ Head(rest) = x /\ Tail(rest) = todo[a]
  BY <1>1
<1> QED
  BY <1>1, <1>2 DEF Continue, TypeOK

\* Any order of a set of connections is a sequence of queued calls.
LEMMA ForEachType ==
  ASSUME NEW S \in SUBSET Conns, NEW do \in Queued, NEW s \in ForEach(S, do)
  PROVE  s \in Seq(QueuedCalls)
<1>1. Cardinality(S) \in Nat
  BY FS_Subset, FS_CardinalityType, ConnectionRegistryAssumption
<1>2. PICK f \in [1 .. Cardinality(S) -> S] :
         s = [i \in 1 .. Cardinality(S) |-> Work(do, f[i])]
  BY DEF ForEach, Orders
<1>3. \A i \in 1 .. Cardinality(S) : Work(do, f[i]) \in QueuedCalls
  BY <1>2, CallType DEF Consumers
<1> QED
  BY <1>1, <1>2, <1>3

\* An actor's step is over when it has scheduled calls that are queued.
Schedules(a) == \E s \in Seq(QueuedCalls) : Continue(a, s)

\* The steps that leave the list of consumers alone.
OtherStep(a) ==
    \/ Activate(a)
    \/ Connect(a) \/ Reuse(a) \/ DialSucceeds(a) \/ DialFails(a)
    \/ OpenTunnel(a) \/ TunnelSucceeds(a) \/ TunnelFails(a)
    \/ Commit(a) \/ MarkChild(a) \/ MarkActive(a) \/ CheckShell(a) \/ ChannelOpens(a)
    \/ ChannelFails(a) \/ CheckUnused(a) \/ KeepIdle(a) \/ BumpIdle(a)
    \/ ReadGeneration(a) \/ WriteIdle(a) \/ CheckTimeout(a) \/ Cascade(a)
    \/ Retire(a) \/ Disconnect(a) \/ DropTransport(a) \/ MarkGone(a)
    \/ Retime(a) \/ LinkDown(a) \/ ClearPhysical(a) \/ ProbeRecovers(a) \/ ProbeFails(a)

\* Each of them, and Push and Decrement, schedules queued calls only.
LEMMA StepSchedules ==
  ASSUME TypeOK, NEW a \in Actors, OtherStep(a) \/ Push(a) \/ Decrement(a)
  PROVE  Schedules(a)
<1> DEFINE c == call[a].conn
           u == call[a].user
<1>a. c \in Conns /\ u \in Consumers /\ (call[a].do \in TunnelSteps => c \in Dedicated)
  BY CallFields DEF TypeOK
<1>q. /\ \A do \in Queued : Call(do, c, u) \in QueuedCalls
      /\ \A do \in Queued : Work(do, c) \in QueuedCalls
      /\ c \in Dedicated => \A do \in TunnelSteps : Call(do, c, u) \in QueuedCalls
  BY <1>a, CallType
<1>p. c \in Dedicated => \A do \in Queued : Call(do, Hop[c], c) \in QueuedCalls
  BY <1>a, CallType, ConnectionRegistryAssumption DEF Consumers
<1>s. \A s \in Seq(QueuedCalls) : Continue(a, s) => Schedules(a)
  BY DEF Schedules
<1>e. <<>> \in Seq(QueuedCalls)
  OBVIOUS
<1>t. \A x, y, z \in QueuedCalls : /\ <<x>> \in Seq(QueuedCalls)
                                   /\ <<x, y>> \in Seq(QueuedCalls)
                                   /\ <<x, y>> \o <<z>> \in Seq(QueuedCalls)
                                   /\ <<x, y, z>> \in Seq(QueuedCalls)
  OBVIOUS
<1> HIDE DEF c, u
<1>1. CASE Push(a)
  BY <1>1, <1>s, <1>e DEF Push, Return
<1>2. CASE Activate(a)
  BY <1>2, <1>s, <1>e DEF Activate, Return
<1>3. CASE Connect(a) \/ Reuse(a)
  BY <1>3, <1>q, <1>s, <1>t DEF Connect, Reuse, Queued, c, u
<1>4. CASE DialSucceeds(a) \/ DialFails(a)
  BY <1>4, <1>q, <1>s, <1>t DEF DialSucceeds, DialFails, Queued, c, u
<1>5. CASE OpenTunnel(a) \/ TunnelSucceeds(a)
  BY <1>5, <1>a, <1>q, <1>s, <1>t DEF OpenTunnel, TunnelSucceeds, TunnelSteps, c, u
<1>6. CASE TunnelFails(a)
  BY <1>6, <1>a, <1>p, <1>q, <1>s, <1>t DEF TunnelFails, GuardsRelease, TunnelSteps, Queued, c, u
<1>7. CASE Commit(a)
  BY <1>7, <1>a, <1>p, <1>q, <1>s, <1>t DEF Commit, GuardsRelease, TunnelSteps, Queued, c, u
<1>8. CASE MarkChild(a)
  BY <1>8, <1>a, <1>p, <1>q, <1>s, <1>t DEF MarkChild, GuardsRelease, TunnelSteps, Queued, c, u
<1>9. CASE MarkActive(a)
  BY <1>9, <1>s, <1>e DEF MarkActive, Return
<1>10. CASE CheckShell(a)
  BY <1>10, <1>q, <1>s, <1>t, <1>e DEF CheckShell, Queued, c, u
<1>11. CASE ChannelOpens(a)
  BY <1>11, <1>q, <1>s, <1>t, <1>e DEF ChannelOpens, Return, Queued, c, u
<1>12. CASE ChannelFails(a)
  BY <1>12, <1>q, <1>s, <1>t, <1>e DEF ChannelFails, Queued, c, u
<1>13. CASE Decrement(a)
  BY <1>13, <1>q, <1>s, <1>t, <1>e DEF Decrement, Queued, c, u
<1>14. CASE CheckUnused(a)
  BY <1>14, <1>q, <1>s, <1>t, <1>e DEF CheckUnused, Return, Queued, c, u
<1>15. CASE KeepIdle(a)
  BY <1>15, <1>s, <1>e DEF KeepIdle, Return
<1>16. CASE BumpIdle(a)
  BY <1>16, <1>q, <1>s, <1>t, <1>e DEF BumpIdle, Queued, c, u
<1>17. CASE ReadGeneration(a)
  BY <1>17, <1>q, <1>s, <1>t, <1>e DEF ReadGeneration, Queued, c, u
<1>26. CASE WriteIdle(a)
  BY <1>26, <1>s, <1>e DEF WriteIdle, Return
<1>27. CASE CheckTimeout(a)
  BY <1>27, <1>q, <1>s, <1>t, <1>e DEF CheckTimeout, Queued, c, u
<1>28. CASE Cascade(a)
  <2>1. PICK calls \in ForEach(Descendants(c), "disconnect") :
           Continue(a, calls \o <<Work("disconnect", c)>>)
    BY <1>28 DEF Cascade, c
  <2>2. calls \in Seq(QueuedCalls)
    BY ForEachType DEF Descendants, Queued, TypeOK
  <2>3. <<Work("disconnect", c)>> \in Seq(QueuedCalls)
    BY <1>q, <1>t DEF Queued
  <2> QED
    BY <2>1, <2>2, <2>3, <1>s, ConcatProperties
<1>29. CASE MarkGone(a)
  BY <1>29, <1>s, <1>e DEF MarkGone, Return
<1>18. CASE Retire(a)
  BY <1>18, <1>p, <1>t, <1>s, <1>e DEF Retire, Return, Queued, TypeOK, c, u
<1>19. CASE Disconnect(a)
  BY <1>19, <1>q, <1>s, <1>t, <1>e DEF Disconnect, Return, Queued, c, u
<1>20. CASE DropTransport(a)
  BY <1>20, <1>s, <1>e DEF DropTransport, Return
<1>21. CASE Retime(a)
  BY <1>21, <1>q, <1>s, <1>t, <1>e DEF Retime, Queued, c, u
<1>22. CASE LinkDown(a)
  BY <1>22, <1>s, <1>e, ForEachType DEF LinkDown, Return, Queued, Descendants, TypeOK, c, u
<1>23. CASE ClearPhysical(a)
  BY <1>23, <1>s, <1>e DEF ClearPhysical, Return
<1>24. CASE ProbeRecovers(a)
  BY <1>24, <1>s, <1>e DEF ProbeRecovers, Return
<1>25. CASE ProbeFails(a)
  BY <1>25, <1>s, <1>e DEF ProbeFails, Return
<1> QED
  BY <1>1, <1>2, <1>3, <1>4, <1>5, <1>6, <1>7, <1>8, <1>9, <1>10, <1>11, <1>12, <1>13, <1>14, <1>15, <1>16, <1>17, <1>18, <1>19, <1>20, <1>21, <1>22, <1>23, <1>24, <1>25, <1>26, <1>27, <1>28, <1>29 DEF OtherStep

\* The calls that threads, monitors and idle tasks start and that leave the list of
\* consumers alone schedule queued calls only.
OtherCall(a) ==
    \/ \E k \in Keys, u \in Users : Acquire(a, k, u)
    \/ \E c \in Conns, u \in Users : Borrow(a, c, u) \/ Release(a, c, u)
    \/ \E c \in Conns : ClearKeepAlive(a, c)
    \/ SetIdleTimeout(a)
    \/ \E c \in Conns : HeartbeatDead(a, c) \/ ProbeSingle(a, c)
    \/ a \in Conns /\ IdleTimeout(a)

\* Each of them, and acquire_dedicated, schedules queued calls only.
LEMMA CallSchedules ==
  ASSUME TypeOK, NEW a \in Actors,
         OtherCall(a) \/ \E c \in Dedicated, u \in Users : AcquireDedicated(a, c, u)
  PROVE  Schedules(a)
<1>s. \A s \in Seq(QueuedCalls) : Continue(a, s) => Schedules(a)
  BY DEF Schedules
<1>e. <<>> \in Seq(QueuedCalls)
  OBVIOUS
<1>t. \A x, y \in QueuedCalls : /\ <<x>> \in Seq(QueuedCalls)
                                /\ <<x, y>> \in Seq(QueuedCalls)
  OBVIOUS
<1>q. \A c \in Conns : \A do \in Queued :
         Work(do, c) \in QueuedCalls /\ \A u \in Users : Call(do, c, u) \in QueuedCalls
  BY CallType DEF Consumers
<1>p. \A c \in Dedicated : \A do \in Queued : Call(do, Hop[c], c) \in QueuedCalls
  BY CallType, ConnectionRegistryAssumption DEF Consumers
<1>r. \A c \in Dedicated : \A u \in Users : Call("tunnel", c, u) \in QueuedCalls
  BY CallType, ConnectionRegistryAssumption DEF Consumers, TunnelSteps
<1>1. ASSUME NEW k \in Keys, NEW u \in Users, Acquire(a, k, u) PROVE Schedules(a)
  BY <1>1, <1>s, <1>t, <1>q DEF Acquire, Queued
<1>2. ASSUME NEW c \in Conns, NEW u \in Users, Borrow(a, c, u) PROVE Schedules(a)
  BY <1>2, <1>s, <1>t, <1>q DEF Borrow, Queued
<1>3. ASSUME NEW c \in Conns, NEW u \in Users, Release(a, c, u) PROVE Schedules(a)
  BY <1>3, <1>s, <1>t, <1>q DEF Release, Queued
<1>4. ASSUME NEW c \in Conns, ClearKeepAlive(a, c) PROVE Schedules(a)
  BY <1>4, <1>s, <1>t, <1>q, <1>e, ConnectionRegistryAssumption DEF ClearKeepAlive, Queued
<1>5. CASE SetIdleTimeout(a)
  BY <1>5, <1>s, ForEachType, ConnectionRegistryAssumption DEF SetIdleTimeout, Queued, TypeOK
<1>6. ASSUME NEW c \in Conns, HeartbeatDead(a, c) PROVE Schedules(a)
  BY <1>6, <1>s, <1>t, <1>q DEF HeartbeatDead, Queued
<1>7. ASSUME NEW c \in Conns, ProbeSingle(a, c) PROVE Schedules(a)
  BY <1>7, <1>s, <1>t, <1>q DEF ProbeSingle, Queued
<1>8. CASE a \in Conns /\ IdleTimeout(a)
  BY <1>8, <1>s, <1>t, <1>q, <1>e DEF IdleTimeout, Queued
<1>9. ASSUME NEW c \in Dedicated, NEW u \in Users, AcquireDedicated(a, c, u)
      PROVE  Schedules(a)
  BY <1>9, <1>s, <1>t, <1>p, <1>q, <1>r, ConnectionRegistryAssumption
  DEF AcquireDedicated, Queued
<1> QED
  BY <1>1, <1>2, <1>3, <1>4, <1>5, <1>6, <1>7, <1>8, <1>9 DEF OtherCall

\* Scheduling queued calls keeps the actors well typed, leaves the actor outside a
\* release and the other actors alone.
LEMMA SchedulesFacts ==
  ASSUME TypeOK, NEW a \in Actors, Schedules(a)
  PROVE  /\ call' \in [Actors -> Calls]
         /\ todo' \in [Actors -> Seq(QueuedCalls)]
         /\ call'[a].do # "decrement"
         /\ \A b \in Actors : b # a => call'[b] = call[b]
BY ContinueQueued DEF Schedules

-----------------------------------------------------------------------------
(* Type correctness *)

\* What the steps write into the timers of an entry is well typed.
LEMMA TimerTypes ==
  /\ NoTimers \in Timers
  /\ \A b \in BOOLEAN : [NoTimers EXCEPT !.missed = b] \in Timers
  /\ \A timer \in Timers : \A n \in Nat : \A S \in SUBSET Actors : \A b \in BOOLEAN :
       /\ [timer EXCEPT !.asleep = n] \in Timers
       /\ [timer EXCEPT !.starting = S] \in Timers
       /\ [timer EXCEPT !.missed = b] \in Timers
       /\ [timer EXCEPT !.asleep = n, !.starting = S] \in Timers
BY DEF NoTimers, Timers

\* The fields of the timers of an entry.
LEMMA TimerParts ==
  ASSUME NEW timer \in Timers
  PROVE  timer.asleep \in Nat /\ timer.starting \in SUBSET Actors /\ timer.missed \in BOOLEAN
BY DEF Timers

\* A task that starts, or wakes up, leaves them well typed.
LEMMA TimerSteps ==
  ASSUME NEW timer \in Timers, NEW a \in Actors
  PROVE  /\ [timer EXCEPT !.asleep = IF a \in timer.starting THEN @ + 1 ELSE @,
                          !.starting = @ \ {a}] \in Timers
         /\ [timer EXCEPT !.starting = @ \union {a}] \in Timers
         /\ timer.asleep > 0 => [timer EXCEPT !.asleep = @ - 1] \in Timers
<1>1. timer.asleep \in Nat /\ timer.starting \in SUBSET Actors
  BY TimerParts
<1>2. /\ timer.starting \ {a} \in SUBSET Actors /\ timer.starting \union {a} \in SUBSET Actors
      /\ timer.asleep + 1 \in Nat /\ (timer.asleep > 0 => timer.asleep - 1 \in Nat)
  BY <1>1
<1>3. \A n \in Nat : \A S \in SUBSET Actors :
        /\ [timer EXCEPT !.asleep = n, !.starting = S] \in Timers
        /\ [timer EXCEPT !.asleep = n] \in Timers /\ [timer EXCEPT !.starting = S] \in Timers
  BY TimerTypes
<1>4. CASE a \in timer.starting
  BY <1>1, <1>2, <1>3, <1>4, Zenon
<1>5. CASE a \notin timer.starting
  BY <1>1, <1>2, <1>3, <1>5, Zenon
<1> QED
  BY <1>4, <1>5

\* The initial state is well typed.
LEMMA InitTypeOK == Init => TypeOK
<1> SUFFICES ASSUME Init PROVE TypeOK
  OBVIOUS
<1>1. timers \in [Conns -> Timers]
  BY TimerTypes DEF Init
<1> QED
  BY <1>1, NoCallType, ConnectionRegistryAssumption DEF Init, TypeOK, States, Actors

\* The part of the type invariant that is not about the actors.
DataOK ==
    /\ used \subseteq Conns
    /\ registered \subseteq used
    /\ state \in [Conns -> States]
    /\ consumers \in [Conns -> SUBSET Consumers]
    /\ refCount \in [Conns -> Nat]
    /\ kept \subseteq Conns
    /\ timers \in [Conns -> Timers]
    /\ physical \in [Conns -> {"none", "open", "closed"}]
    /\ tunnelled \subseteq registered \intersect Dedicated
    /\ lastStatus \in [Conns -> {"none", "link_down", "connected"}]

\* The type invariant is its two parts.
LEMMA TypeParts ==
  /\ TypeOK => DataOK
  /\ DataOK' /\ call' \in [Actors -> Calls] /\ todo' \in [Actors -> Seq(QueuedCalls)]
     => TypeOK'
BY DEF TypeOK, DataOK

\* The steps that leave the consumers alone keep the data well typed, the consumer
\* lists and the counts unchanged, and forget no id.
LEMMA OtherStepData ==
  ASSUME TypeOK, NEW a \in Actors, OtherStep(a)
  PROVE  DataOK' /\ UNCHANGED entryVars /\ used \subseteq used'
<1> USE TypeParts, TimerTypes DEF DataOK, entryVars, poolVars, States
<1>a. call[a].conn \in Conns /\ (call[a].do \in TunnelSteps => call[a].conn \in Dedicated)
  BY CallFields DEF TypeOK
<1>1. CASE Activate(a)
  BY <1>a, <1>1 DEF Activate
<1>2. CASE Connect(a) \/ Reuse(a)
  BY <1>a, <1>2, ZenonT(30) DEF Connect, Reuse
<1>3. CASE DialSucceeds(a) \/ DialFails(a)
  BY <1>a, <1>3 DEF DialSucceeds, DialFails, Mark
<1>4. CASE OpenTunnel(a) \/ TunnelSucceeds(a)
  BY <1>a, <1>4 DEF OpenTunnel, TunnelSucceeds
<1>5. CASE TunnelFails(a)
  BY <1>a, <1>5 DEF TunnelFails, Mark
<1>6. CASE Commit(a)
  BY <1>a, <1>6 DEF Commit, TunnelSteps
<1>7. CASE MarkChild(a)
  BY <1>a, <1>7 DEF MarkChild, Mark
<1>8. CASE MarkActive(a)
  BY <1>a, <1>8 DEF MarkActive, Mark
<1>9. CASE CheckShell(a)
  BY <1>a, <1>9 DEF CheckShell
<1>10. CASE ChannelOpens(a)
  BY <1>a, <1>10 DEF ChannelOpens
<1>11. CASE ChannelFails(a)
  BY <1>a, <1>11 DEF ChannelFails
<1>12. CASE CheckUnused(a)
  BY <1>a, <1>12 DEF CheckUnused
<1>13. CASE KeepIdle(a)
  BY <1>a, <1>13 DEF KeepIdle
<1>14. CASE BumpIdle(a)
  BY <1>a, <1>14 DEF BumpIdle
<1>15. CASE ReadGeneration(a)
  <2> DEFINE c == call[a].conn
  <2>1. timers' = [timers EXCEPT ![c] = [timers[c] EXCEPT !.starting = @ \union {a}]]
    BY <1>a, <1>15 DEF ReadGeneration
  <2>2. [timers[c] EXCEPT !.starting = @ \union {a}] \in Timers
    BY <1>a, TimerSteps
  <2>3. timers' \in [Conns -> Timers]
    BY <1>a, <2>1, <2>2
  <2> QED
    BY <1>15, <2>3 DEF ReadGeneration
<1>24. CASE WriteIdle(a)
  <2> DEFINE c == call[a].conn
             timer == [timers[c] EXCEPT !.asleep = IF a \in timers[c].starting THEN @ + 1 ELSE @,
                                        !.starting = @ \ {a}]
             b == timer.asleep = 0 /\ timer.starting = {}
  <2>1. /\ timers' = [timers EXCEPT ![c] = [timer EXCEPT !.missed = b]]
        /\ state' = [state EXCEPT ![c] = "Idle"]
        /\ UNCHANGED <<poolVars, entryVars, kept, physical, lastStatus>>
    BY <1>24 DEF WriteIdle
  <2>2. timers[c] \in Timers
    BY <1>a
  <2>3. timer \in Timers
    BY <2>2, TimerSteps
  <2>4. b \in BOOLEAN
    OBVIOUS
  <2> HIDE DEF timer, b
  <2>5. [timer EXCEPT !.missed = b] \in Timers
    BY <2>3, <2>4
  <2>6. timers' \in [Conns -> Timers] /\ state' \in [Conns -> States]
    BY <1>a, <2>1, <2>5
  <2> QED
    BY <2>1, <2>6
<1>25. CASE CheckTimeout(a) \/ Cascade(a)
  BY <1>25 DEF CheckTimeout, Cascade
<1>26. CASE MarkGone(a)
  BY <1>a, <1>26 DEF MarkGone, Mark
<1>16. CASE Retire(a)
  BY <1>a, <1>16 DEF Retire
<1>17. CASE Disconnect(a)
  <2>0. timers' = [timers EXCEPT ![call[a].conn] = NoTimers] \/ timers' = timers
    BY <1>17, Zenon DEF Disconnect
  <2>1. timers' \in [Conns -> Timers]
    BY <1>a, <2>0
  <2>2. UNCHANGED <<poolVars, state, entryVars, kept, physical, lastStatus>>
    BY <1>17 DEF Disconnect
  <2> QED
    BY <2>1, <2>2
<1>18. CASE DropTransport(a)
  BY <1>a, <1>18 DEF DropTransport
<1>19. CASE Retime(a)
  BY <1>a, <1>19 DEF Retime
<1>20. CASE LinkDown(a)
  <2> DEFINE root == call[a].conn
             hit == {d \in {root} \union Descendants(root) :
                       d \in registered /\ state[d] \notin {"Disconnected", "Error"}}
  <2>1. hit \subseteq Conns
    OBVIOUS
  <2>2. UNCHANGED <<poolVars, entryVars, kept, timers, physical>>
    BY <1>20 DEF LinkDown
  <2>3. CASE root \in registered
    <3>1. /\ state' = [d \in Conns |-> IF d \in hit THEN "LinkDown" ELSE state[d]]
          /\ \/ lastStatus' = [lastStatus EXCEPT ![root] = "link_down"]
             \/ lastStatus' = lastStatus
      BY <1>20, <2>3 DEF LinkDown
    <3> QED
      BY <1>a, <2>1, <2>2, <3>1, ZenonT(30)
  <2>4. CASE root \notin registered
    <3>1. UNCHANGED <<state, lastStatus>>
      BY <1>20, <2>4 DEF LinkDown
    <3> QED
      BY <2>2, <3>1
  <2> QED
    BY <2>3, <2>4
<1>21. CASE ClearPhysical(a)
  BY <1>a, <1>21 DEF ClearPhysical
<1>22. CASE ProbeRecovers(a)
  BY <1>a, <1>22 DEF ProbeRecovers, Mark
<1>23. CASE ProbeFails(a)
  BY <1>a, <1>23 DEF ProbeFails, Mark
<1> QED
  BY <1>1, <1>2, <1>3, <1>4, <1>5, <1>6, <1>7, <1>8, <1>9, <1>10, <1>11, <1>12, <1>13, <1>14, <1>15, <1>16, <1>17, <1>18, <1>19, <1>20, <1>21, <1>22, <1>23, <1>24, <1>25, <1>26 DEF OtherStep

\* So do the calls that leave the consumers alone.
LEMMA OtherCallData ==
  ASSUME TypeOK, NEW a \in Actors, OtherCall(a)
  PROVE  DataOK' /\ UNCHANGED entryVars /\ used \subseteq used'
<1> USE TypeParts, TimerTypes, ConnectionRegistryAssumption
    DEF DataOK, entryVars, poolVars, States
<1>1. ASSUME NEW k \in Keys, NEW u \in Users, Acquire(a, k, u)
      PROVE  DataOK' /\ UNCHANGED entryVars /\ used \subseteq used'
  <2>1. PICK c \in Conns \ Dedicated :
          /\ \/ UNCHANGED <<used, registered>>
             \/ used' = used \union {c} /\ registered' = registered \union {c}
          /\ timers' = [timers EXCEPT ![c] = NoTimers]
    BY <1>1, Zenon DEF Acquire
  <2>2. timers' \in [Conns -> Timers]
    BY <2>1
  <2>3. UNCHANGED <<state, entryVars, kept, physical, tunnelled, lastStatus>>
    BY <1>1 DEF Acquire
  <2> QED
    BY <2>1, <2>2, <2>3
<1>2. ASSUME NEW c \in Conns, NEW u \in Users, Borrow(a, c, u) \/ Release(a, c, u)
      PROVE  DataOK' /\ UNCHANGED entryVars /\ used \subseteq used'
  BY <1>2 DEF Borrow, Release
<1>3. ASSUME NEW c \in Conns, ClearKeepAlive(a, c)
      PROVE  DataOK' /\ UNCHANGED entryVars /\ used \subseteq used'
  BY <1>3 DEF ClearKeepAlive
<1>4. CASE SetIdleTimeout(a)
  BY <1>4 DEF SetIdleTimeout
<1>5. ASSUME NEW c \in Conns, HeartbeatDead(a, c) \/ ProbeSingle(a, c)
      PROVE  DataOK' /\ UNCHANGED entryVars /\ used \subseteq used'
  BY <1>5 DEF HeartbeatDead, ProbeSingle
<1>6. CASE a \in Conns /\ IdleTimeout(a)
  <2>1. /\ timers' = [timers EXCEPT ![a] = [timers[a] EXCEPT !.asleep = @ - 1]]
        /\ timers[a].asleep > 0
        /\ UNCHANGED <<poolVars, state, entryVars, kept, physical, lastStatus>>
    BY <1>6 DEF IdleTimeout
  <2>2. [timers[a] EXCEPT !.asleep = @ - 1] \in Timers
    BY <1>6, <2>1, TimerSteps
  <2>3. timers' \in [Conns -> Timers]
    BY <1>6, <2>1, <2>2
  <2> QED
    BY <2>1, <2>3
<1> QED
  BY <1>1, <1>2, <1>3, <1>4, <1>5, <1>6 DEF OtherCall

\* The actor of such a step is not in the middle of a release.
LEMMA OtherNotReleasing ==
  ASSUME NEW a \in Actors, OtherStep(a) \/ OtherCall(a) \/ Push(a)
  PROVE  call[a].do # "decrement"
<1>1. CASE OtherStep(a)
  BY <1>1
  DEF OtherStep, Activate, Connect, Reuse, DialSucceeds, DialFails, OpenTunnel,
      TunnelSucceeds, TunnelFails,
      Commit, MarkChild, MarkActive, CheckShell, ChannelOpens, ChannelFails, CheckUnused,
      KeepIdle, BumpIdle, ReadGeneration, WriteIdle, CheckTimeout, Cascade, Retire,
      Disconnect, DropTransport, MarkGone, Retime, LinkDown, ClearPhysical, ProbeRecovers, ProbeFails
<1>2. CASE OtherCall(a)
  BY <1>2
  DEF OtherCall, Acquire, Borrow, Release, ClearKeepAlive, SetIdleTimeout, HeartbeatDead,
      ProbeSingle, IdleTimeout, Resting
<1>3. CASE Push(a)
  BY <1>3 DEF Push
<1> QED
  BY <1>1, <1>2, <1>3

-----------------------------------------------------------------------------
(* The steps that change the consumers *)

\* Consumer lists and sets of actors are finite.
LEMMA FiniteParts ==
  ASSUME TypeOK, NEW c \in Conns
  PROVE  /\ IsFiniteSet(consumers[c]) /\ Cardinality(consumers[c]) \in Nat
         /\ IsFiniteSet(Decrementing(c)) /\ Cardinality(Decrementing(c)) \in Nat
<1>1. IsFiniteSet(Consumers) /\ IsFiniteSet(Actors)
  BY FS_Union, ConnectionRegistryAssumption DEF Consumers, Actors
<1>2. consumers[c] \in SUBSET Consumers /\ Decrementing(c) \in SUBSET Actors
  BY DEF TypeOK, Decrementing
<1> QED
  BY <1>1, <1>2, FS_Subset, FS_CardinalityType

\* Adding a consumer raises the count by as much as the list grows, and touches no
\* other entry.
LEMMA AddConsumerFacts ==
  ASSUME TypeOK, NEW c \in Conns, NEW u \in Consumers, AddConsumer(c, u)
  PROVE  /\ consumers' \in [Conns -> SUBSET Consumers]
         /\ refCount' \in [Conns -> Nat]
         /\ \A d \in Conns : d # c => consumers'[d] = consumers[d] /\ refCount'[d] = refCount[d]
         /\ \E k \in {0, 1} : /\ refCount'[c] = refCount[c] + k
                             /\ Cardinality(consumers'[c]) = Cardinality(consumers[c]) + k
<1>1. /\ consumers' = [consumers EXCEPT ![c] = @ \union {u}]
      /\ refCount' = [refCount EXCEPT ![c] = IF u \in consumers[c] THEN @ ELSE @ + 1]
  BY DEF AddConsumer
<1>2. /\ consumers \in [Conns -> SUBSET Consumers]
      /\ refCount \in [Conns -> Nat]
  BY DEF TypeOK
<1>3. /\ IsFiniteSet(consumers[c])
      /\ Cardinality(consumers[c]) \in Nat
  BY FiniteParts
<1>4. Cardinality(consumers[c] \union {u})
        = IF u \in consumers[c] THEN Cardinality(consumers[c]) ELSE Cardinality(consumers[c]) + 1
  BY <1>3, FS_AddElement
<1>5. consumers'[c] = consumers[c] \union {u}
  BY <1>1, <1>2
<1>6. CASE u \in consumers[c]
  BY <1>1, <1>2, <1>3, <1>4, <1>5, <1>6
<1>7. CASE u \notin consumers[c]
  BY <1>1, <1>2, <1>3, <1>4, <1>5, <1>7
<1> QED
  BY <1>6, <1>7

\* The releases in progress stay the same when the one actor that moves neither
\* enters nor leaves that part of release.
LEMMA ReleasesUnchanged ==
  ASSUME NEW a \in Actors, call[a].do # "decrement", call'[a].do # "decrement",
         \A b \in Actors : b # a => call'[b] = call[b]
  PROVE  \A c \in Conns : Decrementing(c)' = Decrementing(c)
BY DEF Decrementing

\* A release in progress is about an id that was given to an entry, so a new entry
\* starts with no release pending.
ReleasesUsed == \A a \in Actors : call[a].do = "decrement" => call[a].conn \in used

\* The inductive invariant.
CountInv == TypeOK /\ RefCountMatchesConsumers /\ ReleasesUsed

\* A step that leaves consumers, counts and pending releases alone keeps it.
LEMMA CountKept ==
  ASSUME CountInv, NEW a \in Actors, Schedules(a), DataOK', UNCHANGED entryVars,
         used \subseteq used', call[a].do # "decrement"
  PROVE  CountInv'
<1>1. TypeOK'
  BY SchedulesFacts, TypeParts DEF CountInv
<1>2. \A c \in Conns : Decrementing(c)' = Decrementing(c)
  BY SchedulesFacts, ReleasesUnchanged DEF CountInv
<1>3. RefCountMatchesConsumers'
  BY <1>2 DEF CountInv, RefCountMatchesConsumers, entryVars
<1>4. ReleasesUsed'
  BY SchedulesFacts DEF CountInv, ReleasesUsed
<1> QED
  BY <1>1, <1>3, <1>4 DEF CountInv

\* Adding a consumer keeps it.
LEMMA CountAdded ==
  ASSUME CountInv, NEW a \in Actors, NEW c \in Conns, NEW u \in Consumers,
         AddConsumer(c, u), UNCHANGED used,
         \A d \in Conns : Decrementing(d)' = Decrementing(d),
         call'[a].do # "decrement", \A b \in Actors : b # a => call'[b] = call[b]
  PROVE  RefCountMatchesConsumers' /\ ReleasesUsed'
<1>1. PICK k \in {0, 1} : /\ refCount'[c] = refCount[c] + k
                         /\ Cardinality(consumers'[c]) = Cardinality(consumers[c]) + k
  BY AddConsumerFacts DEF CountInv
<1>2. \A d \in Conns : d # c => consumers'[d] = consumers[d] /\ refCount'[d] = refCount[d]
  BY AddConsumerFacts DEF CountInv
<1>3. \A d \in Conns : /\ Cardinality(consumers[d]) \in Nat
                       /\ Cardinality(Decrementing(d)) \in Nat
  BY FiniteParts DEF CountInv
<1>4. \A d \in Conns : refCount[d] = Cardinality(consumers[d]) + Cardinality(Decrementing(d))
  BY DEF CountInv, RefCountMatchesConsumers
<1>5. ASSUME NEW d \in Conns
      PROVE  refCount'[d] = Cardinality(consumers'[d]) + Cardinality(Decrementing(d)')
  <2>1. CASE d = c
    BY <1>1, <1>3, <1>4, <2>1
  <2>2. CASE d # c
    BY <1>2, <1>4, <2>2
  <2> QED
    BY <2>1, <2>2
<1>6. RefCountMatchesConsumers'
  BY <1>5 DEF RefCountMatchesConsumers
<1>7. ReleasesUsed'
  BY DEF CountInv, ReleasesUsed
<1> QED
  BY <1>6, <1>7

\* acquire, second part.
LEMMA PushCount ==
  ASSUME CountInv, NEW a \in Actors, Push(a)
  PROVE  CountInv'
<1> DEFINE c == call[a].conn
           u == call[a].user
<1>1. c \in Conns /\ u \in Consumers
  BY CallFields DEF CountInv, TypeOK
<1>2. Schedules(a)
  BY StepSchedules DEF CountInv
<1>3. AddConsumer(c, u) /\ UNCHANGED <<poolVars, state, kept, timers, physical, lastStatus>>
  BY DEF Push
<1> HIDE DEF c, u
<1>4. TypeOK'
  <2>1. DataOK'
    BY <1>1, <1>3, AddConsumerFacts, TypeParts DEF CountInv, DataOK, poolVars
  <2> QED
    BY <2>1, <1>2, SchedulesFacts, TypeParts DEF CountInv
<1>5. \A d \in Conns : Decrementing(d)' = Decrementing(d)
  BY <1>2, SchedulesFacts, ReleasesUnchanged, OtherNotReleasing DEF CountInv
<1>6. RefCountMatchesConsumers' /\ ReleasesUsed'
  BY <1>1, <1>2, <1>3, <1>5, SchedulesFacts, CountAdded DEF CountInv, poolVars
<1> QED
  BY <1>4, <1>6 DEF CountInv

\* acquire_consumer_for_connection.
LEMMA PushExistingCount ==
  ASSUME CountInv, NEW a \in Actors, PushExisting(a)
  PROVE  CountInv'
<1> DEFINE c == call[a].conn
           u == call[a].user
<1>1. c \in Conns /\ u \in Consumers
  BY CallFields DEF CountInv, TypeOK
<1>2. /\ AddConsumer(c, u)
      /\ timers' = [timers EXCEPT ![c] = NoTimers] \/ timers' = timers
      /\ Continue(a, <<Work("activate", c)>>) \/ Return(a)
      /\ UNCHANGED <<poolVars, state, kept, physical, lastStatus>>
      /\ call[a].do = "pushExisting"
  BY DEF PushExisting
<1> HIDE DEF c, u
<1>3. /\ call' \in [Actors -> Calls]
      /\ todo' \in [Actors -> Seq(QueuedCalls)]
      /\ call'[a].do # "decrement"
      /\ \A b \in Actors : b # a => call'[b] = call[b]
  <2>1. CASE Return(a)
    <3>1. <<>> \in Seq(QueuedCalls)
      OBVIOUS
    <3> QED
      BY <2>1, <3>1, ContinueQueued DEF Return, CountInv
  <2>2. CASE Continue(a, <<Work("activate", c)>>)
    <3>1. Work("activate", c) \in Calls
      BY <1>1, CallType
    <3>2. /\ call' = [call EXCEPT ![a] = Work("activate", c)]
          /\ call' \in [Actors -> Calls]
          /\ todo' \in [Actors -> Seq(QueuedCalls)]
      BY <2>2, <3>1, ContinueOne DEF CountInv
    <3>3. call'[a].do = "activate"
      BY <3>2 DEF CountInv, TypeOK, Call, Work
    <3> QED
      BY <3>2, <3>3 DEF CountInv, TypeOK
  <2> QED
    BY <1>2, <2>1, <2>2
<1>4. TypeOK'
  <2>1. consumers' \in [Conns -> SUBSET Consumers] /\ refCount' \in [Conns -> Nat]
    BY <1>1, <1>2, AddConsumerFacts DEF CountInv
  <2>t. timers \in [Conns -> Timers]
    BY DEF CountInv, TypeOK
  <2>2. timers' \in [Conns -> Timers]
    <3>1. CASE timers' = [timers EXCEPT ![c] = NoTimers]
      BY <1>1, <2>t, <3>1, TimerTypes
    <3>2. CASE timers' = timers
      BY <2>t, <3>2
    <3> QED
      BY <1>2, <3>1, <3>2
  <2>3. DataOK'
    BY <1>2, <2>1, <2>2, TypeParts DEF CountInv, DataOK, poolVars
  <2> QED
    BY <2>3, <1>3, TypeParts
<1>5. \A d \in Conns : Decrementing(d)' = Decrementing(d)
  BY <1>2, <1>3, ReleasesUnchanged
<1>6. RefCountMatchesConsumers' /\ ReleasesUsed'
  BY <1>1, <1>2, <1>3, <1>5, CountAdded DEF poolVars
<1> QED
  BY <1>4, <1>6 DEF CountInv

\* release, the part under the lock: a consumer leaves the list and the releasing
\* actor owes one subtraction.
LEMMA RemoveCount ==
  ASSUME CountInv, NEW a \in Actors, Remove(a)
  PROVE  CountInv'
<1> DEFINE c == call[a].conn
           u == call[a].user
<1>1. c \in Conns /\ u \in Consumers /\ call[a].do = "remove"
  BY CallFields DEF CountInv, TypeOK, Remove
<1>2. UNCHANGED <<poolVars, state, refCount, kept, timers, physical, lastStatus>>
  BY DEF Remove
<1>t. /\ consumers \in [Conns -> SUBSET Consumers]
      /\ call \in [Actors -> Calls]
  BY DEF CountInv, TypeOK
<1>3. CASE c \notin registered
  <2>1. Return(a) /\ UNCHANGED consumers
    BY <1>3 DEF Remove
  <2>2. <<>> \in Seq(QueuedCalls)
    OBVIOUS
  <2>3. Schedules(a)
    BY <2>1, <2>2 DEF Return, Schedules
  <2>4. DataOK' /\ UNCHANGED entryVars /\ used \subseteq used'
    BY <1>2, <2>1, TypeParts DEF CountInv, DataOK, poolVars, entryVars
  <2> QED
    BY <1>1, <2>3, <2>4, CountKept
<1>4. CASE c \in registered
  <2>1. /\ consumers' = [consumers EXCEPT ![c] = @ \ {u}]
        /\ Continue(a, <<Work(IF u \in consumers[c] THEN "decrement" ELSE "unused", c)>>)
    BY <1>4 DEF Remove
  <2> HIDE DEF c, u
  <2> DEFINE next == Work(IF u \in consumers[c] THEN "decrement" ELSE "unused", c)
  <2>2. next \in Calls
    BY <1>1, CallType DEF Queued, Calls
  <2> HIDE DEF next
  <2>3. /\ call' = [call EXCEPT ![a] = next]
        /\ call' \in [Actors -> Calls]
        /\ todo' \in [Actors -> Seq(QueuedCalls)]
    BY <2>1, <2>2, ContinueOne DEF CountInv, next
  <2>4. TypeOK'
    <3>1. consumers' \in [Conns -> SUBSET Consumers]
      BY <2>1, <1>t
    <3>2. DataOK'
      BY <3>1, <1>2, TypeParts DEF CountInv, DataOK, poolVars
    <3> QED
      BY <3>2, <2>3, TypeParts
  <2>5. next.conn = c /\ next.do = IF u \in consumers[c] THEN "decrement" ELSE "unused"
    BY DEF next, Call, Work
  <2>6. ReleasesUsed'
    <3>1. c \in used'
      BY <1>2, <1>4 DEF CountInv, TypeOK, poolVars
    <3>2. ASSUME NEW b \in Actors, call'[b].do = "decrement" PROVE call'[b].conn \in used'
      BY <1>2, <1>t, <2>3, <2>5, <3>1, <3>2 DEF CountInv, ReleasesUsed, poolVars
    <3> QED
      BY <3>2 DEF ReleasesUsed
  <2>7. \A d \in Conns : /\ IsFiniteSet(consumers[d]) /\ Cardinality(consumers[d]) \in Nat
                         /\ IsFiniteSet(Decrementing(d)) /\ Cardinality(Decrementing(d)) \in Nat
    BY FiniteParts DEF CountInv
  <2>8. \A d \in Conns : refCount[d] = Cardinality(consumers[d]) + Cardinality(Decrementing(d))
    BY DEF CountInv, RefCountMatchesConsumers
  <2>9. \A d \in Conns : d # c => Decrementing(d)' = Decrementing(d) /\ consumers'[d] = consumers[d]
    BY <1>1, <1>t, <2>1, <2>3, <2>5 DEF Decrementing, c
  <2>10. consumers'[c] = consumers[c] \ {u}
    BY <1>1, <1>t, <2>1
  <2>11. ASSUME NEW d \in Conns, d = c
         PROVE  refCount'[d] = Cardinality(consumers'[d]) + Cardinality(Decrementing(d)')
    <3>1. CASE u \in consumers[c]
      <4>1. Decrementing(d)' = Decrementing(d) \union {a}
        BY <1>t, <2>3, <2>5, <2>11, <3>1 DEF Decrementing
      <4>2. Cardinality(Decrementing(d) \union {a}) = Cardinality(Decrementing(d)) + 1
        <5>1. IsFiniteSet(Decrementing(d)) /\ a \notin Decrementing(d)
          BY <1>1, <2>7 DEF Decrementing
        <5> HIDE DEF Decrementing
        <5> QED
          BY <5>1, FS_AddElement
      <4>3. Cardinality(consumers[d] \ {u}) = Cardinality(consumers[d]) - 1
        BY <2>7, <2>11, <3>1, FS_RemoveElement
      <4>4. refCount'[d] = Cardinality(consumers[d]) + Cardinality(Decrementing(d))
        BY <1>2, <2>8
      <4>5. consumers'[d] = consumers[d] \ {u}
        BY <2>10, <2>11
      <4>6. /\ Cardinality(consumers'[d]) = Cardinality(consumers[d]) - 1
            /\ Cardinality(Decrementing(d)') = Cardinality(Decrementing(d)) + 1
        BY <4>1, <4>2, <4>3, <4>5
      <4>7. Cardinality(consumers[d]) \in Nat /\ Cardinality(Decrementing(d)) \in Nat
        BY <2>7
      <4> QED
        BY <4>4, <4>6, <4>7
    <3>2. CASE u \notin consumers[c]
      <4>1. Decrementing(d)' = Decrementing(d)
        BY <1>1, <1>t, <2>3, <2>5, <2>11, <3>2 DEF Decrementing
      <4>2. consumers'[d] = consumers[d]
        BY <2>10, <2>11, <3>2
      <4> QED
        BY <1>2, <2>8, <4>1, <4>2
    <3> QED
      BY <3>1, <3>2
  <2>12. RefCountMatchesConsumers'
    <3>1. \A d \in Conns : refCount'[d] = Cardinality(consumers'[d]) + Cardinality(Decrementing(d)')
      BY <1>2, <2>8, <2>9, <2>11
    <3> QED
      BY <3>1 DEF RefCountMatchesConsumers
  <2> QED
    BY <2>4, <2>6, <2>12 DEF CountInv
<1> QED
  BY <1>3, <1>4

\* release, after the lock: the subtraction that was owed never saturates.
LEMMA DecrementCount ==
  ASSUME CountInv, NEW a \in Actors, Decrement(a)
  PROVE  CountInv'
<1> DEFINE c == call[a].conn
<1>1. c \in Conns /\ call[a].do = "decrement"
  BY CallFields DEF CountInv, TypeOK, Decrement
<1>2. /\ refCount' = [refCount EXCEPT ![c] = IF @ = 0 THEN 0 ELSE @ - 1]
      /\ UNCHANGED <<poolVars, state, consumers, kept, timers, physical, lastStatus>>
  BY DEF Decrement
<1>3. Schedules(a)
  BY StepSchedules DEF CountInv
<1>t. refCount \in [Conns -> Nat]
  BY DEF CountInv, TypeOK
<1>4. TypeOK'
  <2>1. refCount' \in [Conns -> Nat]
    BY <1>1, <1>2, <1>t
  <2>2. DataOK'
    BY <1>2, <2>1, TypeParts DEF CountInv, DataOK, poolVars
  <2> QED
    BY <1>3, <2>2, SchedulesFacts, TypeParts DEF CountInv
<1>5. ReleasesUsed'
  BY <1>2, <1>3, SchedulesFacts DEF CountInv, ReleasesUsed, poolVars
<1>6. ASSUME NEW d \in Conns
      PROVE  refCount'[d] = Cardinality(consumers'[d]) + Cardinality(Decrementing(d)')
  <2>1. refCount[d] = Cardinality(consumers[d]) + Cardinality(Decrementing(d))
    BY DEF CountInv, RefCountMatchesConsumers
  <2>2. /\ IsFiniteSet(Decrementing(d)) /\ Cardinality(Decrementing(d)) \in Nat
        /\ Cardinality(consumers[d]) \in Nat
    BY FiniteParts DEF CountInv
  <2>3. consumers'[d] = consumers[d]
    BY <1>2
  <2>4. CASE d = c
    <3>1. a \in Decrementing(d)
      BY <1>1, <2>4 DEF Decrementing
    <3>2. Decrementing(d)' = Decrementing(d) \ {a}
      BY <1>3, SchedulesFacts DEF CountInv, Decrementing
    <3>3. Cardinality(Decrementing(d) \ {a}) = Cardinality(Decrementing(d)) - 1
      BY <2>2, <3>1, FS_RemoveElement
    <3>4. Cardinality(Decrementing(d)) # 0
      BY <2>2, <3>1, FS_EmptySet
    <3>5. refCount'[d] = IF refCount[d] = 0 THEN 0 ELSE refCount[d] - 1
      BY <1>1, <1>2, <1>t, <2>4
    <3>6. Cardinality(Decrementing(d)') = Cardinality(Decrementing(d)) - 1
      BY <3>2, <3>3
    <3> QED
      BY <2>1, <2>2, <2>3, <3>4, <3>5, <3>6
  <2>5. CASE d # c
    <3>1. Decrementing(d)' = Decrementing(d)
      BY <1>3, <2>5, SchedulesFacts DEF CountInv, Decrementing
    <3>2. refCount'[d] = refCount[d]
      BY <1>1, <1>2, <1>t, <2>5
    <3> QED
      BY <2>1, <2>3, <3>1, <3>2
  <2> QED
    BY <2>4, <2>5
<1>7. RefCountMatchesConsumers'
  BY <1>6 DEF RefCountMatchesConsumers
<1> QED
  BY <1>4, <1>5, <1>7 DEF CountInv

\* acquire_dedicated: a new entry starts with one consumer and no release pending.
LEMMA AcquireDedicatedCount ==
  ASSUME CountInv, NEW a \in Actors, NEW c \in Dedicated, NEW u \in Users,
         AcquireDedicated(a, c, u)
  PROVE  CountInv'
<1>1. /\ call[a].do = "none" /\ c \notin used
      /\ used' = used \union {c} /\ registered' = registered \union {c}
      /\ consumers' = [consumers EXCEPT ![c] = {u}]
      /\ refCount' = [refCount EXCEPT ![c] = 1]
      /\ UNCHANGED <<state, kept, timers, physical, tunnelled, lastStatus>>
  BY DEF AcquireDedicated, Resting
<1>2. Schedules(a)
  BY CallSchedules DEF CountInv
<1>3. c \in Conns /\ u \in Consumers
  BY ConnectionRegistryAssumption DEF Consumers
<1>t. consumers \in [Conns -> SUBSET Consumers] /\ refCount \in [Conns -> Nat]
  BY DEF CountInv, TypeOK
<1>4. TypeOK'
  <2>1. consumers' \in [Conns -> SUBSET Consumers] /\ refCount' \in [Conns -> Nat]
    BY <1>1, <1>3, <1>t
  <2>2. DataOK'
    BY <1>1, <1>3, <2>1, TypeParts DEF CountInv, DataOK
  <2> QED
    BY <1>2, <2>2, SchedulesFacts, TypeParts DEF CountInv
<1>5. ReleasesUsed'
  BY <1>1, <1>2, SchedulesFacts DEF CountInv, ReleasesUsed
<1>6. \A d \in Conns : Decrementing(d)' = Decrementing(d)
  BY <1>1, <1>2, SchedulesFacts, ReleasesUnchanged DEF CountInv
<1>7. Decrementing(c) = {}
  BY <1>1 DEF CountInv, ReleasesUsed, Decrementing
<1>8. ASSUME NEW d \in Conns
      PROVE  refCount'[d] = Cardinality(consumers'[d]) + Cardinality(Decrementing(d)')
  <2>1. CASE d = c
    <3>1. refCount'[d] = 1 /\ consumers'[d] = {u}
      BY <1>1, <1>3, <1>t, <2>1
    <3>2. Cardinality({u}) = 1 /\ Cardinality({}) = 0
      BY FS_Singleton, FS_EmptySet
    <3>3. Cardinality(Decrementing(d)') = 0
      BY <1>6, <1>7, <2>1, <3>2
    <3> QED
      BY <3>1, <3>2, <3>3
  <2>2. CASE d # c
    <3>1. refCount'[d] = refCount[d] /\ consumers'[d] = consumers[d]
      BY <1>1, <1>3, <1>t, <2>2
    <3> QED
      BY <1>6, <3>1 DEF CountInv, RefCountMatchesConsumers
  <2> QED
    BY <2>1, <2>2
<1>9. RefCountMatchesConsumers'
  BY <1>8 DEF RefCountMatchesConsumers
<1> QED
  BY <1>4, <1>5, <1>9 DEF CountInv

-----------------------------------------------------------------------------
(* The theorems *)

\* Initially nobody consumes and nobody releases.
LEMMA InitCount == Init => CountInv
<1> SUFFICES ASSUME Init PROVE CountInv
  OBVIOUS
<1>1. TypeOK
  BY InitTypeOK
<1>2. \A a \in Actors : call[a].do = "none"
  BY NoCallType DEF Init
<1>3. \A c \in Conns : Decrementing(c) = {} /\ consumers[c] = {} /\ refCount[c] = 0
  BY <1>2 DEF Init, Decrementing
<1>4. RefCountMatchesConsumers
  BY <1>3, FS_EmptySet DEF RefCountMatchesConsumers
<1> QED
  BY <1>1, <1>2, <1>4 DEF CountInv, ReleasesUsed

\* Every step keeps the inductive invariant.
LEMMA NextCount == CountInv /\ [Next]_vars => CountInv'
<1> SUFFICES ASSUME CountInv, [Next]_vars PROVE CountInv'
  OBVIOUS
<1>1. CASE UNCHANGED vars
  BY <1>1
  DEF CountInv, TypeOK, RefCountMatchesConsumers, ReleasesUsed, Decrementing, vars
<1>2. ASSUME NEW a \in Actors, OtherStep(a) PROVE CountInv'
  BY <1>2, StepSchedules, OtherStepData, OtherNotReleasing, CountKept DEF CountInv
<1>3. ASSUME NEW a \in Actors, OtherCall(a) PROVE CountInv'
  BY <1>3, CallSchedules, OtherCallData, OtherNotReleasing, CountKept DEF CountInv
<1>4. ASSUME NEW a \in Actors, ActorStep(a) PROVE CountInv'
  BY <1>2, <1>4, PushCount, PushExistingCount, RemoveCount, DecrementCount
  DEF ActorStep, OtherStep
<1>5. ASSUME NEW a \in Threads, ThreadCall(a) PROVE CountInv'
  <2>1. a \in Actors
    BY DEF Actors
  <2> QED
    BY <1>3, <1>5, <2>1, AcquireDedicatedCount DEF ThreadCall, OtherCall
<1>6. ASSUME UNCHANGED <<call, todo>>, UNCHANGED entryVars, UNCHANGED used, DataOK'
      PROVE  CountInv'
  <2>1. TypeOK'
    BY <1>6, TypeParts DEF CountInv, TypeOK
  <2>2. RefCountMatchesConsumers'
    BY <1>6 DEF CountInv, RefCountMatchesConsumers, Decrementing, entryVars
  <2>3. ReleasesUsed'
    BY <1>6 DEF CountInv, ReleasesUsed
  <2> QED
    BY <2>1, <2>2, <2>3 DEF CountInv
<1>7. ASSUME NEW a \in Monitors, MonitorCall(a) PROVE CountInv'
  <2>1. a \in Actors
    BY DEF Actors
  <2>2. CASE OtherCall(a)
    BY <1>3, <2>1, <2>2
  <2>3. ASSUME NEW c \in Conns, SetKeepAlive(a, c) PROVE CountInv'
    <3>1. DataOK'
      BY <2>3, TypeParts, TimerTypes, ConnectionRegistryAssumption
      DEF SetKeepAlive, CountInv, DataOK, poolVars, entryVars
    <3> QED
      BY <1>6, <2>3, <3>1 DEF SetKeepAlive, poolVars
  <2> QED
    BY <1>7, <2>2, <2>3 DEF MonitorCall, OtherCall
<1>8. ASSUME NEW c \in Conns, IdleTimeout(c) PROVE CountInv'
  BY <1>3, <1>8 DEF OtherCall, Actors
<1>9. ASSUME NEW c \in Conns, TransportDies(c) PROVE CountInv'
  <2>1. DataOK'
    BY <1>9, TypeParts DEF TransportDies, CountInv, DataOK, poolVars, entryVars
  <2> QED
    BY <1>6, <1>9, <2>1 DEF TransportDies, poolVars
<1> QED
  BY <1>1, <1>4, <1>5, <1>7, <1>8, <1>9 DEF Next

\* In every reachable state the registry is well typed: no step stores a count, a
\* state, a parent link or a scheduled step outside its range.
THEOREM TypeCorrect == Spec => []TypeOK
<1>1. CountInv => TypeOK
  BY DEF CountInv
<1> QED
  BY <1>1, InitCount, NextCount, PTL DEF Spec

\* ref_count always equals the number of consumers plus the releases that have
\* taken their consumer off the list and not yet subtracted: acquire, release and
\* acquire_consumer_for_connection racing in any order never lose or double a count.
THEOREM CountIsExact == Spec => []RefCountMatchesConsumers
<1>1. CountInv => RefCountMatchesConsumers
  BY DEF CountInv
<1> QED
  BY <1>1, InitCount, NextCount, PTL DEF Spec
=============================================================================
