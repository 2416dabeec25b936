------------------------ MODULE ConnectionIdleProofs ------------------------
(***************************************************************************)
(* Theorems about ConnectionRegistry: an entry that nobody uses is not     *)
(* forgotten in the pool.  They rest on what the actors still have to do,  *)
(* so this module first reduces the sequences of calls to sets.            *)
(***************************************************************************)
EXTENDS ConnectionRegistryProofs

-----------------------------------------------------------------------------
(* What an actor still has to do *)

\* The elements of a sequence.
Steps(s) == {s[i] : i \in DOMAIN s}

\* The calls an actor has begun or scheduled.
Pending(a) == {x \in Steps(todo[a]) \union {call[a]} : x.do # "none"}

\* Short sequences.
LEMMA StepsOf ==
  /\ Steps(<<>>) = {}
  /\ \A x : Steps(<<x>>) = {x}
  /\ \A x, y : Steps(<<x, y>>) = {x, y}
  /\ \A x, y, z : Steps(<<x, y>> \o <<z>>) = {x, y, z}
BY DEF Steps

\* The elements of a concatenation.
LEMMA StepsConcat ==
  ASSUME NEW S, NEW s \in Seq(S), NEW t \in Seq(S)
  PROVE  Steps(s \o t) = Steps(s) \union Steps(t)
<1>1. /\ s \o t \in Seq(S) /\ Len(s \o t) = Len(s) + Len(t)
      /\ \A i \in 1 .. Len(s) + Len(t) :
           (s \o t)[i] = IF i <= Len(s) THEN s[i] ELSE t[i - Len(s)]
      /\ Len(s) \in Nat /\ Len(t) \in Nat
      /\ DOMAIN s = 1 .. Len(s) /\ DOMAIN t = 1 .. Len(t)
      /\ DOMAIN (s \o t) = 1 .. Len(s) + Len(t)
  OBVIOUS
<1>2. Steps(s \o t) \subseteq Steps(s) \union Steps(t)
  <2> SUFFICES ASSUME NEW i \in 1 .. Len(s) + Len(t)
               PROVE  (s \o t)[i] \in Steps(s) \union Steps(t)
    BY <1>1 DEF Steps
  <2>1. CASE i <= Len(s)
    BY <1>1, <2>1 DEF Steps
  <2>2. CASE ~(i <= Len(s))
    <3>1. i - Len(s) \in 1 .. Len(t) /\ (s \o t)[i] = t[i - Len(s)]
      BY <1>1, <2>2
    <3> QED
      BY <1>1, <3>1 DEF Steps
  <2> QED
    BY <2>1, <2>2
<1>3. Steps(s) \subseteq Steps(s \o t)
  <2> SUFFICES ASSUME NEW i \in 1 .. Len(s) PROVE s[i] \in Steps(s \o t)
    BY <1>1 DEF Steps
  <2>1. i \in 1 .. Len(s) + Len(t) /\ (s \o t)[i] = s[i]
    BY <1>1
  <2> QED
    BY <1>1, <2>1 DEF Steps
<1>4. Steps(t) \subseteq Steps(s \o t)
  <2> SUFFICES ASSUME NEW i \in 1 .. Len(t) PROVE t[i] \in Steps(s \o t)
    BY <1>1 DEF Steps
  <2>1. i + Len(s) \in 1 .. Len(s) + Len(t) /\ (s \o t)[i + Len(s)] = t[i]
    BY <1>1
  <2> QED
    BY <1>1, <2>1 DEF Steps
<1> QED
  BY <1>2, <1>3, <1>4

\* A sequence is its head and its tail.
LEMMA StepsHeadTail ==
  ASSUME NEW S, NEW s \in Seq(S), s # <<>>
  PROVE  Steps(s) = {Head(s)} \union Steps(Tail(s))
<1>1. /\ Len(s) \in Nat \ {0} /\ DOMAIN s = 1 .. Len(s) /\ Head(s) = s[1]
      /\ Tail(s) \in Seq(S) /\ Len(Tail(s)) = Len(s) - 1
      /\ \A i \in 1 .. Len(s) - 1 : Tail(s)[i] = s[i + 1]
      /\ DOMAIN Tail(s) = 1 .. Len(s) - 1
  OBVIOUS
<1>2. Steps(s) \subseteq {Head(s)} \union Steps(Tail(s))
  <2> SUFFICES ASSUME NEW i \in 1 .. Len(s), i # 1 PROVE s[i] \in Steps(Tail(s))
    BY <1>1 DEF Steps
  <2>1. i - 1 \in 1 .. Len(s) - 1 /\ Tail(s)[i - 1] = s[i]
    BY <1>1
  <2> QED
    BY <1>1, <2>1 DEF Steps
<1>3. Steps(Tail(s)) \subseteq Steps(s)
  <2> SUFFICES ASSUME NEW i \in 1 .. Len(s) - 1 PROVE s[i + 1] \in Steps(s)
    BY <1>1 DEF Steps
  <2>1. i + 1 \in 1 .. Len(s)
    BY <1>1
  <2> QED
    BY <1>1, <2>1 DEF Steps
<1>4. Head(s) \in Steps(s)
  BY <1>1 DEF Steps
<1> QED
  BY <1>2, <1>3, <1>4

\* When an actor's step is over, it has to do what it had scheduled before and what
\* the step scheduled; the other actors are not affected.
LEMMA ContinuePending ==
  ASSUME TypeOK, NEW a \in Actors, NEW s \in Seq(Calls), \A x \in Steps(s) : x.do # "none",
         Continue(a, s)
  PROVE  /\ Pending(a)' = Steps(s) \union Steps(todo[a])
         /\ \A b \in Actors : b # a => /\ Pending(b)' = Pending(b)
                                       /\ call'[b] = call[b] /\ todo'[b] = todo[b]
<1> DEFINE rest == s \o todo[a]
<1>0. call \in [Actors -> Calls] /\ todo \in [Actors -> Seq(QueuedCalls)]
  BY DEF TypeOK
<1>1. todo[a] \in Seq(Calls)
  BY <1>0 DEF Calls
<1>2. rest \in Seq(Calls) /\ Steps(rest) = Steps(s) \union Steps(todo[a])
  BY <1>1, StepsConcat, ConcatProperties
<1>3. \A x \in Steps(todo[a]) : x.do # "none"
  <2>1. \A i \in DOMAIN todo[a] : todo[a][i] \in QueuedCalls
    BY <1>0, ElementOfSeq
  <2>2. \A x \in QueuedCalls : x.do # "none"
    BY DEF QueuedCalls, Queued, TunnelSteps
  <2> QED
    BY <2>1, <2>2 DEF Steps
<1>4. /\ call' = [call EXCEPT ![a] = IF rest = <<>> THEN NoCall ELSE Head(rest)]
      /\ todo' = [todo EXCEPT ![a] = IF rest = <<>> THEN <<>> ELSE Tail(rest)]
  BY DEF Continue
<1>5. \A b \in Actors : b # a => /\ Pending(b)' = Pending(b)
                                 /\ call'[b] = call[b] /\ todo'[b] = todo[b]
  BY <1>0, <1>4 DEF Pending
<1> HIDE DEF rest
<1>6. CASE rest = <<>>
  <2>1. call'[a] = NoCall /\ todo'[a] = <<>>
    BY <1>0, <1>4, <1>6
  <2>2. Pending(a)' = {}
    BY <2>1, StepsOf, NoCallType DEF Pending
  <2>3. Steps(rest) = {}
    BY <1>6, StepsOf
  <2> QED
    BY <1>2, <1>5, <2>2, <2>3
<1>7. CASE rest # <<>>
  <2>1. call'[a] = Head(rest) /\ todo'[a] = Tail(rest)
    BY <1>0, <1>4, <1>7
  <2>2. Steps(rest) = {Head(rest)} \union Steps(Tail(rest))
    BY <1>2, <1>7, StepsHeadTail
  <2>3. \A x \in Steps(rest) : x.do # "none"
    BY <1>2, <1>3
  <2> QED
    BY <1>2, <1>5, <2>1, <2>2, <2>3 DEF Pending
<1> QED
  BY <1>6, <1>7

-----------------------------------------------------------------------------
(* What the steps schedule *)

\* The steps that are taken for a view, on behalf of its consumer.
ViewSteps ==
    {"push", "connect", "reuse", "dial", "shell", "childShell", "channel", "childChannel"}
      \union TunnelSteps

\* The calls most steps schedule: they set up no tunnel, and name a consumer only if it
\* is a user or the one the step was taken for.
Plain(a) ==
    {x \in QueuedCalls :
       /\ x.do \notin TunnelSteps
       /\ x.do \in ViewSteps \union {"remove", "pushExisting"} =>
            x.user \in Users \/ (call[a].do \in ViewSteps /\ x.user = call[a].user)}

\* The steps and the calls that schedule such calls only.
PlainStep(a) ==
    \/ Push(a) \/ Activate(a) \/ Connect(a) \/ Reuse(a) \/ DialSucceeds(a) \/ DialFails(a)
    \/ MarkActive(a) \/ CheckShell(a) \/ ChannelOpens(a) \/ ChannelFails(a)
    \/ Decrement(a) \/ KeepIdle(a) \/ BumpIdle(a) \/ ReadGeneration(a) \/ WriteIdle(a)
    \/ CheckTimeout(a) \/ Cascade(a) \/ DropTransport(a) \/ MarkGone(a)
    \/ Retime(a) \/ LinkDown(a) \/ ClearPhysical(a) \/ ProbeRecovers(a) \/ ProbeFails(a)

PlainCall(a) ==
    \/ \E k \in Keys, u \in Users : Acquire(a, k, u)
    \/ \E c \in Conns, u \in Users : Borrow(a, c, u) \/ Release(a, c, u)
    \/ \E c \in Conns : ClearKeepAlive(a, c)
    \/ SetIdleTimeout(a)
    \/ \E c \in Conns : HeartbeatDead(a, c) \/ ProbeSingle(a, c)
    \/ a \in Conns /\ IdleTimeout(a)

\* The steps that set up a tunnel.
TunnelStep(a) ==
    OpenTunnel(a) \/ TunnelSucceeds(a) \/ TunnelFails(a) \/ Commit(a) \/ MarkChild(a)

\* The fields of a call.
LEMMA CallParts ==
  \A do, c, u : /\ Call(do, c, u).do = do /\ Call(do, c, u).conn = c /\ Call(do, c, u).user = u
                /\ Work(do, c).do = do /\ Work(do, c).conn = c /\ Work(do, c).user = c
BY DEF Call, Work

\* Calls for every connection of a set are calls for its connections.
LEMMA ForEachSteps ==
  ASSUME NEW S \in SUBSET Conns, NEW do, NEW s \in ForEach(S, do)
  PROVE  s \in Seq({Work(do, c) : c \in S})
<1>1. Cardinality(S) \in Nat
  BY FS_Subset, FS_CardinalityType, ConnectionRegistryAssumption
<1>2. PICK f \in [1 .. Cardinality(S) -> S] :
         s = [i \in 1 .. Cardinality(S) |-> Work(do, f[i])]
  BY DEF ForEach, Orders
<1>3. \A i \in 1 .. Cardinality(S) : Work(do, f[i]) \in {Work(do, c) : c \in S}
  BY <1>2
<1> HIDE DEF Work
<1> QED
  BY <1>1, <1>2, <1>3

\* A sequence over a smaller set is one over a larger set.
LEMMA SeqMonotone ==
  ASSUME NEW S, NEW T, S \subseteq T, NEW s \in Seq(S)
  PROVE  s \in Seq(T)
OBVIOUS

\* A plain step schedules plain calls.
LEMMA PlainStepPlans ==
  ASSUME TypeOK, NEW a \in Actors, PlainStep(a)
  PROVE  \E s \in Seq(Plain(a)) : Continue(a, s)
<1> DEFINE c == call[a].conn
           u == call[a].user
           P == Plain(a)
           Plans == \E s \in Seq(P) : Continue(a, s)
<1>a. c \in Conns /\ u \in Consumers
  BY CallFields DEF TypeOK
<1>q. \A do \in Queued : \A d \in Conns : \A v \in Consumers :
         Call(do, d, v) \in QueuedCalls /\ Work(do, d) \in QueuedCalls
  BY CallType
<1>v. ASSUME call[a].do \in ViewSteps,
             NEW do \in {"reuse", "dial", "channel", "childChannel", "remove"}
      PROVE  Call(do, c, u) \in P
  BY <1>a, <1>q, <1>v, CallParts DEF Plain, Queued, TunnelSteps
<1>w. ASSUME NEW d \in Conns,
             NEW do \in {"markActive", "linkDown", "unused", "arm", "bump", "lose", "idle",
                         "cascade", "disconnect"}
      PROVE  Work(do, d) \in P
  <2>1. Work(do, d) \in QueuedCalls
    BY <1>q, <1>a, CallType DEF Queued, Consumers
  <2>2. do \notin TunnelSteps \union ViewSteps \union {"remove", "pushExisting"}
    BY DEF TunnelSteps, ViewSteps
  <2> QED
    BY <2>1, <2>2, CallParts DEF Plain
<1>s. \A s \in Seq(P) : Continue(a, s) => Plans
  OBVIOUS
<1>e. <<>> \in Seq(P)
  OBVIOUS
<1>t. \A x, y \in P : <<x>> \in Seq(P) /\ <<x, y>> \in Seq(P)
  OBVIOUS
<1> SUFFICES Plans
  OBVIOUS
<1> HIDE DEF c, u, P, Plans
<1>1. CASE Push(a) \/ Activate(a) \/ MarkActive(a) \/ KeepIdle(a) \/ WriteIdle(a)
           \/ DropTransport(a) \/ MarkGone(a)
  BY <1>1, <1>s, <1>e
  DEF Push, Activate, MarkActive, KeepIdle, WriteIdle, DropTransport, MarkGone, Return
<1>2. CASE ClearPhysical(a) \/ ProbeRecovers(a) \/ ProbeFails(a)
  BY <1>2, <1>s, <1>e DEF ClearPhysical, ProbeRecovers, ProbeFails, Return
<1>3. CASE Connect(a)
  BY <1>3, <1>v, <1>s, <1>t DEF Connect, ViewSteps, c, u
<1>4. CASE Reuse(a)
  BY <1>4, <1>a, <1>w, <1>s, <1>t DEF Reuse, c, u
<1>5. CASE DialSucceeds(a) \/ DialFails(a)
  BY <1>5, <1>a, <1>v, <1>w, <1>s, <1>t DEF DialSucceeds, DialFails, ViewSteps, c, u
<1>6. CASE CheckShell(a)
  BY <1>6, <1>a, <1>v, <1>w, <1>s, <1>t DEF CheckShell, ViewSteps, c, u
<1>7. CASE ChannelOpens(a)
  BY <1>7, <1>a, <1>w, <1>s, <1>t, <1>e DEF ChannelOpens, Return, c, u
<1>8. CASE ChannelFails(a)
  BY <1>8, <1>a, <1>v, <1>w, <1>s, <1>t DEF ChannelFails, ViewSteps, c, u
<1>9. CASE Decrement(a) \/ BumpIdle(a) \/ ReadGeneration(a)
  BY <1>9, <1>a, <1>w, <1>s, <1>t DEF Decrement, BumpIdle, ReadGeneration, c, u
<1>10. CASE Retime(a)
  BY <1>10, <1>a, <1>w, <1>s, <1>t, <1>e DEF Retime, c, u
<1>11. CASE LinkDown(a)
  <2>1. CASE Return(a)
    BY <2>1, <1>s, <1>e DEF Return
  <2>2. ASSUME NEW S \in SUBSET Conns, NEW s \in ForEach(S, "lose"), Continue(a, s)
        PROVE  Plans
    <3>1. s \in Seq({Work("lose", d) : d \in S})
      BY <2>2, ForEachSteps
    <3>2. {Work("lose", d) : d \in S} \subseteq P
      BY <1>w
    <3>3. s \in Seq(P)
      BY <3>1, <3>2, SeqMonotone
    <3> QED
      BY <2>2, <3>3, <1>s
  <2>3. \/ Return(a)
        \/ \E S \in SUBSET Conns : \E s \in ForEach(S, "lose") : Continue(a, s)
    <3> DEFINE hit == {d \in {c} \union Descendants(c) :
                          d \in registered /\ state[d] \notin {"Disconnected", "Error"}}
    <3>1. hit \in SUBSET Conns
      BY DEF TypeOK
    <3>2. Return(a) \/ \E s \in ForEach(hit, "lose") : Continue(a, s)
      BY <1>11 DEF LinkDown, c
    <3> QED
      BY <3>1, <3>2
  <2> QED
    BY <2>1, <2>2, <2>3
<1>12. CASE CheckTimeout(a)
  BY <1>12, <1>a, <1>w, <1>s, <1>t, <1>e DEF CheckTimeout, c, u
<1>13. CASE Cascade(a)
  <2>1. PICK calls \in ForEach(Descendants(c), "disconnect") :
           Continue(a, calls \o <<Work("disconnect", c)>>)
    BY <1>13 DEF Cascade, c
  <2>2. Descendants(c) \in SUBSET Conns
    BY DEF Descendants, TypeOK
  <2>3. calls \in Seq({Work("disconnect", d) : d \in Descendants(c)})
    BY <2>2, ForEachSteps
  <2>4. {Work("disconnect", d) : d \in Descendants(c)} \subseteq P
    BY <2>2, <1>w
  <2>5. calls \in Seq(P)
    BY <2>3, <2>4, SeqMonotone
  <2>6. <<Work("disconnect", c)>> \in Seq(P)
    BY <1>a, <1>w, <1>t
  <2> QED
    BY <2>1, <2>5, <2>6, <1>s, ConcatProperties
<1> QED
  BY <1>1, <1>2, <1>3, <1>4, <1>5, <1>6, <1>7, <1>8, <1>9, <1>10, <1>11, <1>12, <1>13
  DEF PlainStep

\* So does a plain call.
LEMMA PlainCallPlans ==
  ASSUME TypeOK, NEW a \in Actors, PlainCall(a)
  PROVE  \E s \in Seq(Plain(a)) : Continue(a, s)
<1> DEFINE P == Plain(a)
           Plans == \E s \in Seq(P) : Continue(a, s)
<1>v. ASSUME NEW d \in Conns, NEW u \in Users,
             NEW do \in {"push", "pushExisting", "connect", "shell", "remove"}
      PROVE  Call(do, d, u) \in P
  <2>1. Call(do, d, u) \in QueuedCalls
    <3>1. u \in Consumers /\ do \in Queued
      BY DEF Queued, Consumers
    <3> QED
      BY <3>1, CallType
  <2>2. do \notin TunnelSteps
    BY DEF TunnelSteps
  <2>3. Call(do, d, u).do = do /\ Call(do, d, u).user = u
    BY CallParts
  <2> QED
    BY <2>1, <2>2, <2>3 DEF Plain
<1>w. ASSUME NEW d \in Conns, NEW do \in {"bump", "retime", "linkDown", "probe", "check"}
      PROVE  Work(do, d) \in P
  <2>1. Work(do, d) \in QueuedCalls
    BY CallType DEF Queued, Consumers
  <2>2. do \notin TunnelSteps \union ViewSteps \union {"remove", "pushExisting"}
    BY DEF TunnelSteps, ViewSteps
  <2> QED
    BY <2>1, <2>2, CallParts DEF Plain
<1>s. \A s \in Seq(P) : Continue(a, s) => Plans
  OBVIOUS
<1>e. <<>> \in Seq(P)
  OBVIOUS
<1>t. \A x, y \in P : <<x>> \in Seq(P) /\ <<x, y>> \in Seq(P)
  OBVIOUS
<1> SUFFICES Plans
  OBVIOUS
<1> HIDE DEF P, Plans
<1>1. ASSUME NEW k \in Keys, NEW u \in Users, Acquire(a, k, u) PROVE Plans
  BY <1>1, <1>v, <1>s, <1>t DEF Acquire
<1>2. ASSUME NEW c \in Conns, NEW u \in Users, Borrow(a, c, u) \/ Release(a, c, u) PROVE Plans
  BY <1>2, <1>v, <1>s, <1>t DEF Borrow, Release
<1>3. ASSUME NEW c \in Conns, ClearKeepAlive(a, c) PROVE Plans
  BY <1>3, <1>w, <1>s, <1>t, <1>e DEF ClearKeepAlive
<1>4. CASE SetIdleTimeout(a)
  <2>1. PICK s \in ForEach(registered, "retime") : Continue(a, s)
    BY <1>4 DEF SetIdleTimeout
  <2>2. registered \in SUBSET Conns
    BY DEF TypeOK
  <2>3. s \in Seq({Work("retime", d) : d \in registered})
    BY <2>1, <2>2, ForEachSteps
  <2>4. {Work("retime", d) : d \in registered} \subseteq P
    BY <2>2, <1>w
  <2>5. s \in Seq(P)
    BY <2>3, <2>4, SeqMonotone
  <2> QED
    BY <2>1, <2>5, <1>s
<1>5. ASSUME NEW c \in Conns, HeartbeatDead(a, c) \/ ProbeSingle(a, c) PROVE Plans
  BY <1>5, <1>w, <1>s, <1>t DEF HeartbeatDead, ProbeSingle
<1>6. CASE a \in Conns /\ IdleTimeout(a)
  BY <1>6, <1>w, <1>s, <1>t, <1>e DEF IdleTimeout
<1> QED
  BY <1>1, <1>2, <1>3, <1>4, <1>5, <1>6 DEF PlainCall

\* The steps that set up a tunnel schedule these.
TunnelPlans == {x \in QueuedCalls : x.do \in TunnelSteps \union {"remove", "clear", "childShell"}}

\* A step that sets up a tunnel goes on, releases or opens the shell.
LEMMA TunnelStepPlans ==
  ASSUME TypeOK, NEW a \in Actors, TunnelStep(a)
  PROVE  \E s \in Seq(TunnelPlans) : Continue(a, s)
<1> DEFINE c == call[a].conn
           u == call[a].user
           Plans == \E s \in Seq(TunnelPlans) : Continue(a, s)
<1>a. c \in Dedicated /\ u \in Consumers
  <2>1. call[a].do \in TunnelSteps
    BY DEF TunnelStep, OpenTunnel, TunnelSucceeds, TunnelFails, Commit, MarkChild, TunnelSteps
  <2> QED
    BY <2>1, CallFields DEF TypeOK
<1>b. c \in Conns /\ c \in Consumers /\ Hop[c] \in Conns
  BY <1>a, ConnectionRegistryAssumption DEF Consumers
<1>t. ASSUME NEW do \in TunnelSteps PROVE Call(do, c, u) \in TunnelPlans
  BY <1>a, <1>b, CallType, CallParts DEF TunnelPlans
<1>q. ASSUME NEW do \in {"remove", "clear", "childShell"}
      PROVE  /\ Call(do, c, u) \in TunnelPlans /\ Work(do, c) \in TunnelPlans
             /\ Call(do, Hop[c], c) \in TunnelPlans
  <2>1. do \in Queued
    BY DEF Queued
  <2> QED
    BY <1>a, <1>b, <2>1, CallType, CallParts DEF TunnelPlans
<1>s. \A s \in Seq(TunnelPlans) : Continue(a, s) => Plans
  OBVIOUS
<1>l. \A x, y, z \in TunnelPlans : /\ <<x>> \in Seq(TunnelPlans)
                                   /\ <<x, y>> \in Seq(TunnelPlans)
                                   /\ <<x, y>> \o <<z>> \in Seq(TunnelPlans)
  OBVIOUS
<1> SUFFICES Plans
  OBVIOUS
<1> HIDE DEF c, u, Plans
<1>1. CASE OpenTunnel(a) \/ TunnelSucceeds(a)
  BY <1>1, <1>t, <1>s, <1>l DEF OpenTunnel, TunnelSucceeds, TunnelSteps, c, u
<1>2. CASE TunnelFails(a)
  BY <1>2, <1>q, <1>s, <1>l DEF TunnelFails, GuardsRelease, c, u
<1>3. CASE Commit(a)
  BY <1>3, <1>t, <1>q, <1>s, <1>l DEF Commit, GuardsRelease, TunnelSteps, c, u
<1>4. CASE MarkChild(a)
  BY <1>4, <1>q, <1>s, <1>l DEF MarkChild, GuardsRelease, c, u
<1> QED
  BY <1>1, <1>2, <1>3, <1>4 DEF TunnelStep

-----------------------------------------------------------------------------
(* The invariant *)

\* Some actor still has to take one of the steps D on connection c.
Tended(c, D) == \E a \in Actors : \E x \in Pending(a) : x.conn = c /\ x.do \in D

\* The steps that see to an unused entry: they take it up again, start its timer, find
\* out that it has timed out or retire it.
TendSteps == {"push", "unused", "keepIdle", "bump", "arm", "idle", "check", "cascade",
              "disconnect", "retire"}

\* The steps that see to a dedicated entry without consumers.
RetireSteps == {"unused", "retire"}

\* Whoever starts a timer with the current generation is about to write Idle.
StartersWrite ==
    \A c \in Conns : \A b \in timers[c].starting : call[b].do = "idle" /\ call[b].conn = c

\* The entry has a timer, or Idle was written without one.
Settled(c) == timers[c].asleep > 0 \/ timers[c].missed

\* An unused entry has a timer or one of the steps that see to it is pending.
IdleTended == \A c \in Conns : Unused(c) => Settled(c) \/ Tended(c, TendSteps)

\* A dedicated entry that lost its last consumer is about to be retired.
DedicatedTended ==
    \A c \in registered \intersect Dedicated : refCount[c] = 0 => Tended(c, RetireSteps)

\* The inductive invariant, beside CountInv.
IdleInv == StartersWrite /\ IdleTended /\ DedicatedTended

\* A step lets nobody start a timer but the actor that goes on to write Idle.
MindsStarters(a) ==
    \A c \in Conns : \A b \in timers'[c].starting :
        \/ b # a /\ b \in timers[c].starting
        \/ b = a /\ call'[a].do = "idle" /\ call'[a].conn = c

\* An unused entry is seen to after a step that schedules s if the step or another
\* starter sees to it, or if it was unused before and the step was not the one that
\* would see to it.
MindsIdle(a, s) ==
    \A c \in Conns :
        Unused(c)' /\ ~Settled(c)' =>
          \/ \E x \in Steps(s) : x.conn = c /\ x.do \in TendSteps
          \/ \E b \in timers[c].starting : b # a
          \/ Unused(c) /\ ~Settled(c) /\ ~(call[a].conn = c /\ call[a].do \in TendSteps)

\* Likewise for a dedicated entry without consumers.
MindsDedicated(a, s) ==
    \A c \in Dedicated :
        c \in registered' /\ refCount'[c] = 0 =>
          \/ \E x \in Steps(s) : x.conn = c /\ x.do \in RetireSteps
          \/ /\ c \in registered /\ refCount[c] = 0
             /\ ~(call[a].conn = c /\ call[a].do \in RetireSteps)

\* A step keeps what is pending, apart from itself, and adds what it schedules.
LEMMA TendedAfter ==
  ASSUME TypeOK, NEW a \in Actors, NEW s \in Seq(Calls), \A x \in Steps(s) : x.do # "none",
         Continue(a, s), NEW c, NEW D
  PROVE  /\ (\E x \in Steps(s) : x.conn = c /\ x.do \in D) => Tended(c, D)'
         /\ Tended(c, D) => Tended(c, D)' \/ (call[a].conn = c /\ call[a].do \in D)
<1>1. /\ Pending(a)' = Steps(s) \union Steps(todo[a])
      /\ \A b \in Actors : b # a => Pending(b)' = Pending(b)
  BY ContinuePending
<1>2. Pending(a) \subseteq Steps(todo[a]) \union {call[a]}
  BY DEF Pending
<1> QED
  BY <1>1, <1>2 DEF Tended

\* A step that starts no timer and is not the write of Idle minds the starters.
LEMMA NoStart ==
  ASSUME IdleInv, NEW a \in Actors, call[a].do # "idle",
         \A c \in Conns : timers'[c] = timers[c] \/ timers'[c].starting = {}
  PROVE  MindsStarters(a)
BY DEF IdleInv, StartersWrite, MindsStarters

\* A step that minds both kinds of entries keeps the invariant.
LEMMA IdleKept ==
  ASSUME TypeOK, IdleInv, NEW a \in Actors, NEW s \in Seq(Calls), Continue(a, s),
         \A x \in Steps(s) : x.do # "none",
         MindsStarters(a), MindsIdle(a, s), MindsDedicated(a, s)
  PROVE  IdleInv'
<1>1. /\ Pending(a)' = Steps(s) \union Steps(todo[a])
      /\ \A b \in Actors : b # a => Pending(b)' = Pending(b) /\ call'[b] = call[b]
  BY ContinuePending
<1>0. \A c \in Conns : timers[c].starting \subseteq Actors
  BY TimerParts DEF TypeOK
<1>2. StartersWrite'
  BY <1>0, <1>1 DEF IdleInv, StartersWrite, MindsStarters
<1>3. IdleTended'
  <2> SUFFICES ASSUME NEW c \in Conns, Unused(c)', ~Settled(c)'
               PROVE  Tended(c, TendSteps)'
    BY DEF IdleTended
  <2>1. CASE \E x \in Steps(s) : x.conn = c /\ x.do \in TendSteps
    BY <2>1, TendedAfter
  <2>2. CASE /\ Unused(c) /\ ~Settled(c)
             /\ ~(call[a].conn = c /\ call[a].do \in TendSteps)
    <3>1. Tended(c, TendSteps)
      BY <2>2 DEF IdleInv, IdleTended
    <3> QED
      BY <2>2, <3>1, TendedAfter
  <2>3. ASSUME NEW b \in timers[c].starting, b # a PROVE Tended(c, TendSteps)'
    <3>1. b \in Actors /\ call[b].do = "idle" /\ call[b].conn = c
      BY <1>0, <2>3 DEF IdleInv, StartersWrite
    <3>2. call[b] \in Pending(b)'
      BY <1>1, <2>3, <3>1 DEF Pending
    <3> QED
      BY <3>1, <3>2 DEF Tended, TendSteps
  <2> QED
    BY <2>1, <2>2, <2>3 DEF MindsIdle
<1>4. DedicatedTended'
  <2> SUFFICES ASSUME NEW c \in registered' \intersect Dedicated, refCount'[c] = 0
               PROVE  Tended(c, RetireSteps)'
    BY DEF DedicatedTended
  <2>1. CASE \E x \in Steps(s) : x.conn = c /\ x.do \in RetireSteps
    BY <2>1, TendedAfter
  <2>2. CASE /\ c \in registered /\ refCount[c] = 0
             /\ ~(call[a].conn = c /\ call[a].do \in RetireSteps)
    <3>1. Tended(c, RetireSteps)
      BY <2>2 DEF IdleInv, DedicatedTended
    <3> QED
      BY <2>2, <3>1, TendedAfter
  <2> QED
    BY <2>1, <2>2 DEF MindsDedicated
<1> QED
  BY <1>2, <1>3, <1>4 DEF IdleInv

\* The elements of a sequence of calls.
LEMMA StepsTyped ==
  ASSUME NEW S, NEW s \in Seq(S)
  PROVE  \A x \in Steps(s) : x \in S
BY ElementOfSeq DEF Steps

\* A queued call is a call, and not the resting one.
LEMMA QueuedIsCall ==
  QueuedCalls \subseteq Calls /\ \A x \in QueuedCalls : x.do # "none"
BY DEF Calls, QueuedCalls, Queued, TunnelSteps

-----------------------------------------------------------------------------
(* Steps that do not concern idle entries *)

\* The step makes no entry unused and sees to none.
Calm(a) ==
    /\ UNCHANGED <<used, registered, entryVars, kept, timers>>
    /\ \A c \in Conns : state'[c] = "Idle" => state[c] = "Idle"
    /\ call[a].do \notin TendSteps

CalmStep(a) ==
    \/ Activate(a) \/ Connect(a) \/ Reuse(a) \/ DialSucceeds(a) \/ DialFails(a)
    \/ MarkActive(a) \/ CheckShell(a) \/ ChannelOpens(a) \/ ChannelFails(a)
    \/ LinkDown(a) \/ ClearPhysical(a) \/ ProbeRecovers(a) \/ ProbeFails(a)
    \/ DropTransport(a) \/ MarkGone(a)

CalmCall(a) ==
    \/ \E c \in Conns, u \in Users : Borrow(a, c, u) \/ Release(a, c, u)
    \/ SetIdleTimeout(a)
    \/ \E c \in Conns : HeartbeatDead(a, c) \/ ProbeSingle(a, c)

\* Marking an entry anything but Idle makes no entry idle.
LEMMA MarkNotIdle ==
  ASSUME TypeOK, NEW c \in Conns, NEW v \in States \ {"Idle"}, Mark(c, v)
  PROVE  \A d \in Conns : state'[d] = "Idle" => state[d] = "Idle"
BY DEF Mark, TypeOK

\* The steps listed are calm.
LEMMA CalmSteps ==
  ASSUME TypeOK, NEW a \in Actors, CalmStep(a) \/ TunnelStep(a) \/ CalmCall(a)
  PROVE  Calm(a)
<1>a. call[a].conn \in Conns
  BY CallFields DEF TypeOK
<1>m. /\ "Active" \in States \ {"Idle"} /\ "Error" \in States \ {"Idle"}
      /\ "LinkDown" \in States \ {"Idle"} /\ "Disconnected" \in States \ {"Idle"}
  BY DEF States
<1> USE DEF Calm, TendSteps, poolVars, entryVars
<1>1. CASE Activate(a)
  BY <1>1, <1>a DEF Activate, TypeOK
<1>2. CASE Connect(a) \/ Reuse(a) \/ DialSucceeds(a)
  BY <1>2 DEF Connect, Reuse, DialSucceeds
<1>3. CASE DialFails(a)
  BY <1>3, <1>a, <1>m, MarkNotIdle DEF DialFails
<1>4. CASE OpenTunnel(a) \/ TunnelSucceeds(a) \/ Commit(a)
  BY <1>4 DEF OpenTunnel, TunnelSucceeds, Commit
<1>5. CASE TunnelFails(a)
  BY <1>5, <1>a, <1>m, MarkNotIdle DEF TunnelFails
<1>6. CASE MarkChild(a)
  BY <1>6, <1>a, <1>m, MarkNotIdle DEF MarkChild
<1>7. CASE MarkActive(a)
  BY <1>7, <1>a, <1>m, MarkNotIdle DEF MarkActive
<1>8. CASE CheckShell(a) \/ ChannelOpens(a) \/ ChannelFails(a)
  BY <1>8 DEF CheckShell, ChannelOpens, ChannelFails
<1>9. CASE LinkDown(a)
  <2> DEFINE hit == {d \in {call[a].conn} \union Descendants(call[a].conn) :
                       d \in registered /\ state[d] \notin {"Disconnected", "Error"}}
  <2>1. \/ UNCHANGED state
        \/ state' = [d \in Conns |-> IF d \in hit THEN "LinkDown" ELSE state[d]]
    BY <1>9 DEF LinkDown
  <2> HIDE DEF hit
  <2>2. \A c \in Conns : state'[c] = "Idle" => state[c] = "Idle"
    BY <2>1
  <2> QED
    BY <1>9, <2>2 DEF LinkDown
<1>10. CASE ClearPhysical(a)
  BY <1>10 DEF ClearPhysical
<1>11. CASE ProbeRecovers(a)
  BY <1>11, <1>a, <1>m, MarkNotIdle DEF ProbeRecovers
<1>12. CASE ProbeFails(a)
  BY <1>12, <1>a, <1>m, MarkNotIdle DEF ProbeFails
<1>13. CASE CalmCall(a)
  BY <1>13 DEF CalmCall, Borrow, Release, SetIdleTimeout, HeartbeatDead, ProbeSingle, Resting
<1>14. CASE DropTransport(a)
  BY <1>14 DEF DropTransport
<1>15. CASE MarkGone(a)
  BY <1>15, <1>a, <1>m, MarkNotIdle DEF MarkGone
<1> QED
  BY <1>1, <1>2, <1>3, <1>4, <1>5, <1>6, <1>7, <1>8, <1>9, <1>10, <1>11, <1>12, <1>13, <1>14, <1>15
  DEF CalmStep, TunnelStep

\* A calm step keeps the invariant, whatever it schedules.
LEMMA CalmKept ==
  ASSUME TypeOK, IdleInv, NEW a \in Actors, Calm(a), NEW s \in Seq(QueuedCalls), Continue(a, s)
  PROVE  IdleInv'
<1>1. s \in Seq(Calls) /\ \A x \in Steps(s) : x.do # "none"
  BY QueuedIsCall, SeqMonotone, StepsTyped
<1>2. MindsStarters(a)
  BY NoStart DEF Calm, TendSteps
<1>3. MindsIdle(a, s)
  BY DEF MindsIdle, Calm, Unused, Settled, entryVars
<1>4. MindsDedicated(a, s)
  BY DEF MindsDedicated, Calm, entryVars, TendSteps, RetireSteps
<1> QED
  BY <1>1, <1>2, <1>3, <1>4, IdleKept

\* The calm steps and calls keep the invariant.
LEMMA CalmStepsKept ==
  ASSUME TypeOK, IdleInv, NEW a \in Actors, CalmStep(a) \/ TunnelStep(a) \/ CalmCall(a)
  PROVE  IdleInv'
<1>1. Calm(a)
  BY CalmSteps
<1>2. ASSUME NEW s \in Seq(Plain(a)), Continue(a, s) PROVE IdleInv'
  <2>1. s \in Seq(QueuedCalls)
    BY SeqMonotone DEF Plain
  <2> QED
    BY <1>1, <1>2, <2>1, CalmKept
<1>3. ASSUME NEW s \in Seq(TunnelPlans), Continue(a, s) PROVE IdleInv'
  <2>1. s \in Seq(QueuedCalls)
    BY SeqMonotone DEF TunnelPlans
  <2> QED
    BY <1>1, <1>3, <2>1, CalmKept
<1>4. CASE CalmStep(a)
  BY <1>2, <1>4, PlainStepPlans DEF CalmStep, PlainStep
<1>5. CASE CalmCall(a)
  BY <1>2, <1>5, PlainCallPlans DEF CalmCall, PlainCall
<1>6. CASE TunnelStep(a)
  BY <1>3, <1>6, TunnelStepPlans
<1> QED
  BY <1>4, <1>5, <1>6

-----------------------------------------------------------------------------
(* Steps that make an entry unused or see to one *)

\* Nothing, one call and two calls: what is scheduled is well typed.
LEMMA ShortPlans ==
  /\ <<>> \in Seq(Calls)
  /\ \A x \in Calls : <<x>> \in Seq(Calls)
  /\ \A x, y \in Calls : <<x, y>> \in Seq(Calls)
  /\ \A x, y, z \in Calls : <<x, y, z>> \in Seq(Calls) /\ Steps(<<x, y, z>>) = {x, y, z}
BY DEF Steps

\* The calls these steps schedule.
LEMMA WorkCalls ==
  ASSUME NEW c \in Conns,
         NEW do \in {"activate", "decrement", "unused", "retire", "keepIdle", "bump", "arm",
                     "idle", "check", "cascade", "drop", "gone", "disconnect"}
  PROVE  Work(do, c) \in Calls /\ Work(do, c).do = do /\ Work(do, c).conn = c
BY DEF Calls, QueuedCalls, Queued, Call, Work, Consumers

\* The invariant is kept by a step that schedules nothing.
LEMMA IdleKeptNone ==
  ASSUME TypeOK, IdleInv, NEW a \in Actors, Continue(a, <<>>),
         MindsStarters(a), MindsIdle(a, <<>>), MindsDedicated(a, <<>>)
  PROVE  IdleInv'
BY IdleKept, ShortPlans, StepsOf

\* The same for one call.
LEMMA IdleKeptOne ==
  ASSUME TypeOK, IdleInv, NEW a \in Actors, NEW c \in Conns,
         NEW do \in {"activate", "decrement", "unused", "retire", "keepIdle", "bump", "arm",
                     "idle", "check", "cascade", "drop", "gone", "disconnect"},
         Continue(a, <<Work(do, c)>>), MindsStarters(a),
         MindsIdle(a, <<Work(do, c)>>), MindsDedicated(a, <<Work(do, c)>>)
  PROVE  IdleInv'
<1> DEFINE x == Work(do, c)
<1>1. x \in Calls /\ x.do = do /\ x.conn = c
  BY WorkCalls
<1> HIDE DEF x
<1>2. <<x>> \in Seq(Calls) /\ Steps(<<x>>) = {x}
  BY <1>1, StepsOf
<1>3. Continue(a, <<x>>) /\ MindsIdle(a, <<x>>) /\ MindsDedicated(a, <<x>>)
  BY DEF x
<1>4. do # "none"
  OBVIOUS
<1> QED
  BY <1>1, <1>2, <1>3, <1>4, IdleKept

\* One call sees to its connection.
LEMMA OneTends ==
  ASSUME NEW c, NEW do
  PROVE  \E x \in Steps(<<Work(do, c)>>) : x.conn = c /\ x.do = do
<1> DEFINE x == Work(do, c)
<1>1. x.do = do /\ x.conn = c
  BY CallParts
<1> HIDE DEF x
<1>2. x \in Steps(<<x>>)
  BY StepsOf
<1> QED
  BY <1>1, <1>2 DEF x

\* An entry with a consumer is counted as used.
LEMMA ConsumerCounts ==
  ASSUME CountInv, NEW c \in Conns, NEW u \in consumers[c]
  PROVE  refCount[c] > 0
<1>1. /\ IsFiniteSet(consumers[c]) /\ Cardinality(consumers[c]) \in Nat
      /\ Cardinality(Decrementing(c)) \in Nat
  BY FiniteParts DEF CountInv
<1>2. Cardinality(consumers[c]) # 0
  BY <1>1, FS_EmptySet
<1>3. refCount[c] = Cardinality(consumers[c]) + Cardinality(Decrementing(c))
  BY DEF CountInv, RefCountMatchesConsumers
<1> QED
  BY <1>1, <1>2, <1>3

\* After AddConsumer the entry is used, and the other entries are as before.
LEMMA AddedIsUsed ==
  ASSUME CountInv, NEW c \in Conns, NEW u \in Consumers, AddConsumer(c, u)
  PROVE  /\ refCount'[c] > 0
         /\ \A d \in Conns : d # c => refCount'[d] = refCount[d] /\ consumers'[d] = consumers[d]
<1>1. refCount \in [Conns -> Nat] /\ consumers \in [Conns -> SUBSET Consumers]
  BY DEF CountInv, TypeOK
<1>2. /\ refCount' = [refCount EXCEPT ![c] = IF u \in consumers[c] THEN @ ELSE @ + 1]
      /\ consumers' = [consumers EXCEPT ![c] = @ \union {u}]
  BY DEF AddConsumer
<1>3. refCount'[c] > 0
  <2>1. CASE u \in consumers[c]
    BY <1>1, <1>2, <2>1, ConsumerCounts
  <2>2. CASE u \notin consumers[c]
    BY <1>1, <1>2, <2>2
  <2> QED
    BY <2>1, <2>2
<1> QED
  BY <1>1, <1>2, <1>3

\* acquire, second part, and acquire_consumer_for_connection: the entry is used.
LEMMA PushIdle ==
  ASSUME CountInv, IdleInv, NEW a \in Actors, Push(a) \/ PushExisting(a)
  PROVE  IdleInv'
<1> DEFINE c == call[a].conn
           u == call[a].user
<1>1. c \in Conns /\ u \in Consumers /\ TypeOK
  BY CallFields DEF CountInv, TypeOK
<1>2. /\ AddConsumer(c, u)
      /\ \A d \in Conns : d # c => timers'[d] = timers[d]
      /\ \A d \in Conns : timers'[d] = timers[d] \/ timers'[d].starting = {}
      /\ UNCHANGED <<registered, state, kept>>
      /\ call[a].do \in {"push", "pushExisting"}
  BY <1>1 DEF Push, PushExisting, poolVars, TypeOK, NoTimers
<1>3. \/ Continue(a, <<>>)
      \/ Continue(a, <<Work("activate", c)>>)
  BY DEF Push, PushExisting, Return
<1>4. /\ refCount'[c] > 0
      /\ \A d \in Conns : d # c => refCount'[d] = refCount[d]
  BY <1>1, <1>2, AddedIsUsed
<1> HIDE DEF c, u
<1>5. MindsStarters(a)
  BY <1>2, NoStart
<1>6. \A s : MindsIdle(a, s) /\ MindsDedicated(a, s)
  BY <1>1, <1>2, <1>4, ConnectionRegistryAssumption
  DEF MindsIdle, MindsDedicated, Unused, Settled, TendSteps, RetireSteps, c
<1>7. CASE Continue(a, <<>>)
  BY <1>1, <1>5, <1>6, <1>7, IdleKeptNone
<1>8. CASE Continue(a, <<Work("activate", c)>>)
  BY <1>1, <1>5, <1>6, <1>8, IdleKeptOne
<1> QED
  BY <1>3, <1>7, <1>8

\* release: whoever takes the last consumer away goes on to look at the count.
LEMMA ReleaseIdle ==
  ASSUME CountInv, IdleInv, NEW a \in Actors, Remove(a) \/ Decrement(a)
  PROVE  IdleInv'
<1> DEFINE c == call[a].conn
<1>1. c \in Conns /\ TypeOK
  BY CallFields DEF CountInv, TypeOK
<1>2. MindsStarters(a)
  BY NoStart DEF Remove, Decrement
<1>3. CASE Remove(a)
  <2>1. /\ UNCHANGED <<registered, state, refCount, kept, timers>> /\ call[a].do = "remove"
    BY <1>3 DEF Remove, poolVars
  <2>2. \A s : MindsIdle(a, s) /\ MindsDedicated(a, s)
    BY <2>1 DEF MindsIdle, MindsDedicated, Unused, Settled, TendSteps, RetireSteps
  <2>3. \/ Continue(a, <<>>)
        \/ Continue(a, <<Work("decrement", c)>>)
        \/ Continue(a, <<Work("unused", c)>>)
    BY <1>3 DEF Remove, Return
  <2> HIDE DEF c
  <2>5. CASE Continue(a, <<>>)
    BY <1>1, <1>2, <2>2, <2>5, IdleKeptNone
  <2>6. CASE Continue(a, <<Work("decrement", c)>>)
    BY <1>1, <1>2, <2>2, <2>6, IdleKeptOne
  <2>7. CASE Continue(a, <<Work("unused", c)>>)
    BY <1>1, <1>2, <2>2, <2>7, IdleKeptOne
  <2> QED
    BY <2>3, <2>5, <2>6, <2>7
<1>4. CASE Decrement(a)
  <2>1. /\ \A d \in Conns : d # c => refCount'[d] = refCount[d]
        /\ UNCHANGED <<registered, state, kept, timers>> /\ call[a].do = "decrement"
        /\ Continue(a, <<Work("unused", c)>>)
    BY <1>1, <1>4 DEF Decrement, poolVars, TypeOK
  <2> HIDE DEF c
  <2>2. \E x \in Steps(<<Work("unused", c)>>) : x.conn = c /\ x.do = "unused"
    BY <1>1, OneTends
  <2>3. MindsIdle(a, <<Work("unused", c)>>)
    BY <2>1, <2>2 DEF MindsIdle, Unused, Settled, TendSteps
  <2>4. MindsDedicated(a, <<Work("unused", c)>>)
    BY <2>1, <2>2, ConnectionRegistryAssumption DEF MindsDedicated, RetireSteps
  <2> QED
    BY <1>1, <1>2, <2>1, <2>3, <2>4, IdleKeptOne
<1> QED
  BY <1>3, <1>4

\* release, the decision: an unused shared entry goes on to its timer, a dedicated one
\* to its retirement.
LEMMA CheckUnusedIdle ==
  ASSUME CountInv, IdleInv, NEW a \in Actors, CheckUnused(a)
  PROVE  IdleInv'
<1> DEFINE c == call[a].conn
           do == IF c \in Dedicated THEN "retire" ELSE IF c \in kept THEN "keepIdle" ELSE "bump"
<1>1. c \in Conns /\ TypeOK
  BY CallFields DEF CountInv, TypeOK
<1>2. /\ UNCHANGED <<registered, state, refCount, kept, timers>>
      /\ call[a].do = "unused"
      /\ IF refCount[c] # 0 THEN Continue(a, <<>>) ELSE Continue(a, <<Work(do, c)>>)
  BY DEF CheckUnused, poolVars, entryVars, Return
<1>3. do \in {"retire", "keepIdle", "bump"}
  OBVIOUS
<1>4. c \in Dedicated => do = "retire"
  OBVIOUS
<1> HIDE DEF c, do
<1>5. MindsStarters(a)
  BY <1>2, NoStart
<1>6. CASE refCount[c] # 0
  <2>1. MindsIdle(a, <<>>)
    BY <1>2, <1>6 DEF MindsIdle, Unused, Settled, c
  <2>2. MindsDedicated(a, <<>>)
    BY <1>2, <1>6 DEF MindsDedicated, c
  <2> QED
    BY <1>1, <1>2, <1>5, <1>6, <2>1, <2>2, IdleKeptNone
<1>7. CASE refCount[c] = 0
  <2>1. \E x \in Steps(<<Work(do, c)>>) : x.conn = c /\ x.do = do
    BY OneTends
  <2>2. MindsIdle(a, <<Work(do, c)>>)
    BY <1>2, <1>3, <2>1 DEF MindsIdle, Unused, Settled, TendSteps, c
  <2>3. MindsDedicated(a, <<Work(do, c)>>)
    BY <1>2, <1>4, <2>1 DEF MindsDedicated, RetireSteps, c
  <2> QED
    BY <1>1, <1>2, <1>3, <1>5, <1>7, <2>2, <2>3, IdleKeptOne
<1> QED
  BY <1>6, <1>7

\* The steps that start the timer, cancel it or find it expired: the entry gets its
\* timer, is kept, or Idle was written without one.
LEMMA TimerIdle ==
  ASSUME CountInv, IdleInv, NEW a \in Actors,
         KeepIdle(a) \/ BumpIdle(a) \/ ReadGeneration(a) \/ Retime(a)
  PROVE  IdleInv'
<1> DEFINE c == call[a].conn
<1>1. c \in Conns /\ TypeOK
  BY CallFields DEF CountInv, TypeOK
<1>2. timers \in [Conns -> Timers] /\ state \in [Conns -> States]
  BY <1>1 DEF TypeOK
<1>3. CASE KeepIdle(a)
  <2>1. /\ UNCHANGED <<registered, refCount, kept>> /\ call[a].do = "keepIdle"
        /\ \A d \in Conns : d # c => timers'[d] = timers[d] /\ state'[d] = state[d]
        /\ timers'[c] = [NoTimers EXCEPT !.missed = c \notin kept]
        /\ Continue(a, <<>>)
    BY <1>1, <1>2, <1>3 DEF KeepIdle, poolVars, entryVars, Return
  <2>2. timers'[c].missed = (c \notin kept) /\ timers'[c].starting = {}
    BY <2>1 DEF NoTimers
  <2> HIDE DEF c
  <2>6. \A d \in Conns : d = c /\ d \notin kept => Settled(d)'
    BY <2>2, Zenon DEF Settled
  <2>7. \A d \in Conns : d # c => (Settled(d)' <=> Settled(d))
    BY <2>1 DEF Settled
  <2>3. MindsIdle(a, <<>>)
    BY <2>1, <2>6, <2>7 DEF MindsIdle, Unused, c
  <2>4. MindsDedicated(a, <<>>)
    BY <2>1 DEF MindsDedicated, RetireSteps
  <2>5. MindsStarters(a)
    BY <2>1, <2>2, NoStart
  <2> QED
    BY <1>1, <2>1, <2>3, <2>4, <2>5, IdleKeptNone
<1>4. CASE BumpIdle(a)
  <2>1. /\ UNCHANGED <<registered, refCount, kept, state>> /\ call[a].do = "bump"
        /\ \A d \in Conns : d # c => timers'[d] = timers[d]
        /\ timers'[c].starting = {}
        /\ Continue(a, <<Work("arm", c)>>)
    BY <1>1, <1>2, <1>4 DEF BumpIdle, poolVars, entryVars, NoTimers
  <2>2. \E x \in Steps(<<Work("arm", c)>>) : x.conn = c /\ x.do = "arm"
    BY <1>1, OneTends
  <2>3. MindsIdle(a, <<Work("arm", c)>>)
    BY <2>1, <2>2 DEF MindsIdle, Unused, Settled, TendSteps
  <2>4. MindsDedicated(a, <<Work("arm", c)>>)
    BY <2>1 DEF MindsDedicated, RetireSteps
  <2> HIDE DEF c
  <2>5. MindsStarters(a)
    BY <2>1, NoStart
  <2> QED
    BY <1>1, <2>1, <2>3, <2>4, <2>5, IdleKeptOne
<1>5. CASE ReadGeneration(a)
  <2>1. /\ UNCHANGED <<registered, refCount, kept, state>> /\ call[a].do = "arm"
        /\ \A d \in Conns : d # c => timers'[d] = timers[d]
        /\ timers'[c] = [timers[c] EXCEPT !.starting = @ \union {a}]
        /\ Continue(a, <<Work("idle", c)>>)
    BY <1>1, <1>2, <1>5 DEF ReadGeneration, poolVars, entryVars
  <2>2. \E x \in Steps(<<Work("idle", c)>>) : x.conn = c /\ x.do = "idle"
    BY <1>1, OneTends
  <2>3. MindsIdle(a, <<Work("idle", c)>>)
    BY <2>1, <2>2 DEF MindsIdle, Unused, Settled, TendSteps
  <2>4. MindsDedicated(a, <<Work("idle", c)>>)
    BY <2>1 DEF MindsDedicated, RetireSteps
  <2>5. MindsStarters(a)
    <3>1. timers'[c].starting = timers[c].starting \union {a}
      BY <1>1, <1>2, <2>1 DEF Timers
    <3>2. call'[a].do = "idle" /\ call'[a].conn = c
      <4>1. Work("idle", c) \in Calls
        BY <1>1, WorkCalls
      <4>2. call' = [call EXCEPT ![a] = Work("idle", c)]
        BY <1>1, <2>1, <4>1, ContinueOne
      <4> QED
        BY <1>1, <4>2, CallParts DEF TypeOK
    <3>3. \A d \in Conns : \A b \in timers[d].starting : b # a
      BY <2>1 DEF IdleInv, StartersWrite
    <3> HIDE DEF c
    <3> QED
      BY <2>1, <3>1, <3>2, <3>3 DEF MindsStarters
  <2> HIDE DEF c
  <2> QED
    BY <1>1, <2>1, <2>3, <2>4, <2>5, IdleKeptOne
<1>6. CASE Retime(a)
  <2>1. /\ UNCHANGED <<registered, refCount, kept, state>> /\ call[a].do = "retime"
        /\ \A d \in Conns : d # c => timers'[d] = timers[d]
        /\ timers'[c].starting = {}
        /\ Continue(a, IF state[c] = "Idle" /\ refCount[c] = 0 /\ c \notin kept
                       THEN <<Work("bump", c)>> ELSE <<>>)
    BY <1>1, <1>2, <1>6 DEF Retime, poolVars, entryVars, NoTimers
  <2>2. \E x \in Steps(<<Work("bump", c)>>) : x.conn = c /\ x.do = "bump"
    BY <1>1, OneTends
  <2>3. \A s : MindsDedicated(a, s)
    BY <2>1 DEF MindsDedicated, RetireSteps
  <2>6. MindsStarters(a)
    BY <2>1, NoStart
  <2>4. CASE state[c] = "Idle" /\ refCount[c] = 0 /\ c \notin kept
    <3>1. MindsIdle(a, <<Work("bump", c)>>)
      BY <2>1, <2>2 DEF MindsIdle, Unused, Settled, TendSteps
    <3> HIDE DEF c
    <3> QED
      BY <1>1, <2>1, <2>3, <2>4, <2>6, <3>1, IdleKeptOne
  <2>5. CASE ~(state[c] = "Idle" /\ refCount[c] = 0 /\ c \notin kept)
    <3>1. MindsIdle(a, <<>>)
      BY <2>1, <2>5 DEF MindsIdle, Unused, Settled, TendSteps
    <3> QED
      BY <1>1, <2>1, <2>3, <2>5, <2>6, <3>1, IdleKeptNone
  <2> QED
    BY <2>4, <2>5
<1> QED
  BY <1>3, <1>4, <1>5, <1>6

\* The write of Idle: a start that was not overtaken leaves a sleeping task, one that
\* was is noted, unless another actor is about to write Idle with a task of its own.
LEMMA WriteIdleIdle ==
  ASSUME CountInv, IdleInv, NEW a \in Actors, WriteIdle(a)
  PROVE  IdleInv'
<1> DEFINE c == call[a].conn
           timer == [timers[c] EXCEPT !.asleep = IF a \in timers[c].starting THEN @ + 1 ELSE @,
                                      !.starting = @ \ {a}]
<1>1. c \in Conns /\ TypeOK
  BY CallFields DEF CountInv, TypeOK
<1>2. /\ timers \in [Conns -> Timers] /\ state \in [Conns -> States]
      /\ timers[c] \in Timers
  BY <1>1 DEF TypeOK
<1>3. /\ UNCHANGED <<registered, refCount, kept>> /\ call[a].do = "idle"
      /\ \A d \in Conns : d # c => timers'[d] = timers[d] /\ state'[d] = state[d]
      /\ timers'[c] = [timer EXCEPT !.missed = timer.asleep = 0 /\ timer.starting = {}]
      /\ Continue(a, <<>>)
  BY <1>1, <1>2 DEF WriteIdle, poolVars, entryVars, Return
<1>4. timer \in Timers /\ timer.starting = timers[c].starting \ {a}
  BY <1>2, TimerSteps DEF Timers
<1>5. timer.asleep \in Nat
  BY <1>4, TimerParts
<1> HIDE DEF timer
<1>6. /\ timers'[c].starting = timer.starting /\ timers'[c].asleep = timer.asleep
      /\ timers'[c].missed = (timer.asleep = 0 /\ timer.starting = {})
  BY <1>3, <1>4 DEF Timers
<1>7. MindsStarters(a)
  <2>1. \A d \in Conns : d # c => a \notin timers[d].starting
    BY <1>3 DEF IdleInv, StartersWrite
  <2> HIDE DEF c
  <2> QED
    BY <1>3, <1>4, <1>6, <2>1 DEF MindsStarters
<1>8. MindsIdle(a, <<>>)
  <2>1. \A d \in Conns : d = c => Settled(d)' \/ \E b \in timers[d].starting : b # a
    <3>1. CASE timer.asleep = 0 /\ timer.starting = {}
      BY <1>6, <3>1, Zenon DEF Settled
    <3>2. CASE timer.asleep # 0
      BY <1>5, <1>6, <3>2 DEF Settled
    <3>3. CASE timer.starting # {}
      BY <1>4, <3>3
    <3> QED
      BY <3>1, <3>2, <3>3
  <2>2. \A d \in Conns : d # c => (Settled(d)' <=> Settled(d))
    BY <1>3 DEF Settled
  <2> QED
    BY <1>1, <1>3, <2>1, <2>2 DEF MindsIdle, Unused
<1>9. MindsDedicated(a, <<>>)
  BY <1>3 DEF MindsDedicated, RetireSteps
<1> QED
  BY <1>1, <1>3, <1>7, <1>8, <1>9, IdleKeptNone

\* disconnect_if_idle_timeout: it finds the entry in use, or goes on to disconnect it.
LEMMA TimeoutIdle ==
  ASSUME CountInv, IdleInv, NEW a \in Actors, CheckTimeout(a) \/ Cascade(a)
  PROVE  IdleInv'
<1> DEFINE c == call[a].conn
<1>1. c \in Conns /\ TypeOK
  BY CallFields DEF CountInv, TypeOK
<1>2. UNCHANGED <<registered, state, refCount, kept, timers>> /\ call[a].do \in {"check", "cascade"}
  BY DEF CheckTimeout, Cascade, poolVars, entryVars
<1>3. MindsStarters(a) /\ \A s : MindsDedicated(a, s)
  BY <1>2, NoStart DEF MindsDedicated, RetireSteps
<1>4. CASE CheckTimeout(a)
  <2>1. \/ Continue(a, <<Work("cascade", c)>>)
        \/ ~Unused(c) /\ Continue(a, <<>>)
    BY <1>4 DEF CheckTimeout, Unused
  <2>2. CASE Continue(a, <<Work("cascade", c)>>)
    <3>1. \E x \in Steps(<<Work("cascade", c)>>) : x.conn = c /\ x.do = "cascade"
      BY OneTends
    <3>2. MindsIdle(a, <<Work("cascade", c)>>)
      BY <1>2, <3>1 DEF MindsIdle, Unused, Settled, TendSteps
    <3> HIDE DEF c
    <3> QED
      BY <1>1, <1>3, <2>2, <3>2, IdleKeptOne
  <2>3. CASE ~Unused(c) /\ Continue(a, <<>>)
    <3>1. MindsIdle(a, <<>>)
      BY <1>2, <2>3 DEF MindsIdle, Unused, Settled
    <3> QED
      BY <1>1, <1>3, <2>3, <3>1, IdleKeptNone
  <2> QED
    BY <2>1, <2>2, <2>3
<1>5. CASE Cascade(a)
  <2>1. PICK calls \in ForEach(Descendants(c), "disconnect") :
           Continue(a, calls \o <<Work("disconnect", c)>>)
    BY <1>5 DEF Cascade
  <2> DEFINE last == Work("disconnect", c)
             s == calls \o <<last>>
  <2>2. last \in QueuedCalls /\ last.do = "disconnect" /\ last.conn = c
    BY <1>1, CallType, CallParts DEF Queued, Consumers
  <2>3. calls \in Seq(QueuedCalls)
    BY <1>1, <2>1, ForEachType DEF Descendants, Queued, TypeOK
  <2> HIDE DEF last, c
  <2>4. <<last>> \in Seq(QueuedCalls) /\ last \in Steps(<<last>>)
    BY <2>2, StepsOf
  <2>5. s \in Seq(QueuedCalls) /\ last \in Steps(s)
    <3>1. Steps(s) = Steps(calls) \union Steps(<<last>>)
      BY <2>3, <2>4, StepsConcat
    <3> QED
      BY <2>3, <2>4, <3>1, ConcatProperties
  <2>6. Continue(a, s)
    BY <2>1 DEF last
  <2> HIDE DEF s
  <2>7. s \in Seq(Calls) /\ \A x \in Steps(s) : x.do # "none"
    BY <2>5, QueuedIsCall, SeqMonotone, StepsTyped
  <2>8. MindsIdle(a, s)
    BY <1>2, <2>2, <2>5 DEF MindsIdle, Unused, Settled, TendSteps, c
  <2> QED
    BY <1>1, <1>3, <2>6, <2>7, <2>8, IdleKept
<1> QED
  BY <1>4, <1>5

\* Retirement takes the entry out of the registry; disconnecting it leads there.
LEMMA RetireIdle ==
  ASSUME CountInv, IdleInv, NEW a \in Actors, Retire(a) \/ Disconnect(a)
  PROVE  IdleInv'
<1> DEFINE c == call[a].conn
<1>1. c \in Conns /\ TypeOK
  BY CallFields DEF CountInv, TypeOK
<1>2. timers \in [Conns -> Timers]
  BY <1>1 DEF TypeOK
<1>5. MindsStarters(a)
  <2>1. /\ \A d \in Conns : timers'[d] = timers[d] \/ timers'[d].starting = {}
        /\ call[a].do # "idle"
    BY <1>1, <1>2 DEF Retire, Disconnect, NoTimers
  <2> QED
    BY <2>1, NoStart
<1>3. CASE Retire(a)
  <2>1. /\ UNCHANGED <<state, refCount, kept>> /\ call[a].do = "retire"
        /\ \A d \in Conns : d # c => timers'[d] = timers[d]
        /\ registered' \subseteq registered /\ c \notin registered'
    BY <1>1, <1>2, <1>3 DEF Retire, entryVars
  <2>2. \A s : MindsIdle(a, s) /\ MindsDedicated(a, s)
    BY <2>1 DEF MindsIdle, MindsDedicated, Unused, Settled
  <2>3. \/ Continue(a, <<>>)
        \/ c \in tunnelled /\ Continue(a, <<Call("remove", Hop[c], c)>>)
    BY <1>3 DEF Retire, Return
  <2>4. CASE Continue(a, <<>>)
    BY <1>1, <1>5, <2>1, <2>2, <2>4, IdleKeptNone
  <2>5. CASE c \in tunnelled /\ Continue(a, <<Call("remove", Hop[c], c)>>)
    <3> DEFINE x == Call("remove", Hop[c], c)
    <3>1. x \in Calls /\ x.do = "remove"
      <4>1. Hop[c] \in Conns /\ c \in Consumers
        BY <1>1, <2>5, ConnectionRegistryAssumption DEF TypeOK, Consumers
      <4> QED
        BY <4>1, CallType, QueuedIsCall, CallParts DEF Queued
    <3>2. Continue(a, <<x>>)
      BY <2>5
    <3> HIDE DEF x
    <3>3. <<x>> \in Seq(Calls) /\ Steps(<<x>>) = {x}
      BY <3>1, StepsOf
    <3> QED
      BY <1>1, <1>5, <2>1, <2>2, <3>1, <3>2, <3>3, IdleKept
  <2> QED
    BY <2>3, <2>4, <2>5
<1>4. CASE Disconnect(a)
  <2>1. UNCHANGED <<registered, state, refCount, kept>> /\ call[a].do = "disconnect"
    BY <1>4 DEF Disconnect, poolVars, entryVars
  <2>2. \A s : MindsDedicated(a, s)
    BY <2>1 DEF MindsDedicated, RetireSteps
  <2>3. CASE c \in registered /\ state[c] # "Disconnected"
    <3> DEFINE x == Work("drop", c)
               y == Work("gone", c)
               z == Work("retire", c)
    <3>1. /\ timers' = [timers EXCEPT ![c] = NoTimers]
          /\ Continue(a, <<x, y, z>>)
      BY <1>4, <2>3 DEF Disconnect
    <3>2. /\ x \in Calls /\ x.do = "drop" /\ y \in Calls /\ y.do = "gone"
          /\ z \in Calls /\ z.do = "retire" /\ z.conn = c
      BY <1>1, WorkCalls
    <3> HIDE DEF x, y, z
    <3>3. <<x, y, z>> \in Seq(Calls) /\ Steps(<<x, y, z>>) = {x, y, z}
      BY <3>2, ShortPlans
    <3>4. MindsIdle(a, <<x, y, z>>)
      BY <1>1, <1>2, <2>1, <3>1, <3>2, <3>3 DEF MindsIdle, Unused, Settled, TendSteps
    <3> QED
      BY <1>1, <1>5, <2>1, <2>2, <3>1, <3>2, <3>3, <3>4, IdleKept
  <2>4. CASE ~(c \in registered /\ state[c] # "Disconnected")
    <3>1. Continue(a, <<>>) /\ UNCHANGED timers
      BY <1>4, <2>4 DEF Disconnect, Return
    <3>2. MindsIdle(a, <<>>)
      BY <2>1, <2>4, <3>1 DEF MindsIdle, Unused, Settled
    <3> QED
      BY <1>1, <1>5, <2>1, <2>2, <3>1, <3>2, IdleKeptNone
  <2> QED
    BY <2>3, <2>4
<1> QED
  BY <1>3, <1>4

\* acquire: the entry whose timer is cancelled is about to get a consumer.
LEMMA AcquireIdle ==
  ASSUME CountInv, IdleInv, NEW a \in Actors, NEW k \in Keys, NEW u \in Users, Acquire(a, k, u)
  PROVE  IdleInv'
<1>1. PICK c \in Conns \ Dedicated :
        /\ \/ c \in registered /\ UNCHANGED <<used, registered>>
           \/ registered' = registered \union {c}
        /\ timers' = [timers EXCEPT ![c] = NoTimers]
        /\ Continue(a, <<Call("push", c, u), Call("connect", c, u)>>)
  BY DEF Acquire
<1>2. UNCHANGED <<state, refCount, kept>> /\ call[a].do = "none"
  BY DEF Acquire, entryVars, Resting
<1>3. TypeOK /\ timers \in [Conns -> Timers]
  BY DEF CountInv, TypeOK
<1>9. MindsStarters(a)
  <2>1. \A d \in Conns : timers'[d] = timers[d] \/ timers'[d].starting = {}
    BY <1>1, <1>3 DEF NoTimers
  <2> QED
    BY <1>2, <2>1, NoStart
<1> DEFINE x == Call("push", c, u)
           y == Call("connect", c, u)
<1>4. x \in Calls /\ x.do = "push" /\ x.conn = c /\ y \in Calls /\ y.do = "connect"
  <2>1. u \in Consumers /\ "push" \in Queued /\ "connect" \in Queued
    BY DEF Consumers, Queued
  <2> QED
    BY <2>1, CallType, QueuedIsCall, CallParts
<1>5. Continue(a, <<x, y>>)
  BY <1>1
<1> HIDE DEF x, y
<1>6. <<x, y>> \in Seq(Calls) /\ Steps(<<x, y>>) = {x, y}
  BY <1>4, StepsOf, ShortPlans
<1>7. MindsIdle(a, <<x, y>>)
  BY <1>1, <1>2, <1>3, <1>4, <1>6 DEF MindsIdle, Unused, Settled, TendSteps
<1>8. MindsDedicated(a, <<x, y>>)
  BY <1>1, <1>2 DEF MindsDedicated, RetireSteps
<1> QED
  BY <1>2, <1>3, <1>4, <1>5, <1>6, <1>7, <1>8, <1>9, IdleKept

\* acquire_dedicated: the new entry has its first consumer.
LEMMA AcquireDedicatedIdle ==
  ASSUME CountInv, IdleInv, NEW a \in Actors, NEW c \in Dedicated, NEW u \in Users,
         AcquireDedicated(a, c, u)
  PROVE  IdleInv'
<1>1. /\ UNCHANGED <<state, kept, timers>> /\ call[a].do = "none"
      /\ registered' = registered \union {c} /\ refCount' = [refCount EXCEPT ![c] = 1]
  BY DEF AcquireDedicated, Resting
<1>2. TypeOK /\ refCount \in [Conns -> Nat] /\ c \in Conns
  BY ConnectionRegistryAssumption DEF CountInv, TypeOK
<1>3. \A s : MindsIdle(a, s) /\ MindsDedicated(a, s)
  BY <1>1, <1>2, ConnectionRegistryAssumption
  DEF MindsIdle, MindsDedicated, Unused, Settled, TendSteps, RetireSteps
<1>4. PICK s \in Seq(QueuedCalls) : Continue(a, s)
  BY CallSchedules DEF CountInv, Schedules
<1>5. s \in Seq(Calls) /\ \A x \in Steps(s) : x.do # "none"
  BY QueuedIsCall, SeqMonotone, StepsTyped
<1>6. MindsStarters(a)
  BY <1>1, NoStart
<1> QED
  BY <1>2, <1>3, <1>4, <1>5, <1>6, IdleKept

\* set_keep_alive(false): an entry that becomes unused by it gets its timer.
LEMMA ClearKeepAliveIdle ==
  ASSUME CountInv, IdleInv, NEW a \in Actors, NEW c \in Conns, ClearKeepAlive(a, c)
  PROVE  IdleInv'
<1>1. /\ UNCHANGED <<registered, state, refCount, timers>> /\ call[a].do = "none"
      /\ kept' = kept \ {c}
      /\ Continue(a, IF state[c] = "Idle" /\ refCount[c] = 0
                     THEN <<Work("bump", c)>> ELSE <<>>)
  BY DEF ClearKeepAlive, Resting, poolVars, entryVars
<1>2. TypeOK
  BY DEF CountInv
<1>3. MindsStarters(a) /\ \A s : MindsDedicated(a, s)
  BY <1>1, NoStart DEF MindsDedicated, RetireSteps
<1>4. CASE state[c] = "Idle" /\ refCount[c] = 0
  <2>1. \E x \in Steps(<<Work("bump", c)>>) : x.conn = c /\ x.do = "bump"
    BY OneTends
  <2>2. MindsIdle(a, <<Work("bump", c)>>)
    BY <1>1, <2>1 DEF MindsIdle, Unused, Settled, TendSteps
  <2> QED
    BY <1>1, <1>2, <1>3, <1>4, <2>2, IdleKeptOne
<1>5. CASE ~(state[c] = "Idle" /\ refCount[c] = 0)
  <2>1. MindsIdle(a, <<>>)
    BY <1>1, <1>5 DEF MindsIdle, Unused, Settled, TendSteps
  <2> QED
    BY <1>1, <1>2, <1>3, <1>5, <2>1, IdleKeptNone
<1> QED
  BY <1>4, <1>5

\* A task that wakes up goes on to look at its entry.
LEMMA IdleTimeoutIdle ==
  ASSUME CountInv, IdleInv, NEW c \in Conns, IdleTimeout(c)
  PROVE  IdleInv'
<1>1. /\ UNCHANGED <<registered, state, refCount, kept>> /\ call[c].do = "none"
      /\ timers' = [timers EXCEPT ![c].asleep = @ - 1]
      /\ Continue(c, IF c \in registered THEN <<Work("check", c)>> ELSE <<>>)
  BY DEF IdleTimeout, Resting, poolVars, entryVars
<1>2. TypeOK /\ timers \in [Conns -> Timers] /\ c \in Actors
  BY DEF CountInv, TypeOK, Actors
<1>3. /\ \A d \in Conns : d # c => timers'[d] = timers[d]
      /\ timers'[c].starting = timers[c].starting
  BY <1>1, <1>2 DEF Timers
<1>4. MindsStarters(c)
  BY <1>1, <1>3 DEF IdleInv, StartersWrite, MindsStarters
<1>5. \A s : MindsDedicated(c, s)
  BY <1>1 DEF MindsDedicated, RetireSteps
<1>6. CASE c \in registered
  <2>1. \E x \in Steps(<<Work("check", c)>>) : x.conn = c /\ x.do = "check"
    BY OneTends
  <2>2. MindsIdle(c, <<Work("check", c)>>)
    BY <1>1, <1>3, <2>1 DEF MindsIdle, Unused, Settled, TendSteps
  <2> QED
    BY <1>1, <1>2, <1>4, <1>5, <1>6, <2>2, IdleKeptOne
<1>7. CASE c \notin registered
  <2>1. MindsIdle(c, <<>>)
    BY <1>1, <1>3, <1>7 DEF MindsIdle, Unused, Settled, TendSteps
  <2> QED
    BY <1>1, <1>2, <1>4, <1>5, <1>7, <2>1, IdleKeptNone
<1> QED
  BY <1>6, <1>7

\* set_keep_alive(true) and the end of a transport are no steps of a method.
LEMMA OutsideIdle ==
  ASSUME IdleInv, UNCHANGED <<registered, state, refCount, call, todo>>, kept \subseteq kept',
         \A c \in Conns : timers'[c] = timers[c] \/ (c \in kept' /\ timers'[c].starting = {})
  PROVE  IdleInv'
<1>1. \A a \in Actors : Pending(a)' = Pending(a)
  BY DEF Pending
<1>2. StartersWrite'
  BY DEF IdleInv, StartersWrite
<1>3. ASSUME NEW c, NEW D PROVE Tended(c, D)' <=> Tended(c, D)
  BY <1>1 DEF Tended
<1>4. IdleTended'
  BY <1>3 DEF IdleInv, IdleTended, Unused, Settled
<1>5. DedicatedTended'
  BY <1>3 DEF IdleInv, DedicatedTended
<1> QED
  BY <1>2, <1>4, <1>5 DEF IdleInv

-----------------------------------------------------------------------------
(* The theorems *)

\* Initially there are no entries.
LEMMA InitIdle == Init => IdleInv
<1> SUFFICES ASSUME Init PROVE IdleInv
  OBVIOUS
<1>1. \A a \in Actors : Pending(a) = {}
  BY NoCallType, StepsOf DEF Init, Pending
<1> QED
  BY <1>1 DEF Init, IdleInv, StartersWrite, IdleTended, DedicatedTended, Unused, NoTimers

\* Every step keeps the invariant.
LEMMA NextIdle == CountInv /\ IdleInv /\ [Next]_vars => IdleInv'
<1> SUFFICES ASSUME CountInv, IdleInv, [Next]_vars PROVE IdleInv'
  OBVIOUS
<1>0. TypeOK
  BY DEF CountInv
<1>1. CASE UNCHANGED vars
  BY <1>0, <1>1, OutsideIdle DEF vars
<1>2. ASSUME NEW a \in Actors, ActorStep(a) PROVE IdleInv'
  BY <1>0, <1>2, CalmStepsKept, PushIdle, ReleaseIdle, CheckUnusedIdle, TimerIdle,
     WriteIdleIdle, TimeoutIdle, RetireIdle
  DEF ActorStep, CalmStep, TunnelStep
<1>3. ASSUME NEW a \in Threads, ThreadCall(a) PROVE IdleInv'
  <2>1. a \in Actors
    BY DEF Actors
  <2> QED
    BY <1>0, <1>3, <2>1, CalmStepsKept, AcquireIdle, AcquireDedicatedIdle
    DEF ThreadCall, CalmCall
<1>4. ASSUME NEW a \in Monitors, MonitorCall(a) PROVE IdleInv'
  <2>1. a \in Actors
    BY DEF Actors
  <2>2. ASSUME NEW c \in Conns, SetKeepAlive(a, c) PROVE IdleInv'
    <3>1. /\ UNCHANGED <<registered, state, refCount, call, todo>>
          /\ kept' = kept \union {c} /\ timers' = [timers EXCEPT ![c] = NoTimers]
      BY <2>2 DEF SetKeepAlive, poolVars, entryVars
    <3>2. \A d \in Conns : timers'[d] = timers[d] \/ (d \in kept' /\ timers'[d].starting = {})
      BY <1>0, <3>1 DEF TypeOK, NoTimers
    <3> QED
      BY <3>1, <3>2, OutsideIdle
  <2> QED
    BY <1>0, <1>4, <2>1, <2>2, CalmStepsKept, ClearKeepAliveIdle DEF MonitorCall, CalmCall
<1>5. ASSUME NEW c \in Conns, IdleTimeout(c) PROVE IdleInv'
  BY <1>5, IdleTimeoutIdle
<1>6. ASSUME NEW c \in Conns, TransportDies(c) PROVE IdleInv'
  BY <1>0, <1>6, OutsideIdle DEF TransportDies, poolVars, entryVars
<1> QED
  BY <1>1, <1>2, <1>3, <1>4, <1>5, <1>6 DEF Next

\* A connection that one of the steps D is pending on is being worked on.
LEMMA TendedInFlight ==
  ASSUME NEW c, NEW D, Tended(c, D)
  PROVE  InFlight(c)
<1>1. PICK a \in Actors : \E x \in Pending(a) : x.conn = c
  BY DEF Tended
<1>2. PICK x \in Pending(a) : x.conn = c
  BY <1>1
<1>3. CASE x = call[a]
  BY <1>2, <1>3 DEF InFlight, Pending
<1>4. CASE x \in Steps(todo[a])
  BY <1>2, <1>4 DEF InFlight, Steps
<1> QED
  BY <1>2, <1>3, <1>4 DEF Pending

\* Whatever releases, acquisitions, probes, lost links, timeouts and changes of the
\* settings do to each other, an unused entry has a sleeping timer of the current
\* generation or somebody is at work on it, unless Idle was written by a start that was
\* overtaken and nothing has bumped the generation since.
THEOREM IdleEntryHasTimer == Spec => []IdleHasTimer
<1>1. IdleInv => IdleHasTimer
  BY TendedInFlight DEF IdleInv, IdleTended, Settled, IdleHasTimer
<1> QED
  BY <1>1, InitCount, NextCount, InitIdle, NextIdle, PTL DEF Spec

\* A dedicated entry is never left registered without consumers: two releases that
\* race to take the last consumers away cannot both leave the retirement to the other.
THEOREM EmptyDedicatedIsRetired == Spec => []DedicatedIsRetired
<1>1. IdleInv => DedicatedIsRetired
  BY TendedInFlight DEF IdleInv, DedicatedTended, DedicatedIsRetired
<1> QED
  BY <1>1, InitCount, NextCount, InitIdle, NextIdle, PTL DEF Spec
=============================================================================
