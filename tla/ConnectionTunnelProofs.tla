----------------------- MODULE ConnectionTunnelProofs -----------------------
(***************************************************************************)
(* Theorems about ConnectionRegistry: a tunnelled child owns its parent    *)
(* through one ancestor consumer, from the moment its tunnel is committed  *)
(* until it is retired, and the idle timeout of a connection takes neither *)
(* a child nor a connection whose keep-alive is on.                        *)
(***************************************************************************)
EXTENDS ConnectionIdleProofs

-----------------------------------------------------------------------------
(* The invariant *)

\* The steps of a child's setup before its tunnel is committed.
EarlySteps == {"tunnel", "handshake", "commit"}

\* Actor a is setting up child d, or has committed it and has still to mark it.
SettingUp(a, d) == \E x \in Pending(a) : x.do \in TunnelSteps /\ x.conn = d

\* Actor a has still to commit the tunnel of child d.
Uncommitted(a, d) == \E x \in Pending(a) : x.do \in EarlySteps /\ x.conn = d

\* Actor a is about to take the ancestor consumer of child d.
TakingParent(a, d) == call[a] = Call("pushExisting", Hop[d], d)

\* Some actor has still to release the ancestor consumer of child d.
ReleasingParent(d) ==
    \E a \in Actors : \E x \in Pending(a) : x.do = "remove" /\ x.conn = Hop[d] /\ x.user = d

\* The parent of d is gone, or d is one of its consumers.
HoldsParent(d) == Hop[d] \in registered => d \in consumers[Hop[d]]

\* How a method may go on: the setup of a child has nothing scheduled after it, and
\* before it only the acquisition of the parent; views act for users.
Shape(a) ==
    /\ call[a].do \in TunnelSteps \union {"none"} => todo[a] = <<>>
    /\ \A x \in Steps(todo[a]) :
         x.do \in TunnelSteps =>
           /\ x.do = "tunnel" /\ todo[a] = <<x>>
           /\ TakingParent(a, x.conn) \/ call[a] = Work("activate", Hop[x.conn])
    /\ \A x \in Pending(a) : x.do \in ViewSteps => x.user \in Users
    /\ \A x \in Steps(todo[a]) : x.do = "pushExisting" => x.user \in Users
    /\ call[a].do = "pushExisting" =>
         \/ call[a].user \in Users
         \/ \E d \in Dedicated, u \in Users :
              TakingParent(a, d) /\ todo[a] = <<Call("tunnel", d, u)>>

Shapes == \A a \in Actors : Shape(a)

\* One actor sets up a child, once.
SetUpOnce(d) ==
    /\ \A a, b \in Actors : SettingUp(a, d) /\ SettingUp(b, d) => a = b
    /\ \A a \in Actors : SettingUp(a, d) => d \in used

\* Until the commit the ancestor consumer is there or about to be taken, and nobody
\* releases it.
SetUpHolds(d) ==
    \A a \in Actors : Uncommitted(a, d) =>
        /\ d \notin tunnelled
        /\ ~ReleasingParent(d)
        /\ Hop[d] \in used
        /\ HoldsParent(d) \/ TakingParent(a, d)

\* A child whose ancestor consumer is being released is not, and will not be, tunnelled.
ReleaseIsFinal(d) == ReleasingParent(d) => d \notin tunnelled /\ d \in used

\* A committed child holds its parent.
CommittedHolds(d) == d \in tunnelled => Hop[d] \in used /\ HoldsParent(d)

\* An ancestor consumer has an owner, or is about to be released.
AncestorIsOwned(d) ==
    d \in consumers[Hop[d]] =>
      /\ Hop[d] \in used
      /\ Hop[d] \in registered =>
           d \in tunnelled \/ ReleasingParent(d) \/ \E a \in Actors : Uncommitted(a, d)

Owned(d) ==
    SetUpOnce(d) /\ SetUpHolds(d) /\ ReleaseIsFinal(d) /\ CommittedHolds(d) /\ AncestorIsOwned(d)

\* The inductive invariant, beside the types.
TunnelInv == Shapes /\ \A d \in Dedicated : Owned(d)

-----------------------------------------------------------------------------
(* Steps that leave the setup of children alone *)

\* What a step may schedule without touching a child: no setup, and consumers only
\* for users.
Safe(s) ==
    \A x \in Steps(s) :
        /\ x.do \notin TunnelSteps \union {"none"}
        /\ x.do \in ViewSteps \union {"pushExisting", "remove"} => x.user \in Users

\* What it may schedule without losing its shape.
Shapely(s) ==
    \A x \in Steps(s) :
        /\ x.do \notin TunnelSteps \union {"none"}
        /\ x.do \in ViewSteps \union {"pushExisting"} => x.user \in Users

\* Users are no connections.
LEMMA UsersApart == \A d \in Dedicated : d \in Conns /\ d \notin Users /\ Hop[d] \in Conns
BY ConnectionRegistryAssumption

\* A step leaves the setup of a child as it was if neither the step nor what it
\* schedules is part of it; likewise for the release of its parent.
LEMMA PendingAbout ==
  ASSUME TypeOK, NEW a \in Actors, NEW s \in Seq(Calls), \A x \in Steps(s) : x.do # "none",
         Continue(a, s), NEW d \in Dedicated
  PROVE  /\ (\A x \in Steps(s) \union {call[a]} : x.do \in TunnelSteps => x.conn # d) =>
              \A b \in Actors : /\ SettingUp(b, d)' <=> SettingUp(b, d)
                                /\ Uncommitted(b, d)' <=> Uncommitted(b, d)
         /\ (\A x \in Steps(s) \union {call[a]} :
                ~(x.do = "remove" /\ x.conn = Hop[d] /\ x.user = d)) =>
              (ReleasingParent(d)' <=> ReleasingParent(d))
<1>1. /\ Pending(a)' = Steps(s) \union Steps(todo[a])
      /\ \A b \in Actors : b # a => Pending(b)' = Pending(b)
  BY ContinuePending
<1>2. \A x \in Steps(todo[a]) : x.do # "none"
  BY QueuedIsCall, StepsTyped DEF TypeOK
<1>3. \A x : x \in Pending(a) /\ x # call[a] => x \in Steps(todo[a])
  BY DEF Pending
<1>4. \A x \in Steps(todo[a]) : x \in Pending(a)
  BY <1>2 DEF Pending
<1>5. ASSUME \A x \in Steps(s) \union {call[a]} : x.do \in TunnelSteps => x.conn # d,
             NEW b \in Actors
      PROVE  /\ SettingUp(b, d)' <=> SettingUp(b, d)
             /\ Uncommitted(b, d)' <=> Uncommitted(b, d)
  <2>1. CASE b # a
    BY <1>1, <2>1 DEF SettingUp, Uncommitted
  <2>2. CASE b = a
    <3>1. \A x : x.do \in EarlySteps => x.do \in TunnelSteps
      BY DEF EarlySteps, TunnelSteps
    <3>2. \A x : x.do \in TunnelSteps /\ x.conn = d => (x \in Pending(a)' <=> x \in Pending(a))
      BY <1>1, <1>3, <1>4, <1>5
    <3> QED
      BY <2>2, <3>1, <3>2 DEF SettingUp, Uncommitted
  <2> QED
    BY <2>1, <2>2
<1>6. ASSUME \A x \in Steps(s) \union {call[a]} :
               ~(x.do = "remove" /\ x.conn = Hop[d] /\ x.user = d)
      PROVE  ReleasingParent(d)' <=> ReleasingParent(d)
  <2>1. \A x : x.do = "remove" /\ x.conn = Hop[d] /\ x.user = d =>
                (x \in Pending(a)' <=> x \in Pending(a))
    BY <1>1, <1>3, <1>4, <1>6
  <2> QED
    BY <1>1, <2>1 DEF ReleasingParent
<1> QED
  BY <1>5, <1>6

\* A step that schedules safe calls, of an actor that neither sets up a child nor
\* removes a consumer, leaves every setup and every release of a parent as it was.
LEMMA SafePending ==
  ASSUME TypeOK, NEW a \in Actors, NEW s \in Seq(Calls), Safe(s), Continue(a, s),
         call[a].do \notin TunnelSteps \union {"remove"}, NEW d \in Dedicated
  PROVE  /\ \A b \in Actors : /\ SettingUp(b, d)' <=> SettingUp(b, d)
                              /\ Uncommitted(b, d)' <=> Uncommitted(b, d)
         /\ ReleasingParent(d)' <=> ReleasingParent(d)
<1>1. \A x \in Steps(s) : x.do # "none"
  BY DEF Safe
<1>2. \A x \in Steps(s) \union {call[a]} : x.do \in TunnelSteps => x.conn # d
  BY DEF Safe
<1>3. \A x \in Steps(s) \union {call[a]} :
        ~(x.do = "remove" /\ x.conn = Hop[d] /\ x.user = d)
  BY UsersApart DEF Safe
<1> QED
  BY <1>1, <1>2, <1>3, PendingAbout

\* The parts of the invariant that concern a child d survive a step that leaves its
\* setup, its release, its link and its ancestor consumer alone.
LEMMA OwnedKept ==
  ASSUME NEW d \in Dedicated, Owned(d),
         \A b \in Actors : /\ SettingUp(b, d)' => SettingUp(b, d)
                           /\ Uncommitted(b, d)' <=> Uncommitted(b, d)
                           /\ Uncommitted(b, d) /\ TakingParent(b, d) =>
                                TakingParent(b, d)' \/ HoldsParent(d)',
         ReleasingParent(d)' <=> ReleasingParent(d),
         d \in tunnelled' <=> d \in tunnelled,
         used \subseteq used',
         Hop[d] \in used /\ Hop[d] \in registered' => Hop[d] \in registered,
         d \in consumers'[Hop[d]] <=> d \in consumers[Hop[d]]
  PROVE  Owned(d)'
<1>1. HoldsParent(d) /\ Hop[d] \in used => HoldsParent(d)'
  BY DEF HoldsParent
<1>2. SetUpOnce(d)'
  BY DEF Owned, SetUpOnce
<1>3. SetUpHolds(d)'
  BY <1>1 DEF Owned, SetUpHolds
<1>4. ReleaseIsFinal(d)'
  BY DEF Owned, ReleaseIsFinal
<1>5. CommittedHolds(d)'
  BY <1>1 DEF Owned, CommittedHolds
<1>6. AncestorIsOwned(d)'
  BY DEF Owned, AncestorIsOwned
<1> QED
  BY <1>2, <1>3, <1>4, <1>5, <1>6 DEF Owned

\* What an actor does next.
LEMMA ContinueNext ==
  ASSUME TypeOK, NEW a \in Actors, NEW s \in Seq(Calls), Continue(a, s)
  PROVE  /\ s \o todo[a] \in Seq(Calls)
         /\ Steps(s \o todo[a]) = Steps(s) \union Steps(todo[a])
         /\ \/ s \o todo[a] = <<>> /\ call'[a] = NoCall /\ todo'[a] = <<>>
            \/ /\ s \o todo[a] # <<>>
               /\ call'[a] = Head(s \o todo[a]) /\ todo'[a] = Tail(s \o todo[a])
         /\ \A b \in Actors : b # a => call'[b] = call[b] /\ todo'[b] = todo[b]
<1>1. call \in [Actors -> Calls] /\ todo \in [Actors -> Seq(QueuedCalls)]
  BY DEF TypeOK
<1>2. todo[a] \in Seq(Calls)
  BY <1>1, SeqMonotone, QueuedIsCall
<1>3. s \o todo[a] \in Seq(Calls) /\ Steps(s \o todo[a]) = Steps(s) \union Steps(todo[a])
  BY <1>2, StepsConcat, ConcatProperties
<1> DEFINE rest == s \o todo[a]
<1>4. /\ call' = [call EXCEPT ![a] = IF rest = <<>> THEN NoCall ELSE Head(rest)]
      /\ todo' = [todo EXCEPT ![a] = IF rest = <<>> THEN <<>> ELSE Tail(rest)]
  BY DEF Continue
<1> HIDE DEF rest
<1>5. \A b \in Actors : b # a => call'[b] = call[b] /\ todo'[b] = todo[b]
  BY <1>1, <1>4
<1>6. \/ rest = <<>> /\ call'[a] = NoCall /\ todo'[a] = <<>>
      \/ rest # <<>> /\ call'[a] = Head(rest) /\ todo'[a] = Tail(rest)
  BY <1>1, <1>4
<1> QED
  BY <1>3, <1>5, <1>6 DEF rest

\* The shape of an actor that does not move.
LEMMA OtherShape ==
  ASSUME NEW b, Shape(b), call'[b] = call[b], todo'[b] = todo[b]
  PROVE  Shape(b)'
BY DEF Shape, Pending, TakingParent

\* An actor that schedules no setup keeps its shape; one that has a setup
\* scheduled schedules nothing.
LEMMA ShapesKept ==
  ASSUME TypeOK, Shapes, NEW a \in Actors, NEW s \in Seq(Calls), Shapely(s), Continue(a, s),
         (\A x \in Steps(todo[a]) : x.do \notin TunnelSteps) \/ s = <<>>
  PROVE  Shapes'
<1> DEFINE rest == s \o todo[a]
<1>1. /\ rest \in Seq(Calls) /\ Steps(rest) = Steps(s) \union Steps(todo[a])
      /\ \/ rest = <<>> /\ call'[a] = NoCall /\ todo'[a] = <<>>
         \/ rest # <<>> /\ call'[a] = Head(rest) /\ todo'[a] = Tail(rest)
      /\ \A b \in Actors : b # a => call'[b] = call[b] /\ todo'[b] = todo[b]
  BY ContinueNext
<1>2. Pending(a)' = Steps(s) \union Steps(todo[a])
  BY ContinuePending DEF Shapely
<1>3. \A x \in Steps(todo[a]) : x.do # "none" /\ x \in Pending(a)
  BY QueuedIsCall, StepsTyped DEF TypeOK, Pending
<1>4. \A x \in Steps(rest) : x.do \in ViewSteps \union {"pushExisting"} => x.user \in Users
  BY <1>1, <1>3 DEF Shapely, Shapes, Shape
<1>e. rest = <<>> => Steps(rest) = {}
  BY StepsOf
<1>h. rest # <<>> => Head(rest) \in Steps(rest) /\ Steps(Tail(rest)) \subseteq Steps(rest)
  BY <1>1, StepsHeadTail
<1>5. Shape(a)'
  <2>1. CASE \A x \in Steps(todo[a]) : x.do \notin TunnelSteps
    <3>1. \A x \in Steps(rest) : x.do \notin TunnelSteps \union {"none"}
      BY <1>1, <1>3, <2>1 DEF Shapely
    <3> HIDE DEF rest
    <3>2. CASE rest = <<>>
      BY <1>1, <1>2, <1>e, <3>2, StepsOf, NoCallType DEF Shape, TunnelSteps
    <3>3. CASE rest # <<>>
      BY <1>1, <1>2, <1>4, <1>h, <3>1, <3>3 DEF Shape
    <3> QED
      BY <3>2, <3>3
  <2>2. CASE s = <<>> /\ ~(\A x \in Steps(todo[a]) : x.do \notin TunnelSteps)
    <3>1. PICK x \in Steps(todo[a]) : x.do \in TunnelSteps
      BY <2>2
    <3>2. todo[a] = <<x>> /\ x.do = "tunnel" /\ x.user \in Users
      <4>1. x.do \in ViewSteps
        BY <3>1 DEF ViewSteps
      <4> QED
        BY <1>3, <3>1, <4>1 DEF Shapes, Shape
    <3>3. rest = <<x>>
      BY <2>2, <3>2
    <3>4. call'[a] = x /\ todo'[a] = <<>>
      BY <1>1, <3>3
    <3>5. Pending(a)' = {x}
      BY <1>2, <2>2, <3>2, StepsOf
    <3> QED
      BY <3>2, <3>4, <3>5, StepsOf DEF Shape
  <2> QED
    BY <2>1, <2>2
<1>6. ASSUME NEW b \in Actors, b # a PROVE Shape(b)'
  BY <1>1, <1>6, OtherShape DEF Shapes
<1> QED
  BY <1>5, <1>6 DEF Shapes

\* A step that schedules safe calls and leaves children and their consumers alone keeps
\* the invariant.
LEMMA SafeUserKept ==
  ASSUME TypeOK, TunnelInv, NEW a \in Actors, NEW s \in Seq(Calls), Safe(s), Continue(a, s),
         call[a].do \notin TunnelSteps \union {"remove"},
         \A d \in Dedicated : ~TakingParent(a, d),
         call[a].do = "activate" => s = <<>>,
         UNCHANGED tunnelled, used \subseteq used',
         \A c \in registered' : c \in registered \/ c \notin used,
         \A d \in Dedicated : d \in consumers'[Hop[d]] <=> d \in consumers[Hop[d]]
  PROVE  TunnelInv'
<1>1. (\A x \in Steps(todo[a]) : x.do \notin TunnelSteps) \/ s = <<>>
  <2>1. ASSUME NEW x \in Steps(todo[a]), x.do \in TunnelSteps PROVE s = <<>>
    <3>1. TakingParent(a, x.conn) \/ call[a] = Work("activate", Hop[x.conn])
      BY <2>1 DEF TunnelInv, Shapes, Shape
    <3>2. x.conn \in Dedicated
      <4>1. x \in Calls
        BY StepsTyped, QueuedIsCall DEF TypeOK
      <4> QED
        BY <2>1, <4>1, CallFields
    <3> QED
      BY <3>1, <3>2, CallParts
  <2> QED
    BY <2>1
<1>2. Shapes'
  <2>1. Shapely(s)
    BY DEF Safe, Shapely
  <2> QED
    BY <1>1, <2>1, ShapesKept DEF TunnelInv
<1>3. ASSUME NEW d \in Dedicated PROVE Owned(d)'
  <2>1. ASSUME NEW b \in Actors, TakingParent(b, d) PROVE TakingParent(b, d)'
    <3>1. b # a
      BY <2>1
    <3>2. call'[b] = call[b]
      BY <3>1, ContinueNext
    <3> QED
      BY <2>1, <3>2 DEF TakingParent
  <2>2. /\ \A b \in Actors : /\ SettingUp(b, d)' <=> SettingUp(b, d)
                             /\ Uncommitted(b, d)' <=> Uncommitted(b, d)
        /\ ReleasingParent(d)' <=> ReleasingParent(d)
    BY SafePending
  <2> QED
    BY <2>1, <2>2, OwnedKept DEF TunnelInv
<1> QED
  BY <1>2, <1>3 DEF TunnelInv

\* The same for a step that adds no consumer to a registered entry.
LEMMA SafeKept ==
  ASSUME TypeOK, TunnelInv, NEW a \in Actors, NEW s \in Seq(Calls), Safe(s), Continue(a, s),
         call[a].do \notin TunnelSteps \union {"remove", "pushExisting"},
         call[a].do = "activate" => s = <<>>,
         UNCHANGED tunnelled, used \subseteq used',
         \A c \in registered' : c \in registered \/ c \notin used,
         \A d \in Dedicated : d \in consumers'[Hop[d]] <=> d \in consumers[Hop[d]]
  PROVE  TunnelInv'
<1>1. \A d \in Dedicated : ~TakingParent(a, d)
  BY CallParts DEF TakingParent
<1> QED
  BY <1>1, SafeUserKept

\* Plain calls are safe: a step for a view carries on the user of the view.
LEMMA PlainIsSafe ==
  ASSUME TypeOK, TunnelInv, NEW a \in Actors, NEW s \in Seq(Plain(a))
  PROVE  s \in Seq(Calls) /\ Safe(s)
<1>1. Plain(a) \subseteq QueuedCalls /\ Plain(a) \subseteq Calls
  BY QueuedIsCall DEF Plain
<1>2. call[a].do \in ViewSteps => call[a].user \in Users
  <2>1. call[a].do \in ViewSteps => call[a] \in Pending(a)
    BY DEF Pending, ViewSteps, TunnelSteps
  <2> QED
    BY <2>1 DEF TunnelInv, Shapes, Shape
<1>3. \A x \in Plain(a) : /\ x.do \notin TunnelSteps \union {"none"}
                          /\ x.do \in ViewSteps \union {"pushExisting", "remove"} => x.user \in Users
  BY <1>1, <1>2, QueuedIsCall DEF Plain
<1> QED
  BY <1>1, <1>3, SeqMonotone, StepsTyped DEF Safe

\* The plain steps that leave the registry and the consumers alone.
QuietStep(a) ==
    \/ Connect(a) \/ Reuse(a) \/ DialSucceeds(a) \/ DialFails(a)
    \/ MarkActive(a) \/ CheckShell(a) \/ ChannelOpens(a) \/ ChannelFails(a)
    \/ Decrement(a) \/ KeepIdle(a) \/ BumpIdle(a) \/ ReadGeneration(a) \/ WriteIdle(a)
    \/ CheckTimeout(a) \/ Cascade(a) \/ DropTransport(a) \/ MarkGone(a)
    \/ Retime(a) \/ LinkDown(a) \/ ClearPhysical(a) \/ ProbeRecovers(a) \/ ProbeFails(a)

\* They keep the invariant.
LEMMA QuietStepTunnel ==
  ASSUME TypeOK, TunnelInv, NEW a \in Actors, QuietStep(a)
  PROVE  TunnelInv'
<1>1. UNCHANGED <<used, registered, tunnelled, consumers>>
  BY DEF QuietStep, Connect, Reuse, DialSucceeds, DialFails, MarkActive, CheckShell,
         ChannelOpens, ChannelFails, Decrement, KeepIdle, BumpIdle, ReadGeneration,
         WriteIdle, CheckTimeout, Cascade, DropTransport, MarkGone,
         Retime, LinkDown, ClearPhysical, ProbeRecovers, ProbeFails, poolVars, entryVars
<1>2. call[a].do \notin TunnelSteps \union {"remove", "pushExisting", "activate"}
  BY DEF QuietStep, Connect, Reuse, DialSucceeds, DialFails, MarkActive, CheckShell,
         ChannelOpens, ChannelFails, Decrement, KeepIdle, BumpIdle, ReadGeneration,
         WriteIdle, CheckTimeout, Cascade, DropTransport, MarkGone,
         Retime, LinkDown, ClearPhysical, ProbeRecovers, ProbeFails, TunnelSteps
<1>3. PICK s \in Seq(Plain(a)) : Continue(a, s)
  BY PlainStepPlans DEF QuietStep, PlainStep
<1>4. s \in Seq(Calls) /\ Safe(s)
  BY PlainIsSafe
<1> QED
  BY <1>1, <1>2, <1>3, <1>4, SafeKept

\* So do the calls that leave the consumers alone; a new shared entry has an id that
\* no child tunnels through yet.
LEMMA PlainCallTunnel ==
  ASSUME TypeOK, TunnelInv, NEW a \in Actors, PlainCall(a)
  PROVE  TunnelInv'
<1>1. /\ UNCHANGED <<tunnelled, consumers>> /\ used \subseteq used'
      /\ \A c \in registered' : c \in registered \/ c \notin used
  <2>1. ASSUME NEW k \in Keys, NEW u \in Users, Acquire(a, k, u)
        PROVE  /\ UNCHANGED <<tunnelled, consumers>> /\ used \subseteq used'
               /\ \A c \in registered' : c \in registered \/ c \notin used
    BY <2>1 DEF Acquire, entryVars
  <2> QED
    BY <2>1 DEF PlainCall, Borrow, Release, ClearKeepAlive, SetIdleTimeout, HeartbeatDead,
                ProbeSingle, IdleTimeout, poolVars, entryVars
<1>2. call[a].do = "none"
  BY DEF PlainCall, Acquire, Borrow, Release, ClearKeepAlive, SetIdleTimeout, HeartbeatDead,
         ProbeSingle, IdleTimeout, Resting
<1>3. PICK s \in Seq(Plain(a)) : Continue(a, s)
  BY PlainCallPlans
<1>4. s \in Seq(Calls) /\ Safe(s)
  BY PlainIsSafe
<1>5. call[a].do \notin TunnelSteps \union {"remove", "pushExisting", "activate"}
  BY <1>2 DEF TunnelSteps
<1> QED
  BY <1>1, <1>3, <1>4, <1>5, SafeKept

\* Safe short plans.
LEMMA ShortSafe ==
  /\ Safe(<<>>)
  /\ \A c \in Conns : \A do \in {"unused", "retire", "keepIdle", "bump", "decrement", "activate"} :
       Safe(<<Work(do, c)>>)
  /\ \A c \in Conns : Safe(<<Work("drop", c), Work("gone", c), Work("retire", c)>>)
<1>1. Safe(<<>>)
  BY StepsOf DEF Safe
<1>2. ASSUME NEW c \in Conns,
             NEW do \in {"unused", "retire", "keepIdle", "bump", "decrement", "activate"}
      PROVE  Safe(<<Work(do, c)>>)
  <2> DEFINE x == Work(do, c)
  <2>1. x.do = do
    BY CallParts
  <2> HIDE DEF x
  <2>2. Steps(<<x>>) = {x}
    BY StepsOf
  <2>3. Safe(<<x>>)
    BY <2>1, <2>2 DEF Safe, TunnelSteps, ViewSteps
  <2> QED
    BY <2>3 DEF x
<1>3. ASSUME NEW c \in Conns PROVE Safe(<<Work("drop", c), Work("gone", c), Work("retire", c)>>)
  <2> DEFINE x == Work("drop", c)
             y == Work("gone", c)
             z == Work("retire", c)
  <2>1. /\ x \in Calls /\ y \in Calls /\ z \in Calls
        /\ x.do = "drop" /\ y.do = "gone" /\ z.do = "retire"
    BY WorkCalls
  <2> HIDE DEF x, y, z
  <2>2. Steps(<<x, y, z>>) = {x, y, z}
    BY <2>1, ShortPlans
  <2>3. Safe(<<x, y, z>>)
    BY <2>1, <2>2 DEF Safe, TunnelSteps, ViewSteps
  <2> QED
    BY <2>3 DEF x, y, z
<1> QED
  BY <1>1, <1>2, <1>3

\* Writing Active, deciding what becomes of an unused entry, and disconnecting one.
LEMMA ShortStepTunnel ==
  ASSUME TypeOK, TunnelInv, NEW a \in Actors, Activate(a) \/ CheckUnused(a) \/ Disconnect(a)
  PROVE  TunnelInv'
<1> DEFINE c == call[a].conn
<1>1. c \in Conns
  BY CallFields DEF TypeOK
<1>2. /\ UNCHANGED <<used, registered, tunnelled, consumers>>
      /\ call[a].do \notin TunnelSteps \union {"remove", "pushExisting"}
  BY DEF Activate, CheckUnused, Disconnect, TunnelSteps, poolVars, entryVars
<1>3. CASE Activate(a)
  BY <1>2, <1>3, SafeKept, ShortPlans, ShortSafe DEF Activate, Return
<1>4. CASE CheckUnused(a)
  <2>1. \/ Continue(a, <<>>)
        \/ Continue(a, <<Work("retire", c)>>)
        \/ Continue(a, <<Work("keepIdle", c)>>)
        \/ Continue(a, <<Work("bump", c)>>)
    BY <1>4 DEF CheckUnused, Return
  <2>2. call[a].do = "unused"
    BY <1>4 DEF CheckUnused
  <2> HIDE DEF c
  <2>3. \A do \in {"retire", "keepIdle", "bump"} :
          <<Work(do, c)>> \in Seq(Calls) /\ Safe(<<Work(do, c)>>)
    <3>1. Work("retire", c) \in Calls /\ Work("keepIdle", c) \in Calls /\ Work("bump", c) \in Calls
      BY <1>1, WorkCalls
    <3> QED
      BY <1>1, <3>1, ShortSafe, ShortPlans
  <2>4. CASE Continue(a, <<>>)
    BY <1>2, <2>2, <2>4, SafeKept, ShortPlans, ShortSafe
  <2>5. CASE Continue(a, <<Work("retire", c)>>)
    BY <1>2, <2>2, <2>3, <2>5, SafeKept
  <2>6. CASE Continue(a, <<Work("keepIdle", c)>>)
    BY <1>2, <2>2, <2>3, <2>6, SafeKept
  <2>7. CASE Continue(a, <<Work("bump", c)>>)
    BY <1>2, <2>2, <2>3, <2>7, SafeKept
  <2> QED
    BY <2>1, <2>4, <2>5, <2>6, <2>7
<1>5. CASE Disconnect(a)
  <2>1. \/ Continue(a, <<>>)
        \/ Continue(a, <<Work("drop", c), Work("gone", c), Work("retire", c)>>)
    BY <1>5 DEF Disconnect, Return
  <2>2. call[a].do = "disconnect"
    BY <1>5 DEF Disconnect
  <2> HIDE DEF c
  <2>3. CASE Continue(a, <<>>)
    BY <1>2, <2>2, <2>3, SafeKept, ShortPlans, ShortSafe
  <2>4. CASE Continue(a, <<Work("drop", c), Work("gone", c), Work("retire", c)>>)
    <3>1. Work("drop", c) \in Calls /\ Work("gone", c) \in Calls /\ Work("retire", c) \in Calls
      BY <1>1, WorkCalls
    <3>2. <<Work("drop", c), Work("gone", c), Work("retire", c)>> \in Seq(Calls)
      BY <3>1, ShortPlans
    <3> QED
      BY <1>1, <1>2, <2>2, <2>4, <3>2, SafeKept, ShortSafe
  <2> QED
    BY <2>1, <2>3, <2>4
<1> QED
  BY <1>3, <1>4, <1>5

\* acquire, second part: the new consumer is a user.
LEMMA PushTunnel ==
  ASSUME TypeOK, TunnelInv, NEW a \in Actors, Push(a)
  PROVE  TunnelInv'
<1> DEFINE c == call[a].conn
           u == call[a].user
<1>1. call[a].do = "push" /\ c \in Conns /\ u \in Users
  <2>1. call[a].do = "push"
    BY DEF Push
  <2>2. call[a] \in Pending(a) /\ call[a].do \in ViewSteps
    BY <2>1 DEF Pending, ViewSteps
  <2> QED
    BY <2>1, <2>2, CallFields DEF TunnelInv, Shapes, Shape, TypeOK
<1>2. /\ consumers' = [consumers EXCEPT ![c] = @ \union {u}]
      /\ UNCHANGED <<used, registered, tunnelled>> /\ Continue(a, <<>>)
  BY DEF Push, AddConsumer, Return, poolVars
<1>3. \A d \in Dedicated : d \in consumers'[Hop[d]] <=> d \in consumers[Hop[d]]
  BY <1>1, <1>2, UsersApart DEF TypeOK
<1>4. call[a].do \notin TunnelSteps \union {"remove", "pushExisting", "activate"}
  BY <1>1 DEF TunnelSteps
<1> QED
  BY <1>2, <1>3, <1>4, SafeKept, ShortPlans, ShortSafe

-----------------------------------------------------------------------------
(* The setup of a child *)

\* An actor in the setup of a child has nothing else to do.
LEMMA SetupFacts ==
  ASSUME TypeOK, TunnelInv, NEW a \in Actors, call[a].do \in TunnelSteps
  PROVE  /\ call[a].conn \in Dedicated /\ call[a].user \in Users
         /\ todo[a] = <<>> /\ Pending(a) = {call[a]}
         /\ SettingUp(a, call[a].conn)
         /\ \A d \in Dedicated : ~TakingParent(a, d)
<1>1. call[a].conn \in Dedicated
  BY CallFields DEF TypeOK
<1>2. todo[a] = <<>>
  BY DEF TunnelInv, Shapes, Shape
<1>3. Pending(a) = {call[a]}
  BY <1>2, StepsOf DEF Pending, TunnelSteps
<1>4. call[a].user \in Users
  BY <1>3 DEF TunnelInv, Shapes, Shape, ViewSteps
<1>5. \A d \in Dedicated : ~TakingParent(a, d)
  BY CallParts DEF TakingParent, TunnelSteps
<1> QED
  BY <1>1, <1>2, <1>3, <1>4, <1>5 DEF SettingUp

\* A step of a child's setup leaves the other children alone.
LEMMA OtherChildren ==
  ASSUME TypeOK, TunnelInv, NEW a \in Actors, NEW c \in Dedicated,
         call[a].do \in TunnelSteps, call[a].conn = c,
         NEW s \in Seq(Calls), Continue(a, s),
         \A x \in Steps(s) : /\ x.do # "none"
                             /\ x.do \in TunnelSteps => x.conn = c
                             /\ x.do = "remove" => x.user \in Users \union {c},
         UNCHANGED <<used, registered, consumers>>,
         NEW d \in Dedicated, d # c, d \in tunnelled' <=> d \in tunnelled
  PROVE  Owned(d)'
<1>1. /\ \A b \in Actors : /\ SettingUp(b, d)' <=> SettingUp(b, d)
                           /\ Uncommitted(b, d)' <=> Uncommitted(b, d)
      /\ ReleasingParent(d)' <=> ReleasingParent(d)
  <2>1. \A x \in Steps(s) \union {call[a]} : x.do \in TunnelSteps => x.conn # d
    OBVIOUS
  <2>2. \A x \in Steps(s) \union {call[a]} :
          ~(x.do = "remove" /\ x.conn = Hop[d] /\ x.user = d)
    BY UsersApart DEF TunnelSteps
  <2> QED
    BY <2>1, <2>2, PendingAbout
<1>2. \A b \in Actors : TakingParent(b, d) => TakingParent(b, d)'
  <2>1. ASSUME NEW b \in Actors, TakingParent(b, d) PROVE TakingParent(b, d)'
    <3>1. b # a
      BY <2>1, SetupFacts
    <3> QED
      BY <2>1, <3>1, ContinueNext DEF TakingParent
  <2> QED
    BY <2>1
<1> QED
  BY <1>1, <1>2, OwnedKept DEF TunnelInv

\* The shape of an actor that goes on with the setup.
LEMMA SetupShape ==
  ASSUME TypeOK, TunnelInv, NEW a \in Actors, call[a].do \in TunnelSteps,
         NEW x \in Calls, Continue(a, <<x>>), x.do \in TunnelSteps, x.user \in Users
  PROVE  Shapes' /\ Pending(a)' = {x} /\ call'[a] = x
<1>1. todo[a] = <<>>
  BY SetupFacts
<1>2. <<x>> \in Seq(Calls) /\ Steps(<<x>>) = {x} /\ x.do # "none"
  BY StepsOf DEF TunnelSteps
<1>3. /\ <<x>> \o todo[a] = <<x>> /\ <<x>> # <<>>
      /\ Head(<<x>>) = x /\ Tail(<<x>>) = <<>>
  BY <1>1
<1>4. /\ call'[a] = x /\ todo'[a] = <<>>
      /\ \A b \in Actors : b # a => call'[b] = call[b] /\ todo'[b] = todo[b]
  <2>1. /\ \/ <<x>> \o todo[a] = <<>> /\ call'[a] = NoCall /\ todo'[a] = <<>>
           \/ /\ <<x>> \o todo[a] # <<>>
              /\ call'[a] = Head(<<x>> \o todo[a]) /\ todo'[a] = Tail(<<x>> \o todo[a])
        /\ \A b \in Actors : b # a => call'[b] = call[b] /\ todo'[b] = todo[b]
    BY <1>2, ContinueNext
  <2> QED
    BY <1>3, <2>1
<1>5. Pending(a)' = {x}
  <2>1. \A y \in Steps(<<x>>) : y.do # "none"
    BY <1>2
  <2>2. Pending(a)' = Steps(<<x>>) \union Steps(todo[a])
    BY <1>2, <2>1, ContinuePending
  <2> QED
    BY <1>1, <1>2, <2>2, StepsOf
<1>6. Shape(a)'
  BY <1>4, <1>5, StepsOf DEF Shape, TunnelSteps
<1>7. ASSUME NEW b \in Actors, b # a PROVE Shape(b)'
  BY <1>4, <1>7, OtherShape DEF TunnelInv, Shapes
<1> QED
  BY <1>4, <1>5, <1>6, <1>7 DEF Shapes

\* connect_child_node_via_parent_with_registry before the commit.
LEMMA SetupGoesOn ==
  ASSUME TypeOK, TunnelInv, NEW a \in Actors, OpenTunnel(a) \/ TunnelSucceeds(a)
  PROVE  TunnelInv'
<1> DEFINE c == call[a].conn
           u == call[a].user
           x == Call(IF call[a].do = "tunnel" THEN "handshake" ELSE "commit", c, u)
<1>1. /\ call[a].do \in {"tunnel", "handshake"}
      /\ Continue(a, <<x>>)
      /\ UNCHANGED <<used, registered, tunnelled, consumers>>
  BY DEF OpenTunnel, TunnelSucceeds, poolVars, entryVars
<1>2. call[a].do \in TunnelSteps /\ call[a].do \in EarlySteps
  BY <1>1 DEF TunnelSteps, EarlySteps
<1>3. c \in Dedicated /\ u \in Users /\ Pending(a) = {call[a]} /\ \A d \in Dedicated : ~TakingParent(a, d)
  BY <1>2, SetupFacts
<1>4. x.do \in {"handshake", "commit"} /\ x.conn = c /\ x.user = u
  BY CallParts
<1>5. x \in Calls
  <2>1. c \in Conns /\ u \in Consumers
    BY <1>3, ConnectionRegistryAssumption DEF Consumers
  <2>2. Call("handshake", c, u) \in Calls /\ Call("commit", c, u) \in Calls
    BY <1>3, <2>1, CallType, QueuedIsCall DEF TunnelSteps
  <2> QED
    BY <2>2
<1> HIDE DEF x
<1>6. x.do \in TunnelSteps /\ x.do \in EarlySteps
  BY <1>4 DEF TunnelSteps, EarlySteps
<1>7. Shapes' /\ Pending(a)' = {x} /\ call'[a] = x
  BY <1>1, <1>2, <1>3, <1>4, <1>5, <1>6, SetupShape
<1>8. /\ <<x>> \in Seq(Calls) /\ Steps(<<x>>) = {x}
      /\ x.do # "none" /\ x.do # "remove"
  BY <1>4, <1>5, StepsOf
<1>9. ASSUME NEW d \in Dedicated, d # c PROVE Owned(d)'
  BY <1>1, <1>2, <1>3, <1>4, <1>8, <1>9, OtherChildren
<1>10. ASSUME NEW d \in Dedicated, d = c PROVE Owned(d)'
  <2>1. \A b \in Actors : b # a => Pending(b)' = Pending(b) /\ call'[b] = call[b]
    BY <1>1, <1>8, ContinuePending
  <2>2. \A b \in Actors : /\ SettingUp(b, d)' <=> SettingUp(b, d)
                          /\ Uncommitted(b, d)' <=> Uncommitted(b, d)
                          /\ TakingParent(b, d) => TakingParent(b, d)'
    BY <1>2, <1>3, <1>4, <1>6, <1>7, <1>10, <2>1 DEF SettingUp, Uncommitted, TakingParent
  <2>3. ReleasingParent(d)' <=> ReleasingParent(d)
    <3>1. \A y \in Steps(<<x>>) \union {call[a]} :
            ~(y.do = "remove" /\ y.conn = Hop[d] /\ y.user = d)
      BY <1>1, <1>8
    <3>2. \A y \in Steps(<<x>>) : y.do # "none"
      BY <1>8
    <3> QED
      BY <1>1, <1>8, <3>1, <3>2, PendingAbout
  <2> QED
    BY <1>1, <2>2, <2>3, OwnedKept DEF TunnelInv
<1> QED
  BY <1>7, <1>9, <1>10 DEF TunnelInv

\* A setup that ends without a tunnel: both guards release.
LEMMA SetupEnds ==
  ASSUME TypeOK, TunnelInv, NEW a \in Actors, NEW c \in Dedicated,
         call[a].do \in TunnelSteps, call[a].conn = c, c \notin tunnelled,
         NEW s \in Seq(Calls), Continue(a, s), Shapely(s),
         Call("remove", Hop[c], c) \in Steps(s),
         \A x \in Steps(s) : x.do = "remove" => x.user \in Users \union {c},
         UNCHANGED <<used, registered, tunnelled, consumers>>
  PROVE  TunnelInv'
<1> DEFINE r == Call("remove", Hop[c], c)
<1>1. r \in Steps(s) /\ r.do = "remove" /\ r.conn = Hop[c] /\ r.user = c
  BY CallParts
<1> HIDE DEF r
<1>2. /\ todo[a] = <<>> /\ Pending(a) = {call[a]} /\ SettingUp(a, c)
  BY SetupFacts
<1>3. \A x \in Steps(s) : x.do \notin TunnelSteps /\ x.do # "none"
  BY DEF Shapely
<1>4. /\ Pending(a)' = Steps(s)
      /\ \A b \in Actors : b # a => Pending(b)' = Pending(b)
  <2>1. /\ Pending(a)' = Steps(s) \union Steps(todo[a])
        /\ \A b \in Actors : b # a => Pending(b)' = Pending(b)
    BY <1>3, ContinuePending
  <2> QED
    BY <1>2, <2>1, StepsOf
<1>5. Shapes'
  <2>1. \A x \in Steps(todo[a]) : x.do \notin TunnelSteps
    BY <1>2, StepsOf
  <2> QED
    BY <2>1, ShapesKept DEF TunnelInv
<1>6. ASSUME NEW d \in Dedicated, d # c PROVE Owned(d)'
  BY <1>3, <1>6, OtherChildren
<1>7. Owned(c)'
  <2>1. ASSUME NEW b \in Actors PROVE ~SettingUp(b, c)' /\ ~Uncommitted(b, c)'
    <3>1. \A x : x.do \in EarlySteps => x.do \in TunnelSteps
      BY DEF EarlySteps, TunnelSteps
    <3>2. CASE b = a
      BY <1>3, <1>4, <3>1, <3>2 DEF SettingUp, Uncommitted
    <3>3. CASE b # a
      <4>1. ~SettingUp(b, c)
        BY <1>2, <3>3 DEF TunnelInv, Owned, SetUpOnce
      <4> QED
        BY <1>4, <3>1, <3>3, <4>1 DEF SettingUp, Uncommitted
    <3> QED
      BY <3>2, <3>3
  <2>2. ReleasingParent(c)'
    BY <1>1, <1>4 DEF ReleasingParent
  <2>3. c \in used
    BY <1>2 DEF TunnelInv, Owned, SetUpOnce
  <2>4. AncestorIsOwned(c)'
    BY <2>2 DEF TunnelInv, Owned, AncestorIsOwned
  <2> QED
    BY <2>1, <2>2, <2>3, <2>4
    DEF Owned, SetUpOnce, SetUpHolds, ReleaseIsFinal, CommittedHolds
<1> QED
  BY <1>5, <1>6, <1>7 DEF TunnelInv

\* What the two guards release, and the transport that a failed commit clears.
LEMMA GuardsPlan ==
  ASSUME NEW c \in Dedicated, NEW u \in Users,
         NEW s, s \in {GuardsRelease(c, u), GuardsRelease(c, u) \o <<Work("clear", c)>>}
  PROVE  /\ s \in Seq(Calls) /\ Shapely(s)
         /\ Call("remove", Hop[c], c) \in Steps(s)
         /\ \A x \in Steps(s) : x.do = "remove" => x.user \in Users \union {c}
<1> DEFINE r == Call("remove", Hop[c], c)
           q == Call("remove", c, u)
           w == Work("clear", c)
<1>1. r \in Calls /\ q \in Calls /\ w \in Calls
  <2>1. c \in Conns /\ c \in Consumers /\ u \in Consumers /\ Hop[c] \in Conns
    BY ConnectionRegistryAssumption DEF Consumers
  <2>2. "remove" \in Queued /\ "clear" \in Queued
    BY DEF Queued
  <2> QED
    BY <2>1, <2>2, CallType, QueuedIsCall
<1>2. /\ r.do = "remove" /\ r.user = c /\ q.do = "remove" /\ q.user = u
      /\ w.do = "clear"
  BY CallParts
<1>3. s = <<r, q>> \/ s = <<r, q>> \o <<w>>
  BY DEF GuardsRelease
<1> HIDE DEF r, q, w
<1>4. s \in Seq(Calls)
  <2>1. <<r, q>> \in Seq(Calls) /\ <<w>> \in Seq(Calls)
    BY <1>1, ShortPlans
  <2>2. <<r, q>> \o <<w>> \in Seq(Calls)
    BY <2>1, ConcatProperties
  <2> QED
    BY <1>3, <2>1, <2>2
<1>5. r \in Steps(s) /\ \A x \in Steps(s) : x \in {r, q, w}
  <2>1. Steps(<<r, q>>) = {r, q} /\ Steps(<<r, q>> \o <<w>>) = {r, q, w}
    BY StepsOf
  <2> QED
    BY <1>3, <2>1
<1>6. Shapely(s)
  BY <1>2, <1>5 DEF Shapely, TunnelSteps, ViewSteps
<1> QED
  BY <1>2, <1>4, <1>5, <1>6 DEF r

\* The tunnel fails or is cancelled.
LEMMA TunnelFailsTunnel ==
  ASSUME TypeOK, TunnelInv, NEW a \in Actors, TunnelFails(a)
  PROVE  TunnelInv'
<1> DEFINE c == call[a].conn
           u == call[a].user
<1>1. /\ call[a].do \in {"tunnel", "handshake"}
      /\ Continue(a, GuardsRelease(c, u))
      /\ UNCHANGED <<used, registered, tunnelled, consumers>>
  BY DEF TunnelFails, poolVars, entryVars
<1>2. call[a].do \in TunnelSteps /\ call[a].do \in EarlySteps
  BY <1>1 DEF TunnelSteps, EarlySteps
<1>3. c \in Dedicated /\ u \in Users /\ Pending(a) = {call[a]}
  BY <1>2, SetupFacts
<1>4. c \notin tunnelled
  <2>1. Uncommitted(a, c)
    BY <1>2, <1>3 DEF Uncommitted
  <2> QED
    BY <1>3, <2>1 DEF TunnelInv, Owned, SetUpHolds
<1> HIDE DEF u
<1>5. PICK s : s = GuardsRelease(c, u)
  OBVIOUS
<1>6. /\ s \in Seq(Calls) /\ Shapely(s)
      /\ Call("remove", Hop[c], c) \in Steps(s)
      /\ \A x \in Steps(s) : x.do = "remove" => x.user \in Users \union {c}
  BY <1>3, <1>5, GuardsPlan
<1> QED
  BY <1>1, <1>2, <1>3, <1>4, <1>5, <1>6, SetupEnds

\* commit_child_registry_ownership: set_parent_connection_ownership.
LEMMA CommitTunnel ==
  ASSUME TypeOK, TunnelInv, NEW a \in Actors, Commit(a)
  PROVE  TunnelInv'
<1>0. PICK c \in Dedicated : c = call[a].conn
  BY CallFields DEF TypeOK, Commit, TunnelSteps
<1> DEFINE u == call[a].user
<1>1. /\ call[a].do = "commit"
      /\ tunnelled' = IF c \in registered THEN tunnelled \union {c} ELSE tunnelled
      /\ Continue(a, IF c \in registered THEN <<Call("markChild", c, u)>>
                     ELSE GuardsRelease(c, u) \o <<Work("clear", c)>>)
      /\ UNCHANGED <<used, registered, consumers>>
  BY <1>0 DEF Commit, entryVars
<1>2. call[a].do \in TunnelSteps /\ call[a].do \in EarlySteps
  BY <1>1 DEF TunnelSteps, EarlySteps
<1>3. /\ u \in Users /\ Pending(a) = {call[a]} /\ SettingUp(a, c)
      /\ \A d \in Dedicated : ~TakingParent(a, d)
  BY <1>0, <1>2, SetupFacts
<1>4. Uncommitted(a, c)
  BY <1>0, <1>2, <1>3 DEF Uncommitted
<1>5. /\ c \notin tunnelled /\ ~ReleasingParent(c) /\ Hop[c] \in used /\ HoldsParent(c)
  BY <1>3, <1>4 DEF TunnelInv, Owned, SetUpHolds
<1> HIDE DEF u
<1>6. CASE c \notin registered
  <2>1. PICK s : s = GuardsRelease(c, u) \o <<Work("clear", c)>>
    OBVIOUS
  <2>2. /\ s \in Seq(Calls) /\ Shapely(s)
        /\ Call("remove", Hop[c], c) \in Steps(s)
        /\ \A x \in Steps(s) : x.do = "remove" => x.user \in Users \union {c}
    BY <1>3, <2>1, GuardsPlan
  <2> QED
    BY <1>0, <1>1, <1>2, <1>5, <1>6, <2>1, <2>2, SetupEnds
<1>7. CASE c \in registered
  <2> DEFINE x == Call("markChild", c, u)
  <2>1. x.do = "markChild" /\ x.conn = c /\ x.user = u
    BY CallParts
  <2>2. x \in Calls
    <3>1. c \in Conns /\ u \in Consumers
      BY <1>3, ConnectionRegistryAssumption DEF Consumers
    <3> QED
      BY <3>1, CallType, QueuedIsCall DEF TunnelSteps
  <2>3. Continue(a, <<x>>) /\ tunnelled' = tunnelled \union {c}
    BY <1>1, <1>7
  <2> HIDE DEF x
  <2>4. x.do \in TunnelSteps /\ x.do \notin EarlySteps
    BY <2>1 DEF TunnelSteps, EarlySteps
  <2>5. Shapes' /\ Pending(a)' = {x} /\ call'[a] = x
    BY <1>2, <1>3, <2>1, <2>2, <2>3, <2>4, SetupShape
  <2>6. <<x>> \in Seq(Calls) /\ Steps(<<x>>) = {x} /\ x.do # "none" /\ x.do # "remove"
    BY <2>1, <2>2, StepsOf
  <2>7. ASSUME NEW d \in Dedicated, d # c PROVE Owned(d)'
    BY <1>0, <1>1, <1>2, <2>1, <2>3, <2>6, <2>7, OtherChildren
  <2>8. \A b \in Actors : b # a => Pending(b)' = Pending(b)
    BY <2>3, <2>6, ContinuePending
  <2>9. ASSUME NEW b \in Actors PROVE ~Uncommitted(b, c)' /\ (SettingUp(b, c)' => b = a)
    <3>1. CASE b = a
      BY <2>4, <2>5, <3>1 DEF Uncommitted
    <3>2. CASE b # a
      <4>1. ~SettingUp(b, c)
        BY <1>3, <3>2 DEF TunnelInv, Owned, SetUpOnce
      <4>2. ~Uncommitted(b, c)
        BY <4>1 DEF SettingUp, Uncommitted, EarlySteps, TunnelSteps
      <4> QED
        BY <2>8, <3>2, <4>1, <4>2 DEF SettingUp, Uncommitted
    <3> QED
      BY <3>1, <3>2
  <2>10. ~ReleasingParent(c)'
    <3>1. \A b \in Actors : \A y \in Pending(b)' : y.do = "remove" => y \in Pending(b)
      BY <2>5, <2>6, <2>8
    <3> QED
      BY <1>5, <3>1 DEF ReleasingParent
  <2>11. c \in used
    BY <1>3 DEF TunnelInv, Owned, SetUpOnce
  <2>12. Owned(c)'
    BY <1>1, <1>5, <2>3, <2>9, <2>10, <2>11
    DEF Owned, SetUpOnce, SetUpHolds, ReleaseIsFinal, CommittedHolds, AncestorIsOwned, HoldsParent
  <2> QED
    BY <2>5, <2>7, <2>12 DEF TunnelInv
<1> QED
  BY <1>6, <1>7

\* ... then mark_state.
LEMMA MarkChildTunnel ==
  ASSUME TypeOK, TunnelInv, NEW a \in Actors, MarkChild(a)
  PROVE  TunnelInv'
<1>0. PICK c \in Dedicated : c = call[a].conn
  BY CallFields DEF TypeOK, MarkChild, TunnelSteps
<1> DEFINE u == call[a].user
<1>1. /\ call[a].do = "markChild"
      /\ Continue(a, IF c \in registered THEN <<Call("childShell", c, u)>>
                     ELSE GuardsRelease(c, u) \o <<Work("clear", c)>>)
      /\ UNCHANGED <<used, registered, tunnelled, consumers>>
  BY <1>0 DEF MarkChild, poolVars, entryVars
<1>2. call[a].do \in TunnelSteps /\ call[a].do \notin EarlySteps
  BY <1>1 DEF TunnelSteps, EarlySteps
<1>3. /\ u \in Users /\ todo[a] = <<>> /\ Pending(a) = {call[a]} /\ SettingUp(a, c)
      /\ \A d \in Dedicated : ~TakingParent(a, d)
  BY <1>0, <1>2, SetupFacts
<1> HIDE DEF u
<1>4. CASE c \notin registered
  <2>1. PICK s : s = GuardsRelease(c, u) \o <<Work("clear", c)>>
    OBVIOUS
  <2>2. /\ s \in Seq(Calls) /\ Shapely(s)
        /\ Call("remove", Hop[c], c) \in Steps(s)
        /\ \A x \in Steps(s) : x.do = "remove" => x.user \in Users \union {c}
    BY <1>3, <2>1, GuardsPlan
  <2>3. c \notin tunnelled
    BY <1>4 DEF TypeOK
  <2> QED
    BY <1>0, <1>1, <1>2, <1>4, <2>1, <2>2, <2>3, SetupEnds
<1>5. CASE c \in registered
  <2> DEFINE x == Call("childShell", c, u)
  <2>1. x.do = "childShell" /\ x.conn = c /\ x.user = u
    BY CallParts
  <2>2. x \in Calls
    <3>1. c \in Conns /\ u \in Consumers
      BY <1>3, ConnectionRegistryAssumption DEF Consumers
    <3> QED
      BY <3>1, CallType, QueuedIsCall DEF Queued
  <2>3. Continue(a, <<x>>)
    BY <1>1, <1>5
  <2> HIDE DEF x
  <2>4. /\ <<x>> \in Seq(Calls) /\ Steps(<<x>>) = {x}
        /\ x.do \notin TunnelSteps /\ x.do # "none" /\ x.do # "remove"
    BY <2>1, <2>2, StepsOf DEF TunnelSteps
  <2>5. \A y \in Steps(<<x>>) : y.do # "none"
    BY <2>4
  <2>6. Shapes'
    <3>1. Shapely(<<x>>)
      BY <1>3, <2>1, <2>4 DEF Shapely
    <3>2. \A y \in Steps(todo[a]) : y.do \notin TunnelSteps
      BY <1>3, StepsOf
    <3> QED
      BY <2>3, <2>4, <3>1, <3>2, ShapesKept DEF TunnelInv
  <2>7. ASSUME NEW d \in Dedicated, d # c PROVE Owned(d)'
    BY <1>0, <1>1, <1>2, <2>3, <2>4, <2>7, OtherChildren
  <2>8. /\ Pending(a)' = {x}
        /\ \A b \in Actors : b # a => Pending(b)' = Pending(b) /\ call'[b] = call[b]
    <3>1. /\ Pending(a)' = Steps(<<x>>) \union Steps(todo[a])
          /\ \A b \in Actors : b # a => Pending(b)' = Pending(b) /\ call'[b] = call[b]
      BY <2>3, <2>4, <2>5, ContinuePending
    <3> QED
      BY <1>3, <2>4, <3>1, StepsOf
  <2>9. \A b \in Actors : /\ SettingUp(b, c)' => SettingUp(b, c)
                          /\ Uncommitted(b, c)' <=> Uncommitted(b, c)
                          /\ TakingParent(b, c) => TakingParent(b, c)'
    <3>1. x.do \notin EarlySteps
      BY <2>1 DEF EarlySteps
    <3> QED
      BY <1>2, <1>3, <2>4, <2>8, <3>1 DEF SettingUp, Uncommitted, TakingParent
  <2>10. ReleasingParent(c)' <=> ReleasingParent(c)
    <3>1. \A y \in Steps(<<x>>) \union {call[a]} :
            ~(y.do = "remove" /\ y.conn = Hop[c] /\ y.user = c)
      BY <1>1, <2>4
    <3> QED
      BY <2>3, <2>4, <2>5, <3>1, PendingAbout
  <2>11. Owned(c)'
    BY <1>1, <2>9, <2>10, OwnedKept DEF TunnelInv
  <2> QED
    BY <2>6, <2>7, <2>11 DEF TunnelInv
<1> QED
  BY <1>4, <1>5

-----------------------------------------------------------------------------
(* Retiring and releasing *)

\* An actor outside a setup has none scheduled unless it takes the child's parent.
LEMMA NoSetupQueued ==
  ASSUME TypeOK, TunnelInv, NEW a \in Actors, call[a].do \notin {"pushExisting", "activate"}
  PROVE  /\ \A x \in Steps(todo[a]) : x.do \notin TunnelSteps
         /\ \A d \in Dedicated : ~TakingParent(a, d)
<1>1. \A d : ~TakingParent(a, d)
  BY CallParts DEF TakingParent
<1> QED
  BY <1>1, CallParts DEF TunnelInv, Shapes, Shape

\* retire_connection: the link goes, and with it the parent is to be released.
LEMMA RetireTunnel ==
  ASSUME TypeOK, TunnelInv, NEW a \in Actors, Retire(a)
  PROVE  TunnelInv'
<1>0. PICK c \in Conns : c = call[a].conn
  BY CallFields DEF TypeOK
<1>1. /\ call[a].do = "retire"
      /\ UNCHANGED <<used, consumers>> /\ registered' \subseteq registered
      /\ \/ Continue(a, <<>>) /\ tunnelled' = tunnelled
         \/ /\ c \in tunnelled /\ tunnelled' = tunnelled \ {c}
            /\ Continue(a, <<Call("remove", Hop[c], c)>>)
  BY <1>0 DEF Retire, Return, entryVars
<1>2. CASE Continue(a, <<>>) /\ tunnelled' = tunnelled
  <2>1. call[a].do \notin TunnelSteps \union {"remove", "pushExisting", "activate"}
    BY <1>1 DEF TunnelSteps
  <2> QED
    BY <1>1, <1>2, <2>1, SafeKept, ShortPlans, ShortSafe
<1>3. CASE /\ c \in tunnelled /\ tunnelled' = tunnelled \ {c}
           /\ Continue(a, <<Call("remove", Hop[c], c)>>)
  <2> DEFINE r == Call("remove", Hop[c], c)
  <2>0. c \in Dedicated /\ c \in used
    BY <1>3 DEF TypeOK
  <2>1. r.do = "remove" /\ r.conn = Hop[c] /\ r.user = c
    BY CallParts
  <2>2. r \in Calls
    <3>1. Hop[c] \in Conns /\ c \in Consumers
      BY <2>0, ConnectionRegistryAssumption DEF Consumers
    <3> QED
      BY <3>1, CallType, QueuedIsCall DEF Queued
  <2>3. Continue(a, <<r>>)
    BY <1>3
  <2> HIDE DEF r
  <2>4. /\ <<r>> \in Seq(Calls) /\ Steps(<<r>>) = {r}
        /\ r.do \notin TunnelSteps /\ r.do # "none"
        /\ r.do \notin ViewSteps \union {"pushExisting"}
    BY <2>1, <2>2, StepsOf DEF TunnelSteps, ViewSteps
  <2>5. /\ \A y \in Steps(<<r>>) : y.do # "none"
        /\ Shapely(<<r>>)
    BY <2>4 DEF Shapely
  <2>6. /\ \A x \in Steps(todo[a]) : x.do \notin TunnelSteps
        /\ \A d \in Dedicated : ~TakingParent(a, d)
    BY <1>1, NoSetupQueued
  <2>7. Shapes'
    BY <2>3, <2>4, <2>5, <2>6, ShapesKept DEF TunnelInv
  <2>8. call[a].do \notin TunnelSteps
    BY <1>1 DEF TunnelSteps
  <2>9. ASSUME NEW d \in Dedicated, d # c PROVE Owned(d)'
    <3>1. \A x \in Steps(<<r>>) \union {call[a]} : x.do \in TunnelSteps => x.conn # d
      BY <2>4, <2>8
    <3>2. \A y \in Steps(<<r>>) \union {call[a]} :
            ~(y.do = "remove" /\ y.conn = Hop[d] /\ y.user = d)
      BY <1>1, <2>1, <2>4, <2>9
    <3>3. /\ \A b \in Actors : /\ SettingUp(b, d)' <=> SettingUp(b, d)
                               /\ Uncommitted(b, d)' <=> Uncommitted(b, d)
          /\ ReleasingParent(d)' <=> ReleasingParent(d)
      BY <2>3, <2>4, <2>5, <3>1, <3>2, PendingAbout
    <3>4. \A b \in Actors : TakingParent(b, d) => TakingParent(b, d)'
      BY <2>3, <2>4, <2>6, ContinueNext DEF TakingParent
    <3>5. d \in tunnelled' <=> d \in tunnelled
      BY <1>3, <2>9
    <3>6. /\ used \subseteq used'
          /\ Hop[d] \in used /\ Hop[d] \in registered' => Hop[d] \in registered
          /\ d \in consumers'[Hop[d]] <=> d \in consumers[Hop[d]]
      BY <1>1
    <3>7. Owned(d)
      BY DEF TunnelInv
    <3> QED
      BY <3>3, <3>4, <3>5, <3>6, <3>7, OwnedKept
  <2>10. Owned(c)'
    <3>1. ReleasingParent(c)'
      <4>1. r \in Pending(a)'
        BY <2>3, <2>4, <2>5, ContinuePending
      <4> QED
        BY <2>1, <4>1 DEF ReleasingParent
    <3>2. \A x \in Steps(<<r>>) \union {call[a]} : x.do \in TunnelSteps => x.conn # c
      BY <2>4, <2>8
    <3>3. \A b \in Actors : /\ SettingUp(b, c)' <=> SettingUp(b, c)
                            /\ Uncommitted(b, c)' <=> Uncommitted(b, c)
      BY <2>0, <2>3, <2>4, <2>5, <3>2, PendingAbout
    <3>4. Owned(c)
      BY <2>0 DEF TunnelInv
    <3>5. \A b \in Actors : ~Uncommitted(b, c)'
      BY <1>3, <3>3, <3>4 DEF Owned, SetUpHolds
    <3>6. SetUpOnce(c)'
      BY <1>1, <3>3, <3>4 DEF Owned, SetUpOnce
    <3>7. AncestorIsOwned(c)'
      BY <1>1, <3>1, <3>4 DEF Owned, AncestorIsOwned
    <3>8. c \notin tunnelled' /\ c \in used'
      BY <1>1, <1>3, <2>0
    <3> QED
      BY <3>5, <3>6, <3>7, <3>8
      DEF Owned, SetUpHolds, ReleaseIsFinal, CommittedHolds
  <2> QED
    BY <2>7, <2>9, <2>10 DEF TunnelInv
<1> QED
  BY <1>1, <1>2, <1>3

\* A child whose parent was being released, once that consumer is gone.
LEMMA ReleasedKept ==
  ASSUME NEW d \in Dedicated, Owned(d), ReleasingParent(d),
         \A b \in Actors : /\ SettingUp(b, d)' <=> SettingUp(b, d)
                           /\ Uncommitted(b, d)' <=> Uncommitted(b, d),
         UNCHANGED <<used, registered, tunnelled>>,
         d \in consumers'[Hop[d]] => d \in consumers[Hop[d]] /\ Hop[d] \notin registered
  PROVE  Owned(d)'
<1>1. d \notin tunnelled /\ d \in used /\ \A b \in Actors : ~Uncommitted(b, d)
  BY DEF Owned, ReleaseIsFinal, SetUpHolds
<1>2. SetUpOnce(d)'
  BY DEF Owned, SetUpOnce
<1>3. AncestorIsOwned(d)'
  BY DEF Owned, AncestorIsOwned
<1> QED
  BY <1>1, <1>2, <1>3 DEF Owned, SetUpHolds, ReleaseIsFinal, CommittedHolds

\* release: whoever takes an ancestor consumer away was told to by the end of its child.
LEMMA RemoveTunnel ==
  ASSUME TypeOK, TunnelInv, NEW a \in Actors, Remove(a)
  PROVE  TunnelInv'
<1>0. PICK c \in Conns, u \in Consumers : c = call[a].conn /\ u = call[a].user
  BY CallFields DEF TypeOK
<1>1. PICK s \in Seq(Calls) :
        /\ Continue(a, s) /\ Safe(s)
        /\ \A x \in Steps(s) : x.do # "none" /\ x.do # "remove" /\ x.do \notin TunnelSteps
  <2>1. CASE Continue(a, <<>>)
    BY <2>1, ShortPlans, ShortSafe, StepsOf
  <2>2. ASSUME NEW do \in {"decrement", "unused"}, Continue(a, <<Work(do, c)>>)
        PROVE  \E s \in Seq(Calls) :
                 /\ Continue(a, s) /\ Safe(s)
                 /\ \A x \in Steps(s) : x.do # "none" /\ x.do # "remove" /\ x.do \notin TunnelSteps
    <3> DEFINE w == Work(do, c)
    <3>1. w \in Calls /\ w.do = do
      BY WorkCalls
    <3>2. Safe(<<w>>) /\ Continue(a, <<w>>)
      BY <2>2, ShortSafe
    <3> HIDE DEF w
    <3>3. <<w>> \in Seq(Calls) /\ Steps(<<w>>) = {w}
      BY <3>1, StepsOf
    <3>4. w.do # "none" /\ w.do # "remove" /\ w.do \notin TunnelSteps
      BY <3>1 DEF TunnelSteps
    <3> QED
      BY <3>2, <3>3, <3>4
  <2> QED
    BY <1>0, <2>1, <2>2 DEF Remove, Return
<1>2. /\ call[a].do = "remove" /\ UNCHANGED <<used, registered, tunnelled>>
      /\ \/ c \notin registered /\ UNCHANGED consumers
         \/ consumers' = [consumers EXCEPT ![c] = @ \ {u}]
  BY <1>0 DEF Remove, poolVars
<1>3. /\ \A x \in Steps(todo[a]) : x.do \notin TunnelSteps
      /\ \A d \in Dedicated : ~TakingParent(a, d)
  BY <1>2, NoSetupQueued
<1>4. Shapes'
  <2>1. Shapely(s)
    BY <1>1 DEF Safe, Shapely
  <2> QED
    BY <1>1, <1>3, <2>1, ShapesKept DEF TunnelInv
<1>5. ASSUME NEW d \in Dedicated PROVE Owned(d)'
  <2>1. \A b \in Actors : /\ SettingUp(b, d)' <=> SettingUp(b, d)
                          /\ Uncommitted(b, d)' <=> Uncommitted(b, d)
    <3>1. \A x \in Steps(s) \union {call[a]} : x.do \in TunnelSteps => x.conn # d
      BY <1>1, <1>2 DEF TunnelSteps
    <3> QED
      BY <1>1, <3>1, PendingAbout
  <2>2. Owned(d) /\ Hop[d] \in Conns
    BY UsersApart DEF TunnelInv
  <2>3. CASE c = Hop[d] /\ u = d
    <3>1. ReleasingParent(d)
      <4>1. call[a] \in Pending(a)
        BY <1>2 DEF Pending
      <4> QED
        BY <1>0, <1>2, <2>3, <4>1 DEF ReleasingParent
    <3>2. d \in consumers'[Hop[d]] => d \in consumers[Hop[d]] /\ Hop[d] \notin registered
      BY <1>2, <2>2, <2>3 DEF TypeOK
    <3> QED
      BY <1>2, <2>1, <2>2, <3>1, <3>2, ReleasedKept
  <2>4. CASE ~(c = Hop[d] /\ u = d)
    <3>1. ReleasingParent(d)' <=> ReleasingParent(d)
      <4>1. \A x \in Steps(s) \union {call[a]} :
              ~(x.do = "remove" /\ x.conn = Hop[d] /\ x.user = d)
        BY <1>0, <1>1, <2>4
      <4> QED
        BY <1>1, <4>1, PendingAbout
    <3>2. d \in consumers'[Hop[d]] <=> d \in consumers[Hop[d]]
      <4>1. CASE UNCHANGED consumers
        BY <4>1
      <4>2. CASE consumers' = [consumers EXCEPT ![c] = @ \ {u}]
        <5>1. consumers \in [Conns -> SUBSET Consumers]
          BY DEF TypeOK
        <5>2. CASE c = Hop[d]
          <6>1. consumers'[Hop[d]] = consumers[Hop[d]] \ {u} /\ u # d
            BY <2>2, <2>4, <4>2, <5>1, <5>2
          <6> QED
            BY <6>1
        <5>3. CASE c # Hop[d]
          BY <2>2, <4>2, <5>1, <5>3
        <5> QED
          BY <5>2, <5>3
      <4> QED
        BY <1>2, <4>1, <4>2
    <3>3. \A b \in Actors : TakingParent(b, d) => TakingParent(b, d)'
      BY <1>1, <1>3, ContinueNext DEF TakingParent
    <3> QED
      BY <1>2, <2>1, <2>2, <3>1, <3>2, <3>3, OwnedKept
  <2> QED
    BY <2>3, <2>4
<1> QED
  BY <1>4, <1>5 DEF TunnelInv

-----------------------------------------------------------------------------
(* Taking the parent *)

\* A sequence of two.
LEMMA TwoSteps ==
  \A x, y : /\ <<x>> \o <<y>> = <<x, y>> /\ <<x, y>> # <<>>
            /\ Head(<<x, y>>) = x /\ Tail(<<x, y>>) = <<y>>
<1>1. ASSUME NEW x, NEW y PROVE <<x>> \o <<y>> = <<x, y>>
  <2> DEFINE S == {x, y}
  <2>1. <<x>> \in Seq(S) /\ <<y>> \in Seq(S) /\ <<x, y>> \in Seq(S)
    OBVIOUS
  <2>2. /\ Len(<<x>>) = 1 /\ Len(<<y>>) = 1 /\ Len(<<x, y>>) = 2
        /\ <<x>>[1] = x /\ <<y>>[1] = y /\ <<x, y>>[1] = x /\ <<x, y>>[2] = y
    OBVIOUS
  <2> HIDE DEF S
  <2>3. /\ <<x>> \o <<y>> \in Seq(S) /\ Len(<<x>> \o <<y>>) = 2
        /\ \A i \in 1 .. 2 : (<<x>> \o <<y>>)[i] = IF i <= 1 THEN <<x>>[i] ELSE <<y>>[i - 1]
    BY <2>1, <2>2, ConcatProperties
  <2>4. (<<x>> \o <<y>>)[1] = x /\ (<<x>> \o <<y>>)[2] = y
    BY <2>2, <2>3
  <2>5. \A i \in 1 .. 2 : i = 1 \/ i = 2
    OBVIOUS
  <2>6. \A i \in 1 .. Len(<<x>> \o <<y>>) : (<<x>> \o <<y>>)[i] = <<x, y>>[i]
    BY <2>2, <2>3, <2>4, <2>5
  <2> QED
    BY <2>1, <2>2, <2>3, <2>6, SeqEqual
<1>2. ASSUME NEW x, NEW y PROVE <<x, y>> # <<>> /\ Head(<<x, y>>) = x
  OBVIOUS
<1>3. ASSUME NEW x, NEW y PROVE Tail(<<x, y>>) = <<y>>
  OBVIOUS
<1> QED
  BY <1>1, <1>2, <1>3

\* acquire_consumer_for_connection, for a view or for a child that is set up.
LEMMA PushExistingTunnel ==
  ASSUME TypeOK, TunnelInv, NEW a \in Actors, PushExisting(a)
  PROVE  TunnelInv'
<1>0. PICK c \in Conns, v \in Consumers : c = call[a].conn /\ v = call[a].user
  BY CallFields DEF TypeOK
<1>1. /\ call[a].do = "pushExisting"
      /\ consumers' = [consumers EXCEPT ![c] = @ \union {v}]
      /\ UNCHANGED <<used, registered, tunnelled>>
      /\ Continue(a, <<>>) \/ Continue(a, <<Work("activate", c)>>)
  BY <1>0 DEF PushExisting, AddConsumer, Return, poolVars
<1>2. PICK w \in Calls : w = Work("activate", c) /\ w.do = "activate"
  BY WorkCalls
<1>3. /\ <<w>> \in Seq(Calls) /\ Steps(<<w>>) = {w} /\ Safe(<<w>>)
      /\ <<>> \in Seq(Calls) /\ Steps(<<>>) = {} /\ Safe(<<>>)
  BY <1>2, StepsOf, ShortPlans, ShortSafe
<1>4. PICK s \in {<<>>, <<w>>} : Continue(a, s)
  BY <1>1, <1>2
<1>5. /\ s \in Seq(Calls) /\ Safe(s)
      /\ \A x \in Steps(s) : x.do # "none" /\ x.do # "remove" /\ x.do \notin TunnelSteps
  BY <1>2, <1>3, <1>4 DEF TunnelSteps
<1>6. call[a].do \notin TunnelSteps \union {"remove", "activate"}
  BY <1>1 DEF TunnelSteps
<1>7. CASE v \in Users
  <2>1. \A d \in Dedicated : ~TakingParent(a, d)
    BY <1>0, <1>7, UsersApart, CallParts DEF TakingParent
  <2>2. \A d \in Dedicated : d \in consumers'[Hop[d]] <=> d \in consumers[Hop[d]]
    BY <1>1, <1>7, UsersApart DEF TypeOK
  <2> QED
    BY <1>1, <1>4, <1>5, <1>6, <2>1, <2>2, SafeUserKept
<1>8. CASE v \notin Users
  <2>1. PICK d \in Dedicated, u \in Users :
          TakingParent(a, d) /\ todo[a] = <<Call("tunnel", d, u)>>
    BY <1>0, <1>1, <1>8 DEF TunnelInv, Shapes, Shape
  <2>2. c = Hop[d] /\ v = d
    BY <1>0, <2>1, CallParts DEF TakingParent
  <2>3. PICK x : x = Call("tunnel", d, u) /\ x.do = "tunnel" /\ x.conn = d /\ x.user = u
    BY CallParts
  <2>4. /\ todo[a] = <<x>> /\ Steps(<<x>>) = {x}
        /\ x.do \in TunnelSteps /\ x.do \in EarlySteps /\ x.do # "none"
    BY <2>1, <2>3, StepsOf DEF TunnelSteps, EarlySteps
  <2>5. /\ Pending(a)' = Steps(s) \union {x}
        /\ \A b \in Actors : b # a => call'[b] = call[b] /\ todo'[b] = todo[b]
    <3>1. \A y \in Steps(s) : y.do # "none"
      BY <1>5
    <3> QED
      BY <1>4, <1>5, <2>4, <3>1, ContinuePending
  <2>6. Shapes'
    <3>1. CASE s = <<>>
      <4>1. Shapely(s)
        BY <1>5 DEF Safe, Shapely
      <4> QED
        BY <1>4, <1>5, <3>1, <4>1, ShapesKept DEF TunnelInv
    <3>2. CASE s = <<w>>
      <4>1. /\ <<w>> \o <<x>> = <<w, x>> /\ <<w, x>> # <<>>
            /\ Head(<<w, x>>) = w /\ Tail(<<w, x>>) = <<x>>
        BY TwoSteps
      <4>2. call'[a] = w /\ todo'[a] = <<x>>
        <5>1. \/ s \o todo[a] = <<>> /\ call'[a] = NoCall /\ todo'[a] = <<>>
              \/ /\ s \o todo[a] # <<>>
                 /\ call'[a] = Head(s \o todo[a]) /\ todo'[a] = Tail(s \o todo[a])
          BY <1>4, <1>5, ContinueNext
        <5>2. s \o todo[a] = <<w, x>>
          BY <2>4, <3>2, <4>1
        <5> QED
          BY <4>1, <5>1, <5>2
      <4>3. w = Work("activate", Hop[x.conn])
        BY <1>2, <2>2, <2>3
      <4>4. Pending(a)' = {w, x}
        BY <1>3, <2>5, <3>2
      <4>5. w.do \notin TunnelSteps \union ViewSteps \union {"none", "pushExisting"}
        BY <1>2 DEF TunnelSteps, ViewSteps
      <4>6. Shape(a)'
        BY <2>3, <2>4, <4>2, <4>3, <4>4, <4>5 DEF Shape
      <4>7. ASSUME NEW b \in Actors, b # a PROVE Shape(b)'
        BY <2>5, <4>7, OtherShape DEF TunnelInv, Shapes
      <4> QED
        BY <4>6, <4>7 DEF Shapes
    <3> QED
      BY <1>4, <3>1, <3>2
  <2>7. ASSUME NEW e \in Dedicated
        PROVE  /\ \A b \in Actors : /\ SettingUp(b, e)' <=> SettingUp(b, e)
                                    /\ Uncommitted(b, e)' <=> Uncommitted(b, e)
               /\ ReleasingParent(e)' <=> ReleasingParent(e)
    BY <1>4, <1>5, <1>6, SafePending
  <2>8. ASSUME NEW e \in Dedicated, e # d PROVE Owned(e)'
    <3>1. \A b \in Actors : TakingParent(b, e) => TakingParent(b, e)'
      <4>1. TakingParent(a, e) => call[a].user = e
        BY CallParts DEF TakingParent
      <4>2. ~TakingParent(a, e)
        BY <1>0, <2>2, <2>8, <4>1
      <4> QED
        BY <2>5, <4>2 DEF TakingParent
    <3>2. /\ e \in consumers'[Hop[e]] <=> e \in consumers[Hop[e]]
          /\ Owned(e)
      BY <1>1, <2>2, <2>8, UsersApart DEF TypeOK, TunnelInv
    <3>3. /\ \A b \in Actors : /\ SettingUp(b, e)' <=> SettingUp(b, e)
                               /\ Uncommitted(b, e)' <=> Uncommitted(b, e)
          /\ ReleasingParent(e)' <=> ReleasingParent(e)
      BY <2>7
    <3> QED
      BY <1>1, <3>1, <3>2, <3>3, OwnedKept
  <2>9. Owned(d)'
    <3>1. d \in consumers'[Hop[d]]
      BY <1>1, <2>2 DEF TypeOK
    <3>2. Owned(d) /\ HoldsParent(d)'
      BY <3>1 DEF TunnelInv, HoldsParent
    <3>3. /\ \A b \in Actors : /\ SettingUp(b, d)' <=> SettingUp(b, d)
                               /\ Uncommitted(b, d)' <=> Uncommitted(b, d)
          /\ ReleasingParent(d)' <=> ReleasingParent(d)
      BY <2>7
    <3>4. Uncommitted(a, d)'
      BY <2>3, <2>4, <2>5 DEF Uncommitted
    <3>5. SetUpOnce(d)'
      BY <1>1, <3>2, <3>3 DEF Owned, SetUpOnce
    <3>6. SetUpHolds(d)'
      BY <1>1, <3>2, <3>3 DEF Owned, SetUpHolds
    <3>7. ReleaseIsFinal(d)' /\ CommittedHolds(d)'
      BY <1>1, <3>2, <3>3 DEF Owned, ReleaseIsFinal, CommittedHolds
    <3>8. AncestorIsOwned(d)'
      BY <3>4, <3>6 DEF AncestorIsOwned, SetUpHolds
    <3> QED
      BY <3>5, <3>6, <3>7, <3>8 DEF Owned
  <2> QED
    BY <2>6, <2>8, <2>9 DEF TunnelInv
<1> QED
  BY <1>7, <1>8

\* acquire_dedicated: a child with a parent is set up, any other connects by itself.
LEMMA AcquireDedicatedTunnel ==
  ASSUME TypeOK, TunnelInv, NEW a \in Actors, NEW c \in Dedicated, NEW u \in Users,
         AcquireDedicated(a, c, u)
  PROVE  TunnelInv'
<1>1. /\ call[a].do = "none" /\ c \notin used /\ used' = used \union {c}
      /\ registered' = registered \union {c} /\ UNCHANGED tunnelled
      /\ consumers' = [consumers EXCEPT ![c] = {u}]
      /\ \/ Continue(a, <<Call("connect", c, u)>>)
         \/ /\ Hop[c] \in registered
            /\ Continue(a, <<Call("pushExisting", Hop[c], c), Call("tunnel", c, u)>>)
         \/ Continue(a, <<Call("remove", c, u)>>)
  BY DEF AcquireDedicated, Resting
<1>2. c \in Conns /\ c \in Consumers /\ u \in Consumers /\ Hop[c] \in Conns
  BY UsersApart DEF Consumers
<1>3. \A d \in Dedicated : d \in consumers'[Hop[d]] <=> d \in consumers[Hop[d]]
  <2>1. ASSUME NEW d \in Dedicated PROVE d \in consumers'[Hop[d]] <=> d \in consumers[Hop[d]]
    <3>1. CASE Hop[d] # c
      BY <1>1, <3>1, UsersApart DEF TypeOK
    <3>2. CASE Hop[d] = c
      <4>1. d \notin consumers[Hop[d]]
        BY <1>1, <3>2 DEF TunnelInv, Owned, AncestorIsOwned
      <4>2. consumers'[c] = {u}
        BY <1>1, <1>2 DEF TypeOK
      <4> QED
        BY <3>2, <4>1, <4>2, UsersApart
    <3> QED
      BY <3>1, <3>2
  <2> QED
    BY <2>1
<1>4. call[a].do \notin TunnelSteps \union {"remove", "pushExisting", "activate"}
  BY <1>1 DEF TunnelSteps
<1>5. ASSUME NEW do \in {"connect", "remove"}, Continue(a, <<Call(do, c, u)>>) PROVE TunnelInv'
  <2>1. PICK x \in Calls : x = Call(do, c, u) /\ x.do = do /\ x.user = u
    BY <1>2, CallType, CallParts, QueuedIsCall DEF Queued
  <2>2. <<x>> \in Seq(Calls) /\ Steps(<<x>>) = {x} /\ Continue(a, <<x>>)
    BY <1>5, <2>1, StepsOf
  <2>3. Safe(<<x>>)
    BY <2>1, <2>2 DEF Safe, TunnelSteps
  <2> QED
    BY <1>1, <1>3, <1>4, <2>2, <2>3, SafeKept
<1>6. CASE /\ Hop[c] \in registered
           /\ Continue(a, <<Call("pushExisting", Hop[c], c), Call("tunnel", c, u)>>)
  <2>1. PICK x \in Calls : /\ x = Call("pushExisting", Hop[c], c) /\ x.do = "pushExisting"
                           /\ x.conn = Hop[c] /\ x.user = c
    BY <1>2, CallType, CallParts, QueuedIsCall DEF Queued
  <2>2. PICK y \in Calls : /\ y = Call("tunnel", c, u) /\ y.do = "tunnel"
                           /\ y.conn = c /\ y.user = u
    BY <1>2, CallType, CallParts, QueuedIsCall DEF TunnelSteps
  <2>3. /\ <<x, y>> \in Seq(Calls) /\ Steps(<<x, y>>) = {x, y} /\ Steps(<<y>>) = {y}
        /\ Continue(a, <<x, y>>)
    BY <1>6, <2>1, <2>2, StepsOf
  <2>4. /\ y.do \in TunnelSteps /\ y.do \in EarlySteps /\ y.do # "none" /\ y.do # "remove"
        /\ y.do # "pushExisting"
        /\ x.do \notin TunnelSteps \union EarlySteps \union ViewSteps
        /\ x.do # "none" /\ x.do # "remove"
    BY <2>1, <2>2 DEF TunnelSteps, EarlySteps, ViewSteps
  <2>5. todo[a] = <<>>
    BY <1>1 DEF TunnelInv, Shapes, Shape
  <2>6. \A z \in Steps(<<x, y>>) : z.do # "none"
    BY <2>3, <2>4
  <2>7. /\ Pending(a)' = {x, y}
        /\ \A b \in Actors : b # a => Pending(b)' = Pending(b)
    <3>1. /\ Pending(a)' = Steps(<<x, y>>) \union Steps(todo[a])
          /\ \A b \in Actors : b # a => Pending(b)' = Pending(b)
      BY <2>3, <2>6, ContinuePending
    <3> QED
      BY <2>3, <2>5, <3>1, StepsOf
  <2>8. /\ call'[a] = x /\ todo'[a] = <<y>>
        /\ \A b \in Actors : b # a => call'[b] = call[b] /\ todo'[b] = todo[b]
    <3>1. <<x, y>> \o todo[a] = <<x, y>>
      BY <2>3, <2>5, ConcatEmptySeq
    <3>2. <<x, y>> # <<>> /\ Head(<<x, y>>) = x /\ Tail(<<x, y>>) = <<y>>
      BY TwoSteps
    <3>3. /\ \/ <<x, y>> \o todo[a] = <<>> /\ call'[a] = NoCall /\ todo'[a] = <<>>
             \/ /\ <<x, y>> \o todo[a] # <<>>
                /\ call'[a] = Head(<<x, y>> \o todo[a]) /\ todo'[a] = Tail(<<x, y>> \o todo[a])
          /\ \A b \in Actors : b # a => call'[b] = call[b] /\ todo'[b] = todo[b]
      BY <2>3, ContinueNext
    <3> QED
      BY <3>1, <3>2, <3>3
  <2>9. TakingParent(a, c)'
    BY <2>1, <2>8 DEF TakingParent
  <2>10. Shapes'
    <3>1. Shape(a)'
      BY <2>1, <2>2, <2>3, <2>4, <2>7, <2>8, <2>9 DEF Shape
    <3>2. ASSUME NEW b \in Actors, b # a PROVE Shape(b)'
      BY <2>8, <3>2, OtherShape DEF TunnelInv, Shapes
    <3> QED
      BY <3>1, <3>2 DEF Shapes
  <2>11. ASSUME NEW d \in Dedicated, d # c PROVE Owned(d)'
    <3>1. \A z \in Steps(<<x, y>>) \union {call[a]} : z.do \in TunnelSteps => z.conn # d
      BY <1>4, <2>2, <2>3, <2>4, <2>11
    <3>2. \A z \in Steps(<<x, y>>) \union {call[a]} :
            ~(z.do = "remove" /\ z.conn = Hop[d] /\ z.user = d)
      BY <1>1, <2>3, <2>4
    <3>3. /\ \A b \in Actors : /\ SettingUp(b, d)' <=> SettingUp(b, d)
                               /\ Uncommitted(b, d)' <=> Uncommitted(b, d)
          /\ ReleasingParent(d)' <=> ReleasingParent(d)
      BY <2>3, <2>6, <3>1, <3>2, PendingAbout
    <3>4. \A b \in Actors : TakingParent(b, d) => TakingParent(b, d)'
      <4>1. ~TakingParent(a, d)
        BY <1>4, NoSetupQueued
      <4> QED
        BY <2>8, <4>1 DEF TakingParent
    <3>5. Hop[d] \in used /\ Hop[d] \in registered' => Hop[d] \in registered
      BY <1>1
    <3>6. /\ Owned(d) /\ used \subseteq used'
          /\ d \in consumers'[Hop[d]] <=> d \in consumers[Hop[d]]
      BY <1>1, <1>3 DEF TunnelInv
    <3> QED
      BY <1>1, <3>3, <3>4, <3>5, <3>6, OwnedKept
  <2>12. Owned(c)'
    <3>1. Owned(c) /\ c \notin tunnelled /\ Hop[c] \in used
      BY <1>1, <1>6 DEF TunnelInv, TypeOK
    <3>2. \A b \in Actors : ~SettingUp(b, c)
      BY <1>1, <3>1 DEF Owned, SetUpOnce
    <3>3. ASSUME NEW b \in Actors PROVE SettingUp(b, c)' \/ Uncommitted(b, c)' => b = a
      <4>1. CASE b # a
        <5>1. ~Uncommitted(b, c)
          BY <3>2 DEF SettingUp, Uncommitted, EarlySteps, TunnelSteps
        <5> QED
          BY <2>7, <3>2, <4>1, <5>1 DEF SettingUp, Uncommitted
      <4> QED
        BY <4>1
    <3>4. ~ReleasingParent(c)'
      <4>1. ~ReleasingParent(c)
        BY <1>1, <3>1 DEF Owned, ReleaseIsFinal
      <4> QED
        BY <2>4, <2>7, <4>1 DEF ReleasingParent
    <3>5. Uncommitted(a, c)'
      BY <2>2, <2>4, <2>7 DEF Uncommitted
    <3>6. c \in used' /\ c \notin tunnelled' /\ Hop[c] \in used'
      BY <1>1, <3>1
    <3> QED
      BY <2>9, <3>3, <3>4, <3>5, <3>6
      DEF Owned, SetUpOnce, SetUpHolds, ReleaseIsFinal, CommittedHolds, AncestorIsOwned
  <2> QED
    BY <2>10, <2>11, <2>12 DEF TunnelInv
<1> QED
  BY <1>1, <1>5, <1>6

-----------------------------------------------------------------------------
(* The invariant holds *)

\* No child is being set up at first.
LEMMA InitTunnel == Init => TunnelInv
<1> SUFFICES ASSUME Init PROVE TunnelInv
  OBVIOUS
<1>1. \A a \in Actors : /\ call[a] = NoCall /\ todo[a] = <<>> /\ Steps(todo[a]) = {}
                        /\ Pending(a) = {}
  BY NoCallType, StepsOf DEF Init, Pending
<1>2. Shapes
  BY <1>1, NoCallType DEF Shapes, Shape
<1>3. ASSUME NEW d \in Dedicated PROVE Owned(d)
  <2>1. \A a \in Actors : ~SettingUp(a, d) /\ ~Uncommitted(a, d)
    BY <1>1 DEF SettingUp, Uncommitted
  <2>2. ~ReleasingParent(d)
    BY <1>1 DEF ReleasingParent
  <2>3. d \notin tunnelled /\ consumers[Hop[d]] = {}
    BY UsersApart DEF Init
  <2> QED
    BY <2>1, <2>2, <2>3
    DEF Owned, SetUpOnce, SetUpHolds, ReleaseIsFinal, CommittedHolds, AncestorIsOwned
<1> QED
  BY <1>2, <1>3 DEF TunnelInv

\* A step that leaves actors, children and consumers alone.
LEMMA OutsideTunnel ==
  ASSUME TunnelInv, UNCHANGED <<used, registered, consumers, tunnelled, call, todo>>
  PROVE  TunnelInv'
<1>1. ASSUME NEW b \in Actors PROVE Shape(b)' /\ Pending(b)' = Pending(b)
  <2>1. Pending(b)' = Pending(b)
    BY DEF Pending
  <2> QED
    BY <2>1, OtherShape DEF TunnelInv, Shapes
<1>2. ASSUME NEW d \in Dedicated PROVE Owned(d)'
  <2>1. \A b \in Actors : /\ SettingUp(b, d)' <=> SettingUp(b, d)
                          /\ Uncommitted(b, d)' <=> Uncommitted(b, d)
                          /\ TakingParent(b, d) => TakingParent(b, d)'
    BY <1>1 DEF SettingUp, Uncommitted, TakingParent
  <2>2. ReleasingParent(d)' <=> ReleasingParent(d)
    BY <1>1 DEF ReleasingParent
  <2>3. Owned(d)
    BY DEF TunnelInv
  <2> QED
    BY <2>1, <2>2, <2>3, OwnedKept
<1> QED
  BY <1>1, <1>2 DEF TunnelInv, Shapes

\* Every step keeps the invariant.
LEMMA NextTunnel == TypeOK /\ TunnelInv /\ [Next]_vars => TunnelInv'
<1> SUFFICES ASSUME TypeOK, TunnelInv, [Next]_vars PROVE TunnelInv'
  OBVIOUS
<1>1. CASE UNCHANGED vars
  BY <1>1, OutsideTunnel DEF vars
<1>2. ASSUME NEW a \in Actors, ActorStep(a) PROVE TunnelInv'
  <2>1. CASE QuietStep(a)
    BY <2>1, QuietStepTunnel
  <2>2. CASE Activate(a) \/ CheckUnused(a) \/ Disconnect(a)
    BY <2>2, ShortStepTunnel
  <2>3. CASE OpenTunnel(a) \/ TunnelSucceeds(a)
    BY <2>3, SetupGoesOn
  <2> QED
    BY <1>2, <2>1, <2>2, <2>3, PushTunnel, PushExistingTunnel, TunnelFailsTunnel, CommitTunnel,
       MarkChildTunnel, RemoveTunnel, RetireTunnel
    DEF ActorStep, QuietStep
<1>3. ASSUME NEW a \in Threads, ThreadCall(a) PROVE TunnelInv'
  <2>1. a \in Actors
    BY DEF Actors
  <2>2. CASE PlainCall(a)
    BY <2>1, <2>2, PlainCallTunnel
  <2> QED
    BY <1>3, <2>1, <2>2, AcquireDedicatedTunnel DEF ThreadCall, PlainCall
<1>4. ASSUME NEW a \in Monitors, MonitorCall(a) PROVE TunnelInv'
  <2>1. a \in Actors
    BY DEF Actors
  <2>2. CASE PlainCall(a)
    BY <2>1, <2>2, PlainCallTunnel
  <2>3. ASSUME NEW c \in Conns, SetKeepAlive(a, c) PROVE TunnelInv'
    BY <2>3, OutsideTunnel DEF SetKeepAlive, poolVars, entryVars
  <2> QED
    BY <1>4, <2>2, <2>3 DEF MonitorCall, PlainCall
<1>5. ASSUME NEW c \in Conns, IdleTimeout(c) PROVE TunnelInv'
  BY <1>5, PlainCallTunnel DEF PlainCall, Actors
<1>6. ASSUME NEW c \in Conns, TransportDies(c) PROVE TunnelInv'
  BY <1>6, OutsideTunnel DEF TransportDies, poolVars, entryVars
<1> QED
  BY <1>1, <1>2, <1>3, <1>4, <1>5, <1>6 DEF Next

\* An actor that names a connection in a pending step is at work on it.
LEMMA PendingInFlight ==
  ASSUME NEW d, NEW a \in Actors, NEW x \in Pending(a), d \in {x.conn, x.user}
  PROVE  InFlight(d)
<1>1. CASE x = call[a]
  BY <1>1 DEF InFlight, Pending
<1>2. CASE x \in Steps(todo[a])
  BY <1>2 DEF InFlight, Steps
<1> QED
  BY <1>1, <1>2 DEF Pending

\* A committed child is on the consumer list of its parent for as long as both are
\* registered: commit, retirement, failed setups and releases in any order never take
\* the ancestor consumer away early.
THEOREM CommittedChildHoldsParent == Spec => []TunnelHoldsParent
<1>1. TypeOK /\ TunnelInv => TunnelHoldsParent
  BY DEF TypeOK, TunnelInv, Owned, CommittedHolds, HoldsParent, TunnelHoldsParent
<1> QED
  BY <1>1, TypeCorrect, InitTunnel, NextTunnel, PTL DEF Spec

\* An ancestor consumer never outlives its child: when nobody works on the child any
\* more, its parent's list holds it only if the child is registered and committed.
THEOREM AncestorConsumerIsReleased == Spec => []RetiredChildOwnsNothing
<1>1. ASSUME TunnelInv PROVE RetiredChildOwnsNothing
  <2>1. ASSUME NEW d \in Dedicated, ReleasingParent(d) PROVE InFlight(d)
    BY <2>1, PendingInFlight DEF ReleasingParent
  <2>2. ASSUME NEW d \in Dedicated, NEW a \in Actors, Uncommitted(a, d) PROVE InFlight(d)
    BY <2>2, PendingInFlight DEF Uncommitted
  <2>3. ASSUME NEW d \in Dedicated, d \in consumers[Hop[d]], Hop[d] \in registered
        PROVE  d \in tunnelled \/ InFlight(d)
    <3>1. d \in tunnelled \/ ReleasingParent(d) \/ \E a \in Actors : Uncommitted(a, d)
      BY <1>1, <2>3 DEF TunnelInv, Owned, AncestorIsOwned
    <3> QED
      BY <2>1, <2>2, <3>1
  <2> QED
    BY <2>3 DEF RetiredChildOwnsNothing
<1> QED
  BY <1>1, TypeCorrect, InitTunnel, NextTunnel, PTL DEF Spec

-----------------------------------------------------------------------------
(* The idle timeout *)

\* An entry whose count is zero has no descendants: a committed child of it would be
\* one of its consumers, and counted.
UnusedHasNoDescendants ==
    \A c \in registered : refCount[c] = 0 => Descendants(c) = {}

\* That follows from the ownership of parents and the exact count.
LEMMA UnusedIsChildless ==
  ASSUME CountInv, TunnelInv, NEW c \in registered, refCount[c] = 0
  PROVE  Descendants(c) = {}
<1>1. TypeOK /\ c \in Conns
  BY DEF CountInv, TypeOK
<1>2. consumers[c] = {}
  BY <1>1, ConsumerCounts
<1>3. \A d \in tunnelled : Hop[d] # c
  BY <1>1, <1>2 DEF TypeOK, TunnelInv, Owned, CommittedHolds, HoldsParent
<1>4. ASSUME NEW d \in Descendants(c) PROVE FALSE
  <2>1. /\ d \in tunnelled \ {c}
        /\ \A S \in SUBSET Conns :
             c \in S /\ {e \in tunnelled : Hop[e] \in S} \subseteq S => d \in S
    BY <1>4 DEF Descendants
  <2>2. PICK T \in SUBSET Conns : T = {c}
    BY <1>1
  <2>3. {e \in tunnelled : Hop[e] \in T} = {}
    BY <1>3, <2>2
  <2> QED
    BY <2>1, <2>2, <2>3
<1> QED
  BY <1>4

\* While the count of a registered entry is zero no committed child reaches it, so
\* disconnect_if_idle_timeout, which checks the count before it lists the descendants,
\* disconnects a child along with its parent only if the child was committed, or a
\* consumer added, after the timer's task had read the count.
THEOREM UnusedEntryHasNoDescendants == Spec => []UnusedHasNoDescendants
<1>1. CountInv /\ TunnelInv => UnusedHasNoDescendants
  BY UnusedIsChildless DEF UnusedHasNoDescendants
<1> QED
  BY <1>1, TypeCorrect, InitCount, NextCount, InitTunnel, NextTunnel, PTL DEF Spec
=============================================================================
